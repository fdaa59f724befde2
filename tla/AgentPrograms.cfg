SPECIFICATION Spec
CONSTANTS
    Calls = {c1, c2}
    c1 = c1
    c2 = c2
    AgentIds <- MCAgentIds
    Wants <- MCWants
    ByHand = {c2}
    MaxPoolSize = 1
    MAX_SELF_CORRECTIONS = 2
    Budget = 2
    MaxTokens = 2
    MaxPolls = 1
    MaxStatements = 1
INVARIANTS TypeOK OneCallPerAgent NeverStranded WithinBudget Accounted NamesWhatItCreated
PROPERTIES CallsProgress
CHECK_DEADLOCK FALSE
