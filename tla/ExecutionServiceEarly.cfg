SPECIFICATION Spec
CONSTANTS
    Workers = {w1}
    Deciders = {}
    Kinds = {"capability"}
    MaxCalls = 1
    MaxMishaps = 0
INVARIANT NoExecutionBeforeApproval
CHECK_DEADLOCK FALSE
