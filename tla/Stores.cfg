SPECIFICATION Spec
CONSTANTS
    Tasks = {t1, t2, t3}
    Priorities = {1, 2}
    MaxCounter = 4
    Checkpointed = {t1}
    Loaders = {l1}
    AgentIds <- MCAgentIds
    MemoryKeys <- MCMemoryKeys
    Values = {1}
    Ttls = {0}
    DefaultTtl = 1
    CheckpointTtl = 1
    MaxTime = 2
    MaxHistory = 2
    Entities = {e1, e2}
    Objects = {o1, o2}
    MAX_STALENESS_DAYS = 0
    FETCH_MIN = 1
    FETCH_FACTOR = 1
    MaxDay = 1
    Nodes = {n1, n2}
    Sessions = {s1}
    Requests = {r1, r2}
    RequiredFields = {f1, f2}
    Editors = {x1, x2}
    MaxArtifacts = 4
INVARIANTS CheckpointsAreCurrent WorkingMemoryIsOwn TasksAreEarned VersionsTellApart
PROPERTIES ImplementsQueue WithdrawnStaysOut
CHECK_DEADLOCK FALSE
