SPECIFICATION Spec
CONSTANTS
    Workers = {w1}
    Deciders = {}
    Kinds = {"developer"}
    MaxCalls = 1
    MaxMishaps = 0
INVARIANT ValidatedBeforeDeployment
CHECK_DEADLOCK FALSE
