SPECIFICATION MCSpec
CONSTANTS
    MaxStateEntries = 3
    MayFail = TRUE
    MayMove = TRUE
    Clients = {c1}
    SerialStateEntries = 2
    MaxHistory = 16
INVARIANTS FailedAttemptsBounded DeploymentsAreReviewed NeverWedged RecordsAPath Chained
PROPERTIES DrivenTaskEnds RunStops ImplementsLifecycle
\* A task that has reached COMPLETED or CANCELLED stops there.
CHECK_DEADLOCK FALSE
