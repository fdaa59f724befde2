SPECIFICATION Spec
CONSTANTS
    Workers = {w1, w2}
    Deciders = {d1}
    Kinds = {"capability", "direct"}
    MaxCalls = 3
    MaxMishaps = 1
SYMMETRY WorkerSymmetry
ACTION_CONSTRAINTS FreshOverlapsLate ThirdResumes
INVARIANTS
    GatedDeployment DeploysWhatWasApproved DeployedOncePerApproval
    OnlyOptimizedIsUnanalysed SettledWhenIdle
PROPERTY ImplementsGate
\* The calls are bounded, and a task may be finished.
CHECK_DEADLOCK FALSE
