SPECIFICATION Spec
CONSTANTS
    Engines = {e1}
    Clients = {c1, c2, c3}
    Operations <- AnyOperation
    MaxRestarts = 1
SYMMETRY Symmetry
INVARIANTS TypeOK HumanDecides DecidedOnceByOneProcess TaskFollowsRecord
\* Each client calls once, so the model ends when all of them have.
CHECK_DEADLOCK FALSE
