SPECIFICATION Spec
CONSTANTS
    Clients = {c1, c2}
    MaxStateEntries = 1
    SpelledOut <- StepOfExecuteTask
    MaxHistory = 4
SYMMETRY ClientSymmetry
INVARIANTS TypeOK LogConsistent RowsAreJustified OvershootBounded
