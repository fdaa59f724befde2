SPECIFICATION Spec
CONSTANTS
    Clients = {c1, c2}
    MaxStateEntries = 3
    SpelledOut = {}
    MaxHistory = 4
SYMMETRY ClientSymmetry
PROPERTY TerminalIsFinal
