SPECIFICATION Spec
CONSTANTS
    Engines = {e1}
    Clients = {c1, c2}
    Operations <- ProductionWrite
    MaxRestarts = 1
PROPERTY DecidedOnce
CHECK_DEADLOCK FALSE
