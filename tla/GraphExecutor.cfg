SPECIFICATION Spec
CONSTANTS
    r1 = r1
    c1 = c1
    n1 = n1
    Calls = {r1, c1}
    Runs = {r1}
    Names = {n1}
    Settings <- MCSettings
    MaxPolls = 2
    Codes <- MCCodes
INVARIANTS AnswersAreTrue NeverTakenBack
PROPERTIES RunsItsOwnCode SubmitsWhatWasRequested
CHECK_DEADLOCK FALSE
