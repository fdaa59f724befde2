SPECIFICATION RunSpec
CONSTANTS
    MayFail = FALSE
    MayMove = FALSE
INVARIANT RunsThePipeline
