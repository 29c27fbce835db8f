SPECIFICATION FairWorkerSpec
CONSTANTS
    Request = 2
    PipeSize = 2
    MaxResponse = 3
    MaxNoise = 2
    Limit <- MCLimit
INVARIANTS
    AnswerIsSound
    NothingRunsOn
PROPERTIES
    ExtractEnds
CHECK_DEADLOCK FALSE
