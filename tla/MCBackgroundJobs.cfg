CONSTANTS
    j1 = j1
    j2 = j2
    p1 = p1
    p2 = p2
    Jobs = {j1, j2}
    Pids = {p1, p2}
    NoPid = NoPid
    MaxOthers = 1
SPECIFICATION FairSpec
INVARIANTS
    TerminalMeansStopped
    ResultsAreHonoured
    LaunchAnswerIsTrue
PROPERTIES
    LifecycleMovesForward
    MissingProcessIsNoticed
CHECK_DEADLOCK FALSE
