CONSTANTS
    t1 = t1
    t2 = t2
    p1 = p1
    p2 = p2
    i1 = i1
    i2 = i2
    Tracks = {t1, t2}
    Procs = {p1, p2}
    NoProc = NoProc
    Identities = {i1}
    Workers = 2
    MaxVersion = 1
    MaxRuns = 1
    MaxAborts = 1
SPECIFICATION Spec
SYMMETRY Symmetry
INVARIANTS
    TypeOK
    ProjectionIsLatestSuccess
    OwnedRunStaysRunning
    RunRecordIsTrue
    NeverRedoesReusableWork
    ReusableIsFresh
PROPERTIES
    ImplementsHistory

