CONSTANTS
    t1 = t1
    t2 = t2
    p1 = p1
    p2 = p2
    i1 = i1
    i2 = i2
    Tracks = {t1}
    Procs = {p1, p2}
    NoProc = NoProc
    Identities = {i1, i2}
    Workers = 1
    MaxVersion = 1
    MaxRuns = 2
    MaxAborts = 1
SPECIFICATION FairSpec
PROPERTY RunsAreSettled
