CONSTANTS
    t1 = t1
    t2 = t2
    u = u
    a = a
    b = b
    h = h
    g = g
    p1 = p1
    p2 = p2
    Tracks = {t1, t2, u}
    Sources = {a, b}
    Procs = {p1, p2}
    NoTrack = NoTrack
    NoProc = NoProc
    AllSources = AllSources
    SourceOf <- Home
    Hashes = {h, g}
    HashOf <- Audio
    FactsOf <- Probed
    TrackOrder <- Order
    Scopes = {a}
    Known = {u}
    Requests <- Everything
    Workers = 2
    MaxVersion = 2
    MaxChanges = 2
    MaxCommands = 2
SPECIFICATION Spec
SYMMETRY Symmetry
INVARIANTS
    StoredRowsAreFresh
    MasteringIsLatest
    SucceededMeansCurrent
PROPERTY StableMarkingIsBest
CHECK_DEADLOCK FALSE
