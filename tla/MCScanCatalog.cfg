CONSTANTS
    f1 = f1
    d1 = d1
    g1 = g1
    a = a
    b = b
    s1 = s1
    s2 = s2
    Files = {f1, d1, g1}
    Sources = {a, b}
    SourceOf <- Home
    KindOf <- Kind
    Scanners = {s1, s2}
    MaxVersion = 2
    MaxRuns = 3
    MaxEdits = 2
SPECIFICATION Spec
SYMMETRY Symmetry
INVARIANTS
    TypeOK
    PresenceFollowsEvents
    AbsenceIsReconciled
PROPERTY MissingWasAbsent
CHECK_DEADLOCK FALSE
