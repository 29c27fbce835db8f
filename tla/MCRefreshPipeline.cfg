SPECIFICATION Spec

CONSTANTS
    t1 = t1
    t2 = t2
    s1 = s1
    s2 = s2
    Tracks = {t1, t2}
    Sources = {s1, s2}
    SourceOf <- MCSourceOf
    Required = {s1}
    Analyzable = {s1}
    Refreshers = {refresh}
    Extractors = {refresh, metadata}
    Analyzers = {analyze}
    Nobody = Nobody
    MaxVersion = 2
    MaxRuns = 3
    MaxEdits = 2
    MaxOthers = 1
    Id <- MCId

INVARIANTS
    FactsAreKept
    PublishedIsWhatItSays

PROPERTY EventsTellEveryChange

CHECK_DEADLOCK FALSE
