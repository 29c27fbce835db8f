CONSTANTS
    NoHash = "none"
    NoWord = "none"
    Nobody = Nobody
    MaxRefs = 3
    Libraries <- TheLibraries
    Filters <- TheFilters
    Limits = {1}
    Agents = {1}
    Validators = {v1, v2}
    MaxTurns = 3
    MaxTracks = 2
    MaxCalls = 1
    MaxChanges = 2
SPECIFICATION FairSpec
INVARIANTS
    Grounded
    ReadsAddUp
PROPERTIES
    DraftsOnlyGetValidated
    RunsEnd
CHECK_DEADLOCK FALSE
