SPECIFICATION Spec
CONSTANTS
    Commands = {1, 2}
    Tracks <- MCTracks
    History <- MCHistory
    Legacy <- MCLegacy
    Database <- MCDatabase
    Configs <- MCConfigs
    MaxStarts = 3
INVARIANTS
    CatalogIsSound
    AStartAloneSucceeds
PROPERTIES
    NothingIsLost
CHECK_DEADLOCK FALSE
