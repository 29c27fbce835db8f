SPECIFICATION CopySpec
CONSTANTS
    f1 = f1
    f2 = f2
    Files <- MCFiles
    SourceOf <- MCSourceOf
    Curations <- MCCurations
    Extra <- MCExtra
    Hashed <- MCHashed
    Names <- MCNames
    Playlists <- MCPlaylists
    Copiers = {1, 2}
    MaxEdits = 1
INVARIANTS
    CopiesAreTrue
    SetsAreSettled
PROPERTIES
    OthersAreKept
CHECK_DEADLOCK FALSE
