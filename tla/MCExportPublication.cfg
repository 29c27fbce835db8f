CONSTANTS
    p1 = p1
    p2 = p2
    Publishers = {p1, p2}
    MaxVersion = 2
    MaxPublications = 3
SPECIFICATION Spec
SYMMETRY Symmetry
INVARIANT PublishedStaysComplete
PROPERTIES
    DestinationNeverGoesBack
    StorageIsBounded
CHECK_DEADLOCK FALSE
