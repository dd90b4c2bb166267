SPECIFICATION XSpec
CONSTANTS
    Clients = {a}
    Commands = {c1, c2, c3}
    Names = {}
    Runs = {r1}
    Idents = {i1}
    Reasons <- MCReasons
    None = None
    Absent = Absent
    CacheLimit = 1
    MaxVersion = 4
    ClientLimit = 4
    MaxCrashes = 1
    MaxAttempts = 1
SYMMETRY Symmetry
PROPERTY
    FencedStopKeepsMarker
CHECK_DEADLOCK FALSE
