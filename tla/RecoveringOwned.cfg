SPECIFICATION SSpec
CONSTANTS
    Clients = {a}
    Commands = {c1, c2, c3, c4}
    Names = {}
    Runs = {r1, r2}
    Idents = {i1}
    Reasons <- MCReasons
    None = None
    Absent = Absent
    CacheLimit = 1
    MaxVersion = 4
    ClientLimit = 4
    MaxCrashes = 0
SYMMETRY Symmetry
INVARIANT
    RecoveringIsOwned
CHECK_DEADLOCK FALSE
