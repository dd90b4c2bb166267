SPECIFICATION SSpec
CONSTANTS
    Clients = {a}
    Commands = {c1, c2, c3}
    Names = {}
    Runs = {r1, r2}
    Idents = {i1}
    Reasons <- MCReasons
    None = None
    Absent = Absent
    CacheLimit = 1
    MaxVersion = 4
    ClientLimit = 3
    MaxCrashes = 1
SYMMETRY Symmetry
INVARIANTS
    SupInv
    ResponsibilityIsOnDisk
    StoppedIsClean
PROPERTIES
    ImplementsCoordinator
CHECK_DEADLOCK FALSE
