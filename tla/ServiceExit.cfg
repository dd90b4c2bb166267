SPECIFICATION XSpec
CONSTANTS
    Clients = {a}
    Commands = {c1, c2}
    Names = {}
    Runs = {r1}
    Idents = {i1}
    Reasons <- MCReasons
    None = None
    Absent = Absent
    CacheLimit = 1
    MaxVersion = 4
    ClientLimit = 2
    MaxCrashes = 1
    MaxAttempts = 1
INVARIANTS
    ExitInv
PROPERTIES
    ExitAttemptEnds
    RecoveryEnds
    RetainedRecoveryRuns
CHECK_DEADLOCK FALSE
