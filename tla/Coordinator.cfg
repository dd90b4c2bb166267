SPECIFICATION MCSpec
CONSTANTS
    Clients = {a, b}
    Commands = {c1, c2}
    Names = {n1, n2}
    Runs = {r1}
    Idents = {i1, i2}
    Reasons = {oops}
    None = None
    Absent = Absent
    CacheLimit = 1
    MaxInterference = 1
    MaxVersion = 3
SYMMETRY Symmetry
INVARIANTS
    IInv
    ReplayOnlyToOrigin
    RetryNeverReexecutes
PROPERTIES
    ReceiptsAreFinal
    FencedCompletionReleasesNothing
CHECK_DEADLOCK FALSE
