SPECIFICATION ESpec
CONSTANTS
    f1 = f1
    f2 = f2
    f3 = f3
    Flows = {f1, f2, f3}
    ClientOf <- MCClientOf
    SourceOf <- MCSourceOf
    MaxGen = 2
    MaxPending = 2
    MaxPendingPerSource = 1
    MaxActive = 1
    MaxActivePerSource = 1
    PendingLife = 1
    ActiveLife = 2
    Grace = 1
    Tomb = 2
SYMMETRY MCSymmetry
INVARIANTS
    RelayInv
    QuotasAreExact
CHECK_DEADLOCK FALSE
