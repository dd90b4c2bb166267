SPECIFICATION Spec
CONSTANTS
    Facades = {p1, p2}
    Commands = {c1, c2}
    None = None
    MaxChanges = 1
    MaxCrashes = 1
SYMMETRY Symmetry
INVARIANT HostInv
INVARIANT OneSequence
INVARIANT PassIsCurrent
CHECK_DEADLOCK FALSE
