SPECIFICATION Spec
CONSTANTS
    Callers = {"op", "probe"}
    Uses <- MCUses
    MaxSeq = 3
    QueueLimit = 2
    MaxFaults = 1
INVARIANT ChildInv
PROPERTY ImplementsCall
PROPERTY CallEnds
PROPERTY FailedStopResetsFlows
CHECK_DEADLOCK FALSE
