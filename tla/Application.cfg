SPECIFICATION Spec
CONSTANTS
    Order <- MCOrder
    Stoppers = {"main", "other"}
INVARIANT AppInv
INVARIANT NoLateWrite
INVARIANT StopIsHonest
INVARIANT FailedStartIsUndone
PROPERTY LossIsAnswered
PROPERTY StopEnds
CHECK_DEADLOCK FALSE
