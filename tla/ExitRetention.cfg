SPECIFICATION Spec
CONSTANTS
    MaxStops = 2
    None = None
INVARIANT ReleasedIsEnded
INVARIANT NormalIsAuthorized
PROPERTY EvidenceIsKept
CHECK_DEADLOCK FALSE
