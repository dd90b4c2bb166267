SPECIFICATION Spec
CONSTANTS
    MaxStops = 1
    None = None
INVARIANT NoHelperLeft
CHECK_DEADLOCK FALSE
