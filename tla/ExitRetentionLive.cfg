SPECIFICATION Spec
CONSTANTS
    MaxStops = 1
    None = None
PROPERTY WatchEnds
CHECK_DEADLOCK FALSE
