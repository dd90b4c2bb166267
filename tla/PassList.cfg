SPECIFICATION RSpec
CONSTANTS
    f1 = f1
    f2 = f2
    r1 = r1
    r2 = r2
    Receivers = {r1}
    Flows <- MCFlows
    ClientOf <- MCClientOf
    p1 = p1
    Pids = {p1}
    MappingIds = {1, 2, 3}
    None = None
    MaxMappings = 2
    MaxPerPid = 2
    MaxPending = 2
    PendingTTL = 1
    ShortTomb = 2
    LongTomb = 3
INVARIANT PassListExcludesRedirected
CHECK_DEADLOCK FALSE
