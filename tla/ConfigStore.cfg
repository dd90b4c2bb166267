SPECIFICATION Spec
CONSTANTS
    Names = {"a", "b", "builtin"}
    Builtins = {"builtin"}
    Contents = {v1, v2}
    Threads = {t1, t2}
    MaxOps = 3
    MaxEdits = 2
    None = None
SYMMETRY Symmetry
INVARIANT RunUsesPinned
INVARIANT AcknowledgedIsThere
PROPERTY AuditFirst
CHECK_DEADLOCK FALSE
