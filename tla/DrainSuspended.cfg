SPECIFICATION Spec
CONSTANTS
    Order <- MCOrder
    Stoppers = {"main"}
INVARIANT DrainStaysSuspended
CHECK_DEADLOCK FALSE
