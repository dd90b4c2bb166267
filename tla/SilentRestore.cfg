SPECIFICATION Spec
CONSTANTS
    Order <- MCOrder
    Stoppers = {"main"}
INVARIANT TrueMeansRestored
CHECK_DEADLOCK FALSE
