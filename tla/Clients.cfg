CONSTANTS
    None = None
    Setups <- AllSetups
SPECIFICATION Spec
CHECK_DEADLOCK FALSE
INVARIANTS
    Consistent
    NothingForgotten
