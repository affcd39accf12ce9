SPECIFICATION Spec
CONSTANTS
    Operator = Operator
    Viewpoints = {v1, v2}
    None = None
    MinViews = 2
    MaxViews = 2
    MaxRestarts = 1
INVARIANT
    InterruptedHandoffCanPromote
CHECK_DEADLOCK FALSE
