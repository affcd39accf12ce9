SPECIFICATION Spec
CONSTANTS
    Operator = Operator
    Viewpoints = {v1, v2}
    None = None
    MinViews = 2
    MaxViews = 3
    MaxRestarts = 2
INVARIANTS
    TypeOK
    PublishedIsComplete
PROPERTY
    ImplementsCoarseLineage
CHECK_DEADLOCK FALSE
