SPECIFICATION FairSpec
CONSTANTS
    MaxPermits = 1
    MaxOperatorStops = 2
    MaxBoundaryStops = 1
    WarmupWrites = 2
    StreamLength = 1
    RequiredHolds = 1
    MaxHolds = 1
PROPERTY
    DeadlineStopNotBlocked
    ExecuteReturns
    OperatorStopReturns
CHECK_DEADLOCK FALSE
