SPECIFICATION Spec
CONSTANTS
    MaxPermits = 2
    MaxOperatorStops = 1
    MaxBoundaryStops = 1
    WarmupWrites = 1
    StreamLength = 2
    RequiredHolds = 1
    MaxHolds = 2
INVARIANTS
    TypeOK
    AcknowledgedStopIsFinal
    AtMostOneLateWrite
    QuietReportMeansIdle
    DeadlineStopHolds
PROPERTY
    ImplementsMotionBoundary
CHECK_DEADLOCK FALSE
