SPECIFICATION FairSpec
CONSTANTS
    MaxCycles = 3
    MaxRequests = 2
    None = None
INVARIANTS
    TypeOK
    AcceptedIsPublished
    VerifiedStopIsFinal
    StoreFailureIsTerminal
    AcknowledgedStopRecorded
PROPERTIES
    ImplementsScanRun
    RequestReturns
