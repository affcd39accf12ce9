SPECIFICATION Spec
CONSTANTS
    MaxCycles = 2
    MaxRequests = 1
    None = None
INVARIANT
    RequestedStopRecorded
