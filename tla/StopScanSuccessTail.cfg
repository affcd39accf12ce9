SPECIFICATION FairSpec
CONSTANTS
    MaxCycles = 2
    MaxRequests = 1
    None = None
PROPERTY
    SuccessIsNotAborted
