SPECIFICATION Spec
CONSTANTS
    None = None
    MaxFine = 2
    MaxSteps = 1
    MaxRequests = 1
    MaxCrashes = 1
INVARIANT CandidateCanResume
CHECK_DEADLOCK FALSE
