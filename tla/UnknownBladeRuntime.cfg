SPECIFICATION FairSpec
CONSTANTS
    None = None
    MaxFine = 2
    MaxSteps = 2
    MaxRequests = 2
    MaxCrashes = 1
INVARIANTS
    TypeOK
    OnlyCandidatesAreLost
    StoppedIsStill
    StopIsNotMasked
    OneMotionAuthority
PROPERTIES
    StopTakesEffect
    ImplementsExperiment
CHECK_DEADLOCK FALSE
