SPECIFICATION Spec
CONSTANTS
    MinTrace = 2
    MaxTrace = 2
    Keys = {k1, k2}
    None = None
    Poses = {0, 1, 2}
    MinSeparation = 2
    MaxGap = 1
    MinSources = 2
    MinFree = 2
    Voxels = {"near", "middle", "far"}
    Sees <- MCSees
    MaxSources = 2
    MaxAttempts = 3
INVARIANTS
    TypeOK
    NoLeakedWorker
    TraceIsComplete
    WindowIsSound
    UpdatesMatchSources
    SourcesAreDurable
PROPERTIES
    PoisonedNeverAdvances
    ImplementsAcceptedViews
