SPECIFICATION FairSpec
CONSTANTS
    p1 = p1
    p2 = p2
    a = a
    b = b
    c = c
    Processes = {p1, p2}
    Threads = {a, b, c}
    Home <- MCHome
    Publisher = a
    Creator = p1
    None = None
    MaxTime = 1
    MaxCalls = 3
    MaxCrashes = 2
INVARIANTS
    TypeOK
    MemoryIsPrefix
    IndexIsDurable
PROPERTIES
    PublishedAtOneEvent
    AppendReturns
    ImplementsEventLog
CHECK_DEADLOCK FALSE
