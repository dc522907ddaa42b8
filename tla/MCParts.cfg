SPECIFICATION PartsSpec
CONSTANTS
    Controllers = {p, q, r}
    EarlyReturn = FALSE
    Threads = {p, q}
    Objects = {1, 2}
    Receivers = {p, q}
    Workers = {w}
    LimitIn = 2
    LimitOut = 1
    QueueSize = 1
    Window = 1
    MaxBack = 1
    Contents = {a, b, c, d}
    MaxWrites = 3
    MaxFaults = 2
    Names = {"x"}
    Indexes <- TwoIndexes
    Texts <- TextsDef
    MaxMade = 3
    MaxDepth = 2
INVARIANTS
    OneWaiter
    FlagsTellTheThread
    LimitsHold
    ServesARealList
    ChecksumNotAhead
    
    ReferencesHold
    DocumentsAreTrees
PROPERTIES
    StartSeesTheThreadRun
    CallsReturn
    ImplementsAtomicObjects
    SomeoneCompletes
    CountsWhatPassed
    LetsInAgain
    EventuallyFresh
CHECK_DEADLOCK FALSE
