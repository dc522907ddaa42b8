SPECIFICATION Spec
CONSTANTS
    Messages <- TwoMessages
    Clients <- EmptyAndBusy
    Workers <- NoneAndTwoWorkers
    Callbacks <- OneAndTwoCallbacks
    Publishers <- OnePublisherEach
    WorkerQueue = 1
    PublisherQueue = 1
    Retries = 2
    DrainMayReturn = TRUE
ACTION_CONSTRAINT
    QuietEmptyClient
INVARIANTS
    AnsweredOnce
    OneFate
    PoolsOutliveWorkers
    ShutdownTurnsNothingAway
PROPERTIES
    StopCompletes
    ReceivedIsDecided
