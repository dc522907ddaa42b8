SPECIFICATION Spec
CONSTANTS
    Messages = {m1}
    Clients <- OneClient
    Workers <- WorkerEach
    Callbacks <- CallbackEach
    Publishers <- OnePublisherEach
    WorkerQueue = 1
    PublisherQueue = 1
    Retries = 2
    DrainMayReturn = FALSE
INVARIANT
    StoppedHasProcessedAll
