SPECIFICATION Spec
CONSTANTS
    Kinds <- BothKinds
    Producers = {p1, p2}
    Controllers = {main}
    MaxItems = 4
    Reserve = 2
    MaxRetries = 2
    CreateFails = TRUE
INVARIANT
    StoppedMeansDrained
PROPERTIES
    TimeoutIsHonest
    CallsReturn
    QueuedIsTaken
