SPECIFICATION LoggerSpec
CONSTANTS
    Producers = {p1, p2}
    Controllers = {main}
    Capacity = 2
    CreateFails = TRUE
    Records = {r1, r2, r3}
    NoRecord = none
    Levels = {info, debug}
    ValidLevels = {info}
INVARIANTS
    StoppedMeansNoThread
    EachRecordOnce
PROPERTIES
    UsesThreadWithinLimits
    CallsReturn
    QueuedIsServed
