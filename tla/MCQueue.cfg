SPECIFICATION BothSpec
CONSTANTS
    Producers = {p1, p2, p3}
    Consumer = c
    Capacity = 2
    Signaled = TRUE
    Timed = FALSE
INVARIANTS
    SizeAccounting
    NoLostWakeup
PROPERTIES
    ImplementsClosableQueue
    ProgressesLikeClosableQueue
