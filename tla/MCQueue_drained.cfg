SPECIFICATION BothSpec
CONSTANTS
    Producers = {p1}
    Consumer = c
    Capacity = 1
    Signaled = TRUE
    Timed = FALSE
PROPERTY
    ClosedMeansDrained
