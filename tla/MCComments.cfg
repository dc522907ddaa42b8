SPECIFICATION BothSpec
CONSTANTS
    Hours = 2
    Mins = 2
    Secs = 2
    Millis = 2
    Micros = 4
    Nanos = 4
    UtcOffset = 3
    Years = {2000, 2004}
    Months = {2, 12}
    Steps <- StepsDef
    Names = {"x"}
    Indexes <- TwoIndexes
    Texts <- TextsDef
    MaxMade = 2
    MaxDepth = 2
INVARIANT
    SomeCommentHolds
CHECK_DEADLOCK FALSE
