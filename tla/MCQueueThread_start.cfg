SPECIFICATION LoggerSpec
CONSTANTS
    Producers = {p1}
    Controllers = {main}
    Capacity = 1
    CreateFails = TRUE
    Records = {r1}
    NoRecord = none
    Levels = {info, debug}
    ValidLevels = {info}
INVARIANT
    StartTellsOfAThread
