SPECIFICATION BothSpec
CONSTANTS
    Hours = 2
    Mins = 2
    Secs = 2
    Millis = 2
    Micros = 4
    Nanos = 4
    UtcOffset = 3
    Years = {1969, 2000, 2004}
    Months = {2, 12}
    Steps <- StepsDef
    Fields <- FieldsDef
    MaxTokens = 2
INVARIANTS
    SplitsAndRejoins
    PeriodsAreComplete
    ClassesAgree
    ReadsWhatWasPrinted
CHECK_DEADLOCK FALSE
