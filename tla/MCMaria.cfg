SPECIFICATION BothSpec
CONSTANTS
    Users = {t1, t2}
    OtlUsers = {t1}
    Databases <- TwoDatabases
    MaxOutages = 1
    MaxErrors = 1
PROPERTIES
    RegisteredIsServed
    AlarmClears
