SPECIFICATION FormsSpec
CONSTANTS
    Urls = {u}
    Credentials = {c1}
    MaxEdits = 2
    MaxTimers = 2
    MaxCrashes = 1
    Days = {mon}
    MaxId = 1
    Slots = {1, 2}
    MaxEntries = 1
    Timetables = {"weekly"}
    MaxAsks = 2
    MaxRestarts = 1
    MaxTurns = 1
    HastyBound = 1
    CalmEdits = 2
INVARIANTS
    FormsTypeOK
    StoreIsValid
    RestartKeepsSettings
    
    QuietListIsTable
    OneUpdateAtATime
    AutoIsKept
PROPERTIES
    DeletedStaysDeleted
    FormsProgress
