\* One reminder whose owner posts days_before and leaves the rest to the server.
SPECIFICATION FairSpec
CONSTANTS
    Reminder = {a}
    Worker = {w1}
    Staff = {}
    Editor = {owner}
    Wanted <- MCWanted
    Unset = Unset
    Keep = Keep
    Absent = Absent
    MaxClock = 1
    MaxQueue = 1
    MaxLogs = 1
    MaxTriggers = 0
    MaxEdits = 0
    MaxCrashes = 0
PROPERTY DaysBeforeIsServed
CHECK_DEADLOCK FALSE
