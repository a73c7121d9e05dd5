\* One reminder, two workers, a manual trigger, a PATCH and a kill.
SPECIFICATION FairSpec
CONSTANTS
    Reminder = {a}
    Worker = {w1, w2}
    Staff = {s1}
    Editor = {owner}
    Wanted <- MCWanted
    Unset = Unset
    Keep = Keep
    Absent = Absent
    MaxClock = 1
    MaxQueue = 1
    MaxLogs = 2
    MaxTriggers = 1
    MaxEdits = 1
    MaxCrashes = 1
INVARIANTS
    TypeOK
    SentIsMailed
    PendingIsRunning
    SentIsStamped
PROPERTIES
    DisabledIsSilent
    DueIsServed
CHECK_DEADLOCK FALSE
