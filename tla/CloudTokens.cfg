\* One connection whose provider rotates refresh tokens, two requests and the
\* hourly task, one of which may be killed.
SPECIFICATION FairSpec
CONSTANTS
    Connection = {c1}
    Rotating = {c1}
    LongLived = {}
    Request = {r1, r2}
    Hourly = hourly
    NoRow = NoRow
    Keep = Keep
    MaxRequests = 2
    MaxGrants = 2
    MaxCrashes = 1
INVARIANTS
    TypeOK
    GrantNotLost
PROPERTIES
    OffStaysOff
    DeadIsSwitchedOff
CHECK_DEADLOCK FALSE
