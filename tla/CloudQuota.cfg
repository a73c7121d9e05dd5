\* The hourly task against one connection, and nothing else.
SPECIFICATION FairSpec
CONSTANTS
    Connection = {c1}
    Rotating = {}
    LongLived = {}
    Request = {r1, r2}
    Hourly = hourly
    NoRow = NoRow
    Keep = Keep
    MaxRequests = 1
    MaxGrants = 1
    MaxCrashes = 0
PROPERTY HourlyStores
CHECK_DEADLOCK FALSE
