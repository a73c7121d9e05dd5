\* Two connections of one user, one with long-lived tokens; three requests.
SPECIFICATION Spec
CONSTANTS
    Connection = {c1, c2}
    Rotating = {}
    LongLived = {c2}
    Request = {r1, r2}
    Hourly = hourly
    NoRow = NoRow
    Keep = Keep
    MaxRequests = 3
    MaxGrants = 2
    MaxCrashes = 0
SYMMETRY Symmetric
INVARIANT OneDefault
CHECK_DEADLOCK FALSE
