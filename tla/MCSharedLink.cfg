\* Two workers, an owner who edits twice, the limit 1, one password.
SPECIFICATION Spec
CONSTANTS
    Worker = {w1, w2}
    Editor = {owner}
    Password = {secret}
    NoPassword = NoPassword
    Limit = {1}
    Unlimited = Unlimited
    Instant = {1}
    Never = Never
    Keep = Keep
    Posts <- MCPosts
    Patches <- MCPatches
    NoLink = NoLink
    MaxEdits = 2
    MaxCount = 2
    MaxClock = 1
SYMMETRY Symmetric
INVARIANTS
    TypeOK
    DownloadsBounded
    CountMatchesTrail
PROPERTIES
    ZeroMeansClosed
    RevocationSticks
    ProtectionSticks
    ImplementsQuota
CHECK_DEADLOCK FALSE
