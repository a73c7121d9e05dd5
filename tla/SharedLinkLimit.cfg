\* The documented limit against two concurrent visitors; no owner edits.
SPECIFICATION Spec
CONSTANTS
    Worker = {w1, w2}
    Editor = {owner}
    Password = {secret}
    NoPassword = NoPassword
    Limit = {1}
    Unlimited = Unlimited
    Instant = {1}
    Never = Never
    Keep = Keep
    Posts <- MCPosts
    Patches <- MCPatches
    NoLink = NoLink
    MaxEdits = 0
    MaxCount = 2
    MaxClock = 1
INVARIANT DownloadLimit
CHECK_DEADLOCK FALSE
