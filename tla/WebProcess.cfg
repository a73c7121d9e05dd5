\* The OAuth flow and the account handlers in two workers.
SPECIFICATION WebSpec
CONSTANTS
    p1 = p1
    p2 = p2
    f1 = f1
    f2 = f2
    l1 = l1
    l2 = l2
    admin = admin
    member = member
    Process = {p1, p2}
    MaxServed = 3
    MaxKills = 1
    Flow = {f1, f2}
    Provider = {"google_drive", "onedrive", "dropbox", "other"}
    Supported = {"google_drive", "onedrive", "dropbox"}
    Lifetime = 1
    MaxClock = 2
    MaxCodes = 2
    User = {admin, member}
    Admin = admin
    Google = member
    Superuser = {}
    AdminRole = {"super_admin", "support_admin", "ops_admin"}
    OtherGroup = {"team"}
    Asked <- AskedRoles
    Login = {l1, l2}
    Amount = 2
SYMMETRY Symmetric
CHECK_DEADLOCK FALSE
INVARIANTS
    WebTypeOK
    FlowUsedOnce
    FailureLeavesNothing
    FlagsAsSet
    RolesAsAsked
    RateBounded
PROPERTIES
    RefusalExplained
    LoginRefusalExplained
