------------------------------ MODULE Accounts -----------------------------
(***************************************************************************)
(* User accounts: the administrator's handlers on users and roles          *)
(* (cors/pages/admin_api/views.py AdminUserViewSet, permissions.py), the   *)
(* local rate limit of the integration tests (the same file), and the      *)
(* Google login (doc/auth_views.py), which keeps its one-time state in the *)
(* browser's session and in the cache. The settings configure no cache, so *)
(* it is Django's default, memory of the process.                          *)
(*                                                                         *)
(* A login stands for its state token; all logins are of the one Google    *)
(* account `Google`, from one browser. Profile names, passwords and the    *)
(* JWT pair are left out.                                                  *)
(***************************************************************************)
EXTENDS Workers

CONSTANTS
    User,        \* accounts
    Admin,       \* the one who sends the administrative requests
    Google,      \* the account that logs in with Google
    Superuser,   \* accounts with is_superuser
    AdminRole,   \* ADMIN_ROLE_NAMES, all of them groups that exist
    OtherGroup,  \* groups that are not admin roles
    Asked,       \* bound: lists of roles that set_roles is asked for
    Login,       \* state tokens of Google logins
    Amount       \* requests that the rate admits in a period

ASSUME AccountAssumption == Admin \in User /\ Google \in User /\ Superuser \subseteq User
ASSUME RoleAssumption    ==
    /\ {"super_admin", "support_admin", "ops_admin"} \subseteq AdminRole
    /\ AdminRole \cap OtherGroup = {} /\ Asked \subseteq SUBSET AdminRole
ASSUME LoginAssumption  == "none" \notin Login
ASSUME AmountAssumption  == Amount \in Nat \ {0}

Flag  == {"is_active", "is_staff", "is_verified"}
Flags == [Flag -> BOOLEAN]
NoRow == [f \in {} |-> FALSE]

VARIABLES
    users,       \* users[u]: the flags of the row, NoRow before the account exists
    groups,      \* groups[u]: the user's groups
    session,     \* the login that the browser's session holds, or "none"
    cache,       \* cache[p]: login states in the cache of process p
    hits,        \* hits[p]: the rate counter in the cache of p, 0 when absent
    job,         \* job[p]: the request that p serves
    home,        \* home[l]: the process that started login l, or "none"
    want,        \* history: want[u], the value each flag was last explicitly given
    wanted,      \* history: wanted[u], the groups that the last set_roles stands for
    stale,       \* history: <<u, flag>> that a whole-row save turned back
    raced,       \* history: users whose roles were set by two requests at once or by
                 \*   one that was killed
    superseded,  \* history: logins that left the session
    popped,      \* history: logins that left the cache
    turnedAway,  \* history: <<login, process, with the session cookie>> answered
                 \*   "Invalid or expired OAuth state"
    windows,     \* history: windows[p], periods of the rate limit that p opened
    admitted     \* history: admitted[p], requests that it let through

rateVars    == <<hits, windows, admitted>>
loginVars   == <<session, cache, home, superseded, popped, turnedAway>>
userVars    == <<users, want, stale>>
groupVars   == <<groups, wanted, raced>>
accountVars == <<users, groups, session, cache, hits, job, home, want, wanted, stale, raced,
                 superseded, popped, turnedAway, windows, admitted>>

NoJob == [op |-> "none"]
Jobs  == {NoJob}
         \cup [op : {"flag", "patch"}, user : User, flag : Flag, value : BOOLEAN, snap : Flags]
         \cup [op : {"rename"}, user : User, snap : Flags]
         \cup [op : {"replace", "append", "add"}, user : User, roles : SUBSET AdminRole]
         \cup [op : {"count"}]
         \cup [op : {"login"}, login : Login, cookie : BOOLEAN]
         \cup [op : {"account"}, cookie : BOOLEAN, snap : Flags]

AccountsTypeOK ==
    /\ users \in [User -> Flags \cup {NoRow}]
    /\ groups \in [User -> SUBSET (AdminRole \cup OtherGroup)]
    /\ session \in Login \cup {"none"}
    /\ cache \in [Process -> SUBSET Login]
    /\ hits \in [Process -> 0 .. Amount]
    /\ job \in [Process -> Jobs]
    /\ home \in [Login -> Process \cup {"none"}]
    /\ want \in [User -> Flags \cup {NoRow}]
    /\ wanted \in [User -> SUBSET (AdminRole \cup OtherGroup)]
    /\ stale \subseteq User \X Flag
    /\ raced \subseteq User
    /\ superseded \subseteq Login /\ popped \subseteq Login
    /\ turnedAway \subseteq Login \X Process \X BOOLEAN
    /\ windows \in [Process -> Nat] /\ admitted \in [Process -> Nat]

NewAccount(verified) == [f \in Flag |-> f = "is_active" \/ (f = "is_verified" /\ verified)]

\* The administrator is staff with the role super_admin; the Google account may
\* not exist yet.
AccountsInit ==
    /\ users = [u \in User |->
           IF u = Admin THEN [f \in Flag |-> TRUE]
           ELSE IF u = Google THEN NoRow ELSE NewAccount(FALSE)]
    /\ groups = [u \in User |-> IF u = Admin THEN OtherGroup \cup {"super_admin"} ELSE OtherGroup]
    /\ session = "none" /\ cache = [p \in Process |-> {}]
    /\ hits = [p \in Process |-> 0]
    /\ job = [p \in Process |-> NoJob]
    /\ home = [l \in Login |-> "none"]
    /\ want = users /\ wanted = groups
    /\ stale = {} /\ raced = {} /\ superseded = {} /\ popped = {} /\ turnedAway = {}
    /\ windows = [p \in Process |-> 0] /\ admitted = [p \in Process |-> 0]

Exists(u)  == users[u] # NoRow
Begin(p, new) == Accept(p) /\ job' = [job EXCEPT ![p] = new]
End(p)        == Release(p) /\ job' = [job EXCEPT ![p] = NoJob]

--------------------------------------------------------------------------
(* Permissions: a staff account, and a role among those allowed unless it  *)
(* is a superuser. They are checked once, when the request starts.         *)

get_admin_roles(u) == groups[u] \cap AdminRole

HasPermission(u, allowed) ==
    /\ Exists(u) /\ users[u]["is_active"] /\ users[u]["is_staff"]
    /\ u \in Superuser \/ get_admin_roles(u) \cap allowed # {}

IsUserAdmin          == HasPermission(Admin, {"super_admin", "support_admin"})
IsUserPrivilegeAdmin == HasPermission(Admin, {"super_admin"})
IsSystemAdmin        == HasPermission(Admin, {"super_admin", "ops_admin"})

--------------------------------------------------------------------------
(* Handlers on one user: get_object, then a save.                          *)

\* activate, deactivate, verify_email; grant_staff, revoke_staff.
To(f, v)         == [flag |-> f, value |-> v]
FlagActions      == {To("is_active", TRUE), To("is_active", FALSE), To("is_verified", TRUE)}
PrivilegeActions == {To("is_staff", TRUE), To("is_staff", FALSE)}

LoadForFlag(p, u) ==
    /\ Exists(u)
    /\ \E to \in FlagActions \cup PrivilegeActions :
          /\ IF to \in PrivilegeActions THEN IsUserPrivilegeAdmin ELSE IsUserAdmin
          /\ Begin(p, [op |-> "flag", user |-> u, flag |-> to.flag, value |-> to.value,
                       snap |-> users[u]])
    /\ UNCHANGED <<userVars, groupVars, loginVars, rateVars>>

\* AdminUserSerializer: a PATCH of one flag, or of names only.
LoadForPatch(p, u) ==
    /\ Exists(u) /\ IsUserAdmin
    /\ \/ \E f \in Flag, v \in BOOLEAN :
             Begin(p, [op |-> "patch", user |-> u, flag |-> f, value |-> v, snap |-> users[u]])
       \/ Begin(p, [op |-> "rename", user |-> u, snap |-> users[u]])
    /\ UNCHANGED <<userVars, groupVars, loginVars, rateVars>>

\* The user's own PATCH, of names or of the one flag that UserSerializer leaves
\* writable.
LoadForProfile(p, u) ==
    /\ Exists(u) /\ users[u]["is_active"]
    /\ \/ Begin(p, [op |-> "rename", user |-> u, snap |-> users[u]])
       \/ \E v \in BOOLEAN :
             Begin(p, [op |-> "patch", user |-> u, flag |-> "is_verified", value |-> v,
                       snap |-> users[u]])
    /\ UNCHANGED <<userVars, groupVars, loginVars, rateVars>>

\* Mutant: save() without update_fields.
WithFlagWhole(row, snap, f, v) == [snap EXCEPT ![f] = v]

\* save(update_fields=[flag]) of an instance loaded as `snap` on the row.
WithFlag(row, snap, f, v) == [row EXCEPT ![f] = v]

SaveFlag(p) ==
    LET j == job[p]
    IN /\ j.op = "flag"
       /\ users' = [users EXCEPT ![j.user] = WithFlag(@, j.snap, j.flag, j.value)]
       /\ want' = [want EXCEPT ![j.user][j.flag] = j.value]
       /\ stale' = stale \ {<<j.user, j.flag>>}
       /\ End(p)
       /\ UNCHANGED <<groupVars, loginVars, rateVars>>

\* save(): every column from memory.
Overwritten(u, new) == {<<u, f>> : f \in {g \in Flag : users[u][g] # new[g]}}

SavePatch(p) ==
    LET j   == job[p]
        new == [j.snap EXCEPT ![j.flag] = j.value]
    IN /\ j.op = "patch"
       /\ users' = [users EXCEPT ![j.user] = new]
       /\ want' = [want EXCEPT ![j.user][j.flag] = j.value]
       /\ stale' = (stale \cup Overwritten(j.user, new)) \ {<<j.user, j.flag>>}
       /\ End(p)
       /\ UNCHANGED <<groupVars, loginVars, rateVars>>

SaveRename(p) ==
    LET j == job[p]
    IN /\ j.op = "rename"
       /\ users' = [users EXCEPT ![j.user] = j.snap]
       /\ stale' = stale \cup Overwritten(j.user, j.snap)
       /\ End(p)
       /\ UNCHANGED <<want, groupVars, loginVars, rateVars>>

\* bulk_actions: one UPDATE over the listed users.
bulk_actions(p, U) ==
    /\ IsUserAdmin /\ \A u \in U : Exists(u)
    /\ Serve(p)
    /\ \E f \in {"is_active", "is_staff"}, v \in BOOLEAN :
          /\ users' = [u \in User |-> IF u \in U THEN [users[u] EXCEPT ![f] = v] ELSE users[u]]
          /\ want' = [u \in User |-> IF u \in U THEN [want[u] EXCEPT ![f] = v] ELSE want[u]]
          /\ stale' = stale \ {<<u, f>> : u \in U}
    /\ UNCHANGED <<job, groupVars, loginVars, rateVars>>

--------------------------------------------------------------------------
(* set_roles.                                                              *)

SettingRoles(u) == {p \in Process : job[p].op \in {"replace", "append", "add"} /\ job[p].user = u}

StartSetRoles(p, u) ==
    /\ Exists(u) /\ IsUserAdmin
    /\ \E mode \in {"replace", "append"}, roles \in Asked :
          /\ Begin(p, [op |-> mode, user |-> u, roles |-> roles])
          /\ wanted' = [wanted EXCEPT ![u] =
                 roles \cup (IF mode = "append" THEN @ ELSE @ \ AdminRole)]
    /\ raced' = IF SettingRoles(u) = {} THEN raced ELSE raced \cup {u}
    /\ UNCHANGED <<userVars, groups, loginVars, rateVars>>

\* Mutant: user.groups.clear()
WithoutRolesOrGroups(gs) == {}

\* user.groups.remove(all admin groups): other groups stay.
WithoutRoles(gs) == gs \ AdminRole

RemoveRoles(p) ==
    /\ job[p].op = "replace"
    /\ Continue(p)
    /\ groups' = [groups EXCEPT ![job[p].user] = WithoutRoles(@)]
    /\ job' = [job EXCEPT ![p].op = "add"]
    /\ UNCHANGED <<userVars, wanted, raced, loginVars, rateVars>>

\* user.groups.add(groups)
AddRoles(p) ==
    /\ job[p].op \in {"append", "add"}
    /\ groups' = [groups EXCEPT ![job[p].user] = @ \cup job[p].roles]
    /\ End(p)
    /\ UNCHANGED <<userVars, wanted, raced, loginVars, rateVars>>

--------------------------------------------------------------------------
(* AdminIntegrationTestView behind _enforce_local_rate_limit: cache.get,   *)
(* then cache.set of the first request or cache.incr of a later one.       *)

OpenWindow(p) ==
    /\ hits[p] = 0 /\ IsSystemAdmin
    /\ Serve(p)
    /\ hits' = [hits EXCEPT ![p] = 1]
    /\ windows' = [windows EXCEPT ![p] = @ + 1] /\ admitted' = [admitted EXCEPT ![p] = @ + 1]
    /\ UNCHANGED <<job, userVars, groupVars, loginVars>>

\* Mutant: one request too many.
OverLimitLate(p) == hits[p] > Amount

OverLimit(p) == hits[p] >= Amount

Throttle(p) ==
    /\ OverLimit(p) /\ IsSystemAdmin
    /\ Serve(p)
    /\ UNCHANGED accountVars

Look(p) ==
    /\ hits[p] > 0 /\ ~OverLimit(p) /\ IsSystemAdmin
    /\ Begin(p, [op |-> "count"])
    /\ UNCHANGED <<userVars, groupVars, loginVars, rateVars>>

\* Mutant: a counter that is gone is taken for 0.
CountAnyway(p) ==
    /\ job[p].op = "count"
    /\ End(p)
    /\ hits' = [hits EXCEPT ![p] = @ + 1]
    /\ admitted' = [admitted EXCEPT ![p] = @ + 1]
    /\ UNCHANGED <<windows, userVars, groupVars, loginVars>>

\* The counter may have expired since it was read; incr then raises ValueError.
Count(p) ==
    /\ job[p].op = "count"
    /\ End(p)
    /\ IF hits[p] = 0 THEN UNCHANGED rateVars
       ELSE /\ hits' = [hits EXCEPT ![p] = @ + 1]
            /\ admitted' = [admitted EXCEPT ![p] = @ + 1]
            /\ UNCHANGED windows
    /\ UNCHANGED <<userVars, groupVars, loginVars>>

\* The period is over.
ExpireHits(p) ==
    /\ hits[p] > 0
    /\ hits' = [hits EXCEPT ![p] = 0]
    /\ UNCHANGED <<workers, job, userVars, groupVars, loginVars, windows, admitted>>

--------------------------------------------------------------------------
(* The Google login.                                                       *)

GoogleAuthStart(p, l) ==
    /\ home[l] = "none"
    /\ Serve(p)
    /\ home' = [home EXCEPT ![l] = p]
    /\ session' = l
    /\ superseded' = superseded \cup ({session} \ {"none"})
    /\ cache' = [cache EXCEPT ![p] = @ \cup {l}]
    /\ UNCHANGED <<job, popped, turnedAway, userVars, groupVars, rateVars>>

\* _pop_oauth_state, the first thing any callback does.
PopState(p, l) ==
    /\ cache' = [cache EXCEPT ![p] = @ \ {l}]
    /\ popped' = popped \cup ({l} \cap cache[p])

\* Mutant: the session is not asked.
StateCached(p, l, cookie) == l \in cache[p]

\* Without its cookie the browser comes under another name of the host.
StateValid(p, l, cookie) == (cookie /\ session = l) \/ l \in cache[p]

TurnAway(p, l, cookie) ==
    /\ Serve(p)
    /\ turnedAway' = turnedAway \cup {<<l, p, cookie>>}
    /\ UNCHANGED job

GoogleAuthCallback(p, l, cookie) ==
    /\ home[l] # "none"
    /\ PopState(p, l)
    /\ IF StateValid(p, l, cookie)
       THEN /\ Begin(p, [op |-> "login", login |-> l, cookie |-> cookie])
            /\ UNCHANGED turnedAway
       ELSE TurnAway(p, l, cookie)
    /\ UNCHANGED <<session, home, superseded, userVars, groupVars, rateVars>>

\* The user declines at Google: the state leaves the cache but not the session.
GoogleDeclined(p, l) ==
    /\ home[l] # "none"
    /\ Serve(p)
    /\ PopState(p, l)
    /\ UNCHANGED <<job, session, home, superseded, turnedAway, userVars, groupVars, rateVars>>

\* fetch_token or the user information fails; a code works once.
GoogleFails(p) ==
    /\ job[p].op = "login"
    /\ End(p)
    /\ UNCHANGED <<userVars, groupVars, loginVars, rateVars>>

\* get_or_create by email, which is unique.
GetOrCreate(p) ==
    /\ job[p].op = "login"
    /\ Continue(p)
    /\ IF Exists(Google) THEN UNCHANGED <<users, want>>
       ELSE \E verified \in BOOLEAN :
               /\ users' = [users EXCEPT ![Google] = NewAccount(verified)]
               /\ want' = [want EXCEPT ![Google] = NewAccount(verified)]
    /\ job' = [job EXCEPT ![p] =
           [op |-> "account", cookie |-> job[p].cookie, snap |-> users'[Google]]]
    /\ UNCHANGED <<stale, groupVars, loginVars, rateVars>>

\* The flags that the login changes, by the instance it loaded: it activates the
\* account, and verifies it when Google says so.
Changed(snap, verified) ==
    {f \in {"is_active"} \cup (IF verified THEN {"is_verified"} ELSE {}) : ~snap[f]}

\* save(update_fields=changed), then login() gives the session a new key with
\* what this request had loaded, less the login's entries.
LogIn(p) ==
    /\ job[p].op = "account"
    /\ \E verified \in BOOLEAN :
          LET new(row) == [f \in Flag |-> row[f] \/ f \in Changed(job[p].snap, verified)]
          IN /\ users' = [users EXCEPT ![Google] = new(@)]
             /\ want' = [want EXCEPT ![Google] = new(@)]
             /\ stale' = stale \ ({Google} \X Changed(job[p].snap, verified))
    /\ IF job[p].cookie
       THEN session' = "none" /\ superseded' = superseded \cup ({session} \ {"none"})
       ELSE UNCHANGED <<session, superseded>>
    /\ End(p)
    /\ UNCHANGED <<cache, home, popped, turnedAway, groupVars, rateVars>>

ExpireState(p, l) ==
    /\ l \in cache[p]
    /\ PopState(p, l)
    /\ UNCHANGED <<workers, job, session, home, superseded, turnedAway,
                   userVars, groupVars, rateVars>>

--------------------------------------------------------------------------
(* A killed process loses its cache and the request it was serving.        *)

AccountsWiped(p) ==
    /\ cache' = [cache EXCEPT ![p] = {}]
    /\ popped' = popped \cup cache[p]
    /\ hits' = [hits EXCEPT ![p] = 0]
    /\ job' = [job EXCEPT ![p] = NoJob]
    /\ raced' = raced \cup {u \in User : p \in SettingRoles(u)}
    /\ UNCHANGED <<userVars, groups, wanted, session, home, superseded, turnedAway,
                   windows, admitted>>

AccountsStep(p) ==
    \/ \E u \in User : \/ LoadForFlag(p, u) \/ LoadForPatch(p, u) \/ LoadForProfile(p, u)
                       \/ StartSetRoles(p, u)
    \/ SaveFlag(p) \/ SavePatch(p) \/ SaveRename(p)
    \/ \E U \in SUBSET User \ {{}} : bulk_actions(p, U)
    \/ RemoveRoles(p) \/ AddRoles(p)
    \/ OpenWindow(p) \/ Throttle(p) \/ Look(p) \/ Count(p) \/ ExpireHits(p)
    \/ \E l \in Login : \/ GoogleAuthStart(p, l) \/ GoogleDeclined(p, l) \/ ExpireState(p, l)
                        \/ \E cookie \in BOOLEAN : GoogleAuthCallback(p, l, cookie)
    \/ GoogleFails(p) \/ GetOrCreate(p) \/ LogIn(p)

AccountsNext == \E p \in Process : AccountsStep(p)

AccountsSpec == /\ WorkersInit /\ AccountsInit
                /\ [][AccountsNext \/ \E p \in Process : Kill(p) /\ AccountsWiped(p)]_<<workers, accountVars>>

--------------------------------------------------------------------------
(* Properties.                                                             *)

\* A flag of an account differs from what was last asked for it only where the
\* whole-row save of a PATCH wrote an older value back: the handlers that save
\* one column, the bulk update and the login never undo each other.
FlagsAsSet == \A u \in User, f \in Flag :
    Exists(u) /\ users[u][f] # want[u][f] => <<u, f>> \in stale

\* set_roles, unless another one overlapped it or it was killed halfway, leaves
\* the user with the roles it was asked for, and with every other group.
RolesAsAsked == \A u \in User \ raced :
    /\ SettingRoles(u) = {} => groups[u] = wanted[u]
    /\ OtherGroup \subseteq groups[u]

\* A login that comes back is turned away only when both places fail it: the
\* session is absent or holds another login by now, and the cache of the process
\* that serves it never had the state or lost it.
LoginRefusalExplained ==
    [][\A l \in Login, p \in Process, cookie \in BOOLEAN :
           <<l, p, cookie>> \in turnedAway' \ turnedAway =>
               /\ cookie => l \in superseded
               /\ home[l] = p => l \in popped]_accountVars

\* A process admits at most Amount integration tests for each period that it
\* opened, also when the counter expires between its read and its increment.
RateBounded == \A p \in Process : admitted[p] <= Amount * windows[p]
=============================================================================
