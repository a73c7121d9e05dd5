-------------------------- MODULE CloudConnection --------------------------
(***************************************************************************)
(* The cloud storage connections of one user (cors/models.py,              *)
(* UserCloudStorage), their OAuth tokens and the handlers that work on     *)
(* them: the user's views (cors/pages/cloud_storage/views.py), the OAuth   *)
(* callbacks (oauth_views.py), the administrator's actions                 *)
(* (cors/pages/admin_api/views.py) and the hourly quota task               *)
(* (cors/tasks.py), which all go through TokenManager.ensure_valid_token.  *)
(*                                                                         *)
(* A handler reads a row once, talks to the provider, and later saves the  *)
(* instance with Model.save(), which writes EVERY column from memory.      *)
(* The provider is external; tokens are numbered by the grant that issued  *)
(* them, 0 is the blank token.                                             *)
(***************************************************************************)
EXTENDS Integers, FiniteSets

CONSTANTS
    Connection,  \* (provider, account) pairs of the user
    Rotating,    \* those whose provider may answer a refresh with a new refresh token
    LongLived,   \* those that have no refresh token (Dropbox)
    Request,     \* processes that serve the HTTP requests
    Hourly,      \* the Celery worker that runs sync_quota_task
    NoRow,       \* the row is absent
    Keep,        \* a field that a PATCH does not post
    MaxRequests, \* bound: HTTP requests in a behaviour
    MaxGrants,   \* bound: grants the providers make
    MaxCrashes   \* bound: handlers killed in a behaviour

ASSUME KindAssumption    == /\ Connection # {}
                            /\ Rotating \subseteq Connection /\ LongLived \subseteq Connection
ASSUME HandlerAssumption == Hourly \notin Request
ASSUME BoundAssumption   == MaxRequests \in Nat /\ MaxGrants \in Nat /\ MaxCrashes \in Nat

Handler == Request \cup {Hourly}

\* `id` is the primary key; `sized` says that total_space, used_space and
\* last_sync hold a quota. token_expires_at is always stored with the access
\* token it belongs to, so it is not a column of the model (see Expiring).
Row == [id : Nat, active : BOOLEAN, isDefault : BOOLEAN,
        access : Nat, refresh : Nat, sized : BOOLEAN]

Column == {"active", "isDefault", "access", "refresh", "sized"}

ASSUME SentinelAssumption == NoRow \notin Row /\ Keep \notin BOOLEAN

VARIABLES
    rows,      \* the table: rows[c] is the connection's row
    job,       \* job[h]: what handler h is doing
    batch,     \* batch[c]: the row the hourly task loaded and has not reached yet
    issued,    \* issued[c]: grants the provider made
    honoured,  \* honoured[c]: the refresh tokens the provider accepts
    expired,   \* expired[c]: access tokens up to this grant have expired
    requests,  \* HTTP requests so far
    crashes,   \* handlers killed so far
    lost,      \* history: columns in which a save stored an older value over a newer
               \*   one, or a newer one was dropped
    raced,     \* history: two promotions to default overlapped
    posted,    \* history: flags that a PATCH switched on
    unheard    \* history: connections whose stored refresh token was replaced by an
               \*   answer that never arrived

table    == <<rows, batch>>
provider == <<issued, honoured, expired>>
bounds   == <<requests, crashes>>
history  == <<lost, raced, posted, unheard>>
vars     == <<rows, job, batch, issued, honoured, expired, requests, crashes,
              lost, raced, posted, unheard>>

--------------------------------------------------------------------------
(* Handlers. `snap` is the model instance in memory, `base` the row as the *)
(* handler last saw it in the database.                                    *)

\* sync, use: a user's sync_quota view; test_connection or a download.
Syncing == {"sync", "adminSync", "hourly"}
Op      == Syncing \cup {"none", "use", "disconnect", "default", "patch", "callback"}

Pc == {"idle", "loaded", "answered", "refused", "orphaned", "ensured", "quoted",
       "cleared", "granted", "connected", "promoting"}

Granted  == {g \in Connection \X (1 .. MaxGrants) : g[2] <= issued[g[1]]}
MayGrant == Cardinality(Granted) < MaxGrants

Idle(c) == [op |-> "none", pc |-> "idle", conn |-> c, snap |-> NoRow, base |-> NoRow]

Resting(h) == job[h].pc = "idle"
At(h, pc)  == job[h].pc = pc

Step(h, new) == job' = [job EXCEPT ![h] = new]
Done(h)      == Step(h, Idle(job[h].conn))

\* Handlers between clearing the flag (or finding it clear) and setting it.
Promoting == {h \in Handler : job[h].pc \in {"cleared", "promoting"}}

\* Model.save() of `new`: UPDATE by primary key, and INSERT when that finds no
\* row; the INSERT is refused by unique_together when the account has been
\* connected again under another id.
CanSave(h) == LET row == rows[job[h].conn] IN row # NoRow => row.id = job[h].snap.id

Overtaken(h) ==
    LET row == rows[job[h].conn]
    IN IF row = NoRow THEN Column ELSE {f \in Column : row[f] # job[h].base[f]}

Save(h, new) ==
    /\ CanSave(h)
    /\ rows' = [rows EXCEPT ![job[h].conn] = new]
    /\ lost' = lost \cup Overtaken(h)

Init ==
    /\ rows = [c \in Connection |-> NoRow]
    /\ job = [h \in Handler |-> Idle(CHOOSE c \in Connection : TRUE)]
    /\ batch = [c \in Connection |-> NoRow]
    /\ issued = [c \in Connection |-> 0]
    /\ honoured = [c \in Connection |-> {}]
    /\ expired = [c \in Connection |-> 0]
    /\ requests = 0 /\ crashes = 0
    /\ lost = {} /\ raced = FALSE /\ posted = {} /\ unheard = {}

--------------------------------------------------------------------------
(* A request starts: get_object reads the row.                             *)

Begin(h, op, c) ==
    /\ h \in Request /\ Resting(h)
    /\ requests < MaxRequests
    /\ rows[c] # NoRow
    /\ requests' = requests + 1
    /\ Step(h, [op |-> op, pc |-> "loaded", conn |-> c, snap |-> rows[c], base |-> rows[c]])
    /\ UNCHANGED <<table, provider, crashes, history>>

\* sync_quota_task reads all active rows in one SELECT.
LoadBatch ==
    /\ Resting(Hourly)
    /\ \A c \in Connection : batch[c] = NoRow
    /\ batch' = [c \in Connection |-> IF rows[c] # NoRow /\ rows[c].active
                                      THEN rows[c] ELSE NoRow]
    /\ UNCHANGED <<rows, job, provider, bounds, history>>

\* ... and handles them one after the other, as it read them.
TakeNext(c) ==
    /\ Resting(Hourly)
    /\ batch[c] # NoRow
    /\ Step(Hourly, [op |-> "hourly", pc |-> "loaded", conn |-> c,
                     snap |-> batch[c], base |-> batch[c]])
    /\ batch' = [batch EXCEPT ![c] = NoRow]
    /\ UNCHANGED <<rows, provider, bounds, history>>

--------------------------------------------------------------------------
(* TokenManager.ensure_valid_token                                         *)

\* now >= token_expires_at - 5 minutes
Expiring(h) == job[h].snap.access <= expired[job[h].conn]

Ensuring(h) == job[h].op \in Syncing \cup {"use"} /\ At(h, "loaded")

StillValid(h) ==
    /\ Ensuring(h)
    /\ ~Expiring(h)
    /\ Step(h, [job[h] EXCEPT !.pc = "ensured"])
    /\ UNCHANGED <<table, provider, bounds, history>>

\* Mutants: a new refresh token that is not kept; None stored for one that the
\* answer lacks; a refresh that activates.
RenewedAccess(snap, access, refresh) == [snap EXCEPT !.access = access]
RenewedNone(snap, access, refresh) ==
    [snap EXCEPT !.access = access, !.refresh = IF refresh = @ THEN NoRow ELSE refresh]
RenewedActive(snap, access, refresh) ==
    [snap EXCEPT !.access = access, !.refresh = refresh, !.active = TRUE]

\* The instance after a successful refresh.
Renewed(snap, access, refresh) == [snap EXCEPT !.access = access, !.refresh = refresh]

Refreshing(h) == Ensuring(h) /\ Expiring(h)

Become(h, access, refresh) ==
    Step(h, [job[h] EXCEPT !.pc = "answered", !.snap = Renewed(@, access, refresh)])

\* The provider accepts the stored refresh token and issues an access token.
Granting(h) ==
    LET c == job[h].conn
    IN /\ Refreshing(h)
       /\ c \notin LongLived
       /\ job[h].snap.refresh \in honoured[c]
       /\ MayGrant
       /\ issued' = [issued EXCEPT ![c] = @ + 1]

\* The answer has no new refresh token: the backends return the one they sent.
RefreshKeeps(h) ==
    LET c == job[h].conn
    IN /\ Granting(h)
       /\ Become(h, issued[c] + 1, job[h].snap.refresh)
       /\ UNCHANGED <<table, honoured, expired, bounds, history>>

\* The answer has a new refresh token; the old one may or may not be accepted on.
RefreshRotates(h) ==
    LET c    == job[h].conn
        old  == job[h].snap.refresh
        new  == issued[c] + 1
    IN /\ Granting(h)
       /\ c \in Rotating
       /\ Become(h, new, new)
       /\ \E kept \in {{}, {old}} :
            honoured' = [honoured EXCEPT ![c] = (@ \ {old}) \cup kept \cup {new}]
       /\ UNCHANGED <<table, expired, bounds, history>>

\* Dropbox: nobody is called; the same access token, which expires_in = 0 stores
\* as expired again, and a blank refresh token.
RefreshLongLived(h) ==
    /\ Refreshing(h)
    /\ job[h].conn \in LongLived
    /\ Become(h, job[h].snap.access, 0)
    /\ UNCHANGED <<table, provider, bounds, history>>

Refresh(h) == RefreshKeeps(h) \/ RefreshRotates(h) \/ RefreshLongLived(h)

\* Mutant: the failure is only logged.
DisabledNot(snap) == snap

\* The instance of a connection that is switched off.
Disabled(snap) == [snap EXCEPT !.active = FALSE]

\* The except branch: the instance keeps the tokens it was read with.
Give(h, pc) == Step(h, [job[h] EXCEPT !.pc = pc, !.snap = Disabled(@)])

\* The provider refuses the token, or cannot be reached.
RefreshFails(h) ==
    /\ Refreshing(h)
    /\ job[h].conn \notin LongLived
    /\ Give(h, "refused")
    /\ UNCHANGED <<table, provider, bounds, history>>

\* The provider has granted, with a new refresh token or without, but the answer
\* does not arrive; it accepts the old one on ...
AnswerLost(h) ==
    LET c == job[h].conn
    IN /\ Granting(h)
       /\ Give(h, "refused")
       /\ \/ UNCHANGED honoured
          \/ c \in Rotating /\ honoured' = [honoured EXCEPT ![c] = @ \cup {issued[c] + 1}]
       /\ UNCHANGED <<table, expired, bounds, history>>

\* ... or it does not, and nobody has the one that it accepts.
RotationLost(h) ==
    LET c == job[h].conn
    IN /\ Granting(h)
       /\ c \in Rotating
       /\ Give(h, "orphaned")
       /\ honoured' = [honoured EXCEPT ![c] = (@ \ {job[h].snap.refresh}) \cup {issued[c] + 1}]
       /\ unheard' = unheard \cup {c}
       /\ UNCHANGED <<table, expired, bounds, lost, raced, posted>>

SaveTokens(h) ==
    /\ At(h, "answered")
    /\ Save(h, job[h].snap)
    /\ Step(h, [job[h] EXCEPT !.pc = "ensured", !.base = job[h].snap])
    /\ UNCHANGED <<batch, provider, bounds, raced, posted, unheard>>

\* ensure_valid_token answers False: the views stop there, the hourly task
\* ignores the answer and goes on.
SaveDisabled(h) ==
    /\ job[h].pc \in {"refused", "orphaned"}
    /\ Save(h, job[h].snap)
    /\ IF h = Hourly
       THEN Step(h, [job[h] EXCEPT !.pc = "ensured", !.base = job[h].snap])
       ELSE Done(h)
    /\ UNCHANGED <<batch, provider, bounds, raced, posted, unheard>>

--------------------------------------------------------------------------
(* After the token check                                                   *)

\* get_quota_info answers.
Quote(h) ==
    /\ At(h, "ensured") /\ job[h].op \in Syncing
    /\ Step(h, [job[h] EXCEPT !.pc = "quoted", !.snap.sized = TRUE])
    /\ UNCHANGED <<table, provider, bounds, history>>

\* test_connection, a download, or a provider call that fails: nothing is saved.
Leave(h) ==
    /\ At(h, "ensured")
    /\ Done(h)
    /\ UNCHANGED <<table, provider, bounds, history>>

\* UserCloudStorageViewSet.sync_quota saves the whole instance.
StoreQuota(h) ==
    /\ At(h, "quoted") /\ job[h].op = "sync"
    /\ Save(h, job[h].snap)
    /\ Done(h)
    /\ UNCHANGED <<batch, provider, bounds, raced, posted, unheard>>

\* AdminCloudConnectionViewSet.sync_quota: save(update_fields=[quota columns]).
StoreQuotaOnly(h) ==
    LET c == job[h].conn
    IN /\ At(h, "quoted") /\ job[h].op = "adminSync"
       /\ IF rows[c] # NoRow /\ rows[c].id = job[h].snap.id
          THEN rows' = [rows EXCEPT ![c].sized = TRUE]
          ELSE UNCHANGED rows
       /\ Done(h)
       /\ UNCHANGED <<batch, provider, bounds, history>>

\* sync_quota_task: save(update_fields=["storage_quota_total", ...]) names no
\* column of the model and raises ValueError before it reaches the database.
StoreQuotaHourly ==
    /\ At(Hourly, "quoted")
    /\ Done(Hourly)
    /\ UNCHANGED <<table, provider, bounds, history>>

--------------------------------------------------------------------------
(* disconnect, PATCH, set_default, DELETE, force-disable                   *)

Disconnect(h) ==
    /\ At(h, "loaded") /\ job[h].op = "disconnect"
    /\ Save(h, Disabled(job[h].snap))
    /\ Done(h)
    /\ UNCHANGED <<batch, provider, bounds, raced, posted, unheard>>

Posted(new, old) == IF new = Keep THEN old ELSE new

\* PATCH of the user: is_active and is_default are writable.
Patch(h, active, isDefault) ==
    LET old == job[h].snap
        new == [old EXCEPT !.active = Posted(active, @), !.isDefault = Posted(isDefault, @)]
    IN /\ At(h, "loaded") /\ job[h].op = "patch"
       /\ Save(h, new)
       /\ posted' = posted \cup {f \in {"active", "isDefault"} : new[f] /\ ~old[f]}
       /\ Done(h)
       /\ UNCHANGED <<batch, provider, bounds, raced, unheard>>

\* Mutant: only the row itself loses the flag.
WithoutDefaultOf(table0, c) ==
    IF table0[c] = NoRow THEN table0 ELSE [table0 EXCEPT ![c].isDefault = FALSE]

\* The table without a default connection.
WithoutDefault(table0, c) ==
    [d \in Connection |-> IF table0[d] = NoRow THEN NoRow
                          ELSE [table0[d] EXCEPT !.isDefault = FALSE]]

\* set_default, first statement: UPDATE all the user's rows.
ClearDefault(h) ==
    /\ At(h, "loaded") /\ job[h].op = "default"
    /\ rows' = WithoutDefault(rows, job[h].conn)
    /\ Step(h, [job[h] EXCEPT !.pc = "cleared", !.base.isDefault = FALSE])
    /\ raced' = (raced \/ Promoting # {})
    /\ UNCHANGED <<batch, provider, bounds, lost, posted, unheard>>

\* set_default, second statement: the whole instance.
SaveDefault(h) ==
    /\ job[h].pc \in {"cleared", "promoting"}
    /\ Save(h, [job[h].snap EXCEPT !.isDefault = TRUE])
    /\ Done(h)
    /\ UNCHANGED <<batch, provider, bounds, raced, posted, unheard>>

Destroy(c) ==
    /\ requests < MaxRequests
    /\ rows[c] # NoRow
    /\ requests' = requests + 1
    /\ rows' = [rows EXCEPT ![c] = NoRow]
    /\ UNCHANGED <<job, batch, provider, crashes, history>>

\* force_disable: save(update_fields=["is_active"]).
ForceDisable(c) ==
    /\ requests < MaxRequests
    /\ rows[c] # NoRow
    /\ requests' = requests + 1
    /\ rows' = [rows EXCEPT ![c].active = FALSE]
    /\ UNCHANGED <<job, batch, provider, crashes, history>>

--------------------------------------------------------------------------
(* The OAuth callback: authenticate exchanges the code for tokens,         *)
(* update_or_create stores them under a row lock, and the first connection *)
(* of a user becomes the default one.                                      *)

Authenticate(h, c) ==
    LET new  == issued[c] + 1
        snap == [id |-> new, active |-> TRUE, isDefault |-> FALSE, access |-> new,
                 refresh |-> IF c \in LongLived THEN 0 ELSE new, sized |-> FALSE]
    IN /\ h \in Request /\ Resting(h)
       /\ requests < MaxRequests
       /\ MayGrant
       /\ requests' = requests + 1
       /\ issued' = [issued EXCEPT ![c] = new]
       /\ honoured' = [honoured EXCEPT ![c] = @ \cup ({snap.refresh} \ {0})]
       /\ Step(h, [op |-> "callback", pc |-> "granted", conn |-> c, snap |-> snap, base |-> snap])
       /\ UNCHANGED <<table, expired, crashes, history>>

Connect(h) ==
    LET c     == job[h].conn
        snap  == job[h].snap
        row   == IF rows[c] = NoRow THEN snap
                 ELSE [rows[c] EXCEPT !.access = snap.access, !.refresh = snap.refresh,
                                      !.active = TRUE]
    IN /\ At(h, "granted")
       /\ rows' = [rows EXCEPT ![c] = row]
       /\ Step(h, [job[h] EXCEPT !.pc = "connected", !.snap = row, !.base = row])
       /\ lost' = lost \cup IF issued[c] > snap.access THEN {"refresh"} ELSE {}
       /\ UNCHANGED <<batch, provider, bounds, raced, posted, unheard>>

HasDefault == \E c \in Connection : rows[c] # NoRow /\ rows[c].isDefault

\* if not filter(is_default=True).exists(): the save is SaveDefault.
CheckDefault(h) ==
    /\ At(h, "connected")
    /\ IF HasDefault
       THEN Done(h) /\ UNCHANGED raced
       ELSE /\ Step(h, [job[h] EXCEPT !.pc = "promoting"])
            /\ raced' = (raced \/ Promoting # {})
    /\ UNCHANGED <<table, provider, bounds, lost, posted, unheard>>

--------------------------------------------------------------------------
(* Failures                                                                *)

Saving(h) == \/ job[h].pc \in {"answered", "refused", "orphaned", "cleared", "promoting"}
             \/ At(h, "quoted") /\ job[h].op = "sync"
             \/ At(h, "loaded") /\ job[h].op \in {"disconnect", "patch"}

\* The save raises, and so does the one in ensure_valid_token's except branch.
SaveRaises(h) ==
    /\ Saving(h)
    /\ ~CanSave(h)
    /\ Done(h)
    /\ UNCHANGED <<table, provider, bounds, history>>

\* The process is killed. What the provider had answered is gone; so is the
\* rest of the hourly run, which Celery acknowledged when it started.
Crash(h) ==
    /\ ~Resting(h)
    /\ crashes < MaxCrashes
    /\ crashes' = crashes + 1
    /\ Done(h)
    /\ batch' = IF h = Hourly THEN [c \in Connection |-> NoRow] ELSE batch
    /\ lost' = lost \cup IF job[h].pc \in {"answered", "granted", "orphaned"} THEN {"refresh"} ELSE {}
    /\ UNCHANGED <<rows, provider, requests, raced, posted, unheard>>

--------------------------------------------------------------------------
(* The provider                                                            *)

Expire(c) ==
    /\ expired[c] < issued[c]
    /\ expired' = [expired EXCEPT ![c] = issued[c]]
    /\ UNCHANGED <<table, job, issued, honoured, bounds, history>>

\* The account's owner withdraws the application's access.
Withdraw(c) ==
    /\ honoured[c] # {}
    /\ honoured' = [honoured EXCEPT ![c] = {}]
    /\ UNCHANGED <<table, job, issued, expired, bounds, history>>

--------------------------------------------------------------------------

Ensure(h) == \/ StillValid(h) \/ Refresh(h)
             \/ RefreshFails(h) \/ AnswerLost(h) \/ RotationLost(h)
             \/ SaveTokens(h) \/ SaveDisabled(h)

Serve(h) == \/ Ensure(h) \/ Quote(h) \/ Leave(h) \/ StoreQuota(h) \/ StoreQuotaOnly(h)
            \/ Disconnect(h) \/ ClearDefault(h) \/ SaveDefault(h)
            \/ Connect(h) \/ CheckDefault(h) \/ SaveRaises(h)
            \/ \E active, isDefault \in BOOLEAN \cup {Keep} : Patch(h, active, isDefault)

RunHourly == LoadBatch \/ (\E c \in Connection : TakeNext(c)) \/ StoreQuotaHourly \/ Serve(Hourly)

Arrive == \/ \E h \in Request, c \in Connection :
                \/ \E op \in Op \ {"none", "hourly", "callback"} : Begin(h, op, c)
                \/ Authenticate(h, c)
          \/ \E c \in Connection : Destroy(c) \/ ForceDisable(c)

Next == \/ Arrive
        \/ \E h \in Request : Serve(h)
        \/ RunHourly
        \/ \E h \in Handler : Crash(h)
        \/ \E c \in Connection : Expire(c) \/ Withdraw(c)

Spec == Init /\ [][Next]_vars

\* Celery beat starts the hourly task again and again, and each step of it ends;
\* requests may hang or be abandoned.
FairSpec == Spec /\ WF_vars(RunHourly)

--------------------------------------------------------------------------
(* Properties *)

\* What a handler is doing.
Doing == [op : Op, pc : Pc, conn : Connection, snap : Row \cup {NoRow}, base : Row \cup {NoRow}]

\* Every variable keeps its type.
TypeOK ==
    /\ rows \in [Connection -> Row \cup {NoRow}]
    /\ batch \in [Connection -> Row \cup {NoRow}]
    /\ job \in [Handler -> Doing]
    /\ issued \in [Connection -> Nat]
    /\ honoured \in [Connection -> SUBSET Nat]
    /\ \A c \in Connection : honoured[c] \subseteq 1 .. issued[c]
    /\ expired \in [Connection -> Nat]
    /\ requests \in Nat /\ crashes \in Nat
    /\ lost \subseteq Column
    /\ raced \in BOOLEAN /\ posted \subseteq {"active", "isDefault"}
    /\ unheard \subseteq Connection

Holds(h, c) == job[h].conn = c /\ job[h].pc \in {"answered", "granted"}
                 /\ job[h].snap.refresh \in honoured[c]

\* Nobody takes the connection for usable: it is switched off, or about to be, or
\* a PATCH or a stale save has switched it on again.
SeenAsOff(c) == \/ ~rows[c].active \/ "active" \in posted \cup lost
                \/ \E h \in Handler : job[h].conn = c /\ At(h, "orphaned")

\* A refresh may consume the stored refresh token. While the provider accepts
\* any, the row or a handler about to store it has one, unless a stale save
\* overwrote a newer refresh token or a handler died with it. An answer that is
\* lost may cost the grant, and then the connection does not go on as active.
GrantNotLost ==
    \A c \in Connection \ LongLived :
        rows[c] # NoRow /\ honoured[c] # {} /\ "refresh" \notin lost =>
            \/ rows[c].refresh \in honoured[c]
            \/ \E h \in Handler : Holds(h, c)
            \/ c \in unheard /\ SeenAsOff(c)

\* A user has one default connection, unless two promotions overlapped, a stale
\* save brought a flag back, or the user PATCHed the flag.
OneDefault ==
    ~raced /\ "isDefault" \notin posted \cup lost =>
        \A c, d \in Connection :
            rows[c] # NoRow /\ rows[d] # NoRow /\ rows[c].isDefault /\ rows[d].isDefault
                => c = d

\* A connection that was switched off (disconnect, force_disable, a failed
\* refresh) comes back only when its owner connects again or PATCHes is_active,
\* or when a save overwrites the flag with the one it read earlier.
OffStaysOff ==
    [][\A c \in Connection :
        /\ rows[c] # NoRow /\ rows'[c] # NoRow
        /\ ~rows[c].active /\ rows'[c].active /\ "active" \notin lost'
        => \E h \in Request : job[h].conn = c /\ job[h].op \in {"callback", "patch"}]_vars

\* The connection looks active, but its tokens are worthless.
Dead(c) == /\ rows[c] # NoRow /\ rows[c].active
           /\ rows[c].refresh \notin honoured[c]
           /\ rows[c].access <= expired[c]

\* The hourly task finds every such connection: it does not stay active.
DeadIsSwitchedOff == \A c \in Connection \ LongLived : Dead(c) ~> ~Dead(c)

\* cors/tasks.py:181 "Tache Celery pour synchroniser les quotas": once the
\* provider has answered the hourly task, the row holds the quota.
HourlyStores ==
    [][\A c \in Connection :
        job[Hourly].conn = c /\ At(Hourly, "quoted") /\ job'[Hourly].pc = "idle"
            /\ crashes' = crashes /\ rows[c] # NoRow => rows'[c].sized]_vars
=============================================================================
