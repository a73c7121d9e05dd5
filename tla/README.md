# AdminDoc in TLA+

AdminDoc is a document manager: a Django REST API on PostgreSQL, Celery workers
and Celery beat on Redis, Stripe for subscriptions, and Google Drive, OneDrive
and Dropbox as cloud storage. Nearly all of its code is request handlers and
tasks that read a row, do something slow outside the database, and save the row
again. What can go wrong is therefore mostly *who else ran in between*, and
that is what these modules model.

Three facts about the deployment shape every module:

* gunicorn runs several synchronous worker processes (README, "gunicorn
  --workers 3 --timeout 120"), Celery workers and beat are separate processes.
  Handlers interleave between processes; inside one process they do not. A
  worker that hangs is killed.
* `ATOMIC_REQUESTS` is not set, so **one ORM statement is one atomic step** and
  everything else in a handler happens between other handlers' statements.
* `instance.save()` writes **every column** from memory, `save(update_fields=...)`
  only those named. A full save of a row that is gone inserts it again (unless a
  foreign key or a unique constraint objects); one with `update_fields` raises.

## 1. Inventory

| Component | State | Operations | Works with | Hard behaviour | Correct means |
|---|---|---|---|---|---|
| **Share links** (`shared_link/`, `models.SharedLink`) | row: flag, limit, counter, expiry, password | create, PATCH, DELETE, public GET | documents, audit log | check and count are two statements; PATCH saves the counter it read; the password is saved after the row | the limit holds up to the concurrency of the deployment; counter = audit trail; revoked stays revoked, protected stays protected |
| **Cloud connections and tokens** (`cloud_storage/views.py`, `token_manager.py`) | row: tokens, active, default, quota | sync, test, disconnect, set_default, PATCH, DELETE, force_disable, hourly task, OAuth callback | providers, backends, Celery | token rotation; lost answers; stale full-row saves; an hour-old batch; killed process | a usable grant is not lost, or the connection goes off with it; switched off stays off; one default; a dead connection is found |
| **OAuth connect flow** (`oauth_views.py`) | dictionary of states per process | initiate, three callbacks, cleanup | connections, providers | the state lives in one worker; callbacks are repeated, late, served elsewhere; the row is deleted under them | a state connects at most once; a refusal has its reason |
| **Reminders** (`reminder/`, `tasks.py`) | rows, logs, queue | daily run, triggers, delivery, CRUD | SMTP, Celery, documents | killed workers, SMTP timeouts, deletion under a running task | logs say what happened; a due reminder is served; disabled is silent |
| **Billing** (`billing/views.py`) | subscription row | checkout, webhook, administrator's PATCH | Stripe | events repeated, reordered, before their row; two checkouts | no payment is lost; the row follows Stripe |
| **Documents and files** (`document/`, `admin_api/views.py` AdminDocumentViewSet) | documents, files, blobs | upload, PATCH, delete, downloads | storage, audit, links, reminders | blobs are outside the transaction; a PATCH inserts a deleted row again; the trace follows the commit | an upload is whole or absent; every change and every download is traced |
| **File transfer** (`cloud_storage/views.py` 251-507, `tasks.py` 86-175) | storage_type, sync_status, blob, cloud copy | move_to_cloud, move_to_local, upload task | connections, backends, Celery | none at present: each of the three raises before it changes a file (section 7) | a file is never in neither place |
| **Cloud backends** (`storage/backends/`) | folders and files at the provider | upload whole or in parts, folder paths, download, tokens, quota | provider APIs | boundaries of the last part; two uploads make the same folders; a request fails after it had its effect | what was answered for is there, whole, in its folder |
| **Audit log** (`signals.py`, `middleware.py`, `utils/audit.py`) | append-only table, a context variable | write on save/delete, list, export | every handler | the actor is taken from the request | every tracked write leaves one row in the right name |
| **Administration API** (`admin_api/`) | account flags, roles, cache counters | flag handlers, PATCH, bulk actions, set_roles, integration tests | all of the above | whole-row saves; roles replaced in two statements; a counter that expires while it is read | flags and roles are what was last asked for; the limit bounds the calls |
| **Categories and tags** | two tables | CRUD | documents | name check before insert | names are unique per owner |
| **Google login** (`doc/auth_views.py`) | session, cached state, users | start, callback | Google | the state is in the session and in the cache of one process, and is asked for in both | a login that is turned away has lost its state in both |
| Token encryption, settings, routing, templates, filters | configuration | | | | not modelled |

The full list of hazards, each at its line with the properties that watch it, is
in `PROJECT.json`. One has no property: the name check of categories
ignores case and races with the insert, whose unique index does not.

## 2. Modules

### SharedLink

One link. `link` is the row (or `NoLink`), `get[w]` the public GET that worker
`w` serves, `edit[e]` the owner's PATCH, `creation` the POST. The handler
`PublicSharedLinkView.get` is cut at its statements:

    Fetch (objects.get) -> Refuse | Clear (is_expired, check_password on the row read)
      -> Count (F("download_count") + 1) -> Refresh (refresh_from_db) -> Answer
    FailCounted: anything that ends the request after the count

A PATCH is `Load` (get_object), `Save` (every column of the instance),
`SavePassword` (a second statement, only when a password was posted). Creation is
`Create` (the row, without its password) and `Protect`; `CreateCrashes` stops in
between. `Destroy` and `DeleteDocument` remove the row under all of them.
`password` stands for the pair `password_required`, `password_hash`.

### DownloadQuota

What a link with a limit promises, without rows and processes: a ticket is taken
while the count is below the quota, and redeemed for one download or handed back.
SharedLink implements it (`ImplementsQuota`): a ticket is a handler that holds a row
below its limit (`Pending`), the quota is open while the link exists and nobody
rewrote its limit or counter (`Metered`), and over ever after.

### CloudConnection

All connections of one user, the hourly task and any number of requests. `job[h]`
has the instance a handler holds (`snap`) and the row as it last saw it (`base`).
`ensure_valid_token` is `StillValid`, or `RefreshKeeps` / `RefreshRotates` /
`RefreshLongLived` and then `SaveTokens`, or `RefreshFails` / `AnswerLost` /
`RotationLost` and then `SaveDisabled`, because its except branch takes a refusal, an
unreachable provider and a timeout alike; the handlers around it differ in what they
save at the end (`StoreQuota` every column, `StoreQuotaOnly` the quota columns,
`StoreQuotaHourly` nothing, because the names it passes are not columns). `LoadBatch` reads all active rows at once,
`TakeNext` works on them as they were then. The callback's database part is
`Authenticate`, `Connect`, `CheckDefault`, `SaveDefault`.

The provider is external: `issued` counts the grants it made, `honoured` the
refresh tokens it accepts, `expired` the access tokens that ran out. Tokens are
the number of the grant that issued them. It may keep or drop the old refresh
token when it rotates, refuse or be out of reach at any time (`RefreshFails`), and lose
its grant (`Withdraw`). It may also grant and its answer get lost: if it accepts the old
token on, nothing is lost (`AnswerLost`); if the old one is consumed, nobody holds the one
that it accepts (`RotationLost`), and the handler, which is "orphaned" until its save,
stores the consumed one together with `is_active = False`. Dropbox connections
(`LongLived`) have no refresh token: their refresh returns the same access token with
`expires_in` 0, so after the expiry that the callback stored they look expired for ever and each use saves the row.

### Reminders

Reminders, their logs, the broker and the workers. `SelectDue` is the daily
query, `Enqueue` one iteration of its loop (or of a manual trigger), and a
delivery is `Get`, `OpenLog`, `Mail` or `MailRaises`, `Stamp` (last_sent),
`FinishLog`. Celery acknowledges early, so `Crash` loses the task. `MailRaises`
may follow an accepted mail: the answer of the SMTP server can be lost.
Neither task changes `next_run`; a due reminder is mailed by each daily run until
its owner changes it, and the model does the same.

### Billing

One user's subscription. A checkout is `GetOrCreate`, `CreateCustomer`,
`SaveCustomer`, `OpenSession`; the webhook is `Receive` (find the row, or answer
200 and forget the event) and `SaveEvent` (full row; the 200 may be lost). Stripe
is external: `Pay` creates the two events of a paid checkout in either order,
`Change` moves a live subscription, `pending` is what it has no answer for and
may deliver to several workers, in any order. `Load` and `SavePatch` are the
administrator's.

### Workers

The gunicorn processes: `Accept`, `Continue` and `Release` are the beginning, a
step and the end of a request that takes several statements, `Serve` a request
whose effect is one statement, `Kill` the end of a process at any moment. Four modules
extend it, two more compose these, and everything a process keeps in memory is indexed by `Process`.

### OAuthFlow

`memory[p]` is the dictionary `_oauth_states` of process `p`. `Initiate` cleans it
and stores a state, the user's consents at the provider issue `codes`, and a callback
(`Receive`) is served by any process: `Refuse`, or `Admit` and then

    Exchange (authenticate) -> UpdateOrCreate (the row) -> Promote (first default)
      -> Finish (activity row, del _oauth_states[state], 200)
    Fail: any exception after Admit; pops the state, 500

A repeated callback can be admitted while the first one runs elsewhere in time:
its code is spent by then, or it carries a new one, and `del` raises a KeyError if
the state has gone. `DeleteRow` removes the connection under a callback, whose
later `save()` inserts it again or whose activity row lacks its parent;
`ToggleProvider` is the administrator's. `Tick` moves the clock that
`_cleanup_old_states` compares.

### Accounts

`users[u]` is the row's three flags, `groups[u]` the user's groups. The flag handlers
are `LoadForFlag`, `SaveFlag` (one column), the PATCHes `LoadForPatch`,
`LoadForProfile`, `SavePatch`, `SaveRename` (every column), `bulk_actions` one
UPDATE. `set_roles` is `StartSetRoles`, `RemoveRoles` (replace only), `AddRoles`.
Permissions are read when the request starts. The rate limit is `OpenWindow` or
`Look` and `Count`, with `ExpireHits` anywhere; the Google login
`GoogleAuthStart`, `GoogleAuthCallback` (pop the state, then compare session and
cache), `GetOrCreate`, `LogIn`. The settings name no cache, so it is the
process's memory: `cache[p]`, `hits[p]`.

### WebProcess

OAuthFlow and Accounts in the same processes: who is busy with one serves nothing
of the other, and `KillWorker` wipes the OAuth states, the login states and the
counters together.

### Documents

`doc[d]` is the row, `files[d]` its file rows, `blobs` the stored contents. An
upload is `StartUpload`, one `StoreFile` for each file (the blob is stored, the row
waits for the commit), `CommitUpload` with the audit row of the signal, or
`UploadFails`. Outside the transaction the signal's row is a step of its own,
`Trace`. `SavePatchDoc` saves every column and so inserts a deleted document
again. `Remove` and `Bury` are Django's delete with its cascade and signals: of two
requests that delete the same document the second deletes no row, but sends its signal.
A download of one file is audited before the content is read, a zip after it is built
(`AuditsFirst`).

### CloudDrive

`upload_file` of the three backends, one step for each request to the provider.
Google looks folders up by name and parent and creates them by id (`GoogleLook`,
`GoogleCreate`); OneDrive by path, with a second attempt after an exception and a
"rename" on conflict (`OneDriveLook`, `OneDriveRetries`, `OneDriveCreate`); Dropbox has the
path in its last request. Contents go in one request or through a session
(`OneDriveRange`, `DropboxChunk`), counted in units of which the limits are `SmallOneDrive`,
`ChunkOneDrive`, `ChunkDropbox`. `RequestFails` ends an upload with the effect done
or not done. The providers' sides (`folders`, `stored`) are external.

### Files

Documents and CloudDrive in the same processes, with one kill for both.

### How they compose

Composition by processes: WebProcess and Files conjoin the initial predicates of
their parts, interleave their steps and make a kill one step of both, over
the one `Workers` that both parts extend. Composition by rows elsewhere: the
document's cascade reaches SharedLink as `DeleteDocument` and Reminders as
`Destroy`; the administrator's handlers are actions of the module whose row they
write; the OAuth callback's flow is in OAuthFlow, and what its statements do to
tokens and defaults, among all the other writers of these columns, in
CloudConnection. Signals are part of the save that sends them: `Trace` in Documents.

### History variables

Several guarantees hold only while nobody uses a writer that the code leaves
unprotected. Instead of leaving such a writer out, the model records that it was
used and how, and the property says what is lost then:

| Module | Variable | Set when |
|---|---|---|
| SharedLink | `disturbed` | a PATCH changed the limit or wrote back an older counter |
| | `overlap` | two writes of the owner were under way at once |
| | `broken` | a request ended between the count and the audit row |
| | `exhausted` | a response said remaining_downloads = 0 |
| CloudConnection | `lost` | columns in which a save wrote an older value over a newer one, or a new refresh token died with its process |
| | `raced`, `posted` | two promotions to default overlapped; the flags that a PATCH switched on |
| | `unheard` | a rotation consumed the stored refresh token and its answer was lost |
| Reminders | `stranded`, `overwritten` | a worker was killed with a log open; a PATCH put back an older last_sent |
| Billing | `late`, `lost`, `raced`, `edited`, `dropped` | an older event was saved after a newer one; a save overwrote a newer row; two first checkouts overlapped or one died with its customer; an administrator changed the row; an event found no row |
| OAuthFlow | `made`, `ended`, `failed`, `refused` | a callback wrote its row, answered 200 or 500, answered 500, refused its state |
| | `lost`, `removed` | a kill wiped the state; the row was deleted under its callback |
| Accounts | `want`, `wanted` | what each flag, and the roles, were last asked to be |
| | `stale`, `raced` | a whole-row save turned a flag back; two set_roles overlapped or one was killed |
| | `superseded`, `popped`, `turnedAway` | a login left the session, left the cache, was refused |
| | `windows`, `admitted` | a period of the rate limit opened; a request was let through |
| Documents | `saved`, `traced`, `deleted`, `buried` | commits, deletions, and the audit rows that tell of them |
| | `audited`, `delivered`, `dropped` | downloads told of and answered; steps that a kill prevented |
| CloudDrive | `answers`, `unexplained` | upload_file returned; it raised although no request failed |
| | `overlapped`, `faulted` | two uploads were at the folder path of a drive at once; a request to it failed |

No variable is set by the step that a property forbids: `lost`, for instance, is
set by comparing the row in the database with the row the handler read, whatever
it then writes.

## 3. Runs

| Run | Instance | Shows |
|---|---|---|
| `share_links` | 2 workers, 1 owner process, 2 PATCHes, limit 1 or none | `DownloadsBounded`, `CountMatchesTrail`, `ZeroMeansClosed`, `RevocationSticks`, `ProtectionSticks`, and `ImplementsQuota`, the refinement |
| `share_limit` | the same without PATCHes | `DownloadLimit` is violated: two answered downloads of a link with limit 1 |
| `cloud_tokens` | 1 rotating connection, 2 requests and the hourly task, 2 grants, 1 kill | `GrantNotLost`, `OffStaysOff`, `DeadIsSwitchedOff` |
| `cloud_default` | 2 connections, one of them Dropbox, 3 requests and the hourly task | `OneDefault` |
| `cloud_quota` | the hourly task alone | `HourlyStores` is violated: no quota is ever stored by it |
| `reminders` | 1 reminder, 2 workers, a trigger, a PATCH, a kill | `SentIsMailed`, `PendingIsRunning`, `SentIsStamped`, `DisabledIsSilent`, `DueIsServed` |
| `reminder_days` | 1 reminder, 1 worker | `DaysBeforeIsServed` is violated: days_before alone never sends |
| `billing` | 2 checkouts, 2 webhooks, 3 events, a kill | `NothingDropped`, `OneCustomer`, `Converged` |
| `billing_admin` | 1 checkout, 2 webhooks, 1 administrator | `CancelSticks` |
| `billing_status` | an undisturbed checkout | `StatusIsChoice` is violated: "complete" is stored |
| `web` | 2 processes, 3 requests, 1 kill, 2 flows, 2 logins, 2 accounts | `FlowUsedOnce`, `RefusalExplained`, `FailureLeavesNothing`, `FlagsAsSet`, `RolesAsAsked`, `RateBounded`, `LoginRefusalExplained` |
| `files` | 2 processes, 3 requests (the first two may be uploads to a drive), 1 kill, 2 documents of up to 2 files, a path of 2 folders | `UploadIsWhole`, `TrailComplete`, `DownloadsAudited`, `AnsweredIsWhole`, `FailsOnlyOnFault`, `LandsInPath`, `NoStrayFolder` |

Deadlock is not checked: every behaviour here may end, with its bounds used up
and all requests answered.

**Bounds.** Two workers are enough for a check that goes stale, and the theorems
of section 5 carry every safety and action property to any number of them; the
instances show that the properties and their hypotheses are about cases that happen.
A limit of 1 with 2 workers reaches one download over the limit, the worst that
the bound allows. Two PATCHes are one that disturbs and one that shows it.
Two grants of a rotating provider are the first connect and one rotation under
way, or one whose answer is lost. One kill is enough, because each property blames one handler. Three events
are a paid checkout and a change after it, which can overtake each other.
In `web` and `files` three requests are two that interleave and one between them
or after them: a row deleted between read and save, a counter that expires, a
callback repeated twice. The states live for one unit of a clock of two, so there is an age
below, at and above the limit; two codes are a second consent in the same flow.
The sizes 2, 4 and 5 with a limit of 3 and parts of 4 and 2 are not to scale: they put
a file below OneDrive's limit, at exactly one part and one unit beyond it, and, for Dropbox,
at exactly one chunk, at two, and at two and a bit. Every other size is covered by the theorems `AnswersAreWhole`
and `FailureHasACause`. `Elsewhere`, in half of the initial
states, is a folder of the user that contains folders with the names of the path, one in the
other and the last part first: a search by name alone would find them.
Symmetry is over processes, and over flows, logins and documents, which are only
compared with each other.
Larger instances were explored without an error when the modules were written:
`cloud_tokens` with three requests and no kill for the safety properties (5.5
million states), and the safety of two reminders (2.7 million).
`MaxCount`, `MaxClock`, `MaxEdits`, `MaxRequests`, `MaxGrants`, `MaxQueue`,
`MaxLogs`, `MaxTriggers`, `MaxCustomers`, `MaxEvents`, `MaxCrashes`, `MaxServed`,
`MaxKills`, `MaxCodes`, `MaxFiles`, `MaxUploads`, `Size` and `Asked` are bounds
of the model and not limits of the code.

**Fairness.** Only the runs below need any; `web` and `files` check safety: a user may
always go away, and nothing in these requests is retried by the system.

* `cloud_tokens`: weak fairness of the hourly task (`RunHourly`): Celery beat
  starts it every hour and its steps end, by an answer or an exception. Requests
  get none: a user may go away. `DeadIsSwitchedOff` is therefore what the hourly
  task achieves alone.
* `reminders`, `reminder_days`: days pass and beat fires; each worker goes on with
  its task (weak), and neither the daily task nor one reminder's message is
  passed over for ever by a queue that always has something else (strong, since
  another worker may take the message first and turn it off and on). A trigger's
  request completes its loop, because gunicorn kills a hanging one. The owner,
  the administrators and failures get none. `MaxCrashes` makes kills finite.

## 4. What the violation runs found

1. **share_limit** - `is_expired` is checked on the row as read and the counter
   moved later, so concurrent visitors pass the limit
   (`shared_link/views.py:52`). By how much at most is theorem
   `DownloadsAreBounded`.
2. **cloud_quota** - the hourly task saves `storage_quota_total`,
   `storage_quota_used` and `last_synced_at`, which the model does not have
   (`tasks.py:213`). The exception is caught; the task reports success.
3. **reminder_days** - the daily task selects by `next_run` and nothing computes
   `next_run` from `days_before` (`tasks.py:77`).
4. **billing_status** - for `checkout.session.completed` the payload is the
   session, and its status "complete" is no member of `STATUS_CHOICES`
   (`billing/views.py:116`).

## 5. Proofs

Every safety and action property that a passing run checks is also a theorem, for
every value of the constants; the exceptions are the two liveness properties. Each
component has one module of theorems, laid out in the same way: what a handler holds
(a typed invariant of the records), the parts of the inductive invariant, one lemma
per action or group of actions, `Next`, and the theorems. TLC checked the
inductive invariants on the instances of the runs as well; the one part it cannot
evaluate is `PathInv` of FilesProofs, which asks for a chain of folders among all functions.
The leaves with a time limit of their own (`ZenonT(40)`, `SMTT(30)`) are the slow ones: all
the others need less than a third of the provers' usual time.

### SharedLinkProofs and DownloadQuotaProofs

For every number of workers and editors, every set of limits, instants and passwords,
all bodies of POST and PATCH, and all bounds:

| Theorem | Property | Strengthening |
|---|---|---|
| `TypesOK` | `TypeOK` | `TypeInv`: a handler past `Fetch` holds a row; one past the check holds a row below its limit; before the POST nobody holds anything |
| `DownloadsAreBounded` | `DownloadsBounded` | `PendingBounded`: the counter *plus* the handlers that may still count is at most limit + workers - 1. The property alone is not inductive: it says nothing of the handlers past the check |
| `CountsAreAudited` | `CountMatchesTrail` | itself, with `TypeInv` |
| `ZeroClosesTheLink` | `ZeroMeansClosed` | `Truthful`: undisturbed handlers hold the limit of the row, and who was told 0, or is about to be, was told the truth |
| `RevocationIsKept` | `RevocationSticks` | `Alone`: without an overlap there is one PATCH at most, the flag and password it read are those of the row, and none runs while a creation is under way |
| `ProtectionIsKept` | `ProtectionSticks` | `Alone` |
| `QuotaImplemented` | `ImplementsQuota` | `TypeInv` and `Truthful`; each action of SharedLink is `Open`, `Issue`, `Redeem`, `Return`, `End` or a stutter |

`DownloadQuotaProofs` proves of the abstract quota that downloads and tickets
together pass it by `Slack` - 1 at most (`OverrunBounded`), which is where
`DownloadsAreBounded` comes from: only the tickets that are out at once matter, never
the number of visitors. `Fetch` is the step that decides the bound: either the row is
below its limit and every worker may be pending, or it is not and `Pending` cannot
grow. `Count` trades one pending handler for one download. A PATCH is harmless or sets
`disturbed`. The workers are finitely many and at least one.

### WebProcessProofs and AccountsProofs

Of the whole of `WebSpec` (both parts and the kills), for every number of processes,
flows, codes, users and logins, all sets of roles, every lifetime and rate, and all
bounds:

| Theorem | Property | Strengthening |
|---|---|---|
| `WebTypesOK` | `WebTypeOK` | `FlowInv` and `AccountsInv`. `Own`: a process serves one request, of one part, and is busy then; `Founded`: a request for an account is for one that exists, and one about to count found the counter below its limit |
| `FlowIsUsedOnce` | `FlowUsedOnce` | `AtHome`: a state is in the dictionary of the process that started it, and its callbacks run there, so there is one at most; `Unused`: while the state is there, no callback wrote its row but the one under way |
| `FailuresLeaveNothing` | `FailureLeavesNothing` | `Holding`: a running callback still has its state, and its row unless that was deleted; `Forgotten`: a flow that ended is in no dictionary and runs nowhere |
| `RefusalsAreExplained` | `RefusalExplained` | `Kept`: a state that was stored is still there, or ended, was lost with its process, or is too old |
| `FlagsAreAsSet` | `FlagsAsSet` | itself, with `SameRows`: who has no row was never given a flag |
| `RolesAreAsAsked` | `RolesAsAsked` | `RolesDue`: one request at most is setting the roles of a user, and what it still has to write makes the groups what was asked for. The property speaks of the end only |
| `LoginRefusalsAreExplained` | `LoginRefusalExplained` | `LoginTraced`: a login is in the session or left it, and is in the cache of its process or left that |
| `RateIsBounded` | `RateBounded` | `RateKept`: while the counter lives, what the process admitted *plus* what its counter still allows is within its periods |

The argument is split as the system is: a step of the flow leaves the accounts'
variables alone; a step of an account handler begins, continues or ends the one
request of its process (`Goes`), and whatever it does besides, that keeps
`FlowInv` (`GoesKeepsFlowInv`). The admin roles are no other groups and include the
three that the permissions name, and the supported providers are providers.
`windows` and `admitted` are counted per process, as the counters themselves are: the
sum over all processes would say less, and a sum over a set needs an induction.

### BillingProofs

For every number of checkouts, webhooks and administrators at once, and all bounds:

| Theorem | Property | Strengthening |
|---|---|---|
| `TypesOK` | `TypeOK` | `Held`: before the row exists nobody is at work; a webhook that loaded the row did so by the customer of its event |
| `PaymentsArrive`, `UserIsOneCustomer` | `NothingDropped`, `OneCustomer` | `OnlyOne`: undisturbed, one checkout at most is on its way to Stripe and back, and then nothing else was stored; `OfTheRow`: sessions, subscriptions and pending events are all of the row's customer |
| `RowConverges` | `Converged` | `Newest`: the newest event is saved or still to be delivered, says what Stripe says, and once saved the row says it too |
| `CancellationSticks` | `CancelSticks` | `Ordered`: a time of creation names one event, among those not yet saved and the last one saved |

The properties speak of quiet states; the invariant has to say what each request still
brings. The three sets of processes are disjoint, which they are in the deployment by
what they serve.

### CloudConnectionProofs

For every set of connections of every kind, every number of requests, and all bounds:

| Theorem | Property | Strengthening |
|---|---|---|
| `TypesOK` | `TypeOK` | `Held`: what each step of a handler has in memory, and in which columns it may differ from the row as last seen |
| `SwitchedOffStaysOff` | `OffStaysOff` | `Held`: an instance is active only when the row was |
| `DefaultIsOne` | `OneDefault` | `OnePromotion`: undisturbed, one handler at most is promoting, and while it does there is no default |
| `GrantIsKept` | `GrantNotLost` | `Exclusive`, `SameRow`, `Newer`, `Kept`: a token not stored yet is in nobody else's hands; copies with one refresh token are copies of one row; a rotated token is newer and accepted, or everything accepted is newer still; and the row has an accepted token or a handler brings one; `Covered`: or its answer was lost, and then the connection is off, or its handler (`WillDisable`) is about to save it so |

`GrantIsKept` is the longest argument here: the hourly task works on copies an hour
old, and it is `SameRow` and `Exclusive` that make its saves either harmless or an
entry in `lost`. A lost rotation breaks `Kept`, and `Covered` has to survive from there: no
handler that holds the consumed token as active can save it without being recorded. Connections are assumed to exist at all (`Connection # {}`), because a
resting handler points at one.

### FilesProofs

Of the whole of `FilesSpec`, for every number of processes, documents and files, every
path, every size, limit and part, and all bounds:

| Theorem | Property | Strengthening |
|---|---|---|
| `TypesOK` | `FilesTypeOK` | `Own`: a process serves one request, of one part |
| `UploadsAreWhole` | `UploadIsWhole` | `Whole`, `Fit`: the files of a document not deleted are those asked for; an upload works on an id that nobody has seen and has stored what it counts |
| `TrailIsComplete`, `DownloadsAreAudited` | `TrailComplete`, `DownloadsAudited` | `Counted`: the audit counters against the *number of processes* between the two statements, not only their existence |
| `AnswersAreWhole` | `AnsweredIsWhole` | itself, with the types: the offset of a session against size and part |
| `FailureHasACause`, `UploadLandsInPath` | `FailsOnlyOnFault`, `LandsInPath` | `PathInv`: the part of the path an upload has done is there as a chain of folders (`Trail`), and folders are only added |
| `NoFolderTwice` | `NoStrayFolder` | `CleanInv`: on a drive without overlap or failure one upload at most is at the path, and what it is about to create is not there |

OneDrive resolves a path from the root at each request. `Ways` says that by the chains of
folders along the path, without recursion, so that it can be reasoned about; that more
folders never close a way is a lemma. The processes are finitely many and the path is
not empty: with no folder at all `upload_file` makes none and puts
the file at the root of the drive.

### RemindersProofs

For every number of reminders, workers, triggers and editors, and all bounds:

| Theorem | Property | Strengthening |
|---|---|---|
| `TypesOK` | `TypeOK` | `CountsFit`: messages queued *plus* loops that will enqueue one stay below the bound; an open log is a pending one, so closing it never counts below zero |
| `SentLogsAreMailed` | `SentIsMailed` | `CountsFit`, which has the property itself; a worker that mailed brings its own mail |
| `PendingLogsAreRunning` | `PendingIsRunning` | `CountsFit`: also when a worker was killed, no more logs are open than pending |
| `SentLogsAreStamped` | `SentIsStamped` | `TasksFit`: a task about to close its log as sent still has its reminder, stamped unless overwritten; `RowsFit`: without a row there are no logs, and a row was created once; `EditsFit`: a PATCH holds a row that was |
| `DisabledStaysSilent` | `DisabledIsSilent` | the same; each step moves a mail on from loop to queue, worker and server, and adds none (`FlowMoves`) |

`Destroy` is the step that needs care: it takes the logs of the running tasks away, so
that the counts of open logs of one reminder fall to nothing while every task stays where
it is. The processes are finitely many.

### What is assumed, and what stays with TLC

The assumptions are the named `ASSUME`s of the modules, evaluated in the runs: bounds are
naturals, the sentinels (`NoLink`, `NoRow`, `Absent`, `Keep`, `Unlimited`, `Never`,
`Unset`, `NoPassword`, "none") are none of the values they stand beside, the sets of
processes that are counted are finite, processes of different kinds are different, and the
bodies of requests are well formed, which the serializers ensure.

Model-checked only: `DeadIsSwitchedOff` and `DueIsServed`, the liveness properties,
because fairness and `ENABLED` are out of the prover's reach; and the four violations,
which are behaviours of the code and not theorems. Where the model compares numbers of
processes (`Counted`, `CountsFit`) the cardinalities are handled by one lemma per module,
`OneChanges`: a step of one process changes such a number by one at most.

## 6. Plan

In this order; each module with its run, its mutants and, where named, proofs.

1. **SharedLink, DownloadQuota, CloudConnection, Reminders, Billing** - done.
2. **Workers, OAuthFlow, Accounts, WebProcess** - done.
3. **Documents, CloudDrive, Files** - done.
4. **Proofs** - every safety and action property of the passing runs is done. Left are
   the bounds that no run states, such as the number of mails that a due reminder gets
   while its owner does not change it.
5. **FileTransfer** - once the code runs (section 7): the statuses of a file and
   the places where it is, with the retries of the task.

## 7. Not modelled, and why

* In modelled components: the activity log and the audit rows of signals (written
  after the fact, nothing reads them back; Documents has them for its rows); POST of a
  connection without tokens and PATCH of its provider; plan and current_period_end
  of a subscription, which travel with its status; the method of a reminder (push
  is mailed too); names, texts and URLs. Token columns are ciphertext and are
  assumed to fit their columns. Two hourly runs at once: a run of an hour's length
  would be needed.
* **File transfer does not run as the code stands.** `move_to_cloud` and
  `move_to_local` filter files by `document__user` (`cloud_storage/views.py:289`, 447), and
  a Document has an owner and no user: both raise before they touch a file.
  `upload_file_to_cloud_task` reads `document_file.nom_fichier` (`tasks.py:104`),
  which is not a field either, so each attempt and each of its retries
  ends there. A model of what comes after these lines would be of no program.
* In OAuthFlow: the check of the Dropbox SDK, which compares the state with a
  session of its own and is given an empty one (`dropbox.py:80`): the SDK is external, and
  the model lets its exchange succeed or fail like the others'; more than one user, and more than one account
  of a provider.
* In Accounts: names, passwords and e-mail addresses; creation of users by an
  administrator and the account deletion of djoser; the administrators' audit rows;
  the throttle classes of Django REST framework, whose cache is per process like the
  rate limit's; the threads of the development server.
* The administrator's `archive`, `restore` and `bulk_actions` on documents
  (`admin_api/views.py:470-507`): they are POST actions of a viewset whose
  `http_method_names` (line 444) is get, patch, delete, head and options, so each of them is
  answered 405 before it reads a row. An administrator archives a document by PATCH.
* In CloudConnection: what a library does inside one refresh (msal's own retries and
  caches); the OAuth callback whose code exchange fails or loses its answer: it stores
  nothing, leaves the stored tokens as good or bad as they were, and the grant of a lost
  answer, which nobody ever had, is not counted among those that may be lost.
* In OAuthFlow: database errors after the connection was written, other than a row or a
  state that has gone.
* In Documents: titles, categories, tags, dates, search and lists; who the audit row
  names (the middleware's user, which JWT authentication does not set); links and
  reminders of a deleted document, in their own modules; the audit export.
* In CloudDrive: `download_file`, `delete_file`, `list_files`, quotas and user
  information, which are single requests without state; two uploads of one
  name, which overwrite or rename; items in the trash, which Google's search also
  finds. The clean-up task of orphaned files is a placeholder in the code.
* Categories and tags: one statement each but for the name check, which two requests
  can pass in the same moment; the table's unique index then refuses the second name,
  unless they differ in case. Nothing else depends on a name.
* Encryption of tokens: a library call; the key is assumed to be set.
* Vendor SDKs, SMTP, Stripe and PostgreSQL: external; modelled by what the code
  relies on.
* Settings, routing, filters, templates, the djoser accounts: no state of their own
  or no code of this repository.
