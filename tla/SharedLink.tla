----------------------------- MODULE SharedLink -----------------------------
(***************************************************************************)
(* One share link of a document: the public GET that hands out the         *)
(* download URL (cors/pages/shared_link/views.py), the owner's create,     *)
(* PATCH and DELETE (shared_link/serializers.py, DRF ModelViewSet) and the *)
(* row they share (cors/models.py, SharedLink).                            *)
(*                                                                         *)
(* The deployment runs several gunicorn workers against PostgreSQL with no *)
(* ATOMIC_REQUESTS, so one ORM statement is one atomic step and a handler  *)
(* works on the row it read earlier (its `snap`).                          *)
(***************************************************************************)
EXTENDS Integers, FiniteSets

CONSTANTS
    Worker,      \* processes that serve the public GET, one request at a time
    Editor,      \* processes that serve the owner's PATCH
    Password,    \* passwords an owner or a visitor may type
    NoPassword,  \* the empty password: password_required = False
    Limit,       \* numeric values of max_downloads
    Unlimited,   \* max_downloads = NULL
    Instant,     \* numeric values of expires_at
    Never,       \* expires_at = NULL
    Keep,        \* a field that a PATCH does not post
    Posts,       \* the links the owner creates: the validated POST body as a row
    Patches,     \* the PATCH bodies the owner sends
    NoLink,      \* the row is absent
    MaxEdits,    \* bound: PATCH requests in a behaviour
    MaxCount,    \* bound: downloads of a link without a limit
    MaxClock     \* bound: the wall clock

Field(S) == S \cup {Keep}

Patch == [is_active     : Field(BOOLEAN),
          max_downloads : Field(Limit \cup {Unlimited}),
          expires_at    : Field(Instant \cup {Never}),
          password      : Field(Password \cup {NoPassword})]

ASSUME WorkerAssumption  == IsFiniteSet(Worker) /\ Worker # {}
ASSUME LimitAssumption   == Limit \subseteq Nat /\ Unlimited \notin Nat
ASSUME InstantAssumption == Instant \subseteq Nat /\ Never \notin Nat
ASSUME PatchAssumption   == Patches \subseteq Patch
ASSUME BoundAssumption   == MaxEdits \in Nat /\ MaxCount \in Nat /\ MaxClock \in Nat
ASSUME PasswordAssumption == NoPassword \notin Password

\* A row of SharedLink. `password` stands for the pair password_required,
\* password_hash, which every writer sets together.
Row == [is_active      : BOOLEAN,
        max_downloads  : Limit \cup {Unlimited},
        expires_at     : Instant \cup {Never},
        password       : Password \cup {NoPassword},
        download_count : Nat]

ASSUME PostAssumption   == Posts \subseteq [is_active      : BOOLEAN,
                                            max_downloads  : Limit \cup {Unlimited},
                                            expires_at     : Instant \cup {Never},
                                            password       : Password \cup {NoPassword},
                                            download_count : {0}]
ASSUME NoLinkAssumption == NoLink \notin Row
ASSUME KeepAssumption   == Keep \notin BOOLEAN \cup Nat \cup Password
                                       \cup {Unlimited, Never, NoPassword}

VARIABLES
    link,      \* the row, or NoLink
    document,  \* the shared document still exists
    clock,     \* timezone.now()
    creation,  \* the owner's POST: its step and the password it carries
    get,       \* get[w]: the GET that worker w serves
    edit,      \* edit[e]: the PATCH that process e serves
    audited,   \* AuditLog rows "download_shared_link"
    edits,     \* PATCH requests so far
    disturbed, \* history: a PATCH rewrote the limit or the counter
    overlap,   \* history: two writes of the owner overlapped
    broken,    \* history: a counted download ended without its answer
    exhausted  \* history: a visitor was told that no download remains

dbVars    == <<link, document>>
history   == <<disturbed, overlap, broken, exhausted>>
vars      == <<link, document, clock, creation, get, edit, audited, edits, history>>

--------------------------------------------------------------------------
(* The row *)

Limited(row) == row.max_downloads # Unlimited

\* Mutant: the limit compared with > instead of >=.
IsExpiredLate(row) ==
    \/ ~row.is_active
    \/ row.expires_at # Never /\ clock >= row.expires_at
    \/ Limited(row) /\ row.download_count > row.max_downloads

\* SharedLink.is_expired
IsExpired(row) ==
    \/ ~row.is_active
    \/ row.expires_at # Never /\ clock >= row.expires_at
    \/ Limited(row) /\ row.download_count >= row.max_downloads

\* SharedLink.check_password; `given` is what the visitor typed.
CheckPassword(row, given) == row.password = NoPassword \/ row.password = given

\* Mutant: (max_downloads or 0) - download_count for a link without a limit.
NoneRemainsOrZero(row, seen) == ~Limited(row) \/ seen >= row.max_downloads

\* remaining_downloads = max(max_downloads - download_count, 0) is 0
NoneRemains(row, seen) == Limited(row) /\ seen >= row.max_downloads

Posted(new, old) == IF new = Keep THEN old ELSE new

\* Mutants: an absent field stored as posted; an absent is_active read as its
\* default; an absent password read as the empty one.
OverwrittenAbsent(snap, p) ==
    [snap EXCEPT !.is_active     = Posted(p.is_active, @),
                 !.max_downloads = p.max_downloads,
                 !.expires_at    = Posted(p.expires_at, @)]
OverwrittenDefault(snap, p) ==
    [snap EXCEPT !.is_active     = Posted(p.is_active, TRUE),
                 !.max_downloads = Posted(p.max_downloads, @),
                 !.expires_at    = Posted(p.expires_at, @)]
OverwrittenOpen(snap, p) ==
    [snap EXCEPT !.is_active     = Posted(p.is_active, @),
                 !.max_downloads = Posted(p.max_downloads, @),
                 !.expires_at    = Posted(p.expires_at, @),
                 !.password      = NoPassword]

\* ModelSerializer.update: setattr for every posted field, then instance.save(),
\* which writes every column of the instance, download_count included. The
\* password is popped before and saved on its own afterwards.
Overwritten(snap, p) ==
    [snap EXCEPT !.is_active     = Posted(p.is_active, @),
                 !.max_downloads = Posted(p.max_downloads, @),
                 !.expires_at    = Posted(p.expires_at, @)]

--------------------------------------------------------------------------
(* Handlers *)

Idle    == [pc |-> "idle", snap |-> NoLink, none |-> FALSE]
NoPatch == [is_active |-> Keep, max_downloads |-> Keep, expires_at |-> Keep,
            password |-> Keep]
Resting == [pc |-> "idle", snap |-> NoLink, patch |-> NoPatch]

GetPc     == {"idle", "fetched", "cleared", "counted", "refreshed"}
EditPc    == {"idle", "loaded", "saved"}
CreatePc  == {"none", "inserted", "done", "failed"}

InFlight == {w \in Worker : get[w].pc \in {"fetched", "cleared"}}
Counted  == {w \in Worker : get[w].pc \in {"counted", "refreshed"}}
Editing  == {e \in Editor : edit[e].pc # "idle"}

\* Handlers that passed is_expired, or will pass it: the row they hold is
\* below its limit, whatever the database says by now.
Pending == {w \in InFlight : Limited(get[w].snap) =>
                                get[w].snap.download_count < get[w].snap.max_downloads}

Init ==
    /\ link = NoLink
    /\ document = TRUE
    /\ clock = 0
    /\ creation = [pc |-> "none", password |-> NoPassword]
    /\ get = [w \in Worker |-> Idle]
    /\ edit = [e \in Editor |-> Resting]
    /\ audited = 0
    /\ edits = 0
    /\ disturbed = FALSE /\ overlap = FALSE /\ broken = FALSE /\ exhausted = FALSE


--------------------------------------------------------------------------
(* SharedLinkSerializer.create: super().create() commits an unprotected    *)
(* row, a second statement stores the password.                            *)

Create(post) ==
    /\ creation.pc = "none"
    /\ document
    /\ link' = [post EXCEPT !.password = NoPassword]
    /\ creation' = [pc |-> "inserted", password |-> post.password]
    /\ UNCHANGED <<document, clock, get, edit, audited, edits, history>>

\* save(update_fields=[...]) raises when it updates no row.
Protect ==
    /\ creation.pc = "inserted"
    /\ IF link = NoLink
       THEN /\ creation' = [creation EXCEPT !.pc = "failed"]
            /\ UNCHANGED link
       ELSE /\ creation' = [pc |-> "done", password |-> NoPassword]
            /\ link' = [link EXCEPT !.password = creation.password]
    /\ overlap' = (overlap \/ Editing # {})
    /\ UNCHANGED <<document, clock, get, edit, audited, edits, disturbed, broken, exhausted>>

\* The worker is killed between the two statements.
CreateCrashes ==
    /\ creation.pc = "inserted"
    /\ creation' = [creation EXCEPT !.pc = "failed"]
    /\ UNCHANGED <<link, document, clock, get, edit, audited, edits, history>>

--------------------------------------------------------------------------
(* PublicSharedLinkView.get. A request that finds no row is answered 404   *)
(* and changes nothing.                                                    *)

SetGet(w, new) == get' = [get EXCEPT ![w] = new]

Fetch(w) ==
    /\ get[w].pc = "idle"
    /\ link # NoLink
    /\ Limited(link) \/ link.download_count + Cardinality(InFlight) < MaxCount
    /\ SetGet(w, [pc |-> "fetched", snap |-> link, none |-> FALSE])
    /\ UNCHANGED <<dbVars, clock, creation, edit, audited, edits, history>>

\* 410 or 403; `given` is the request's password parameter.
Refuse(w, given) ==
    /\ get[w].pc = "fetched"
    /\ IsExpired(get[w].snap) \/ ~CheckPassword(get[w].snap, given)
    /\ SetGet(w, Idle)
    /\ UNCHANGED <<dbVars, clock, creation, edit, audited, edits, history>>

Clear(w, given) ==
    /\ get[w].pc = "fetched"
    /\ ~IsExpired(get[w].snap)
    /\ CheckPassword(get[w].snap, given)
    /\ SetGet(w, [get[w] EXCEPT !.pc = "cleared"])
    /\ UNCHANGED <<dbVars, clock, creation, edit, audited, edits, history>>

\* Mutant: instance.download_count += 1; instance.save()
IncrementedInMemory(row, snap) == [row EXCEPT !.download_count = snap.download_count + 1]

\* F("download_count") + 1: the database adds to the value it holds.
Incremented(row, snap) == [row EXCEPT !.download_count = @ + 1]

\* increment_download: UPDATE ... SET download_count = download_count + 1
Count(w) ==
    /\ get[w].pc = "cleared"
    /\ link' = IF link = NoLink THEN NoLink ELSE Incremented(link, get[w].snap)
    /\ SetGet(w, [get[w] EXCEPT !.pc = "counted"])
    /\ UNCHANGED <<document, clock, creation, edit, audited, edits, history>>

\* refresh_from_db, a statement of its own; `none` is remaining_downloads = 0.
Refresh(w) ==
    /\ get[w].pc = "counted"
    /\ link # NoLink
    /\ SetGet(w, [pc |-> "refreshed", snap |-> NoLink,
                  none |-> NoneRemains(get[w].snap, link.download_count)])
    /\ UNCHANGED <<dbVars, clock, creation, edit, audited, edits, history>>

\* Build the URL, write the audit row, answer 200 with remaining_downloads.
Answer(w) ==
    /\ get[w].pc = "refreshed"
    /\ audited' = audited + 1
    /\ exhausted' = (exhausted \/ get[w].none)
    /\ SetGet(w, Idle)
    /\ UNCHANGED <<dbVars, clock, creation, edit, edits, disturbed, overlap, broken>>

\* After the count: refresh_from_db finds no row, document.file has no file to
\* build a URL for, or the worker is killed (gunicorn --timeout).
FailCounted(w) ==
    /\ get[w].pc \in {"counted", "refreshed"}
    /\ broken' = TRUE
    /\ SetGet(w, Idle)
    /\ UNCHANGED <<dbVars, clock, creation, edit, audited, edits, disturbed, overlap, exhausted>>

--------------------------------------------------------------------------
(* The owner's PATCH and DELETE, and the cascade from the document         *)

SetEdit(e, new) == edit' = [edit EXCEPT ![e] = new]

Load(e, p) ==
    /\ edit[e].pc = "idle"
    /\ link # NoLink
    /\ edits < MaxEdits
    /\ edits' = edits + 1
    /\ overlap' = (overlap \/ Editing # {} \/ creation.pc = "inserted")
    /\ SetEdit(e, [pc |-> "loaded", snap |-> link, patch |-> p])
    /\ UNCHANGED <<dbVars, clock, creation, get, audited, disturbed, broken, exhausted>>

\* instance.save(): UPDATE by primary key; when it finds no row Django INSERTs
\* the instance, which the foreign key refuses once the document is gone.
Save(e) ==
    LET row == Overwritten(edit[e].snap, edit[e].patch)
    IN /\ edit[e].pc = "loaded"
       /\ link # NoLink \/ document
       /\ link' = row
       /\ disturbed' = (disturbed \/ link = NoLink
                          \/ row.max_downloads # link.max_downloads
                          \/ row.download_count # link.download_count)
       /\ IF edit[e].patch.password = Keep
          THEN SetEdit(e, Resting)
          ELSE SetEdit(e, [edit[e] EXCEPT !.pc = "saved"])
       /\ UNCHANGED <<document, clock, creation, get, audited, edits, overlap, broken, exhausted>>

\* set_password, then save(update_fields=[...])
SavePassword(e) ==
    /\ edit[e].pc = "saved"
    /\ link # NoLink
    /\ link' = [link EXCEPT !.password = edit[e].patch.password]
    /\ SetEdit(e, Resting)
    /\ UNCHANGED <<document, clock, creation, get, audited, edits, history>>

\* A statement raises (foreign key, no row for update_fields) or the worker dies.
EditFails(e) ==
    /\ edit[e].pc # "idle"
    /\ SetEdit(e, Resting)
    /\ UNCHANGED <<dbVars, clock, creation, get, audited, edits, history>>

Destroy ==
    /\ link # NoLink
    /\ link' = NoLink
    /\ overlap' = (overlap \/ Editing # {})
    /\ UNCHANGED <<document, clock, creation, get, edit, audited, edits, disturbed, broken, exhausted>>

\* DELETE of the document cascades to its links.
DeleteDocument ==
    /\ document
    /\ document' = FALSE
    /\ link' = NoLink
    /\ overlap' = (overlap \/ Editing # {})
    /\ UNCHANGED <<clock, creation, get, edit, audited, edits, disturbed, broken, exhausted>>

Tick ==
    /\ clock < MaxClock
    /\ clock' = clock + 1
    /\ UNCHANGED <<dbVars, creation, get, edit, audited, edits, history>>

--------------------------------------------------------------------------

Visit(w) == \/ Fetch(w) \/ Count(w) \/ Refresh(w) \/ Answer(w) \/ FailCounted(w)
            \/ \E given \in Password \cup {NoPassword} : Refuse(w, given) \/ Clear(w, given)

Owner == \/ \E post \in Posts : Create(post)
         \/ Protect \/ CreateCrashes \/ Destroy \/ DeleteDocument
         \/ \E e \in Editor : \/ \E p \in Patches : Load(e, p)
                              \/ Save(e) \/ SavePassword(e) \/ EditFails(e)

Next == Tick \/ Owner \/ \E w \in Worker : Visit(w)

Spec == Init /\ [][Next]_vars

--------------------------------------------------------------------------
(* Properties *)

\* Every variable keeps its type.
TypeOK ==
    /\ link \in Row \cup {NoLink}
    /\ document \in BOOLEAN
    /\ clock \in Nat
    /\ creation \in [pc : CreatePc, password : Password \cup {NoPassword}]
    /\ get \in [Worker -> [pc : GetPc, snap : Row \cup {NoLink}, none : BOOLEAN]]
    /\ edit \in [Editor -> [pc : EditPc, snap : Row \cup {NoLink}, patch : Patch]]
    /\ audited \in Nat
    /\ edits \in Nat
    /\ disturbed \in BOOLEAN /\ overlap \in BOOLEAN
    /\ broken \in BOOLEAN /\ exhausted \in BOOLEAN

\* The check of the limit and the increment are two statements, so the limit can
\* be passed; but never by more than the other workers of the deployment, each
\* of which holds at most one row read below the limit. A PATCH that moved the
\* limit or overwrote the counter ends the guarantee.
DownloadsBounded ==
    ~disturbed /\ link # NoLink /\ Limited(link) =>
        link.download_count <= link.max_downloads + Cardinality(Worker) - 1

\* download_count and the audit trail tell the same story: each counted download
\* has its audit row, or the request that counted it is still running.
CountMatchesTrail ==
    ~disturbed /\ ~broken /\ link # NoLink =>
        link.download_count = audited + Cardinality(Counted)

\* Once a response said remaining_downloads = 0, no later request reads a row
\* that is below its limit.
ZeroMeansClosed ==
    [][exhausted /\ ~disturbed' => Pending' \subseteq Pending]_vars

\* While the owner's writes do not overlap, a link that was deleted or
\* deactivated serves nobody until the owner asks for it again.
RevocationSticks ==
    [][LET Revoked(row) == row = NoLink \/ ~row.is_active
       IN creation.pc # "none" /\ ~overlap' /\ Revoked(link) /\ ~Revoked(link')
            => \E e \in Editor : edit[e].pc = "loaded" /\ edit[e].patch.is_active = TRUE]_vars

\* While the owner's writes do not overlap, a protected link loses its password
\* only to a PATCH that posts an empty one.
ProtectionSticks ==
    [][link # NoLink /\ link' # NoLink /\ ~overlap' /\ link.password # NoPassword
            /\ link'.password = NoPassword
            => \E e \in Editor : edit[e].patch.password = NoPassword]_vars

\* The abstract quota: a link whose limit and counter nobody rewrote. A ticket is a
\* handler that holds a row below its limit.
Metered == link # NoLink /\ ~disturbed /\ Limited(link)

Quota == INSTANCE DownloadQuota WITH
            Slack   <- Cardinality(Worker),
            phase   <- IF creation.pc = "none" THEN "new" ELSE IF Metered THEN "open" ELSE "over",
            quota   <- IF Metered THEN link.max_downloads ELSE 0,
            tickets <- IF Metered THEN Cardinality(Pending) ELSE 0,
            counted <- IF Metered THEN link.download_count ELSE 0

\* Every behaviour of the link is one of the quota: a download is counted only by
\* a handler that took a ticket below the limit, one download for each ticket, no
\* more tickets than workers, and a link that is over stays over.
ImplementsQuota == Quota!Spec

\* cors/models.py:320: a link may have "download limits". No more downloads are
\* answered than the limit of the link, which nobody changed.
DownloadLimit ==
    ~disturbed /\ link # NoLink /\ Limited(link) => audited <= link.max_downloads
=============================================================================
