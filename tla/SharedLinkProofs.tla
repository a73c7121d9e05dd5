------------------------- MODULE SharedLinkProofs -------------------------
(***************************************************************************)
(* Theorems about SharedLink, for every number of workers and editors and  *)
(* every set of limits, instants, passwords and PATCH bodies: its types, the *)
(* bound on downloads, the audit trail, what a visitor was told, what the  *)
(* owner decided, and that it implements DownloadQuota.                    *)
(***************************************************************************)
EXTENDS SharedLink, FiniteSetTheorems, TLAPS

--------------------------------------------------------------------------
(* Types *)

\* A full-row save writes a row: an unposted field keeps the value of the
\* instance, a posted one has passed the serializer.
LEMMA OverwrittenIsRow ==
    ASSUME NEW snap \in Row, NEW p \in Patch
    PROVE  Overwritten(snap, p) \in Row
BY KeepAssumption, Zenon DEF Overwritten, Posted, Row, Patch, Field

\* The idle PATCH handler is well typed.
LEMMA RestingTyped ==
    Resting \in [pc : EditPc, snap : Row \cup {NoLink}, patch : Patch]
<1>1. NoPatch \in Patch
  BY Zenon DEF NoPatch, Patch, Field
<1>2. QED
  BY <1>1 DEF Resting, EditPc

\* What the handlers hold. A handler that has read the row holds a row; a
\* handler that passed is_expired holds one below its limit.
Below(row) == Limited(row) => row.download_count < row.max_downloads

Held ==
    /\ \A w \in Worker : get[w].pc \in {"fetched", "cleared", "counted"} => get[w].snap \in Row
    /\ \A w \in Worker : get[w].pc = "cleared" => Below(get[w].snap)
    /\ \A e \in Editor : edit[e].pc # "idle" => edit[e].snap \in Row
    /\ \A e \in Editor : edit[e].pc = "saved" => edit[e].patch.password # Keep

\* Before the owner's POST there is no row, and nobody has anything to serve.
Fresh == creation.pc = "none" => /\ link = NoLink
                                 /\ audited = 0
                                 /\ \A w \in Worker : get[w].pc = "idle"
                                 /\ \A e \in Editor : edit[e].pc = "idle"

TypeInv == TypeOK /\ Held /\ Fresh

\* The initial state is well typed and nobody holds anything.
THEOREM TypeInvInit == Init => TypeInv
<1> SUFFICES ASSUME Init PROVE TypeInv
  OBVIOUS
<1>1. TypeOK
  BY RestingTyped DEF Init, TypeOK, Idle, GetPc, CreatePc
<1>2. Held
  BY DEF Init, Held, Idle, Resting
<1>3. Fresh
  BY DEF Init, Fresh, Idle, Resting
<1>4. QED
  BY <1>1, <1>2, <1>3 DEF TypeInv

\* A step of a public GET keeps the types and what the handlers hold.
LEMMA VisitKeepsTypes ==
    ASSUME TypeInv, NEW w \in Worker, Visit(w)
    PROVE  TypeInv'
<1> USE NoLinkAssumption DEF TypeInv, TypeOK, Held, Fresh, Below, GetPc, SetGet, dbVars, history
<1>1. CASE Fetch(w)
  BY <1>1 DEF Fetch
<1>2. ASSUME NEW given \in Password \cup {NoPassword}, Refuse(w, given)
      PROVE  TypeInv'
  BY <1>2 DEF Refuse, Idle
<1>3. ASSUME NEW given \in Password \cup {NoPassword}, Clear(w, given)
      PROVE  TypeInv'
  BY <1>3, LimitAssumption DEF Clear, IsExpired, Limited, Row
<1>4. CASE Count(w)
  <2>1. link' \in Row \cup {NoLink} /\ (link = NoLink => link' = NoLink)
    BY <1>4, SMTT(30) DEF Count, Incremented, Row
  <2>2. get' = [get EXCEPT ![w] = [get[w] EXCEPT !.pc = "counted"]]
    BY <1>4 DEF Count
  <2>3. get' \in [Worker -> [pc : GetPc, snap : Row \cup {NoLink}, none : BOOLEAN]]
    BY <2>2
  <2>4. Held'
    BY <1>4, <2>2 DEF Count
  <2>5. QED
    BY <1>4, <2>1, <2>3, <2>4 DEF Count
<1>5. CASE Refresh(w)
  <2>1. NoneRemains(get[w].snap, link.download_count) \in BOOLEAN
    BY DEF NoneRemains
  <2>2. QED
    BY <1>5, <2>1 DEF Refresh
<1>6. CASE Answer(w)
  BY <1>6 DEF Answer, Idle
<1>7. CASE FailCounted(w)
  BY <1>7 DEF FailCounted, Idle
<1>8. QED
  BY <1>1, <1>2, <1>3, <1>4, <1>5, <1>6, <1>7 DEF Visit

\* A step of the owner keeps the types and what the handlers hold.
LEMMA OwnerKeepsTypes ==
    ASSUME TypeInv, Owner
    PROVE  TypeInv'
<1> USE NoLinkAssumption DEF TypeInv, TypeOK, Held, Fresh, Below, EditPc, CreatePc, SetEdit, dbVars, history
<1>1. ASSUME NEW post \in Posts, Create(post)
      PROVE  TypeInv'
  <2>1. link' \in Row /\ post.password \in Password \cup {NoPassword}
    <3>1. /\ post \in [is_active : BOOLEAN, max_downloads : Limit \cup {Unlimited},
                        expires_at : Instant \cup {Never},
                        password : Password \cup {NoPassword}, download_count : {0}]
          /\ link' = [post EXCEPT !.password = NoPassword]
      BY <1>1, PostAssumption DEF Create
    <3>2. QED
      BY <3>1 DEF Row
  <2>2. /\ creation' \in [pc : CreatePc, password : Password \cup {NoPassword}]
        /\ creation'.pc # "none"
    BY <1>1, <2>1 DEF Create
  <2>3. QED
    BY <1>1, <2>1, <2>2 DEF Create
<1>2. CASE Protect
  BY <1>2 DEF Protect, Row
<1>3. CASE CreateCrashes
  BY <1>3 DEF CreateCrashes
<1>4. CASE Destroy
  BY <1>4 DEF Destroy
<1>5. CASE DeleteDocument
  BY <1>5 DEF DeleteDocument
<1>6. ASSUME NEW e \in Editor, NEW p \in Patches, Load(e, p)
      PROVE  TypeInv'
  BY <1>6, PatchAssumption DEF Load
<1>7. ASSUME NEW e \in Editor, Save(e)
      PROVE  TypeInv'
  <2> DEFINE row == Overwritten(edit[e].snap, edit[e].patch)
  <2>1. row \in Row
    BY <1>7, OverwrittenIsRow DEF Save
  <2>2. Resting.pc = "idle" /\ row # NoLink
    BY <2>1 DEF Resting
  <2>3. link' = row /\ disturbed' \in BOOLEAN
    BY <1>7 DEF Save
  <2>4. \/ edit' = [edit EXCEPT ![e] = Resting]
        \/ /\ edit' = [edit EXCEPT ![e] = [edit[e] EXCEPT !.pc = "saved"]]
           /\ edit[e].patch.password # Keep
    BY <1>7 DEF Save
  <2>5. /\ creation.pc # "none"
        /\ edit[e].snap \in Row
    BY <1>7 DEF Save
  <2> HIDE DEF row
  <2>6. edit' \in [Editor -> [pc : EditPc, snap : Row \cup {NoLink}, patch : Patch]]
    BY <2>4, RestingTyped
  <2>7. Held'
    BY <1>7, <2>2, <2>4 DEF Save
  <2>8. QED
    BY <1>7, <2>1, <2>2, <2>3, <2>5, <2>6, <2>7 DEF Save
<1>8. ASSUME NEW e \in Editor, SavePassword(e)
      PROVE  TypeInv'
  <2>1. link' \in Row
    BY <1>8 DEF SavePassword, Row, Patch, Field
  <2>2. Resting.pc = "idle"
    BY DEF Resting
  <2>3. edit' = [edit EXCEPT ![e] = Resting]
    BY <1>8 DEF SavePassword
  <2>4. edit' \in [Editor -> [pc : EditPc, snap : Row \cup {NoLink}, patch : Patch]]
    BY <2>3, RestingTyped
  <2>5. Held'
    BY <1>8, <2>2, <2>3 DEF SavePassword
  <2>6. creation.pc # "none"
    BY <1>8 DEF SavePassword
  <2>7. QED
    BY <1>8, <2>1, <2>4, <2>5, <2>6 DEF SavePassword
<1>9. ASSUME NEW e \in Editor, EditFails(e)
      PROVE  TypeInv'
  BY <1>9, RestingTyped DEF EditFails, Resting
<1>10. QED
  BY <1>1, <1>2, <1>3, <1>4, <1>5, <1>6, <1>7, <1>8, <1>9 DEF Owner

\* Every step keeps the types and what the handlers hold.
LEMMA NextKeepsTypes == TypeInv /\ [Next]_vars => TypeInv'
<1> SUFFICES ASSUME TypeInv, [Next]_vars PROVE TypeInv'
  OBVIOUS
<1>1. CASE Tick
  BY <1>1 DEF Tick, TypeInv, TypeOK, Held, Fresh, Below, Limited, dbVars, history
<1>2. CASE UNCHANGED vars
  BY <1>2 DEF vars, TypeInv, TypeOK, Held, Fresh, Below, Limited, dbVars, history
<1>3. QED
  BY <1>1, <1>2, VisitKeepsTypes, OwnerKeepsTypes DEF Next

\* Every variable keeps its type, and every handler past a check still holds a
\* row that passed it.
THEOREM TypeCorrect == Spec => []TypeInv
BY TypeInvInit, NextKeepsTypes, PTL DEF Spec

\* The type invariant of the run.
THEOREM TypesOK == Spec => []TypeOK
<1>1. TypeInv => TypeOK
  BY DEF TypeInv
<1>2. QED
  BY <1>1, TypeCorrect, PTL

--------------------------------------------------------------------------
(* The limit *)

\* The inductive form of DownloadsBounded: what is counted and what the handlers
\* in flight may still count, together.
PendingBounded ==
    ~disturbed /\ link # NoLink /\ Limited(link) =>
        link.download_count + Cardinality(Pending)
            <= link.max_downloads + Cardinality(Worker) - 1

\* A set of workers is finite and no larger than the deployment.
LEMMA WorkerSubset ==
    ASSUME NEW S \in SUBSET Worker
    PROVE  /\ IsFiniteSet(S)
           /\ Cardinality(S) \in Nat
           /\ Cardinality(S) <= Cardinality(Worker)
BY WorkerAssumption, FS_Subset, FS_CardinalityType

\* There is a worker.
LEMMA SomeWorker == Cardinality(Worker) \in Nat /\ Cardinality(Worker) >= 1
BY WorkerAssumption, FS_EmptySet, FS_CardinalityType

\* A limited row has numbers to compare.
LEMMA LimitedRow ==
    ASSUME NEW row \in Row, Limited(row)
    PROVE  row.max_downloads \in Nat /\ row.download_count \in Nat
BY LimitAssumption DEF Row, Limited

\* A step that adds no pending handler and leaves the limit and the counter
\* alone keeps the bound.
LEMMA QuietStepKeepsBound ==
    ASSUME TypeInv, TypeInv', PendingBounded, Pending' \subseteq Pending,
           \/ disturbed'
           \/ link' = NoLink
           \/ /\ ~disturbed /\ link # NoLink
              /\ link'.max_downloads = link.max_downloads
              /\ link'.download_count = link.download_count
    PROVE  PendingBounded'
<1> SUFFICES ASSUME ~disturbed', link' # NoLink, Limited(link')
             PROVE  link'.download_count + Cardinality(Pending')
                        <= link'.max_downloads + Cardinality(Worker) - 1
  BY DEF PendingBounded, Limited
<1>1. link \in Row /\ Limited(link)
  BY DEF TypeInv, TypeOK, Limited
<1>2. Cardinality(Pending') <= Cardinality(Pending)
  <2>1. Pending \in SUBSET Worker
    BY DEF Pending, InFlight
  <2>2. QED
    BY <2>1, WorkerSubset, FS_Subset
<1>3. /\ Cardinality(Pending) \in Nat
      /\ Cardinality(Pending') \in Nat
  BY WorkerSubset DEF Pending, InFlight
<1>4. QED
  BY <1>1, <1>2, <1>3, LimitedRow, SomeWorker DEF PendingBounded

\* A step of a public GET keeps the bound: Fetch may add a pending handler below
\* the limit, Count trades one for a download.
LEMMA VisitKeepsBound ==
    ASSUME TypeInv, TypeInv', PendingBounded, NEW w \in Worker, Visit(w)
    PROVE  PendingBounded'
<1> USE DEF TypeInv, TypeOK
<1>1. CASE Fetch(w)
  <2> SUFFICES ASSUME ~disturbed, Limited(link)
               PROVE  link.download_count + Cardinality(Pending')
                          <= link.max_downloads + Cardinality(Worker) - 1
    BY <1>1 DEF PendingBounded, Fetch, dbVars, history, Limited
  <2>1. link \in Row /\ link # NoLink
    BY <1>1 DEF Fetch
  <2>2. /\ link.max_downloads \in Nat /\ link.download_count \in Nat
        /\ Cardinality(Worker) \in Nat
        /\ Cardinality(Pending) \in Nat /\ Cardinality(Pending') \in Nat
        /\ Cardinality(Pending') <= Cardinality(Worker)
    BY <2>1, LimitedRow, SomeWorker, WorkerSubset DEF Pending, InFlight
  <2>3. CASE link.download_count < link.max_downloads
    BY <2>2, <2>3
  <2>4. CASE ~(link.download_count < link.max_downloads)
    <3>1. get' = [get EXCEPT ![w] = [pc |-> "fetched", snap |-> link, none |-> FALSE]]
      BY <1>1 DEF Fetch, SetGet
    <3>2. Pending' \subseteq Pending
      BY <2>4, <3>1 DEF Pending, InFlight, Limited
    <3>3. Cardinality(Pending') <= Cardinality(Pending)
      BY <3>2, WorkerSubset, FS_Subset DEF Pending, InFlight
    <3>4. QED
      BY <2>1, <2>2, <3>3 DEF PendingBounded
  <2>5. QED
    BY <2>3, <2>4
<1>2. CASE Count(w)
  <2> SUFFICES ASSUME ~disturbed, link # NoLink, Limited(link)
               PROVE  link'.download_count + Cardinality(Pending')
                          <= link'.max_downloads + Cardinality(Worker) - 1
    BY <1>2 DEF PendingBounded, Count, Incremented, history, Limited, Row
  <2>1. /\ link'.download_count = link.download_count + 1
        /\ link'.max_downloads = link.max_downloads
    BY <1>2 DEF Count, Incremented, Row
  <2>2. get' = [get EXCEPT ![w] = [get[w] EXCEPT !.pc = "counted"]]
    BY <1>2 DEF Count, SetGet
  <2>3. w \in Pending
    BY <1>2 DEF Count, Held, Below, Pending, InFlight
  <2>4. Pending' = Pending \ {w}
    BY <2>2 DEF Pending, InFlight
  <2>5. Cardinality(Pending') = Cardinality(Pending) - 1
    <3>1. IsFiniteSet(Pending)
      BY WorkerSubset DEF Pending, InFlight
    <3>2. QED
      BY <2>3, <2>4, <3>1, FS_RemoveElement
  <2>6. /\ link.max_downloads \in Nat /\ link.download_count \in Nat
        /\ Cardinality(Worker) \in Nat /\ Cardinality(Pending) \in Nat
    BY LimitedRow, SomeWorker, WorkerSubset DEF Pending, InFlight
  <2>7. QED
    BY <2>1, <2>5, <2>6 DEF PendingBounded
<1>3. ASSUME \/ \E given \in Password \cup {NoPassword} : Refuse(w, given) \/ Clear(w, given)
             \/ Refresh(w) \/ Answer(w) \/ FailCounted(w)
      PROVE  PendingBounded'
  <2>1. \/ get' = [get EXCEPT ![w] = Idle]
        \/ /\ get[w].pc = "fetched"
           /\ get' = [get EXCEPT ![w] = [get[w] EXCEPT !.pc = "cleared"]]
        \/ get' = [get EXCEPT ![w] = [pc |-> "refreshed", snap |-> NoLink,
                       none |-> NoneRemains(get[w].snap, link.download_count)]]
    BY <1>3 DEF Refuse, Clear, Refresh, Answer, FailCounted, SetGet
  <2>2. Pending' \subseteq Pending
    BY <2>1 DEF Pending, InFlight, Idle
  <2>3. link' = link /\ disturbed' = disturbed
    BY <1>3 DEF Refuse, Clear, Refresh, Answer, FailCounted, dbVars, history
  <2>4. QED
    BY <2>2, <2>3, QuietStepKeepsBound
<1>4. QED
  BY <1>1, <1>2, <1>3 DEF Visit

\* A step of the owner keeps the bound or is disturbing.
LEMMA OwnerKeepsBound ==
    ASSUME TypeInv, TypeInv', PendingBounded, Owner
    PROVE  PendingBounded'
<1> USE DEF TypeInv, TypeOK
<1>1. ASSUME NEW post \in Posts, Create(post)
      PROVE  PendingBounded'
  <2>1. Pending' = {} /\ link'.download_count = 0
    BY <1>1, PostAssumption DEF Create, Fresh, Pending, InFlight
  <2>2. link' \in Row /\ (Limited(link') => link'.max_downloads \in Nat)
    BY <1>1, <2>1, LimitedRow, PostAssumption DEF Create, Row
  <2>3. QED
    <3>1. Cardinality(Pending') = 0
      BY <2>1, FS_EmptySet
    <3>2. Limited(link') => link'.download_count + Cardinality(Pending')
                                <= link'.max_downloads + Cardinality(Worker) - 1
      BY <2>1, <2>2, <3>1, SomeWorker
    <3>3. QED
      BY <3>2 DEF PendingBounded, Limited
<1>2. ASSUME NEW e \in Editor, Save(e)
      PROVE  PendingBounded'
  BY <1>2, QuietStepKeepsBound DEF Save, Pending, InFlight
<1>3. ASSUME NEW e \in Editor, SavePassword(e)
      PROVE  PendingBounded'
  BY <1>3, QuietStepKeepsBound DEF SavePassword, Pending, InFlight, history, Row
<1>4. CASE Protect
  BY <1>4, QuietStepKeepsBound DEF Protect, Pending, InFlight, Row
<1>5. ASSUME \/ CreateCrashes \/ Destroy \/ DeleteDocument
             \/ \E e \in Editor : EditFails(e) \/ \E p \in Patches : Load(e, p)
      PROVE  PendingBounded'
  BY <1>5, QuietStepKeepsBound
     DEF CreateCrashes, Destroy, DeleteDocument, EditFails, Load, Pending, InFlight, dbVars, history
<1>6. QED
  BY <1>1, <1>2, <1>3, <1>4, <1>5 DEF Owner

\* What is counted and what may still be counted, together, pass the limit by at
\* most the number of workers less one.
THEOREM PendingBoundInvariant == Spec => []PendingBounded
<1>1. Init => PendingBounded
  BY DEF Init, PendingBounded
<1>2. TypeInv /\ TypeInv' /\ PendingBounded /\ [Next]_vars => PendingBounded'
  <2> SUFFICES ASSUME TypeInv, TypeInv', PendingBounded, [Next]_vars
               PROVE  PendingBounded'
    OBVIOUS
  <2>1. CASE Tick \/ UNCHANGED vars
    BY <2>1, QuietStepKeepsBound DEF Tick, vars, Pending, InFlight, dbVars, history
  <2>2. QED
    BY <2>1, VisitKeepsBound, OwnerKeepsBound DEF Next
<1>3. QED
  BY <1>1, <1>2, TypeCorrect, PTL DEF Spec

\* The limit of a link can be passed by no more than the number of workers less
\* one, whatever the interleaving of requests.
THEOREM DownloadsAreBounded == Spec => []DownloadsBounded
<1>1. TypeInv /\ PendingBounded => DownloadsBounded
  <2> SUFFICES ASSUME TypeInv, PendingBounded, ~disturbed, link # NoLink, Limited(link)
               PROVE  link.download_count <= link.max_downloads + Cardinality(Worker) - 1
    BY DEF DownloadsBounded
  <2>1. /\ link.max_downloads \in Nat /\ link.download_count \in Nat
        /\ Cardinality(Worker) \in Nat /\ Cardinality(Pending) \in Nat
    BY LimitedRow, SomeWorker, WorkerSubset DEF Pending, InFlight, TypeInv, TypeOK
  <2>2. QED
    BY <2>1 DEF PendingBounded
<1>2. QED
  BY <1>1, TypeCorrect, PendingBoundInvariant, PTL

--------------------------------------------------------------------------
(* The audit trail *)

\* A step of a public GET keeps counter and trail in step.
LEMMA VisitKeepsTrail ==
    ASSUME TypeInv, CountMatchesTrail, NEW w \in Worker, Visit(w)
    PROVE  CountMatchesTrail'
<1> USE DEF TypeInv, TypeOK
<1>1. /\ Counted \in SUBSET Worker
      /\ IsFiniteSet(Counted)
      /\ Cardinality(Counted) \in Nat
  BY WorkerSubset DEF Counted
<1>2. ASSUME Counted' = Counted, link' = link, audited' = audited,
             disturbed' = disturbed, broken' = broken
      PROVE  CountMatchesTrail'
  BY <1>2 DEF CountMatchesTrail
<1>3. CASE Fetch(w)
  BY <1>3, <1>2 DEF Fetch, SetGet, Counted, dbVars, history
<1>4. ASSUME NEW given \in Password \cup {NoPassword}, Refuse(w, given) \/ Clear(w, given)
      PROVE  CountMatchesTrail'
  BY <1>4, <1>2 DEF Refuse, Clear, SetGet, Idle, Counted, dbVars, history
<1>5. CASE Count(w)
  <2> SUFFICES ASSUME ~disturbed, ~broken, link # NoLink
               PROVE  link'.download_count = audited' + Cardinality(Counted')
    BY <1>5 DEF CountMatchesTrail, Count, history
  <2>1. get' = [get EXCEPT ![w] = [get[w] EXCEPT !.pc = "counted"]]
    BY <1>5 DEF Count, SetGet
  <2>2. w \notin Counted /\ Counted' = Counted \cup {w}
    BY <1>5, <2>1 DEF Count, Counted
  <2>3. Cardinality(Counted') = Cardinality(Counted) + 1
    BY <1>1, <2>2, FS_AddElement
  <2>4. link'.download_count = link.download_count + 1 /\ audited' = audited
    BY <1>5 DEF Count, Incremented, Row
  <2>5. QED
    BY <1>1, <2>3, <2>4 DEF CountMatchesTrail
<1>6. CASE Refresh(w)
  <2>1. get[w].pc = "counted" /\ get'[w].pc = "refreshed"
    BY <1>6 DEF Refresh, SetGet
  <2>2. \A v \in Worker : v # w => get'[v] = get[v]
    BY <1>6 DEF Refresh, SetGet
  <2>3. Counted' = Counted
    BY <2>1, <2>2 DEF Counted
  <2>4. QED
    BY <1>6, <2>3, <1>2 DEF Refresh, dbVars, history
<1>7. CASE Answer(w)
  <2> SUFFICES ASSUME ~disturbed, ~broken, link # NoLink
               PROVE  link'.download_count = audited' + Cardinality(Counted')
    BY <1>7 DEF CountMatchesTrail, Answer, dbVars
  <2>1. get' = [get EXCEPT ![w] = Idle]
    BY <1>7 DEF Answer, SetGet
  <2>2. w \in Counted /\ Counted' = Counted \ {w}
    BY <1>7, <2>1 DEF Answer, Counted, Idle
  <2>3. Cardinality(Counted') = Cardinality(Counted) - 1
    BY <1>1, <2>2, FS_RemoveElement
  <2>4. link' = link /\ audited' = audited + 1
    BY <1>7 DEF Answer, dbVars
  <2>5. QED
    BY <1>1, <2>3, <2>4 DEF CountMatchesTrail
<1>8. CASE FailCounted(w)
  BY <1>8 DEF FailCounted, CountMatchesTrail
<1>9. QED
  BY <1>3, <1>4, <1>5, <1>6, <1>7, <1>8 DEF Visit

\* A step of the owner keeps counter and trail in step, or is disturbing.
LEMMA OwnerKeepsTrail ==
    ASSUME TypeInv, CountMatchesTrail, Owner
    PROVE  CountMatchesTrail'
<1> USE DEF TypeInv, TypeOK
<1>1. ASSUME NEW post \in Posts, Create(post)
      PROVE  CountMatchesTrail'
  <2>1. Counted' = {} /\ audited' = 0 /\ link'.download_count = 0
    BY <1>1, PostAssumption DEF Create, Fresh, Counted
  <2>2. QED
    BY <2>1, FS_EmptySet DEF CountMatchesTrail
<1>2. ASSUME get' = get, audited' = audited, broken' = broken, disturbed => disturbed',
             \/ disturbed'
             \/ link' = NoLink
             \/ link # NoLink /\ link'.download_count = link.download_count
      PROVE  CountMatchesTrail'
  BY <1>2 DEF CountMatchesTrail, Counted
<1>3. ASSUME NEW e \in Editor, Save(e) \/ SavePassword(e)
      PROVE  CountMatchesTrail'
  BY <1>3, <1>2 DEF Save, SavePassword, history, Row
<1>4. CASE Protect
  BY <1>4, <1>2 DEF Protect, Row
<1>5. ASSUME \/ CreateCrashes \/ Destroy \/ DeleteDocument
             \/ \E e \in Editor : EditFails(e) \/ \E p \in Patches : Load(e, p)
      PROVE  CountMatchesTrail'
  BY <1>5, <1>2 DEF CreateCrashes, Destroy, DeleteDocument, EditFails, Load, dbVars, history
<1>6. QED
  BY <1>1, <1>3, <1>4, <1>5 DEF Owner

\* Every counted download is in the audit trail or still being answered.
THEOREM CountsAreAudited == Spec => []CountMatchesTrail
<1>1. Init => CountMatchesTrail
  BY DEF Init, CountMatchesTrail
<1>2. TypeInv /\ CountMatchesTrail /\ [Next]_vars => CountMatchesTrail'
  <2> SUFFICES ASSUME TypeInv, CountMatchesTrail, [Next]_vars
               PROVE  CountMatchesTrail'
    OBVIOUS
  <2>1. CASE Tick \/ UNCHANGED vars
    BY <2>1 DEF Tick, vars, CountMatchesTrail, Counted, dbVars, history
  <2>2. QED
    BY <2>1, VisitKeepsTrail, OwnerKeepsTrail DEF Next
<1>3. QED
  BY <1>1, <1>2, TypeCorrect, PTL DEF Spec

--------------------------------------------------------------------------
(* What a visitor was told *)

Full(row) == Limited(row) /\ row.download_count >= row.max_downloads

Reading == {w \in Worker : get[w].pc \in {"fetched", "cleared", "counted"}}
Told    == {w \in Worker : get[w].pc = "refreshed" /\ get[w].none}

\* While nobody moves the limit or the counter, every handler holds the limit of
\* the row, and whoever was told that nothing remains, or is about to be, was
\* told the truth.
Truthful ==
    /\ creation.pc = "none" => ~exhausted
    /\ ~disturbed /\ link # NoLink =>
          /\ \A w \in Reading : get[w].snap.max_downloads = link.max_downloads
          /\ exhausted \/ Told # {} => Full(link)

\* A step that adds no reader and nothing told, and leaves the limit and the
\* counter alone.
LEMMA QuietStepKeepsTruth ==
    ASSUME Truthful, creation.pc # "none", creation'.pc # "none", exhausted' => exhausted,
           \A w \in Reading' : w \in Reading /\ get'[w].snap = get[w].snap,
           Told' \subseteq Told,
           \/ disturbed'
           \/ link' = NoLink
           \/ /\ ~disturbed /\ link # NoLink
              /\ link'.max_downloads = link.max_downloads
              /\ link'.download_count = link.download_count
    PROVE  Truthful'
BY DEF Truthful, Full, Limited

\* A step of a public GET: Count moves the counter up, Refresh tells what the row
\* says, Answer passes it on.
LEMMA VisitKeepsTruth ==
    ASSUME TypeInv, Truthful, NEW w \in Worker, Visit(w)
    PROVE  Truthful'
<1> USE DEF TypeInv, TypeOK, SetGet
<1>1. creation.pc # "none" \/ Fetch(w)
  BY DEF Visit, Fresh, Refuse, Clear, Count, Refresh, Answer, FailCounted
<1>2. CASE Fetch(w)
  <2>1. get' = [get EXCEPT ![w] = [pc |-> "fetched", snap |-> link, none |-> FALSE]]
    BY <1>2 DEF Fetch
  <2>2. Told' \subseteq Told
    BY <2>1 DEF Told
  <2>3. /\ link' = link /\ disturbed' = disturbed /\ exhausted' = exhausted
        /\ creation' = creation
    BY <1>2 DEF Fetch, dbVars, history
  <2>4. \A v \in Reading' : \/ v = w /\ get'[v].snap = link
                            \/ v \in Reading /\ get'[v] = get[v]
    BY <2>1 DEF Reading
  <2>5. QED
    BY <2>2, <2>3, <2>4 DEF Truthful, Full, Limited
<1>3. ASSUME NEW given \in Password \cup {NoPassword}, Refuse(w, given) \/ Clear(w, given)
      PROVE  Truthful'
  <2>1. \/ get' = [get EXCEPT ![w] = Idle]
        \/ get[w].pc = "fetched" /\ get' = [get EXCEPT ![w] = [get[w] EXCEPT !.pc = "cleared"]]
    BY <1>3 DEF Refuse, Clear
  <2>2. /\ \A v \in Reading' : v \in Reading /\ get'[v].snap = get[v].snap
        /\ Told' \subseteq Told
    BY <2>1 DEF Reading, Told, Idle
  <2>3. /\ link' = link /\ disturbed' = disturbed /\ exhausted' = exhausted
        /\ creation' = creation
    BY <1>3 DEF Refuse, Clear, dbVars, history
  <2>4. QED
    BY <2>2, <2>3 DEF Truthful, Full, Limited
<1>4. CASE Count(w)
  <2>1. get[w].pc = "cleared" /\ get' = [get EXCEPT ![w] = [get[w] EXCEPT !.pc = "counted"]]
    BY <1>4 DEF Count
  <2>2. /\ \A v \in Reading' : v \in Reading /\ get'[v].snap = get[v].snap
        /\ Told' \subseteq Told
    BY <2>1 DEF Reading, Told
  <2>3. /\ disturbed' = disturbed /\ exhausted' = exhausted /\ creation' = creation
        /\ (link = NoLink => link' = NoLink)
        /\ link # NoLink => /\ link'.max_downloads = link.max_downloads
                            /\ link'.download_count = link.download_count + 1
    BY <1>4 DEF Count, Incremented, Row, history
  <2>4. link # NoLink => (Full(link) => Full(link'))
    <3>1. SUFFICES ASSUME link # NoLink, Full(link) PROVE Full(link')
      OBVIOUS
    <3>2. link.max_downloads \in Nat /\ link.download_count \in Nat
      BY <3>1, LimitedRow DEF Full
    <3>3. QED
      BY <2>3, <3>1, <3>2 DEF Full, Limited
  <2>5. QED
    BY <2>2, <2>3, <2>4 DEF Truthful
<1>5. CASE Refresh(w)
  <2>1. /\ get[w].pc = "counted" /\ link # NoLink
        /\ get' = [get EXCEPT ![w] = [pc |-> "refreshed", snap |-> NoLink,
                       none |-> NoneRemains(get[w].snap, link.download_count)]]
    BY <1>5 DEF Refresh
  <2>2. /\ link' = link /\ disturbed' = disturbed /\ exhausted' = exhausted
        /\ creation' = creation
    BY <1>5 DEF Refresh, dbVars, history
  <2>3. \A v \in Reading' : v \in Reading /\ get'[v].snap = get[v].snap
    BY <2>1 DEF Reading
  <2>4. \A v \in Told' : v \in Told \/ (v = w /\ NoneRemains(get[w].snap, link.download_count))
    BY <2>1 DEF Told
  <2>5. ~disturbed /\ NoneRemains(get[w].snap, link.download_count) => Full(link)
    BY <2>1 DEF Truthful, NoneRemains, Full, Limited, Reading
  <2>6. QED
    BY <2>2, <2>3, <2>4, <2>5 DEF Truthful, Full, Limited
<1>6. CASE Answer(w) \/ FailCounted(w)
  <2>1. get' = [get EXCEPT ![w] = Idle]
    BY <1>6 DEF Answer, FailCounted
  <2>2. /\ \A v \in Reading' : v \in Reading /\ get'[v].snap = get[v].snap
        /\ Told' \subseteq Told
    BY <2>1 DEF Reading, Told, Idle
  <2>3. /\ link' = link /\ disturbed' = disturbed /\ creation' = creation
        /\ exhausted' => exhausted \/ w \in Told
    BY <1>6 DEF Answer, FailCounted, dbVars, Told
  <2>4. creation'.pc # "none"
    BY <1>1, <1>6, <2>3 DEF Fresh, Answer, FailCounted
  <2>5. QED
    BY <2>2, <2>3, <2>4 DEF Truthful, Full, Limited
<1>7. QED
  BY <1>2, <1>3, <1>4, <1>5, <1>6 DEF Visit

\* A step of the owner: a PATCH that moves the limit or the counter is disturbing.
LEMMA OwnerKeepsTruth ==
    ASSUME TypeInv, Truthful, Owner
    PROVE  Truthful'
<1> USE DEF TypeInv, TypeOK
<1>1. ASSUME NEW post \in Posts, Create(post)
      PROVE  Truthful'
  BY <1>1 DEF Create, Fresh, Truthful, Reading, Told, history
<1>2. ASSUME creation.pc # "none", creation'.pc # "none", get' = get, exhausted' = exhausted,
             \/ disturbed'
             \/ link' = NoLink
             \/ /\ ~disturbed /\ link # NoLink
                /\ link'.max_downloads = link.max_downloads
                /\ link'.download_count = link.download_count
      PROVE  Truthful'
  BY <1>2, QuietStepKeepsTruth DEF Reading, Told
<1>3. ASSUME NEW e \in Editor, Save(e)
      PROVE  Truthful'
  BY <1>3, <1>2 DEF Save, Fresh
<1>4. ASSUME NEW e \in Editor, SavePassword(e)
      PROVE  Truthful'
  BY <1>4, <1>2 DEF SavePassword, Fresh, Row, history
<1>5. CASE Protect
  BY <1>5, <1>2 DEF Protect, Row
<1>6. ASSUME \/ CreateCrashes \/ Destroy \/ DeleteDocument
             \/ \E e \in Editor : EditFails(e) \/ \E p \in Patches : Load(e, p)
      PROVE  Truthful'
  <2>1. /\ get' = get /\ exhausted' = exhausted /\ disturbed' = disturbed
        /\ link' = link \/ link' = NoLink
        /\ creation'.pc = "none" => creation.pc = "none"
    BY <1>6 DEF CreateCrashes, Destroy, DeleteDocument, EditFails, Load, dbVars, history
  <2>2. QED
    BY <2>1 DEF Truthful, Reading, Told, Full, Limited
<1>7. QED
  BY <1>1, <1>3, <1>4, <1>5, <1>6 DEF Owner

\* Nobody is told that no download remains while one does.
THEOREM TruthInvariant == Spec => []Truthful
<1>1. Init => Truthful
  BY DEF Init, Truthful
<1>2. TypeInv /\ Truthful /\ [Next]_vars => Truthful'
  <2> SUFFICES ASSUME TypeInv, Truthful, [Next]_vars PROVE Truthful'
    OBVIOUS
  <2>1. CASE Tick \/ UNCHANGED vars
    BY <2>1 DEF Tick, vars, Truthful, Reading, Told, Full, Limited, dbVars, history
  <2>2. QED
    BY <2>1, VisitKeepsTruth, OwnerKeepsTruth DEF Next
<1>3. QED
  BY <1>1, <1>2, TypeCorrect, PTL DEF Spec

\* Once a response said remaining_downloads = 0, no later request reads a row
\* that is below its limit: only requests already under way are still served.
THEOREM ZeroClosesTheLink == Spec => ZeroMeansClosed
<1> DEFINE Closed == exhausted /\ ~disturbed' => Pending' \subseteq Pending
<1>1. ASSUME TypeInv, Truthful, [Next]_vars
      PROVE  Closed
  <2> SUFFICES ASSUME exhausted, ~disturbed' PROVE Pending' \subseteq Pending
    OBVIOUS
  <2> USE <1>1 DEF TypeInv, TypeOK, SetGet
  <2>1. ASSUME NEW w \in Worker, Fetch(w)
        PROVE  Pending' \subseteq Pending
    <3>1. get' = [get EXCEPT ![w] = [pc |-> "fetched", snap |-> link, none |-> FALSE]]
      BY <2>1 DEF Fetch
    <3>2. Full(link) /\ link \in Row
      <4>1. ~disturbed /\ link # NoLink
        BY <2>1 DEF Fetch, history
      <4>2. QED
        BY <4>1 DEF Truthful
    <3>3. w \notin Pending'
      <4>1. get'[w].snap = link
        BY <3>1
      <4>2. Limited(link) /\ ~(link.download_count < link.max_downloads)
        BY <3>2, LimitedRow DEF Full
      <4>3. QED
        BY <4>1, <4>2 DEF Pending, Limited
    <3>4. QED
      BY <3>1, <3>3 DEF Pending, InFlight
  <2>2. ASSUME NEW w \in Worker, Visit(w), ~Fetch(w)
        PROVE  Pending' \subseteq Pending
    <3>1. \/ get' = [get EXCEPT ![w] = Idle]
          \/ /\ get[w].pc = "fetched"
             /\ get' = [get EXCEPT ![w] = [get[w] EXCEPT !.pc = "cleared"]]
          \/ get' = [get EXCEPT ![w] = [get[w] EXCEPT !.pc = "counted"]]
          \/ get' = [get EXCEPT ![w] = [pc |-> "refreshed", snap |-> NoLink,
                         none |-> NoneRemains(get[w].snap, link.download_count)]]
      BY <2>2 DEF Visit, Refuse, Clear, Count, Refresh, Answer, FailCounted
    <3>2. \A v \in Worker : v # w => get'[v] = get[v]
      BY <3>1
    <3>3. \/ get'[w].pc \notin {"fetched", "cleared"}
          \/ get[w].pc = "fetched" /\ get'[w].snap = get[w].snap
      BY <3>1 DEF Idle
    <3>4. QED
      BY <3>2, <3>3 DEF Pending, InFlight
  <2>3. ASSUME get' = get
        PROVE  Pending' \subseteq Pending
    BY <2>3 DEF Pending, InFlight
  <2>4. CASE Owner
    <3>1. get' = get
      BY <2>4 DEF Owner, Create, Protect, CreateCrashes, Destroy, DeleteDocument, Load,
                  Save, SavePassword, EditFails
    <3>2. QED
      BY <2>3, <3>1
  <2>5. CASE Tick \/ UNCHANGED vars
    BY <2>3, <2>5 DEF Tick, vars
  <2>6. QED
    BY <2>1, <2>2, <2>4, <2>5 DEF Next
<1>2. TypeInv /\ Truthful /\ [Next]_vars => [Closed]_vars
  BY <1>1
<1>3. QED
  BY <1>2, TypeCorrect, TruthInvariant, PTL DEF Spec, ZeroMeansClosed

--------------------------------------------------------------------------
(* What the owner decided *)

Busy(e) == edit[e].pc # "idle"

\* While the owner's writes do not overlap, the only PATCH in flight holds the
\* row but for the counter, and a link whose creation is still under way is open
\* and has no PATCH.
Alone ==
    ~overlap =>
        /\ \A e \in Editor : edit[e].pc = "loaded" =>
              /\ link # NoLink
              /\ edit[e].snap.is_active = link.is_active
              /\ edit[e].snap.password = link.password
        /\ \A e, f \in Editor : Busy(e) /\ Busy(f) => e = f
        /\ creation.pc = "inserted" =>
              /\ \A e \in Editor : ~Busy(e)
              /\ link # NoLink => link.password = NoPassword

\* The public view touches neither the flag nor the password.
LEMMA VisitSparesOwner ==
    ASSUME TypeInv, NEW w \in Worker, Visit(w)
    PROVE  /\ creation' = creation /\ edit' = edit /\ overlap' = overlap
           /\ link = NoLink => link' = NoLink
           /\ link # NoLink => /\ link' # NoLink
                               /\ link'.is_active = link.is_active
                               /\ link'.password = link.password
<1> USE DEF TypeInv, TypeOK
<1>1. CASE Count(w)
  <2>1. link # NoLink => Incremented(link, get[w].snap) \in Row
    BY DEF Incremented, Row
  <2>2. QED
    BY <1>1, <2>1, NoLinkAssumption DEF Count, Incremented, Row, history
<1>2. CASE ~Count(w)
  BY <1>2 DEF Visit, Fetch, Refuse, Clear, Refresh, Answer, FailCounted, dbVars, history
<1>3. QED
  BY <1>1, <1>2

\* A step of the owner: whatever starts beside a PATCH is an overlap.
LEMMA OwnerStaysAlone ==
    ASSUME TypeInv, Alone, Owner
    PROVE  Alone'
<1> USE DEF TypeInv, TypeOK, SetEdit, Busy
<1>1. ASSUME NEW post \in Posts, Create(post)
      PROVE  Alone'
  BY <1>1, PostAssumption DEF Create, Fresh, Alone, history
<1>2. CASE Protect
  <2>1. /\ edit' = edit /\ creation'.pc # "inserted"
        /\ overlap' = (overlap \/ Editing # {})
    BY <1>2 DEF Protect
  <2>2. QED
    BY <2>1 DEF Alone, Editing
<1>3. CASE CreateCrashes
  BY <1>3 DEF CreateCrashes, Alone, history
<1>4. CASE Destroy \/ DeleteDocument
  <2>1. /\ edit' = edit /\ creation' = creation /\ link' = NoLink
        /\ overlap' = (overlap \/ Editing # {})
    BY <1>4 DEF Destroy, DeleteDocument
  <2>2. QED
    BY <2>1 DEF Alone, Editing
<1>5. ASSUME NEW e \in Editor, NEW p \in Patches, Load(e, p)
      PROVE  Alone'
  <2>1. /\ edit' = [edit EXCEPT ![e] = [pc |-> "loaded", snap |-> link, patch |-> p]]
        /\ link # NoLink /\ link' = link /\ creation' = creation
        /\ overlap' = (overlap \/ Editing # {} \/ creation.pc = "inserted")
    BY <1>5 DEF Load, dbVars
  <2>2. ~overlap' => ~overlap /\ creation.pc # "inserted" /\ \A f \in Editor : ~Busy(f)
    BY <2>1 DEF Editing
  <2>3. \A f \in Editor : f # e => edit'[f] = edit[f]
    BY <2>1
  <2>4. edit'[e].pc = "loaded" /\ edit'[e].snap = link
    BY <2>1
  <2>5. QED
    BY <2>1, <2>2, <2>3, <2>4 DEF Alone
<1>6. ASSUME NEW e \in Editor, Save(e) \/ SavePassword(e) \/ EditFails(e)
      PROVE  Alone'
  <2>1. /\ Busy(e) /\ creation' = creation /\ overlap' = overlap
        /\ link' = link \/ ~EditFails(e)
    BY <1>6 DEF Save, SavePassword, EditFails, dbVars, history
  <2>2. \A f \in Editor : f # e => edit'[f] = edit[f]
    BY <1>6 DEF Save, SavePassword, EditFails
  <2>3. edit'[e].pc # "loaded"
    BY <1>6 DEF Save, SavePassword, EditFails, Resting
  <2>4. QED
    BY <2>1, <2>2, <2>3 DEF Alone
<1>7. QED
  BY <1>1, <1>2, <1>3, <1>4, <1>5, <1>6 DEF Owner

\* While the owner's writes do not overlap, a PATCH saves the flag and the
\* password that the row has.
THEOREM AloneInvariant == Spec => []Alone
<1>1. Init => Alone
  BY DEF Init, Alone, Busy, Resting
<1>2. TypeInv /\ Alone /\ [Next]_vars => Alone'
  <2> SUFFICES ASSUME TypeInv, Alone, [Next]_vars PROVE Alone'
    OBVIOUS
  <2>1. CASE Tick \/ UNCHANGED vars
    BY <2>1 DEF Tick, vars, Alone, Busy, dbVars, history
  <2>2. ASSUME NEW w \in Worker, Visit(w)
        PROVE  Alone'
    BY <2>2, VisitSparesOwner DEF Alone, Busy
  <2>3. QED
    BY <2>1, <2>2, OwnerStaysAlone DEF Next
<1>3. QED
  BY <1>1, <1>2, TypeCorrect, PTL DEF Spec

\* A link that was deleted or deactivated serves nobody until the owner asks for
\* it again, however many PATCH requests are served one after the other.
THEOREM RevocationIsKept == Spec => RevocationSticks
<1> DEFINE Revoked(row) == row = NoLink \/ ~row.is_active
           Kept == creation.pc # "none" /\ ~overlap' /\ Revoked(link) /\ ~Revoked(link')
                     => \E e \in Editor : edit[e].pc = "loaded" /\ edit[e].patch.is_active = TRUE
<1>1. ASSUME TypeInv, Alone, [Next]_vars
      PROVE  Kept
  <2> SUFFICES ASSUME creation.pc # "none", ~overlap', Revoked(link), ~Revoked(link')
               PROVE  \E e \in Editor : edit[e].pc = "loaded" /\ edit[e].patch.is_active = TRUE
    OBVIOUS
  <2> USE <1>1 DEF TypeInv, TypeOK
  <2>1. link' # link
    OBVIOUS
  <2>2. ASSUME NEW w \in Worker, Visit(w)
        PROVE  FALSE
    BY <2>2, VisitSparesOwner
  <2>3. CASE Owner
    <3>1. PICK e \in Editor : Save(e)
      <4>1. ASSUME NEW e \in Editor, SavePassword(e)
            PROVE  FALSE
        BY <4>1 DEF SavePassword, Row
      <4>2. CASE Protect
        BY <4>2 DEF Protect, Row
      <4>3. QED
        BY <2>1, <2>3, <4>1, <4>2 DEF Owner, Create, CreateCrashes, Destroy, DeleteDocument,
                                      Load, EditFails, dbVars
    <3>2. /\ edit[e].pc = "loaded" /\ overlap' = overlap
          /\ link' = Overwritten(edit[e].snap, edit[e].patch)
      BY <3>1 DEF Save
    <3>3. edit[e].snap \in Row /\ link # NoLink /\ edit[e].snap.is_active = link.is_active
      BY <3>2 DEF Alone, Held
    <3>4. link'.is_active = Posted(edit[e].patch.is_active, link.is_active)
      BY <3>2, <3>3 DEF Overwritten, Row
    <3>5. edit[e].patch.is_active \in BOOLEAN \cup {Keep}
      BY DEF Patch, Field
    <3>6. edit[e].patch.is_active = TRUE
      BY <3>3, <3>4, <3>5 DEF Posted
    <3>7. QED
      BY <3>2, <3>6
  <2>4. QED
    BY <2>1, <2>2, <2>3 DEF Next, Tick, vars, dbVars
<1>2. TypeInv /\ Alone /\ [Next]_vars => [Kept]_vars
  BY <1>1
<1>3. QED
  BY <1>2, TypeCorrect, AloneInvariant, PTL DEF Spec, RevocationSticks

\* A protected link loses its password only to a PATCH that posts an empty one.
THEOREM ProtectionIsKept == Spec => ProtectionSticks
<1> DEFINE Kept == link # NoLink /\ link' # NoLink /\ ~overlap' /\ link.password # NoPassword
                     /\ link'.password = NoPassword
                     => \E e \in Editor : edit[e].patch.password = NoPassword
<1>1. ASSUME TypeInv, Alone, [Next]_vars
      PROVE  Kept
  <2> SUFFICES ASSUME link # NoLink, link' # NoLink, ~overlap',
                      link.password # NoPassword, link'.password = NoPassword
               PROVE  \E e \in Editor : edit[e].patch.password = NoPassword
    OBVIOUS
  <2> USE <1>1 DEF TypeInv, TypeOK
  <2>1. link' # link
    OBVIOUS
  <2>2. ASSUME NEW w \in Worker, Visit(w)
        PROVE  FALSE
    BY <2>2, VisitSparesOwner
  <2>3. CASE Owner
    <3>1. PICK e \in Editor : SavePassword(e)
      <4>1. ASSUME NEW e \in Editor, Save(e)
            PROVE  FALSE
        <5>1. /\ edit[e].pc = "loaded" /\ overlap' = overlap
              /\ link' = Overwritten(edit[e].snap, edit[e].patch)
          BY <4>1 DEF Save
        <5>2. edit[e].snap \in Row /\ edit[e].snap.password = link.password
          BY <5>1 DEF Alone, Held
        <5>3. link'.password = link.password
          BY <5>1, <5>2 DEF Overwritten, Row
        <5>4. QED
          BY <5>3
      <4>2. CASE Protect
        <5>1. creation.pc = "inserted" /\ ~overlap
          BY <4>2 DEF Protect
        <5>2. QED
          BY <5>1 DEF Alone
      <4>3. QED
        BY <2>1, <2>3, <4>1, <4>2 DEF Owner, Create, Fresh, CreateCrashes, Destroy,
                                      DeleteDocument, Load, EditFails, dbVars
    <3>2. link'.password = edit[e].patch.password
      BY <3>1 DEF SavePassword, Row
    <3>3. QED
      BY <3>2
  <2>4. QED
    BY <2>1, <2>2, <2>3 DEF Next, Tick, vars, dbVars
<1>2. TypeInv /\ Alone /\ [Next]_vars => [Kept]_vars
  BY <1>1
<1>3. QED
  BY <1>2, TypeCorrect, AloneInvariant, PTL DEF Spec, ProtectionSticks

--------------------------------------------------------------------------
(* SharedLink implements DownloadQuota                                    *)

\* The owner's POST has been served, in part at least.
Begun == creation.pc # "none"

\* How a step of the link looks to the quota, given what it does to the tickets
\* and the counter. First: not at all.
LEMMA Unseen ==
    ASSUME Begun, Begun', Metered <=> Metered',
           Metered => /\ link'.max_downloads = link.max_downloads
                      /\ link'.download_count = link.download_count
                      /\ Cardinality(Pending') = Cardinality(Pending)
    PROVE  UNCHANGED Quota!vars
BY DEF Quota!vars, Begun

\* The link goes, or is changed.
LEMMA Ending ==
    ASSUME Begun', ~Metered', Metered \/ ~Begun
    PROVE  Quota!End
BY DEF Quota!End, Begun

\* One more handler holds a row below its limit.
LEMMA Issuing ==
    ASSUME Begun, Begun', Metered, Metered',
           link'.max_downloads = link.max_downloads,
           link'.download_count = link.download_count,
           link.download_count < link.max_downloads,
           Cardinality(Pending) < Cardinality(Worker),
           Cardinality(Pending') = Cardinality(Pending) + 1
    PROVE  Quota!Issue
BY DEF Quota!Issue, Begun

\* One of them counts its download.
LEMMA Redeeming ==
    ASSUME Begun, Begun', Metered, Metered',
           link'.max_downloads = link.max_downloads,
           link'.download_count = link.download_count + 1,
           Cardinality(Pending) > 0,
           Cardinality(Pending') = Cardinality(Pending) - 1
    PROVE  Quota!Redeem
BY DEF Quota!Redeem, Begun

\* One of them gives up.
LEMMA Returning ==
    ASSUME Begun, Begun', Metered, Metered',
           link'.max_downloads = link.max_downloads,
           link'.download_count = link.download_count,
           Cardinality(Pending) > 0,
           Cardinality(Pending') = Cardinality(Pending) - 1
    PROVE  Quota!Return
BY DEF Quota!Return, Begun

\* A handler that leaves Pending makes it smaller by one, so does one that joins.
LEMMA OneLess ==
    ASSUME NEW w \in Pending, Pending' = Pending \ {w}
    PROVE  Cardinality(Pending) > 0 /\ Cardinality(Pending') = Cardinality(Pending) - 1
<1>1. IsFiniteSet(Pending) /\ Cardinality(Pending) \in Nat
  BY WorkerSubset DEF Pending, InFlight
<1>2. Cardinality(Pending) # 0
  BY <1>1, FS_EmptySet
<1>3. QED
  BY <1>1, <1>2, FS_RemoveElement

LEMMA OneMore ==
    ASSUME NEW w \in Worker, w \notin Pending, Pending' = Pending \cup {w}
    PROVE  /\ Cardinality(Pending) < Cardinality(Worker)
           /\ Cardinality(Pending') = Cardinality(Pending) + 1
<1>1. /\ IsFiniteSet(Pending) /\ Cardinality(Pending) \in Nat
      /\ Pending' \in SUBSET Worker
  BY WorkerSubset DEF Pending, InFlight
<1>2. Cardinality(Pending') = Cardinality(Pending) + 1
  BY <1>1, FS_AddElement
<1>3. Cardinality(Pending') <= Cardinality(Worker) /\ Cardinality(Worker) \in Nat
  BY <1>1, WorkerSubset, SomeWorker
<1>4. QED
  BY <1>1, <1>2, <1>3

\* A public GET takes, redeems or hands back a ticket, or is not seen.
LEMMA VisitImplements ==
    ASSUME TypeInv, Truthful, NEW w \in Worker, Visit(w)
    PROVE  Quota!Next \/ UNCHANGED Quota!vars
<1> USE DEF TypeInv, TypeOK, SetGet
<1>1. Begun /\ Begun'
  <2>1. Begun
    BY DEF Visit, Fresh, Fetch, Refuse, Clear, Count, Refresh, Answer, FailCounted, Begun
  <2>2. QED
    BY <2>1, VisitSparesOwner DEF Begun
<1>2. ASSUME link' = link, disturbed' = disturbed, Pending' = Pending
      PROVE  UNCHANGED Quota!vars
  BY <1>1, <1>2, Unseen DEF Metered, Limited
<1>3. CASE Fetch(w)
  <2>1. /\ get' = [get EXCEPT ![w] = [pc |-> "fetched", snap |-> link, none |-> FALSE]]
        /\ get[w].pc = "idle" /\ link' = link /\ disturbed' = disturbed
    BY <1>3 DEF Fetch, dbVars, history
  <2>2. w \notin Pending
    BY <2>1 DEF Pending, InFlight
  <2>3. Pending' = Pending \/ Pending' = Pending \cup {w}
    BY <2>1, <2>2 DEF Pending, InFlight
  <2>4. CASE Pending' = Pending
    BY <1>2, <2>1, <2>4
  <2>5. CASE ~Metered
    BY <1>1, <2>1, <2>5, Unseen DEF Metered, Limited
  <2>6. CASE Metered /\ Pending' # Pending
    <3>1. w \in Pending' /\ Pending' = Pending \cup {w}
      BY <2>2, <2>3, <2>6
    <3>2. link.download_count < link.max_downloads
      BY <2>1, <2>6, <3>1 DEF Pending, Metered
    <3>3. Metered'
      BY <2>1, <2>6 DEF Metered, Limited
    <3>4. Quota!Issue
      BY <1>1, <2>1, <2>2, <2>6, <3>1, <3>2, <3>3, OneMore, Issuing
    <3>5. QED
      BY <3>4 DEF Quota!Next
  <2>7. QED
    BY <2>4, <2>5, <2>6
<1>4. CASE Count(w)
  <2>1. /\ get[w].pc = "cleared" /\ disturbed' = disturbed
        /\ get' = [get EXCEPT ![w] = [get[w] EXCEPT !.pc = "counted"]]
        /\ link' = IF link = NoLink THEN NoLink ELSE Incremented(link, get[w].snap)
    BY <1>4 DEF Count, history
  <2>2. link # NoLink => /\ link' # NoLink
                         /\ link'.max_downloads = link.max_downloads
                         /\ link'.download_count = link.download_count + 1
    <3>1. link # NoLink => Incremented(link, get[w].snap) \in Row
      BY DEF Incremented, Row
    <3>2. QED
      BY <2>1, <3>1, NoLinkAssumption DEF Incremented, Row
  <2>3. CASE ~Metered
    BY <1>1, <2>1, <2>2, <2>3, Unseen DEF Metered, Limited
  <2>4. CASE Metered
    <3>1. w \in Pending /\ Pending' = Pending \ {w}
      BY <2>1 DEF Pending, InFlight, Held, Below
    <3>2. Metered'
      BY <2>1, <2>2, <2>4 DEF Metered, Limited
    <3>3. Quota!Redeem
      BY <1>1, <2>2, <2>4, <3>1, <3>2, OneLess, Redeeming DEF Metered
    <3>4. QED
      BY <3>3 DEF Quota!Next
  <2>5. QED
    BY <2>3, <2>4
<1>5. ASSUME \/ \E given \in Password \cup {NoPassword} : Refuse(w, given) \/ Clear(w, given)
             \/ Refresh(w) \/ Answer(w) \/ FailCounted(w)
      PROVE  Quota!Next \/ UNCHANGED Quota!vars
  <2>1. \/ get' = [get EXCEPT ![w] = Idle]
        \/ /\ get[w].pc = "fetched"
           /\ get' = [get EXCEPT ![w] = [get[w] EXCEPT !.pc = "cleared"]]
        \/ /\ get[w].pc = "counted"
           /\ get' = [get EXCEPT ![w] = [pc |-> "refreshed", snap |-> NoLink,
                         none |-> NoneRemains(get[w].snap, link.download_count)]]
    BY <1>5 DEF Refuse, Clear, Refresh, Answer, FailCounted
  <2>2. link' = link /\ disturbed' = disturbed
    BY <1>5 DEF Refuse, Clear, Refresh, Answer, FailCounted, dbVars, history
  <2>3. \A v \in Worker : v # w => get'[v] = get[v]
    BY <2>1
  <2>4. \/ get'[w].pc \notin {"fetched", "cleared"}
        \/ /\ get[w].pc = "fetched" /\ get'[w].pc = "cleared"
           /\ get'[w].snap = get[w].snap
    BY <2>1 DEF Idle
  <2>5. Pending' = Pending \/ (w \in Pending /\ Pending' = Pending \ {w})
    BY <2>3, <2>4 DEF Pending, InFlight
  <2>6. CASE Pending' = Pending
    BY <1>2, <2>2, <2>6
  <2>7. CASE ~Metered
    BY <1>1, <2>2, <2>7, Unseen DEF Metered, Limited
  <2>8. CASE Metered /\ w \in Pending /\ Pending' = Pending \ {w}
    <3>1. Metered'
      BY <2>2, <2>8 DEF Metered, Limited
    <3>2. Quota!Return
      BY <1>1, <2>2, <2>8, <3>1, OneLess, Returning
    <3>3. QED
      BY <3>2 DEF Quota!Next
  <2>9. QED
    BY <2>5, <2>6, <2>7, <2>8
<1>6. QED
  BY <1>3, <1>4, <1>5 DEF Visit

\* The owner opens the quota, ends it, or is not seen.
LEMMA OwnerImplements ==
    ASSUME TypeInv, TypeInv', Owner
    PROVE  Quota!Next \/ UNCHANGED Quota!vars
<1> USE DEF TypeInv, TypeOK
<1>1. ASSUME NEW post \in Posts, Create(post)
      PROVE  Quota!Next
  <2>1. /\ creation.pc = "none" /\ creation'.pc = "inserted"
        /\ link = NoLink /\ link' \in Row \cup {NoLink} /\ link'.download_count = 0
        /\ Pending' = {}
    BY <1>1, PostAssumption DEF Create, Fresh, Pending, InFlight
  <2>2. ~Metered /\ ~Begun /\ Begun'
    BY <2>1 DEF Metered, Begun
  <2>3. CASE ~Metered'
    BY <2>2, <2>3, Ending DEF Quota!Next
  <2>4. CASE Metered'
    <3>1. link'.max_downloads \in Nat
      BY <2>1, <2>4, LimitAssumption DEF Metered, Limited, Row
    <3>2. Cardinality(Pending') = 0
      BY <2>1, FS_EmptySet
    <3>3. Quota!Open
      BY <2>1, <2>2, <2>4, <3>1, <3>2 DEF Quota!Open
    <3>4. QED
      BY <3>3 DEF Quota!Next
  <2>5. QED
    BY <2>3, <2>4
<1>2. ASSUME get' = get, Begun, Begun', disturbed => disturbed',
             \/ disturbed'
             \/ link' = NoLink
             \/ /\ ~disturbed /\ link # NoLink /\ link' # NoLink
                /\ link'.max_downloads = link.max_downloads
                /\ link'.download_count = link.download_count
      PROVE  Quota!Next \/ UNCHANGED Quota!vars
  <2>1. Pending' = Pending
    BY <1>2 DEF Pending, InFlight
  <2>2. CASE Metered /\ ~Metered'
    BY <1>2, <2>2, Ending DEF Quota!Next
  <2>3. CASE ~(Metered /\ ~Metered')
    BY <1>2, <2>1, <2>3, Unseen DEF Metered, Limited
  <2>4. QED
    BY <2>2, <2>3
<1>3. ASSUME NEW e \in Editor, Save(e)
      PROVE  Quota!Next \/ UNCHANGED Quota!vars
  <2>1. Overwritten(edit[e].snap, edit[e].patch) \in Row
    BY <1>3, OverwrittenIsRow DEF Save, Held
  <2>2. QED
    BY <1>2, <1>3, <2>1, NoLinkAssumption DEF Save, Fresh, Begun
<1>4. ASSUME NEW e \in Editor, SavePassword(e)
      PROVE  Quota!Next \/ UNCHANGED Quota!vars
  <2>1. /\ get' = get /\ Begun /\ Begun' /\ disturbed' = disturbed
        /\ link # NoLink /\ link' = [link EXCEPT !.password = edit[e].patch.password]
    BY <1>4 DEF SavePassword, Fresh, Begun, history
  <2>2. link' # NoLink
    <3>1. edit[e].patch.password # Keep
      BY <1>4 DEF SavePassword, Held
    <3>2. link' \in Row
      BY <2>1, <3>1 DEF Row, Patch, Field
    <3>3. QED
      BY <3>2, NoLinkAssumption
  <2>3. link'.max_downloads = link.max_downloads /\ link'.download_count = link.download_count
    BY <2>1 DEF Row
  <2>4. QED
    BY <1>2, <2>1, <2>2, <2>3
<1>5. CASE Protect
  <2>1. link' = link \/ (link' # NoLink /\ link # NoLink
                           /\ link'.max_downloads = link.max_downloads
                           /\ link'.download_count = link.download_count)
    <3>1. link # NoLink => [link EXCEPT !.password = creation.password] \in Row
      BY DEF Row
    <3>2. QED
      BY <1>5, <3>1, NoLinkAssumption DEF Protect, Row
  <2>2. /\ get' = get /\ disturbed' = disturbed /\ Begun /\ Begun'
    BY <1>5 DEF Protect, Begun
  <2>3. QED
    BY <1>2, <2>1, <2>2
<1>6. ASSUME \/ CreateCrashes \/ Destroy
             \/ \E e \in Editor : EditFails(e) \/ \E p \in Patches : Load(e, p)
      PROVE  Quota!Next \/ UNCHANGED Quota!vars
  <2>1. /\ get' = get /\ disturbed' = disturbed /\ Begun /\ Begun'
        /\ link' = link \/ link' = NoLink
    BY <1>6 DEF CreateCrashes, Destroy, EditFails, Load, Fresh, Begun, dbVars, history
  <2>2. QED
    BY <1>2, <2>1
<1>7. CASE DeleteDocument
  <2>1. /\ get' = get /\ disturbed' = disturbed /\ creation' = creation /\ link' = NoLink
    BY <1>7 DEF DeleteDocument
  <2>2. CASE Begun
    BY <1>2, <2>1, <2>2 DEF Begun
  <2>3. CASE ~Begun
    BY <2>1, <2>3 DEF Begun, Fresh, Quota!vars, Metered
  <2>4. QED
    BY <2>2, <2>3
<1>8. QED
  BY <1>1, <1>3, <1>4, <1>5, <1>6, <1>7 DEF Owner

\* Every behaviour of a share link is a behaviour of the abstract quota, with the
\* handlers that hold a row below its limit as the tickets.
THEOREM QuotaImplemented == Spec => ImplementsQuota
<1>1. Init => Quota!Init
  BY DEF Init, Quota!Init, Metered
<1>2. TypeInv /\ TypeInv' /\ Truthful /\ [Next]_vars => [Quota!Next]_(Quota!vars)
  <2> SUFFICES ASSUME TypeInv, TypeInv', Truthful, [Next]_vars
               PROVE  Quota!Next \/ UNCHANGED Quota!vars
    OBVIOUS
  <2>1. CASE Tick \/ UNCHANGED vars
    <3>1. link' = link /\ disturbed' = disturbed /\ get' = get /\ creation' = creation
      BY <2>1 DEF Tick, vars, dbVars, history
    <3>2. Pending' = Pending
      BY <3>1 DEF Pending, InFlight
    <3>3. QED
      BY <3>1, <3>2 DEF Quota!vars, Metered, Limited
  <2>2. QED
    BY <2>1, VisitImplements, OwnerImplements DEF Next
<1>3. QED
  BY <1>1, <1>2, TypeCorrect, TruthInvariant, PTL DEF Spec, ImplementsQuota, Quota!Spec
=============================================================================
