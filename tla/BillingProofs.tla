---------------------------- MODULE BillingProofs ----------------------------
(***************************************************************************)
(* Theorems about Billing, for every number of checkouts, webhooks and     *)
(* administrators that run at once, and all bounds.                        *)
(***************************************************************************)
EXTENDS Billing, FiniteSetTheorems, TLAPS

--------------------------------------------------------------------------
(* Types *)

\* What a process holds: whoever goes on has read the row, and a webhook that
\* loaded it did so by the customer of its event.
Fits(p, d) ==
    /\ p \in Checkout => /\ d.pc # "loaded"
                         /\ d.pc \in {"bought", "ready"} => d.customer \in Customer
    /\ p \notin Checkout => /\ d.pc \in {"idle", "loaded"}
                            /\ d.pc = "loaded" => d.snap \in Row
    /\ p \in Webhook /\ d.pc = "loaded" => /\ d.event \in Event
                                           /\ d.event.customer = d.snap.customer

Held ==
    /\ row = NoRow => applied = 0 /\ \A p \in Process : proc[p].pc = "idle"
    /\ \A p \in Process : Fits(p, proc[p])

TypeInv == TypeOK /\ Held

\* The records a step leaves a process with, and the rows it leaves.
LEMMA RecordsTyped ==
    /\ Idle \in Doing
    /\ \A pc \in {"blank", "ready"}, c \in Customer \cup {0} :
          [Idle EXCEPT !.pc = pc, !.customer = c] \in Doing
    /\ [Idle EXCEPT !.pc = "blank"] \in Doing
    /\ \A s \in Row, e \in Event \cup {NoEvent} :
          [Idle EXCEPT !.pc = "loaded", !.snap = s, !.event = e] \in Doing
    /\ \A s \in Row : [Idle EXCEPT !.pc = "loaded", !.snap = s] \in Doing
    /\ \A d \in Doing, c \in Customer : [d EXCEPT !.pc = "bought", !.customer = c] \in Doing
    /\ \A d \in Doing : [d EXCEPT !.pc = "ready"] \in Doing
    /\ Blank \in Row
    /\ \A r \in Row, c \in Customer \cup {0} : [r EXCEPT !.customer = c] \in Row
    /\ \A r \in Row, e \in Event : Synced(r, e) \in Row
BY DEF Idle, Doing, Blank, Row, Synced, Event, Kind, Status, Live

\* Who is who.
LEMMA Kinds ==
    /\ \A p \in Checkout : p \in Process /\ p \notin Webhook \cup Admin
    /\ \A p \in Webhook : p \in Process /\ p \notin Checkout \cup Admin
    /\ \A p \in Admin : p \in Process /\ p \notin Checkout \cup Webhook
BY ProcessAssumption DEF Process

\* A step changes one process, once the row is there.
LEMMA Stepped ==
    ASSUME TypeInv, NEW p \in Process, NEW d \in Doing, Step(p, d), Fits(p, d), row' # NoRow
    PROVE  /\ proc' \in [Process -> Doing]
           /\ proc'[p] = d
           /\ \A q \in Process : q # p => proc'[q] = proc[q]
           /\ Held'
BY DEF Step, TypeInv, TypeOK, Held

\* The row is there when a process is at work.
LEMMA RowThere ==
    ASSUME TypeInv, NEW p \in Process, proc[p].pc # "idle"
    PROVE  row \in Row /\ row # NoRow /\ proc[p] \in Doing /\ Fits(p, proc[p])
BY DEF TypeInv, TypeOK, Held

\* The type invariant holds at first.
LEMMA TypeInvInit == Init => TypeInv
<1> SUFFICES ASSUME Init PROVE TypeInv
  OBVIOUS
<1>1. \A p \in Process : Fits(p, Idle)
  BY DEF Fits, Idle
<1>2. proc \in [Process -> Doing] /\ \A p \in Process : proc[p] = Idle
  BY RecordsTyped DEF Init
<1>3. TypeOK
  BY <1>2 DEF Init, TypeOK
<1>4. Idle.pc = "idle"
  BY DEF Idle
<1>5. QED
  BY <1>1, <1>2, <1>3, <1>4 DEF Init, TypeInv, Held

\* The checkout view keeps it.
LEMMA CheckoutKeepsTypes ==
    ASSUME TypeInv, NEW p \in Checkout,
           GetOrCreate(p) \/ CreateCustomer(p) \/ SaveCustomer(p) \/ OpenSession(p)
    PROVE  TypeInv'
<1> USE Kinds
<1>1. CASE GetOrCreate(p) /\ Known(Gotten(row))
  <2> DEFINE d == [Idle EXCEPT !.pc = "ready", !.customer = row.customer]
  <2>0. row # NoRow /\ Gotten(row) = row
    BY <1>1 DEF Gotten, Known, Blank
  <2>1. row \in Row /\ row.customer \in Customer /\ UNCHANGED row /\ Step(p, d)
    BY <1>1, <2>0 DEF GetOrCreate, Known, TypeInv, TypeOK, Row
  <2>2. d \in Doing
    BY <2>1, RecordsTyped
  <2>3. d.pc = "ready" /\ d.customer = row.customer
    BY DEF Idle
  <2> HIDE DEF d
  <2>4. Fits(p, d)
    BY <2>1, <2>3 DEF Fits
  <2>5. QED
    BY <1>1, <2>1, <2>2, <2>4, Stepped, SentinelAssumption DEF GetOrCreate, TypeInv, TypeOK, external, bounds
<1>2. CASE GetOrCreate(p) /\ ~Known(Gotten(row))
  <2> DEFINE d == [Idle EXCEPT !.pc = "blank"]
  <2>1. row' \in Row /\ row' # NoRow /\ Step(p, d)
    BY <1>2, RecordsTyped, SentinelAssumption DEF GetOrCreate, Gotten, TypeInv, TypeOK
  <2>2. d \in Doing /\ Fits(p, d)
    BY RecordsTyped DEF Idle, Fits
  <2> HIDE DEF d
  <2>3. QED
    BY <1>2, <2>1, <2>2, Stepped DEF GetOrCreate, TypeInv, TypeOK, external, bounds
<1>3. CASE CreateCustomer(p)
  <2> DEFINE c == Cardinality(customers) + 1
             d == [proc[p] EXCEPT !.pc = "bought", !.customer = c]
  <2>1. row \in Row /\ row # NoRow /\ proc[p] \in Doing
    BY <1>3, RowThere DEF CreateCustomer, At
  <2>2. c \in Customer /\ Step(p, d)
    BY <1>3 DEF CreateCustomer
  <2> HIDE DEF c
  <2>3. d \in Doing /\ d.pc = "bought" /\ d.customer = c
    BY <2>1, <2>2 DEF Doing
  <2>4. Fits(p, d)
    BY <2>2, <2>3 DEF Fits
  <2> HIDE DEF d
  <2>5. customers' \subseteq Customer /\ UNCHANGED <<row, sessions, stripe, emitted, pending, bounds, history>>
    BY <1>3, <2>2 DEF CreateCustomer, TypeInv, TypeOK, c
  <2>6. QED
    BY <2>1, <2>2, <2>3, <2>4, <2>5, Stepped DEF TypeInv, TypeOK, bounds, history
<1>4. CASE SaveCustomer(p)
  <2> DEFINE d == [proc[p] EXCEPT !.pc = "ready"]
  <2>1. row \in Row /\ proc[p] \in Doing /\ proc[p].customer \in Customer /\ Step(p, d)
    BY <1>4, RowThere DEF SaveCustomer, At, Fits
  <2>2. d \in Doing /\ Fits(p, d)
    BY <2>1 DEF Doing, Fits
  <2>3. row' \in Row /\ row' # NoRow
    BY <1>4, <2>1, RecordsTyped, SentinelAssumption DEF SaveCustomer
  <2> HIDE DEF d
  <2>4. QED
    BY <1>4, <2>1, <2>2, <2>3, Stepped DEF SaveCustomer, TypeInv, TypeOK, external, bounds, history
<1>5. CASE OpenSession(p)
  <2>1. row \in Row /\ row # NoRow /\ proc[p].customer \in Customer /\ Step(p, Idle)
    BY <1>5, RowThere DEF OpenSession, At, Fits
  <2>2. Fits(p, Idle)
    BY DEF Fits, Idle
  <2>3. QED
    BY <1>5, <2>1, <2>2, RecordsTyped, Stepped DEF OpenSession, TypeInv, TypeOK, bounds, history
<1>6. QED
  BY <1>1, <1>2, <1>3, <1>4, <1>5

\* Stripe keeps it: a payment and a change emit well typed events.
LEMMA EventTyped ==
    ASSUME NEW seq \in Nat, NEW c \in Customer, NEW kind \in Kind, NEW status \in Status
    PROVE  [seq |-> seq, customer |-> c, kind |-> kind, status |-> status] \in Event
BY DEF Event

LEMMA StripeKeepsTypes ==
    ASSUME TypeInv, NEW c \in Customer, Pay(c) \/ \E status \in Status : Change(c, status)
    PROVE  TypeInv'
<1>1. CASE Pay(c)
  <2> DEFINE E(seq, kind, status) ==
               [seq |-> seq, customer |-> c, kind |-> kind, status |-> status]
  <2>0. /\ emitted + 1 \in Nat /\ emitted + 2 \in Nat
        /\ "subscription" \in Kind /\ "session" \in Kind
        /\ "active" \in Status /\ "complete" \in Status
    BY DEF TypeInv, TypeOK, Kind, Status, Live
  <2>1. /\ E(emitted + 1, "subscription", "active") \in Event
        /\ E(emitted + 2, "session", "complete") \in Event
        /\ E(emitted + 1, "session", "complete") \in Event
        /\ E(emitted + 2, "subscription", "active") \in Event
    BY <2>0, EventTyped, Zenon
  <2>2. pending' \subseteq Event
    BY <1>1, <2>1 DEF Pay, TypeInv, TypeOK
  <2>3. QED
    BY <1>1, <2>2 DEF Pay, TypeInv, TypeOK, Held, Status, Live, bounds, history
<1>2. ASSUME NEW status \in Status, Change(c, status) PROVE TypeInv'
  <2>1. pending' \subseteq Event
    BY <1>2, EventTyped DEF Change, TypeInv, TypeOK, Kind
  <2>2. QED
    BY <1>2, <2>1 DEF Change, TypeInv, TypeOK, Held, bounds, history
<1>3. QED
  BY <1>1, <1>2

\* The webhook keeps it.
LEMMA ReceiveKeepsTypes ==
    ASSUME TypeInv, NEW p \in Webhook, NEW e \in pending, Receive(p, e)
    PROVE  TypeInv'
<1> USE Kinds
<1>1. CASE row # NoRow /\ row.customer = e.customer
  <2> DEFINE d == [Idle EXCEPT !.pc = "loaded", !.snap = row, !.event = e]
  <2>1. row \in Row /\ e \in Event /\ Step(p, d) /\ UNCHANGED <<row, pending, dropped>>
    BY <1>1 DEF Receive, TypeInv, TypeOK
  <2>2. d \in Doing
    BY <2>1, RecordsTyped
  <2>3. Fits(p, d)
    BY <1>1, <2>1 DEF Idle, Fits
  <2> HIDE DEF d
  <2>4. QED
    BY <1>1, <2>1, <2>2, <2>3, Stepped DEF Receive, TypeInv, TypeOK, external, bounds
<1>2. CASE ~(row # NoRow /\ row.customer = e.customer)
  BY <1>2 DEF Receive, TypeInv, TypeOK, Held, external, bounds
<1>3. QED
  BY <1>1, <1>2

LEMMA SaveEventKeepsTypes ==
    ASSUME TypeInv, NEW p \in Webhook, NEW answered \in BOOLEAN, SaveEvent(p, answered)
    PROVE  TypeInv'
<1> USE Kinds
<1> DEFINE e == proc[p].event
<1>1. e \in Event /\ proc[p].snap \in Row
  BY RowThere DEF SaveEvent, At, Fits
<1>2. e.seq \in Nat
  BY <1>1 DEF Event
<1>3. row' \in Row /\ row' # NoRow /\ Step(p, Idle) /\ Fits(p, Idle)
  BY <1>1, RecordsTyped, SentinelAssumption DEF SaveEvent, Fits, Idle
<1>4. applied' \in Nat /\ pending' \subseteq Event /\ late' \in BOOLEAN /\ lost' \in BOOLEAN
  BY <1>1, <1>2 DEF SaveEvent, TypeInv, TypeOK
<1>5. QED
  BY <1>3, <1>4, RecordsTyped, Stepped DEF SaveEvent, TypeInv, TypeOK, external, bounds

\* The administrator's PATCH keeps it.
LEMMA PatchTyped ==
    ASSUME NEW snap \in Row, NEW status \in Corrections \cup {Keep}, NEW customer \in {0, Keep}
    PROVE  [snap EXCEPT !.status = Posted(status, @), !.customer = Posted(customer, @)] \in Row
BY CorrectionsAssumption DEF Row, Posted, Choices, Status

LEMMA AdminKeepsTypes ==
    ASSUME TypeInv, NEW p \in Admin,
           \/ Load(p)
           \/ \E status \in Corrections \cup {Keep}, customer \in {0, Keep} :
                SavePatch(p, status, customer)
    PROVE  TypeInv'
<1> USE Kinds
<1>1. CASE Load(p)
  <2> DEFINE d == [Idle EXCEPT !.pc = "loaded", !.snap = row]
  <2>1. row \in Row /\ row' # NoRow /\ Step(p, d)
    BY <1>1 DEF Load, TypeInv, TypeOK
  <2>2. d \in Doing
    BY <2>1, RecordsTyped
  <2>3. Fits(p, d)
    BY <2>1 DEF Idle, Fits
  <2> HIDE DEF d
  <2>4. QED
    BY <1>1, <2>1, <2>2, <2>3, Stepped DEF Load, TypeInv, TypeOK, external, history
<1>2. ASSUME NEW status \in Corrections \cup {Keep}, NEW customer \in {0, Keep},
             SavePatch(p, status, customer)
      PROVE  TypeInv'
  <2>1. proc[p].snap \in Row
    BY <1>2, RowThere DEF SavePatch, At, Fits
  <2>2. row' \in Row
    BY <1>2, <2>1, PatchTyped, Zenon DEF SavePatch
  <2>3. row' # NoRow /\ Step(p, Idle) /\ Fits(p, Idle)
    BY <1>2, <2>2, SentinelAssumption DEF SavePatch, Fits, Idle
  <2>4. QED
    BY <1>2, <2>2, <2>3, RecordsTyped, Stepped DEF SavePatch, TypeInv, TypeOK, external, bounds
<1>3. QED
  BY <1>1, <1>2

\* A request that dies keeps it.
LEMMA CrashKeepsTypes ==
    ASSUME TypeInv, NEW p \in Process, Crash(p)
    PROVE  TypeInv'
<1>1. row' # NoRow /\ Step(p, Idle) /\ Fits(p, Idle)
  BY RowThere DEF Crash, At, Fits, Idle, external
<1>2. proc' \in [Process -> Doing] /\ Held'
  BY <1>1, RecordsTyped, Stepped
<1>3. QED
  BY <1>2 DEF Crash, At, TypeInv, TypeOK, external

LEMMA NextKeepsTypes == TypeInv /\ [Next]_vars => TypeInv'
<1>1. ASSUME TypeInv, UNCHANGED vars PROVE TypeInv'
  <2>1. TypeOK'
    BY <1>1 DEF vars, TypeInv, TypeOK
  <2>2. Held'
    BY <1>1 DEF vars, TypeInv, Held
  <2>3. QED
    BY <2>1, <2>2 DEF TypeInv
<1>2. ASSUME TypeInv, Next PROVE TypeInv'
  <2>1. ASSUME NEW p \in Checkout,
               GetOrCreate(p) \/ CreateCustomer(p) \/ SaveCustomer(p) \/ OpenSession(p)
        PROVE  TypeInv'
    BY <1>2, <2>1, CheckoutKeepsTypes, Zenon
  <2>2. ASSUME NEW c \in Customer, Pay(c) \/ \E status \in Status : Change(c, status)
        PROVE  TypeInv'
    BY <1>2, <2>2, StripeKeepsTypes, Zenon
  <2>3. ASSUME NEW p \in Webhook, NEW e \in pending, Receive(p, e) PROVE TypeInv'
    BY <1>2, <2>3, ReceiveKeepsTypes, Zenon
  <2>4. ASSUME NEW p \in Webhook, NEW answered \in BOOLEAN, SaveEvent(p, answered)
        PROVE  TypeInv'
    BY <1>2, <2>4, SaveEventKeepsTypes, Zenon
  <2>5. ASSUME NEW p \in Admin,
               \/ Load(p)
               \/ \E status \in Corrections \cup {Keep}, customer \in {0, Keep} :
                    SavePatch(p, status, customer)
        PROVE  TypeInv'
    BY <1>2, <2>5, AdminKeepsTypes, Zenon
  <2>6. ASSUME NEW p \in Process, Crash(p) PROVE TypeInv'
    BY <1>2, <2>6, CrashKeepsTypes, Zenon
  <2>7. QED
    BY <1>2, <2>1, <2>2, <2>3, <2>4, <2>5, <2>6, Zenon DEF Next
<1>3. QED
  BY <1>1, <1>2

LEMMA TypeInvHolds == Spec => []TypeInv
BY TypeInvInit, NextKeepsTypes, PTL DEF Spec

\* Every variable keeps its type.
THEOREM TypesOK == Spec => []TypeOK
BY TypeInvHolds, PTL DEF TypeInv

--------------------------------------------------------------------------
(* One customer *)

\* No two first checkouts met, no request died between Stripe and the row, no
\* administrator changed the row and no save overwrote a newer value.
Clean == ~raced /\ ~edited /\ ~lost

\* The row's customer is the only one. While it is blank one checkout at most is
\* on its way to Stripe and back; the customer it brings is number 1.
OnlyOne ==
    /\ \A p, q \in Unstored : p = q
    /\ \A p \in Unstored : row # NoRow /\ row.customer = 0
    /\ \A p \in Checkout : proc[p].pc = "blank" => customers = {}
    /\ \A p \in Checkout : proc[p].pc = "bought" => customers = {1} /\ proc[p].customer = 1
    /\ Unstored = {} => \/ customers = {} /\ (row # NoRow => row.customer = 0)
                        \/ customers = {1} /\ row # NoRow /\ row.customer = 1

\* Whatever Stripe holds for the user it holds for the row's customer.
Theirs(c) == row # NoRow /\ row.customer = c
OfTheRow ==
    /\ \A p \in Checkout : proc[p].pc = "ready" => Theirs(proc[p].customer)
    /\ \A c \in sessions : Theirs(c)
    /\ \A c \in Customer : stripe[c] # "none" => Theirs(c)
    /\ \A e \in pending : Theirs(e.customer)

CustomerInv == /\ NothingDropped
               /\ Clean => OnlyOne /\ OfTheRow

\* The processes of a step of one of them, and the others.
LEMMA Moved ==
    ASSUME TypeInv, NEW p \in Process, NEW d, Step(p, d)
    PROVE  proc'[p] = d /\ \A q \in Process : q # p => proc'[q] = proc[q]
BY DEF Step, TypeInv, TypeOK

LEMMA CustomerInvInit == Init => CustomerInv
BY Kinds DEF Init, CustomerInv, NothingDropped, Clean, OnlyOne, OfTheRow, Unstored, Idle

\* A step that leaves the checkouts and the customers alone, and adds nothing at
\* Stripe but for the customer of the row.
SameCustomer ==
    /\ row # NoRow => row' # NoRow /\ row'.customer = row.customer
    /\ row = NoRow => row' = NoRow
    /\ customers' = customers
    /\ \A p \in Checkout : proc'[p] = proc[p]

NothingNew ==
    /\ \A c \in sessions' : c \in sessions
    /\ \A c \in Customer : stripe'[c] # "none" => stripe[c] # "none" \/ c \in sessions
    /\ \A e \in pending' : \/ e \in pending
                           \/ e.customer \in sessions
                           \/ e.customer \in Customer /\ stripe[e.customer] # "none"

LEMMA QuietStepKeepsCustomer ==
    ASSUME CustomerInv, Clean' => Clean, SameCustomer, NothingNew, dropped' /\ Clean' => dropped
    PROVE  CustomerInv'
<1> USE DEF SameCustomer, NothingNew
<1>1. NothingDropped'
  BY DEF CustomerInv, NothingDropped, Clean
<1>2. ASSUME Clean' PROVE OnlyOne' /\ OfTheRow'
  <2>1. OnlyOne /\ OfTheRow
    BY <1>2 DEF CustomerInv
  <2>2. Unstored' = Unstored
    BY DEF Unstored
  <2>3. OnlyOne'
    BY <2>1, <2>2 DEF OnlyOne, Unstored
  <2>4. \A c : Theirs(c) => Theirs(c)'
    BY DEF Theirs
  <2>5. OfTheRow'
    BY <2>1, <2>4 DEF OfTheRow
  <2>6. QED
    BY <2>3, <2>5
<1>3. QED
  BY <1>1, <1>2 DEF CustomerInv

\* A step of a checkout changes who is on the way to Stripe.
LEMMA UnstoredMoves ==
    ASSUME TypeInv, NEW p \in Process, NEW d, Step(p, d)
    PROVE  Unstored' = (Unstored \ {p})
                         \cup (IF p \in Checkout /\ d.pc \in {"blank", "bought"} THEN {p} ELSE {})
BY Moved, Kinds DEF Unstored

LEMMA GetOrCreateKeepsCustomer ==
    ASSUME TypeInv, CustomerInv, NEW p \in Checkout, GetOrCreate(p)
    PROVE  CustomerInv'
<1> USE Kinds
<1>1. UNCHANGED <<customers, sessions, stripe, pending, dropped, edited, lost>>
  BY DEF GetOrCreate, external
<1>2. proc[p].pc = "idle" /\ row' = Gotten(row) /\ row' # NoRow
  <2>1. proc[p].pc = "idle" /\ row' = Gotten(row)
    BY DEF GetOrCreate, At
  <2>2. Blank # NoRow
    BY RecordsTyped, SentinelAssumption
  <2>3. QED
    BY <2>1, <2>2 DEF Gotten
<1>3. NothingDropped' /\ (Clean' => Clean)
  <2>1. raced => raced'
    BY DEF GetOrCreate
  <2>2. QED
    BY <1>1, <2>1 DEF CustomerInv, NothingDropped, Clean
<1>4. CASE Known(Gotten(row))
  <2> DEFINE d == [Idle EXCEPT !.pc = "ready", !.customer = row.customer]
  <2>1. row # NoRow /\ Gotten(row) = row
    BY <1>4 DEF Gotten, Known, Blank
  <2>2. Step(p, d) /\ row' = row
    BY <1>2, <1>4, <2>1 DEF GetOrCreate
  <2>3. d.pc = "ready" /\ d.customer = row.customer
    BY DEF Idle
  <2> HIDE DEF d
  <2>4. proc'[p] = d /\ \A q \in Process : q # p => proc'[q] = proc[q]
    BY <2>2, Moved
  <2>5. Unstored' = Unstored
    BY <1>2, <2>3, <2>4 DEF Unstored
  <2>6. ASSUME Clean' PROVE OnlyOne' /\ OfTheRow'
    <3>1. OnlyOne /\ OfTheRow
      BY <1>3, <2>6 DEF CustomerInv
    <3>2. OnlyOne'
      BY <1>1, <2>2, <2>3, <2>4, <2>5, <3>1 DEF OnlyOne
    <3>3. OfTheRow'
      BY <1>1, <2>1, <2>2, <2>3, <2>4, <3>1 DEF OfTheRow, Theirs
    <3>4. QED
      BY <3>2, <3>3
  <2>7. QED
    BY <1>3, <2>6 DEF CustomerInv
<1>5. CASE ~Known(Gotten(row))
  <2> DEFINE d == [Idle EXCEPT !.pc = "blank"]
  <2>1. Step(p, d) /\ raced' = (raced \/ Unstored # {})
    BY <1>5 DEF GetOrCreate
  <2>2. d.pc = "blank"
    BY DEF Idle
  <2> HIDE DEF d
  <2>3. proc'[p] = d /\ \A q \in Process : q # p => proc'[q] = proc[q]
    BY <2>1, Moved
  <2>4. Unstored' = Unstored \cup {p}
    BY <2>2, <2>3 DEF Unstored
  <2>5. row'.customer = 0 /\ (row # NoRow => row.customer = 0)
    BY <1>2, <1>5 DEF Known, Gotten
  <2>6. ASSUME Clean' PROVE OnlyOne' /\ OfTheRow'
    <3>1. OnlyOne /\ OfTheRow /\ Unstored = {}
      BY <1>3, <2>1, <2>6 DEF CustomerInv, Clean
    <3>2. customers = {}
      BY <2>5, <3>1 DEF OnlyOne
    <3>3. OnlyOne'
      BY <1>1, <1>2, <2>2, <2>3, <2>4, <2>5, <3>1, <3>2 DEF OnlyOne, Unstored
    <3>4. \A c \in Customer : ~Theirs(c)
      BY <2>5, BoundAssumption DEF Theirs, Customer
    <3>5. OfTheRow'
      BY <1>1, <2>2, <2>3, <3>1, <3>4, RowThere DEF OfTheRow, TypeInv, TypeOK, Event, Fits
    <3>6. QED
      BY <3>3, <3>5
  <2>7. QED
    BY <1>3, <2>6 DEF CustomerInv
<1>6. QED
  BY <1>4, <1>5

\* The customer that a checkout brings is the first.
LEMMA CreateKeepsCustomer ==
    ASSUME TypeInv, CustomerInv, NEW p \in Checkout, CreateCustomer(p)
    PROVE  CustomerInv'
<1> USE Kinds
<1> DEFINE c == Cardinality(customers) + 1
           d == [proc[p] EXCEPT !.pc = "bought", !.customer = c]
<1>1. /\ proc[p].pc = "blank" /\ customers' = customers \cup {c} /\ Step(p, d)
      /\ UNCHANGED <<row, sessions, stripe, pending, dropped, raced, edited, lost>>
  BY DEF CreateCustomer, At, history
<1>2. proc[p] \in Doing
  BY <1>1, RowThere
<1> HIDE DEF c
<1>3. d.pc = "bought" /\ d.customer = c
  BY <1>2 DEF Doing
<1> HIDE DEF d
<1>4. proc'[p] = d /\ \A q \in Process : q # p => proc'[q] = proc[q]
  BY <1>1, Moved
<1>5. Unstored' = Unstored /\ p \in Unstored
  BY <1>1, <1>3, <1>4 DEF Unstored
<1>6. NothingDropped' /\ (Clean' => Clean)
  BY <1>1 DEF CustomerInv, NothingDropped, Clean
<1>7. ASSUME Clean' PROVE OnlyOne' /\ OfTheRow'
  <2>1. OnlyOne /\ OfTheRow
    BY <1>6, <1>7 DEF CustomerInv
  <2>2. c = 1
    BY <1>1, <2>1, FS_EmptySet DEF OnlyOne, c
  <2>3. customers' = {1}
    BY <1>1, <2>1, <2>2 DEF OnlyOne
  <2>4. \A q \in Checkout : q # p => q \notin Unstored
    BY <1>5, <2>1 DEF OnlyOne
  <2>5. OnlyOne'
    BY <1>1, <1>3, <1>4, <1>5, <2>1, <2>2, <2>3, <2>4 DEF OnlyOne, Unstored
  <2>6. OfTheRow'
    BY <1>1, <1>3, <1>4, <2>1 DEF OfTheRow, Theirs
  <2>7. QED
    BY <2>5, <2>6
<1>8. QED
  BY <1>6, <1>7 DEF CustomerInv

\* Before it is stored Stripe holds nothing for the user; after, only for it.
LEMMA SaveKeepsCustomer ==
    ASSUME TypeInv, CustomerInv, NEW p \in Checkout, SaveCustomer(p)
    PROVE  CustomerInv'
<1> USE Kinds
<1> DEFINE d == [proc[p] EXCEPT !.pc = "ready"]
<1>1. /\ proc[p].pc = "bought" /\ Step(p, d) /\ row' = [row EXCEPT !.customer = proc[p].customer]
      /\ UNCHANGED <<customers, sessions, stripe, pending, dropped, raced, edited, lost>>
  BY DEF SaveCustomer, At, external, history
<1>2. proc[p] \in Doing /\ row \in Row /\ row # NoRow /\ proc[p].customer \in Customer
  BY <1>1, RowThere DEF Fits
<1>3. d.pc = "ready" /\ d.customer = proc[p].customer
  BY <1>2 DEF Doing
<1> HIDE DEF d
<1>4. proc'[p] = d /\ \A q \in Process : q # p => proc'[q] = proc[q]
  BY <1>1, Moved
<1>5. row' # NoRow /\ row'.customer = proc[p].customer
  <2>1. row' \in Row
    BY <1>1, <1>2, RecordsTyped
  <2>2. QED
    BY <1>1, <1>2, <2>1, SentinelAssumption DEF Row
<1>6. Unstored' = Unstored \ {p} /\ p \in Unstored
  BY <1>1, <1>3, <1>4 DEF Unstored
<1>7. NothingDropped' /\ (Clean' => Clean)
  BY <1>1 DEF CustomerInv, NothingDropped, Clean
<1>8. ASSUME Clean' PROVE OnlyOne' /\ OfTheRow'
  <2>1. OnlyOne /\ OfTheRow
    BY <1>7, <1>8 DEF CustomerInv
  <2>2. customers = {1} /\ row'.customer = 1 /\ row.customer = 0 /\ Unstored' = {}
    BY <1>1, <1>5, <1>6, <2>1 DEF OnlyOne
  <2>3. OnlyOne'
    BY <1>1, <1>3, <1>4, <1>5, <2>2 DEF OnlyOne, Unstored
  <2>4. \A c \in Customer : ~Theirs(c)
    BY <2>2, BoundAssumption DEF Theirs, Customer
  <2>5. \A q \in Checkout : q # p => proc[q].pc # "ready"
    BY <2>1, <2>4, RowThere DEF OfTheRow, Fits
  <2>6. OfTheRow'
    BY <1>1, <1>3, <1>4, <1>5, <2>1, <2>4, <2>5 DEF OfTheRow, Theirs, TypeInv, TypeOK, Event
  <2>7. QED
    BY <2>3, <2>6
<1>9. QED
  BY <1>7, <1>8 DEF CustomerInv

\* A session is opened for the customer of the row, and a request that dies
\* leaves Stripe as it was.
LEMMA EndKeepsCustomer ==
    ASSUME TypeInv, CustomerInv, NEW p \in Process, (OpenSession(p) /\ p \in Checkout) \/ Crash(p)
    PROVE  CustomerInv'
<1> USE Kinds
<1>1. /\ Step(p, Idle) /\ p \in Process
      /\ UNCHANGED <<row, customers, stripe, pending, dropped, edited, lost>>
      /\ raced \/ proc[p].pc = "bought" => raced'
  <2>1. CASE OpenSession(p)
    BY <2>1 DEF OpenSession, At, history
  <2>2. CASE Crash(p)
    BY <2>2 DEF Crash, At, external
  <2>3. QED
    BY <2>1, <2>2
<1>2. \/ sessions' = sessions
      \/ p \in Checkout /\ proc[p].pc = "ready" /\ sessions' = sessions \cup {proc[p].customer}
  <2>1. CASE OpenSession(p) /\ p \in Checkout
    BY <2>1 DEF OpenSession, At
  <2>2. CASE Crash(p)
    BY <2>2 DEF Crash, external
  <2>3. QED
    BY <2>1, <2>2
<1>3. proc'[p].pc = "idle" /\ \A q \in Process : q # p => proc'[q] = proc[q]
  BY <1>1, Moved DEF Idle
<1>4. Unstored' = Unstored \ {p}
  BY <1>3 DEF Unstored
<1>5. NothingDropped' /\ (Clean' => Clean)
  BY <1>1 DEF CustomerInv, NothingDropped, Clean
<1>6. ASSUME Clean' PROVE OnlyOne' /\ OfTheRow'
  <2>1. OnlyOne /\ OfTheRow
    BY <1>5, <1>6 DEF CustomerInv
  <2>2. p \in Checkout => proc[p].pc # "bought"
    BY <1>1, <1>6 DEF Clean
  <2>3. OnlyOne'
    BY <1>1, <1>3, <1>4, <2>1, <2>2 DEF OnlyOne, Unstored
  <2>4. OfTheRow'
    BY <1>1, <1>2, <1>3, <2>1 DEF OfTheRow, Theirs
  <2>5. QED
    BY <2>3, <2>4
<1>7. QED
  BY <1>5, <1>6 DEF CustomerInv

\* Stripe, the webhook and the administrator add nothing to a clean history.
LEMMA OthersKeepCustomer ==
    ASSUME TypeInv, CustomerInv, NEW p \in Webhook \cup Admin, NEW d, Step(p, d) \/ UNCHANGED proc,
           UNCHANGED <<customers, sessions, stripe>>, raced => raced', edited => edited', lost => lost',
           row # NoRow, row' # NoRow, Clean' => row'.customer = row.customer,
           pending' \subseteq pending, dropped' /\ Clean' => dropped
    PROVE  CustomerInv'
<1>1. CASE Clean'
  <2>1. \A q \in Checkout : proc'[q] = proc[q]
    BY Moved, Kinds
  <2>2. Clean' => Clean
    BY DEF Clean
  <2>3. SameCustomer
    BY <1>1, <2>1 DEF SameCustomer
  <2>4. NothingNew
    BY DEF NothingNew
  <2>5. QED
    BY <2>2, <2>3, <2>4, QuietStepKeepsCustomer
<1>2. CASE ~Clean'
  BY <1>2 DEF CustomerInv, NothingDropped, Clean
<1>3. QED
  BY <1>1, <1>2

LEMMA StripeKeepsCustomer ==
    ASSUME TypeInv, CustomerInv, NEW c \in Customer, Pay(c) \/ \E status \in Status : Change(c, status)
    PROVE  CustomerInv'
<1>1. CASE Pay(c)
  <2>1. SameCustomer /\ Clean' = Clean /\ dropped' = dropped
    BY <1>1 DEF Pay, history, SameCustomer, Clean
  <2>2. \A k \in sessions' : k \in sessions
    BY <1>1 DEF Pay
  <2>3. \A k \in Customer : stripe'[k] # "none" => stripe[k] # "none" \/ k \in sessions
    BY <1>1 DEF Pay, TypeInv, TypeOK
  <2>4. \A e \in pending' : e \in pending \/ e.customer \in sessions
    BY <1>1 DEF Pay
  <2>5. NothingNew
    BY <2>2, <2>3, <2>4 DEF NothingNew
  <2>6. QED
    BY <2>1, <2>5, QuietStepKeepsCustomer
<1>2. ASSUME NEW status \in Status, Change(c, status) PROVE CustomerInv'
  <2>1. SameCustomer /\ Clean' = Clean /\ dropped' = dropped /\ sessions' = sessions
    BY <1>2 DEF Change, history, SameCustomer, Clean
  <2>2. stripe[c] # "none"
    BY <1>2 DEF Change, Live
  <2>3. \A k \in Customer : stripe'[k] # "none" => stripe[k] # "none"
    BY <1>2, <2>2 DEF Change, TypeInv, TypeOK
  <2>4. \A e \in pending' : e \in pending \/ e.customer = c
    BY <1>2 DEF Change
  <2>5. NothingNew
    BY <2>1, <2>2, <2>3, <2>4 DEF NothingNew
  <2>6. QED
    BY <2>1, <2>5, QuietStepKeepsCustomer
<1>3. QED
  BY <1>1, <1>2

LEMMA ReceiveKeepsCustomer ==
    ASSUME TypeInv, CustomerInv, NEW p \in Webhook, NEW e \in pending, Receive(p, e)
    PROVE  CustomerInv'
<1>1. UNCHANGED <<row, customers, sessions, stripe, raced, edited, lost>>
  BY DEF Receive, external
<1>2. pending' \subseteq pending /\ (dropped' => dropped \/ ~Theirs(e.customer))
  BY DEF Receive, Theirs
<1>3. \A q \in Checkout : proc'[q] = proc[q]
  BY Moved, Kinds DEF Receive
<1>4. Clean => Theirs(e.customer)
  BY DEF CustomerInv, OfTheRow
<1>5. Clean' <=> Clean
  BY <1>1 DEF Clean
<1>6. SameCustomer /\ NothingNew
  BY <1>1, <1>2, <1>3 DEF SameCustomer, NothingNew
<1>7. dropped' /\ Clean' => dropped
  BY <1>2, <1>4, <1>5
<1>8. QED
  BY <1>5, <1>6, <1>7, QuietStepKeepsCustomer

\* What the webhook and the administrator write over.
LEMMA SaveEventFacts ==
    ASSUME TypeInv, NEW p \in Webhook, NEW answered \in BOOLEAN, SaveEvent(p, answered)
    PROVE  /\ proc[p].pc = "loaded" /\ row # NoRow /\ row' # NoRow
           /\ proc[p].event \in Event /\ proc[p].event.customer = proc[p].snap.customer
           /\ ~lost' => ~lost /\ row = proc[p].snap
           /\ row'.customer = proc[p].snap.customer
           /\ row'.status = proc[p].event.status /\ row'.about = proc[p].event.kind
<1>1. proc[p].pc = "loaded" /\ row # NoRow /\ Fits(p, proc[p])
  BY RowThere, Kinds DEF SaveEvent, At
<1>2. proc[p].snap \in Row /\ proc[p].event \in Event
  BY <1>1, Kinds DEF Fits
<1>3. row' = Synced(proc[p].snap, proc[p].event) /\ (~lost' => ~lost /\ row = proc[p].snap)
  BY DEF SaveEvent
<1>4. row' # NoRow
  BY <1>2, <1>3, RecordsTyped, SentinelAssumption
<1>5. QED
  BY <1>1, <1>2, <1>3, <1>4, Kinds DEF Fits, Synced, Row

LEMMA SaveEventKeepsCustomer ==
    ASSUME TypeInv, CustomerInv, NEW p \in Webhook, NEW answered \in BOOLEAN, SaveEvent(p, answered)
    PROVE  CustomerInv'
<1>1. /\ Step(p, Idle) /\ pending' \subseteq pending
      /\ UNCHANGED <<customers, sessions, stripe, raced, edited, dropped>> /\ (lost => lost')
  BY DEF SaveEvent, external
<1>2. row # NoRow /\ row' # NoRow /\ (Clean' => row'.customer = row.customer)
  BY SaveEventFacts DEF Clean
<1>3. QED
  BY <1>1, <1>2, OthersKeepCustomer

LEMMA SavePatchFacts ==
    ASSUME TypeInv, NEW p \in Admin, NEW status \in Corrections \cup {Keep},
           NEW customer \in {0, Keep}, SavePatch(p, status, customer)
    PROVE  /\ row # NoRow /\ row' # NoRow
           /\ ~lost' => ~lost /\ row = proc[p].snap
           /\ ~edited' => ~edited /\ row' = proc[p].snap
<1>1. proc[p].pc = "loaded" /\ row # NoRow /\ proc[p].snap \in Row
  BY RowThere, Kinds DEF SavePatch, At, Fits
<1>2. row' \in Row
  BY <1>1, PatchTyped, Zenon DEF SavePatch
<1>3. QED
  BY <1>1, <1>2, SentinelAssumption DEF SavePatch

LEMMA AdminKeepsCustomer ==
    ASSUME TypeInv, CustomerInv, NEW p \in Admin,
           \/ Load(p)
           \/ \E status \in Corrections \cup {Keep}, customer \in {0, Keep} :
                SavePatch(p, status, customer)
    PROVE  CustomerInv'
<1>1. CASE Load(p)
  <2> DEFINE d == [Idle EXCEPT !.pc = "loaded", !.snap = row]
  <2>1. /\ Step(p, d) /\ row # NoRow
        /\ UNCHANGED <<row, customers, sessions, stripe, pending, raced, edited, lost, dropped>>
    BY <1>1 DEF Load, external, history
  <2> HIDE DEF d
  <2>2. QED
    BY <2>1, OthersKeepCustomer
<1>2. ASSUME NEW status \in Corrections \cup {Keep}, NEW customer \in {0, Keep},
             SavePatch(p, status, customer)
      PROVE  CustomerInv'
  <2>1. /\ Step(p, Idle)
        /\ UNCHANGED <<customers, sessions, stripe, pending, raced, dropped>>
        /\ (edited => edited') /\ (lost => lost')
    BY <1>2 DEF SavePatch, external
  <2>2. row # NoRow /\ row' # NoRow /\ (Clean' => row'.customer = row.customer)
    BY <1>2, SavePatchFacts DEF Clean
  <2>3. QED
    BY <2>1, <2>2, OthersKeepCustomer
<1>3. QED
  BY <1>1, <1>2

--------------------------------------------------------------------------
(* The newest event *)

\* The events that may still be saved.
Open == pending \cup {proc[p].event : p \in {q \in Webhook : proc[q].pc = "loaded"}}

\* A time of creation names one event, and while nothing was overwritten the row
\* has the status of the newest event saved.
Ordered ==
    /\ applied <= emitted
    /\ \A e \in Open : 1 <= e.seq /\ e.seq <= emitted
    /\ \A d, e \in Open : d.seq = e.seq => d = e
    /\ ~late /\ ~lost /\ ~edited => \A e \in Open : e.seq = applied => e.status = row.status

\* The newest event says what Stripe says; it has been saved, or it will be.
Says(kind, status, c) == \/ status = stripe[c]
                         \/ kind = "session" /\ status = "complete"

Newest ==
    /\ emitted > 0 => \E c \in Customer : stripe[c] # "none"
    /\ \A e \in Open : e.seq = emitted => Says(e.kind, e.status, e.customer)
    /\ Clean /\ ~late /\ emitted > 0 =>
          /\ applied = emitted \/ \E e \in pending : e.seq = emitted
          /\ applied = emitted => Says(row.about, row.status, row.customer)

NewsInv == Ordered /\ Newest

LEMMA NewsInvInit == Init => NewsInv
<1> SUFFICES ASSUME Init PROVE NewsInv
  OBVIOUS
<1>1. \A p \in Webhook : proc[p].pc = "idle"
  BY Kinds DEF Init, Idle
<1>2. Open = {}
  BY <1>1 DEF Init, Open
<1>3. QED
  BY <1>2 DEF Init, NewsInv, Ordered, Newest

\* A step that opens no event.
LEMMA OpenShrinks ==
    ASSUME TypeInv, NEW p \in Process, NEW d, Step(p, d),
           p \in Webhook /\ d.pc = "loaded" => d.event \in Open,
           pending' \subseteq pending
    PROVE  Open' \subseteq Open
BY Moved, Kinds DEF Open

\* The types of what is open.
LEMMA OpenTyped ==
    ASSUME TypeInv
    PROVE  Open \subseteq Event
BY Kinds DEF TypeInv, TypeOK, Held, Fits, Open

\* A step that tells nothing new: what matters of the row changes only before
\* the first event is saved, or with a history that is no longer clean.
NoNews ==
    /\ Open' \subseteq Open
    /\ applied' = applied /\ emitted' = emitted /\ stripe' = stripe
    /\ late => late'
    /\ lost => lost'
    /\ edited => edited'
    /\ Clean' => Clean /\ pending' = pending
    /\ applied > 0 /\ ~lost' /\ ~edited' => row'.status = row.status /\ row'.about = row.about
    /\ applied > 0 /\ Clean' => row'.customer = row.customer

LEMMA QuietStepKeepsNews ==
    ASSUME TypeInv, NewsInv, NoNews
    PROVE  NewsInv'
<1>1. Open \subseteq Event
  BY OpenTyped
<1>2. applied \in Nat /\ emitted \in Nat
  BY DEF TypeInv, TypeOK
<1>3. Ordered'
  <2>1. \A e \in Open : 1 <= e.seq /\ e.seq \in Nat
    BY <1>1 DEF NewsInv, Ordered, Event
  <2>2. ~late' /\ ~lost' /\ ~edited' => \A e \in Open' : e.seq = applied' => e.status = row'.status
    BY <1>2, <2>1 DEF NewsInv, Ordered, NoNews
  <2>3. QED
    BY <2>2 DEF NewsInv, Ordered, NoNews
<1>4. Newest'
  <2>1. emitted' > 0 => \E c \in Customer : stripe'[c] # "none"
    BY DEF NewsInv, Newest, NoNews
  <2>2. \A e \in Open' : e.seq = emitted' => Says(e.kind, e.status, e.customer)'
    BY DEF NewsInv, Newest, NoNews, Says
  <2>3. ASSUME Clean', ~late', emitted' > 0
        PROVE  /\ applied' = emitted' \/ \E e \in pending' : e.seq = emitted'
               /\ applied' = emitted' => Says(row.about, row.status, row.customer)'
    <3>1. Clean /\ ~late /\ emitted > 0 /\ pending' = pending
      BY <2>3 DEF NoNews
    <3>2. ~lost' /\ ~edited'
      BY <2>3 DEF Clean
    <3>3. applied = emitted => Says(row.about, row.status, row.customer)'
      BY <2>3, <3>1, <3>2 DEF NewsInv, Newest, NoNews, Says
    <3>4. QED
      BY <3>1, <3>3 DEF NewsInv, Newest, NoNews
  <2>4. QED
    BY <2>1, <2>2, <2>3 DEF Newest
<1>5. QED
  BY <1>3, <1>4 DEF NewsInv

\* Once Stripe has spoken the row knows its customer.
LEMMA CustomerBeforeNews ==
    ASSUME TypeInv, CustomerInv, NewsInv, Clean, applied > 0
    PROVE  row # NoRow /\ row.customer # 0
<1>1. emitted > 0
  BY DEF NewsInv, Ordered, TypeInv, TypeOK
<1>2. PICK c \in Customer : stripe[c] # "none"
  BY <1>1 DEF NewsInv, Newest
<1>3. c # 0
  BY BoundAssumption DEF Customer
<1>4. QED
  BY <1>2, <1>3 DEF CustomerInv, OfTheRow, Theirs

LEMMA CheckoutTellsNothing ==
    ASSUME TypeInv, CustomerInv, NewsInv, NEW p \in Checkout,
           GetOrCreate(p) \/ CreateCustomer(p) \/ SaveCustomer(p) \/ OpenSession(p)
    PROVE  NoNews
<1>1. p \in Process /\ p \notin Webhook
  BY Kinds
<1>2. PICK d : Step(p, d)
  BY Zenon DEF GetOrCreate, CreateCustomer, SaveCustomer, OpenSession
<1>3. UNCHANGED <<pending, applied, emitted, stripe, late, lost, edited>> /\ (raced => raced')
  <2>1. CASE GetOrCreate(p)
    BY <2>1 DEF GetOrCreate, external
  <2>2. CASE CreateCustomer(p)
    BY <2>2 DEF CreateCustomer, history
  <2>3. CASE SaveCustomer(p)
    BY <2>3 DEF SaveCustomer, external, history
  <2>4. CASE OpenSession(p)
    BY <2>4 DEF OpenSession, history
  <2>5. QED
    BY <2>1, <2>2, <2>3, <2>4
<1>4. Open' \subseteq Open
  BY <1>1, <1>2, <1>3, OpenShrinks
<1>5. applied > 0 => row # NoRow
  BY DEF TypeInv, TypeOK, Held
<1>6. UNCHANGED row \/ row = NoRow \/ SaveCustomer(p)
  BY DEF GetOrCreate, Gotten, CreateCustomer, OpenSession
<1>7. applied > 0 => row'.status = row.status /\ row'.about = row.about
  <2>1. CASE SaveCustomer(p)
    <3>1. row \in Row
      BY <1>1, <2>1, RowThere DEF SaveCustomer, At
    <3>2. QED
      BY <2>1, <3>1 DEF SaveCustomer, Row
  <2>2. QED
    BY <1>5, <1>6, <2>1
<1>8. Clean' => Clean
  BY <1>3 DEF Clean
<1>9. applied > 0 /\ Clean' => row'.customer = row.customer
  <2>1. CASE SaveCustomer(p) /\ applied > 0 /\ Clean
    <3>1. row.customer # 0
      BY <2>1, CustomerBeforeNews
    <3>2. p \in Unstored
      BY <2>1 DEF SaveCustomer, At, Unstored
    <3>3. QED
      BY <2>1, <3>1, <3>2 DEF CustomerInv, OnlyOne
  <2>2. QED
    BY <1>5, <1>6, <1>8, <2>1
<1>10. QED
  BY <1>3, <1>4, <1>7, <1>8, <1>9 DEF NoNews

LEMMA AdminTellsNothing ==
    ASSUME TypeInv, NEW p \in Admin,
           \/ Load(p)
           \/ \E status \in Corrections \cup {Keep}, customer \in {0, Keep} :
                SavePatch(p, status, customer)
    PROVE  NoNews
<1>1. p \in Process /\ p \notin Webhook
  BY Kinds
<1>2. CASE Load(p)
  <2> DEFINE d == [Idle EXCEPT !.pc = "loaded", !.snap = row]
  <2>1. Step(p, d) /\ UNCHANGED <<row, pending, applied, emitted, stripe, late, lost, edited, raced>>
    BY <1>2 DEF Load, external, history
  <2> HIDE DEF d
  <2>2. Open' \subseteq Open
    BY <1>1, <2>1, OpenShrinks
  <2>3. QED
    BY <2>1, <2>2 DEF NoNews, Clean
<1>3. ASSUME NEW status \in Corrections \cup {Keep}, NEW customer \in {0, Keep},
             SavePatch(p, status, customer)
      PROVE  NoNews
  <2>1. Step(p, Idle) /\ UNCHANGED <<pending, applied, emitted, stripe, late, raced>>
    BY <1>3 DEF SavePatch, external
  <2>2. Open' \subseteq Open
    BY <1>1, <2>1, OpenShrinks
  <2>3. (lost => lost') /\ (edited => edited') /\ (~lost' /\ ~edited' => row' = row)
    BY <1>3, SavePatchFacts
  <2>4. QED
    BY <2>1, <2>2, <2>3 DEF NoNews, Clean
<1>4. QED
  BY <1>2, <1>3

LEMMA CrashTellsNothing ==
    ASSUME TypeInv, NEW p \in Process, Crash(p)
    PROVE  NoNews
<1>1. /\ Step(p, Idle) /\ (raced => raced')
      /\ UNCHANGED <<row, pending, applied, emitted, stripe, late, lost, edited>>
  BY DEF Crash, external
<1>2. Idle.pc = "idle"
  BY DEF Idle
<1>3. Open' \subseteq Open
  BY <1>1, <1>2, OpenShrinks
<1>4. QED
  BY <1>1, <1>3 DEF NoNews, Clean

LEMMA ReceiveTellsNothing ==
    ASSUME TypeInv, CustomerInv, NEW p \in Webhook, NEW e \in pending, Receive(p, e)
    PROVE  NoNews
<1>1. UNCHANGED <<row, applied, emitted, stripe, late, lost, edited, raced>>
  BY DEF Receive, external
<1>2. Clean => Theirs(e.customer)
  BY DEF CustomerInv, OfTheRow
<1>3. pending' \subseteq pending /\ (Clean => pending' = pending)
  BY <1>2 DEF Receive, Theirs
<1>4. Open' \subseteq Open
  <2> DEFINE d == [Idle EXCEPT !.pc = "loaded", !.snap = row, !.event = e]
  <2>1. CASE Step(p, d)
    <3>1. d.event = e
      BY DEF Idle
    <3>2. e \in Open
      BY DEF Open
    <3> HIDE DEF d
    <3>3. QED
      BY <1>3, <2>1, <3>1, <3>2, Kinds, OpenShrinks
  <2>2. CASE UNCHANGED proc
    BY <1>3, <2>2 DEF Open
  <2>3. QED
    BY <2>1, <2>2 DEF Receive
<1>5. QED
  BY <1>1, <1>3, <1>4 DEF NoNews, Clean

\* Stripe emits: the events are new, and the newest says what Stripe says now.
Emits(c, E) ==
    /\ \A e \in E : e.customer = c /\ emitted < e.seq /\ e.seq <= emitted'
    /\ \A e \in E : e.seq = emitted' => Says(e.kind, e.status, e.customer)'
    /\ \A d, e \in E : d.seq = e.seq => d = e
    /\ \E e \in E : e.seq = emitted'
    /\ pending' = pending \cup E
    /\ emitted' \in Nat /\ emitted < emitted'
    /\ stripe'[c] # "none"
    /\ UNCHANGED <<row, proc>>
    /\ UNCHANGED history

LEMMA EmissionKeepsNews ==
    ASSUME TypeInv, NewsInv, NEW c \in Customer, NEW E \in SUBSET Event, Emits(c, E)
    PROVE  NewsInv'
<1> USE DEF NewsInv, Emits
<1>1. Open \subseteq Event /\ emitted \in Nat /\ applied \in Nat /\ \A e \in Event : e.seq \in Nat
  BY OpenTyped DEF TypeInv, TypeOK, Event
<1>2. Open' = Open \cup E
  BY DEF Open
<1>3. \A e \in Open : 1 <= e.seq /\ e.seq <= emitted
  BY DEF Ordered
<1>4. UNCHANGED <<applied, late, lost, raced, edited, row>>
  BY DEF history
<1>5. Ordered'
  <2>1. applied' <= emitted'
    BY <1>1, <1>4 DEF Ordered
  <2>2. \A e \in Open' : 1 <= e.seq /\ e.seq <= emitted'
    BY <1>1, <1>2, <1>3
  <2>3. \A d, e \in Open' : d.seq = e.seq => d = e
    BY <1>1, <1>2, <1>3 DEF Ordered
  <2>4. ~late /\ ~lost /\ ~edited => \A e \in Open' : e.seq = applied => e.status = row.status
    BY <1>1, <1>2 DEF Ordered
  <2>5. QED
    BY <1>4, <2>1, <2>2, <2>3, <2>4 DEF Ordered
<1>6. Newest'
  <2>1. \E k \in Customer : stripe'[k] # "none"
    OBVIOUS
  <2>2. \A e \in Open' : e.seq = emitted' => Says(e.kind, e.status, e.customer)'
    BY <1>1, <1>2, <1>3
  <2>3. \E e \in pending' : e.seq = emitted'
    OBVIOUS
  <2>4. applied' # emitted'
    BY <1>1, <1>4 DEF Ordered
  <2>5. QED
    BY <2>1, <2>2, <2>3, <2>4 DEF Newest
<1>7. QED
  BY <1>5, <1>6

LEMMA StripeKeepsNews ==
    ASSUME TypeInv, NewsInv, NEW c \in Customer, Pay(c) \/ \E status \in Status : Change(c, status)
    PROVE  NewsInv'
<1> DEFINE E(seq, kind, status) ==
             [seq |-> seq, customer |-> c, kind |-> kind, status |-> status]
<1>1. /\ emitted \in Nat /\ emitted + 1 \in Nat /\ emitted + 2 \in Nat
      /\ "subscription" \in Kind /\ "session" \in Kind
      /\ "active" \in Status /\ "complete" \in Status
      /\ stripe \in [Customer -> Status \cup {"none"}]
  BY DEF TypeInv, TypeOK, Kind, Status, Live
<1>2. ASSUME Pay(c), NEW first \in Event, NEW second \in Event,
             first.customer = c, first.seq = emitted + 1,
             second.customer = c, second.seq = emitted + 2,
             \/ second.status = stripe'[c]
             \/ second.kind = "session" /\ second.status = "complete",
             pending' = pending \cup {first, second}
      PROVE  NewsInv'
  <2>1. emitted' = emitted + 2 /\ stripe'[c] # "none" /\ UNCHANGED <<row, proc>> /\ UNCHANGED history
    BY <1>1, <1>2 DEF Pay
  <2>2. Emits(c, {first, second})
    BY <1>1, <1>2, <2>1 DEF Emits, Says
  <2>3. QED
    BY <2>2, EmissionKeepsNews
<1>3. CASE Pay(c)
  <2>1. /\ E(emitted + 1, "subscription", "active") \in Event
        /\ E(emitted + 2, "session", "complete") \in Event
        /\ E(emitted + 1, "session", "complete") \in Event
        /\ E(emitted + 2, "subscription", "active") \in Event
    BY <1>1, EventTyped, Zenon
  <2>2. stripe'[c] = "active"
    BY <1>1, <1>3 DEF Pay
  <2>3. CASE pending' = pending \cup {E(emitted + 1, "subscription", "active"),
                                      E(emitted + 2, "session", "complete")}
    <3>1. PICK first \in Event, second \in Event :
             first = E(emitted + 1, "subscription", "active") /\ second = E(emitted + 2, "session", "complete")
      BY <2>1, Zenon
    <3>2. /\ first.customer = c /\ first.seq = emitted + 1
          /\ second.customer = c /\ second.seq = emitted + 2
          /\ second.kind = "session" /\ second.status = "complete"
      BY <3>1
    <3>3. pending' = pending \cup {first, second}
      BY <2>3, <3>1, Zenon
    <3>4. QED
      BY <1>2, <1>3, <3>2, <3>3
  <2>4. CASE pending' = pending \cup {E(emitted + 1, "session", "complete"),
                                      E(emitted + 2, "subscription", "active")}
    <3>1. PICK first \in Event, second \in Event :
             first = E(emitted + 1, "session", "complete") /\ second = E(emitted + 2, "subscription", "active")
      BY <2>1, Zenon
    <3>2. /\ first.customer = c /\ first.seq = emitted + 1
          /\ second.customer = c /\ second.seq = emitted + 2
          /\ second.status = "active"
      BY <3>1
    <3>3. pending' = pending \cup {first, second}
      BY <2>4, <3>1, Zenon
    <3>4. QED
      BY <1>2, <1>3, <2>2, <3>2, <3>3
  <2>5. QED
    BY <1>3, <2>3, <2>4 DEF Pay
<1>4. ASSUME NEW status \in Status, Change(c, status) PROVE NewsInv'
  <2> DEFINE e == E(emitted + 1, "subscription", status)
  <2>1. e \in Event
    BY <1>1, EventTyped, Zenon
  <2>2. e.seq = emitted + 1 /\ e.customer = c /\ e.status = status
    OBVIOUS
  <2>3. /\ pending' = pending \cup {e} /\ emitted' = emitted + 1 /\ stripe'[c] = status
        /\ UNCHANGED <<row, proc>> /\ UNCHANGED history
    BY <1>1, <1>4 DEF Change
  <2>4. status # "none"
    BY <1>4 DEF Change, Live
  <2> HIDE DEF e
  <2>5. Emits(c, {e})
    BY <1>1, <2>2, <2>3, <2>4 DEF Emits, Says
  <2>6. {e} \in SUBSET Event
    BY <2>1
  <2>7. QED
    BY <2>5, <2>6, EmissionKeepsNews
<1>5. QED
  BY <1>3, <1>4

\* The webhook writes what its event says over the row, which was loaded for the
\* event's customer; unless something is lost or late it is the newest one saved.
LEMMA SaveEventKeepsNews ==
    ASSUME TypeInv, NewsInv, NEW p \in Webhook, NEW answered \in BOOLEAN, SaveEvent(p, answered)
    PROVE  NewsInv'
<1> DEFINE e == proc[p].event
<1>1. /\ proc[p].pc = "loaded" /\ e \in Event /\ e.customer = proc[p].snap.customer
      /\ ~lost' => ~lost /\ row = proc[p].snap
      /\ row'.customer = proc[p].snap.customer
      /\ row'.status = e.status /\ row'.about = e.kind
  BY SaveEventFacts, Zenon
<1>2. /\ applied' = IF e.seq > applied THEN e.seq ELSE applied
      /\ late' = (late \/ e.seq < applied)
      /\ pending' = IF answered THEN pending \ {e} ELSE pending
      /\ UNCHANGED <<emitted, stripe, raced, edited>> /\ Step(p, Idle)
  BY DEF SaveEvent, external
<1>3. e \in Open
  BY <1>1 DEF Open
<1> HIDE DEF e
<1>4. Open' \subseteq Open
  <2>1. Idle.pc = "idle" /\ pending' \subseteq pending
    BY <1>2 DEF Idle
  <2>2. QED
    BY <1>2, <2>1, Kinds, OpenShrinks
<1>5. /\ applied \in Nat /\ emitted \in Nat /\ e.seq \in Nat
      /\ 1 <= e.seq /\ e.seq <= emitted /\ applied <= emitted
      /\ \A x \in Open : x.seq = e.seq => x = e
      /\ \A x \in Open : x.seq \in Nat /\ 1 <= x.seq /\ x.seq <= emitted
  BY <1>1, <1>3, OpenTyped DEF TypeInv, TypeOK, NewsInv, Ordered, Event
<1>6. ~late' => ~late /\ applied' = e.seq
  <2>1. ~late' => ~late /\ ~(e.seq < applied)
    BY <1>2, Zenon
  <2>2. QED
    BY <1>2, <1>5, <2>1
<1>7. Ordered'
  <2>1. applied' <= emitted'
    BY <1>2, <1>5
  <2>2. ~late' => \A x \in Open' : x.seq = applied' => x.status = row'.status
    BY <1>1, <1>4, <1>5, <1>6
  <2>3. QED
    BY <1>2, <1>4, <1>5, <2>1, <2>2 DEF Ordered, NewsInv
<1>8. Newest'
  <2>1. emitted' > 0 => \E c \in Customer : stripe'[c] # "none"
    BY <1>2 DEF NewsInv, Newest
  <2>2. \A x \in Open' : x.seq = emitted' => Says(x.kind, x.status, x.customer)'
    BY <1>2, <1>4 DEF NewsInv, Newest, Says
  <2>3. ASSUME Clean', ~late'
        PROVE  applied' = emitted' \/ \E x \in pending' : x.seq = emitted'
    <3>1. Clean /\ ~late
      BY <1>1, <1>2, <2>3 DEF Clean
    <3>2. applied = emitted \/ \E x \in pending : x.seq = emitted
      BY <1>5, <3>1 DEF NewsInv, Newest
    <3>3. CASE applied = emitted
      BY <1>2, <1>5, <3>3
    <3>4. CASE \E x \in pending : x.seq = emitted
      <4>1. PICK x \in pending : x.seq = emitted
        BY <3>4
      <4>2. CASE x = e
        BY <1>2, <1>5, <4>1, <4>2
      <4>3. CASE x # e
        BY <1>2, <4>1, <4>3
      <4>4. QED
        BY <4>2, <4>3
    <3>5. QED
      BY <3>2, <3>3, <3>4
  <2>4. ASSUME Clean', ~late', applied' = emitted'
        PROVE  Says(row.about, row.status, row.customer)'
    <3>1. e.seq = emitted
      BY <1>2, <1>6, <2>4
    <3>2. Says(e.kind, e.status, e.customer)
      BY <1>3, <3>1 DEF NewsInv, Newest
    <3>3. QED
      BY <1>1, <1>2, <3>2 DEF Says
  <2>5. QED
    BY <2>1, <2>2, <2>3, <2>4 DEF Newest
<1>9. QED
  BY <1>7, <1>8 DEF NewsInv

--------------------------------------------------------------------------
(* The theorems *)

BillingInv == TypeInv /\ CustomerInv /\ NewsInv

LEMMA BillingInvInit == Init => BillingInv
BY TypeInvInit, CustomerInvInit, NewsInvInit DEF BillingInv

LEMMA NextKeepsBillingInv == BillingInv /\ [Next]_vars => BillingInv'
<1> SUFFICES ASSUME BillingInv, [Next]_vars PROVE BillingInv'
  OBVIOUS
<1>1. TypeInv /\ CustomerInv /\ NewsInv
  BY DEF BillingInv
<1>2. TypeInv'
  BY <1>1, NextKeepsTypes
<1>3. CustomerInv' /\ NewsInv'
  <2>1. ASSUME NEW p \in Checkout,
               GetOrCreate(p) \/ CreateCustomer(p) \/ SaveCustomer(p) \/ OpenSession(p)
        PROVE  CustomerInv' /\ NewsInv'
    <3>1. NewsInv'
      BY <1>1, <2>1, CheckoutTellsNothing, QuietStepKeepsNews
    <3>2. CASE GetOrCreate(p)
      BY <1>1, <3>1, <3>2, GetOrCreateKeepsCustomer
    <3>3. CASE CreateCustomer(p)
      BY <1>1, <3>1, <3>3, CreateKeepsCustomer
    <3>4. CASE SaveCustomer(p)
      BY <1>1, <3>1, <3>4, SaveKeepsCustomer
    <3>5. CASE OpenSession(p)
      BY <1>1, <3>1, <3>5, Kinds, EndKeepsCustomer
    <3>6. QED
      BY <2>1, <3>2, <3>3, <3>4, <3>5
  <2>2. ASSUME NEW c \in Customer, Pay(c) \/ \E status \in Status : Change(c, status)
        PROVE  CustomerInv' /\ NewsInv'
    BY <1>1, <2>2, StripeKeepsCustomer, StripeKeepsNews, Zenon
  <2>3. ASSUME NEW p \in Webhook, NEW e \in pending, Receive(p, e)
        PROVE  CustomerInv' /\ NewsInv'
    BY <1>1, <2>3, ReceiveKeepsCustomer, ReceiveTellsNothing, QuietStepKeepsNews, Zenon
  <2>4. ASSUME NEW p \in Webhook, NEW answered \in BOOLEAN, SaveEvent(p, answered)
        PROVE  CustomerInv' /\ NewsInv'
    BY <1>1, <2>4, SaveEventKeepsCustomer, SaveEventKeepsNews, Zenon
  <2>5. ASSUME NEW p \in Admin,
               \/ Load(p)
               \/ \E status \in Corrections \cup {Keep}, customer \in {0, Keep} :
                    SavePatch(p, status, customer)
        PROVE  CustomerInv' /\ NewsInv'
    BY <1>1, <2>5, AdminKeepsCustomer, AdminTellsNothing, QuietStepKeepsNews, Zenon
  <2>6. ASSUME NEW p \in Process, Crash(p) PROVE CustomerInv' /\ NewsInv'
    BY <1>1, <2>6, EndKeepsCustomer, CrashTellsNothing, QuietStepKeepsNews, Zenon
  <2>7. CASE UNCHANGED vars
    <3>1. SameCustomer /\ NothingNew /\ NoNews /\ Clean' = Clean /\ dropped' = dropped
      BY <2>7 DEF vars, SameCustomer, NothingNew, NoNews, Clean, Open
    <3>2. QED
      BY <1>1, <3>1, QuietStepKeepsCustomer, QuietStepKeepsNews
  <2>8. QED
    BY <2>1, <2>2, <2>3, <2>4, <2>5, <2>6, <2>7, Zenon DEF Next
<1>4. QED
  BY <1>2, <1>3 DEF BillingInv

LEMMA BillingInvHolds == Spec => []BillingInv
BY BillingInvInit, NextKeepsBillingInv, PTL DEF Spec

\* A payment reaches its subscription: the webhook finds the customer of every
\* event, unless two first checkouts met or one died, an administrator changed
\* the row or a save overwrote a newer value.
THEOREM PaymentsArrive == Spec => []NothingDropped
<1>1. BillingInv => NothingDropped
  BY DEF BillingInv, CustomerInv
<1>2. QED
  BY <1>1, BillingInvHolds, PTL

\* Under the same conditions the user is one customer at Stripe.
THEOREM UserIsOneCustomer == Spec => []OneCustomer
<1>1. BillingInv => OneCustomer
  <2>1. Cardinality({}) = 0 /\ Cardinality({1}) = 1
    BY FS_EmptySet, FS_Singleton
  <2>2. ASSUME OnlyOne PROVE customers = {} \/ customers = {1}
    BY <2>2 DEF OnlyOne, Unstored
  <2>3. QED
    BY <2>1, <2>2 DEF BillingInv, CustomerInv, OneCustomer, Clean
<1>2. QED
  BY <1>1, BillingInvHolds, PTL

\* When nothing is under way the row says what Stripe's newest event said.
THEOREM RowConverges == Spec => []Converged
<1>1. BillingInv => Converged
  BY DEF BillingInv, NewsInv, Newest, Says, Converged, Clean, TypeInv, TypeOK
<1>2. QED
  BY <1>1, BillingInvHolds, PTL

\* A canceled subscription comes back only by a newer event, by an older one that
\* arrived late, over a lost value, or by an administrator.
THEOREM CancellationSticks == Spec => CancelSticks
<1> DEFINE A == row # NoRow /\ row.status = "canceled" /\ row'.status # "canceled"
                  /\ ~late' /\ ~lost' /\ ~edited'
                => applied' > applied
<1>1. ASSUME BillingInv, Next, row # NoRow, row.status = "canceled", row'.status # "canceled",
             ~late', ~lost', ~edited'
      PROVE  applied' > applied
  <2>1. TypeInv /\ CustomerInv /\ NewsInv
    BY <1>1 DEF BillingInv
  <2>2. ASSUME NEW p \in Checkout,
               GetOrCreate(p) \/ CreateCustomer(p) \/ SaveCustomer(p) \/ OpenSession(p)
        PROVE  row'.status = row.status
    <3>1. CASE SaveCustomer(p)
      <4>1. row \in Row
        BY <2>1, <3>1, Kinds, RowThere DEF SaveCustomer, At
      <4>2. QED
        BY <3>1, <4>1 DEF SaveCustomer, Row
    <3>2. CASE GetOrCreate(p) \/ CreateCustomer(p) \/ OpenSession(p)
      BY <1>1, <3>2 DEF GetOrCreate, Gotten, CreateCustomer, OpenSession
    <3>3. QED
      BY <2>2, <3>1, <3>2
  <2>3. ASSUME NEW c \in Customer, Pay(c) \/ \E status \in Status : Change(c, status)
        PROVE  row' = row
    BY <2>3 DEF Pay, Change
  <2>4. ASSUME NEW p \in Webhook, NEW e \in pending, Receive(p, e)
        PROVE  row' = row
    BY <2>4 DEF Receive
  <2>5. ASSUME NEW p \in Webhook, NEW answered \in BOOLEAN, SaveEvent(p, answered)
        PROVE  applied' > applied
    <3> DEFINE e == proc[p].event
    <3>1. proc[p].pc = "loaded" /\ e \in Event /\ row'.status = e.status /\ ~lost
      BY <1>1, <2>1, <2>5, SaveEventFacts, Zenon
    <3>2. e \in Open
      BY <3>1 DEF Open
    <3>3. ~late /\ ~(e.seq < applied) /\ ~edited
      BY <1>1, <2>5, Zenon DEF SaveEvent
    <3>4. applied' = IF e.seq > applied THEN e.seq ELSE applied
      BY <2>5 DEF SaveEvent
    <3> HIDE DEF e
    <3>5. e.seq # applied
      BY <1>1, <2>1, <3>1, <3>2, <3>3 DEF NewsInv, Ordered
    <3>6. e.seq \in Nat /\ applied \in Nat
      BY <2>1, <3>1 DEF TypeInv, TypeOK, Event
    <3>7. QED
      BY <3>3, <3>4, <3>5, <3>6
  <2>6. ASSUME NEW p \in Admin,
               \/ Load(p)
               \/ \E status \in Corrections \cup {Keep}, customer \in {0, Keep} :
                    SavePatch(p, status, customer)
        PROVE  row' = row
    <3>1. CASE Load(p)
      BY <3>1 DEF Load
    <3>2. ASSUME NEW status \in Corrections \cup {Keep}, NEW customer \in {0, Keep},
                 SavePatch(p, status, customer)
          PROVE  row' = row
      BY <1>1, <2>1, <3>2, SavePatchFacts
    <3>3. QED
      BY <2>6, <3>1, <3>2
  <2>7. ASSUME NEW p \in Process, Crash(p) PROVE row' = row
    BY <2>7 DEF Crash
  <2>8. QED
    BY <1>1, <2>2, <2>3, <2>4, <2>5, <2>6, <2>7, Zenon DEF Next
<1>2. BillingInv /\ [Next]_vars => [A]_vars
  BY <1>1
<1>3. QED
  BY <1>2, BillingInvHolds, PTL DEF Spec, CancelSticks
=============================================================================
