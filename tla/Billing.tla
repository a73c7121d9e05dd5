------------------------------ MODULE Billing ------------------------------
(***************************************************************************)
(* The subscription of one user (cors/models.py, Subscription), the        *)
(* checkout view and the Stripe webhook that write it                      *)
(* (cors/pages/billing/views.py) and the administrator's PATCH             *)
(* (cors/pages/admin_api/views.py).                                        *)
(*                                                                         *)
(* Stripe is external: it creates customers and sessions on request,       *)
(* changes subscriptions on its own, and delivers each event at least      *)
(* once, in any order, until it is answered 200. The clients of its API    *)
(* are numbered by creation; customer 0 is the blank stripe_customer_id.   *)
(***************************************************************************)
EXTENDS Integers, FiniteSets

CONSTANTS
    Checkout,     \* processes that serve the checkout view
    Webhook,      \* processes that serve the webhook
    Admin,        \* processes that serve the administrator's PATCH
    NoRow,        \* the row is absent
    Keep,         \* a field that a PATCH does not post
    Corrections,  \* statuses an administrator posts
    MaxCustomers, \* bound: customers at Stripe
    MaxEvents,    \* bound: events at Stripe
    MaxEdits,     \* bound: PATCH requests
    MaxCrashes    \* bound: requests that die

Customer == 1 .. MaxCustomers

\* What Stripe says of a subscription; "complete" is said of a checkout session.
Live     == {"active", "past_due"}
Kind     == {"session", "subscription"}
Status   == {"incomplete", "complete", "canceled"} \cup Live

\* Subscription.STATUS_CHOICES, without those that no event of the model carries.
Choices  == {"incomplete", "canceled"} \cup Live

\* An event of Stripe; `seq` is its time of creation.
Event == [seq : Nat, customer : Customer, kind : Kind, status : Status]

\* `about` is what stripe_subscription_id names. plan and current_period_end
\* travel with the status and change nothing else.
Row == [customer : Customer \cup {0}, about : Kind \cup {"none"}, status : Status]

ASSUME BoundAssumption == /\ MaxCustomers \in Nat /\ MaxEvents \in Nat
                          /\ MaxEdits \in Nat /\ MaxCrashes \in Nat
ASSUME CorrectionsAssumption == Corrections \subseteq Choices
ASSUME SentinelAssumption == NoRow \notin Row /\ Keep \notin Status \cup Nat

Process == Checkout \cup Webhook \cup Admin

ASSUME ProcessAssumption ==
    Checkout \cap Webhook = {} /\ Checkout \cap Admin = {} /\ Webhook \cap Admin = {}

VARIABLES
    row,       \* the user's Subscription row
    proc,      \* proc[p]: what process p is doing
    customers, \* customers Stripe created for the user
    sessions,  \* customers with a checkout session that is open
    stripe,    \* stripe[c]: status of customer c's subscription at Stripe
    emitted,   \* events so far
    pending,   \* events Stripe has not had an answer for
    edits,     \* PATCH requests so far
    crashes,   \* requests that died so far
    applied,   \* history: the newest event that was saved
    late,      \* history: an older event was saved after a newer one
    lost,      \* history: a full-row save overwrote a newer value
    raced,     \* history: two checkouts of the user without a customer overlapped,
               \*   or one died between Stripe and the database
    edited,    \* history: an administrator changed the row
    dropped    \* history: an event found no row

external == <<customers, sessions, stripe, emitted>>
bounds   == <<edits, crashes>>
history  == <<applied, late, lost, raced, edited, dropped>>
vars     == <<row, proc, customers, sessions, stripe, emitted, pending, edits,
              crashes, applied, late, lost, raced, edited, dropped>>

--------------------------------------------------------------------------

NoEvent == [seq |-> 0, customer |-> 0, kind |-> "none", status |-> "none"]

Idle == [pc |-> "idle", snap |-> NoRow, customer |-> 0, event |-> NoEvent]

At(p, pc)    == proc[p].pc = pc
Step(p, new) == proc' = [proc EXCEPT ![p] = new]

\* Checkouts that saw a blank customer and have not stored theirs.
Unstored == {p \in Checkout : proc[p].pc \in {"blank", "bought"}}

Init ==
    /\ row = NoRow
    /\ proc = [p \in Process |-> Idle]
    /\ customers = {} /\ sessions = {} /\ pending = {}
    /\ stripe = [c \in Customer |-> "none"]
    /\ emitted = 0 /\ edits = 0 /\ crashes = 0 /\ applied = 0
    /\ late = FALSE /\ lost = FALSE /\ raced = FALSE /\ edited = FALSE /\ dropped = FALSE

--------------------------------------------------------------------------
(* CreateCheckoutSessionView.post                                          *)

Blank == [customer |-> 0, about |-> "none", status |-> "incomplete"]

\* Mutant: the row is not asked for its customer.
KnownNever(snap) == FALSE

Known(snap) == snap.customer # 0

\* Mutant: update_or_create with the initial values.
GottenAnew(old) == Blank

\* Subscription.objects.get_or_create(user)
Gotten(old) == IF old = NoRow THEN Blank ELSE old

GetOrCreate(p) ==
    LET snap == Gotten(row)
    IN /\ p \in Checkout /\ At(p, "idle")
       /\ row' = snap
       /\ IF Known(snap)
          THEN /\ Step(p, [Idle EXCEPT !.pc = "ready", !.customer = snap.customer])
               /\ UNCHANGED raced
          ELSE /\ Step(p, [Idle EXCEPT !.pc = "blank"])
               /\ raced' = (raced \/ Unstored # {})
       /\ UNCHANGED <<external, pending, bounds, applied, late, lost, edited, dropped>>

\* stripe.Customer.create
CreateCustomer(p) ==
    LET c == Cardinality(customers) + 1
    IN /\ At(p, "blank")
       /\ c \in Customer
       /\ customers' = customers \cup {c}
       /\ Step(p, [proc[p] EXCEPT !.pc = "bought", !.customer = c])
       /\ UNCHANGED <<row, sessions, stripe, emitted, pending, bounds, history>>

\* save(update_fields=["stripe_customer_id", "updated_at"])
SaveCustomer(p) ==
    /\ At(p, "bought")
    /\ row' = [row EXCEPT !.customer = proc[p].customer]
    /\ Step(p, [proc[p] EXCEPT !.pc = "ready"])
    /\ UNCHANGED <<external, pending, bounds, history>>

\* stripe.checkout.Session.create, answer 201.
OpenSession(p) ==
    /\ At(p, "ready")
    /\ sessions' = sessions \cup {proc[p].customer}
    /\ Step(p, Idle)
    /\ UNCHANGED <<row, customers, stripe, emitted, pending, bounds, history>>

--------------------------------------------------------------------------
(* Stripe                                                                  *)

\* The user pays: the subscription starts and the session is complete, in the
\* order in which Stripe happens to create the two events.
Pay(c) ==
    LET E(seq, kind, status) == [seq |-> seq, customer |-> c, kind |-> kind, status |-> status]
    IN /\ c \in sessions
       /\ emitted + 2 <= MaxEvents
       /\ emitted' = emitted + 2
       /\ sessions' = sessions \ {c}
       /\ stripe' = [stripe EXCEPT ![c] = "active"]
       /\ \/ pending' = pending \cup {E(emitted + 1, "subscription", "active"),
                                      E(emitted + 2, "session", "complete")}
          \/ pending' = pending \cup {E(emitted + 1, "session", "complete"),
                                      E(emitted + 2, "subscription", "active")}
       /\ UNCHANGED <<row, proc, customers, bounds, history>>

\* A payment fails, is made up for, or the subscription ends: updated, deleted.
Change(c, status) ==
    /\ stripe[c] \in Live
    /\ status \in (Live \cup {"canceled"}) \ {stripe[c]}
    /\ emitted < MaxEvents
    /\ emitted' = emitted + 1
    /\ stripe' = [stripe EXCEPT ![c] = status]
    /\ pending' = pending \cup {[seq |-> emitted + 1, customer |-> c,
                                 kind |-> "subscription", status |-> status]}
    /\ UNCHANGED <<row, proc, customers, sessions, bounds, history>>

--------------------------------------------------------------------------
(* StripeWebhookView.post and _sync_subscription                           *)

\* Mutants: the payload's status stored without the fallback to the row's; the
\* payload's status used only for a new subscription.
SyncedNone(snap, e) == [snap EXCEPT !.about = e.kind, !.status = NoEvent.status]
SyncedOnce(snap, e) ==
    [snap EXCEPT !.about = e.kind,
                 !.status = IF snap.status = "incomplete" THEN e.status ELSE @]

\* The instance after the assignments: the payload's id (which is the session's
\* in checkout.session.completed) and its status.
Synced(snap, e) == [snap EXCEPT !.about = e.kind, !.status = e.status]

\* Subscription.objects.get(stripe_customer_id=...); answered 200 when there is
\* none, so that Stripe forgets the event.
Receive(p, e) ==
    /\ p \in Webhook /\ At(p, "idle")
    /\ e \in pending
    /\ IF row # NoRow /\ row.customer = e.customer
       THEN /\ Step(p, [Idle EXCEPT !.pc = "loaded", !.snap = row, !.event = e])
            /\ UNCHANGED <<pending, dropped>>
       ELSE /\ pending' = pending \ {e}
            /\ dropped' = TRUE
            /\ UNCHANGED proc
    /\ UNCHANGED <<row, external, bounds, applied, late, lost, raced, edited>>

\* subscription.save() of every column; the 200 may not reach Stripe, which then
\* delivers the event again.
SaveEvent(p, answered) ==
    LET e == proc[p].event
    IN /\ p \in Webhook /\ At(p, "loaded")
       /\ row' = Synced(proc[p].snap, e)
       /\ lost' = (lost \/ row # proc[p].snap)
       /\ late' = (late \/ e.seq < applied)
       /\ applied' = IF e.seq > applied THEN e.seq ELSE applied
       /\ pending' = IF answered THEN pending \ {e} ELSE pending
       /\ Step(p, Idle)
       /\ UNCHANGED <<external, bounds, raced, edited, dropped>>

--------------------------------------------------------------------------
(* The administrator's PATCH: status and stripe_customer_id are writable.  *)

Load(p) ==
    /\ p \in Admin /\ At(p, "idle")
    /\ row # NoRow
    /\ edits < MaxEdits
    /\ edits' = edits + 1
    /\ Step(p, [Idle EXCEPT !.pc = "loaded", !.snap = row])
    /\ UNCHANGED <<row, external, pending, crashes, history>>

Posted(new, old) == IF new = Keep THEN old ELSE new

SavePatch(p, status, customer) ==
    LET snap == proc[p].snap
    IN /\ p \in Admin /\ At(p, "loaded")
       /\ row' = [snap EXCEPT !.status = Posted(status, @), !.customer = Posted(customer, @)]
       /\ lost' = (lost \/ row # snap)
       /\ edited' = (edited \/ row' # snap)
       /\ Step(p, Idle)
       /\ UNCHANGED <<external, pending, bounds, applied, late, raced, dropped>>

\* A request dies; Stripe keeps the event of a webhook that did not answer.
Crash(p) ==
    /\ ~At(p, "idle")
    /\ crashes < MaxCrashes
    /\ crashes' = crashes + 1
    /\ raced' = (raced \/ At(p, "bought"))
    /\ Step(p, Idle)
    /\ UNCHANGED <<row, external, pending, edits, applied, late, lost, edited, dropped>>

--------------------------------------------------------------------------

Next == \/ \E p \in Checkout : GetOrCreate(p) \/ CreateCustomer(p) \/ SaveCustomer(p) \/ OpenSession(p)
        \/ \E c \in Customer : Pay(c) \/ \E status \in Status : Change(c, status)
        \/ \E p \in Webhook : \/ \E e \in pending : Receive(p, e)
                              \/ \E answered \in BOOLEAN : SaveEvent(p, answered)
        \/ \E p \in Admin : \/ Load(p)
                            \/ \E status \in Corrections \cup {Keep}, customer \in {0, Keep} :
                                 SavePatch(p, status, customer)
        \/ \E p \in Process : Crash(p)

Spec == Init /\ [][Next]_vars

--------------------------------------------------------------------------
(* Properties *)

\* What a process is doing.
Doing == [pc : {"idle", "blank", "bought", "ready", "loaded"},
          snap : Row \cup {NoRow}, customer : Customer \cup {0},
          event : Event \cup {NoEvent}]

\* Every variable keeps its type.
TypeOK ==
    /\ row \in Row \cup {NoRow}
    /\ proc \in [Process -> Doing]
    /\ customers \subseteq Customer /\ sessions \subseteq Customer
    /\ stripe \in [Customer -> Status \cup {"none"}]
    /\ emitted \in Nat /\ edits \in Nat /\ crashes \in Nat /\ applied \in Nat
    /\ pending \subseteq Event
    /\ late \in BOOLEAN /\ lost \in BOOLEAN /\ raced \in BOOLEAN
    /\ edited \in BOOLEAN /\ dropped \in BOOLEAN

\* Payments reach their subscription: no event is dropped, unless two first
\* checkouts overlapped or died on the way, or an administrator changed the row.
NothingDropped == dropped => raced \/ edited \/ lost

\* The user is one customer at Stripe, under the same conditions.
OneCustomer == Cardinality(customers) > 1 => raced \/ edited \/ lost

\* Stripe's word stands: when nothing is under way the row says what the newest
\* event said, unless an older event was delivered later or a save overwrote it.
Converged ==
    row # NoRow /\ pending = {} /\ emitted > 0
        /\ ~late /\ ~lost /\ ~edited /\ ~raced =>
            \/ row.status = stripe[row.customer]
            \/ row.about = "session" /\ row.status = "complete"

\* A canceled subscription comes back only by an event that Stripe created after
\* those already saved, by an older one that arrived late, or by an administrator.
CancelSticks ==
    [][row # NoRow /\ row.status = "canceled" /\ row'.status # "canceled"
         /\ ~late' /\ ~lost' /\ ~edited'
       => applied' > applied]_vars

\* cors/models.py:418: the status is one of STATUS_CHOICES.
StatusIsChoice == row # NoRow => row.status \in Choices
=============================================================================
