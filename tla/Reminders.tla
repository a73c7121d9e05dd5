----------------------------- MODULE Reminders -----------------------------
(***************************************************************************)
(* Reminders of document expirations: the rows and their logs              *)
(* (cors/models.py, Reminder and ReminderLog), the daily                   *)
(* schedule_due_reminders_task and the send_reminder_email_task that it    *)
(* enqueues (cors/tasks.py), the manual triggers                           *)
(* (cors/pages/reminder/views.py, cors/pages/admin_api/views.py) and the   *)
(* owner's create, PATCH and DELETE.                                       *)
(*                                                                         *)
(* Celery acknowledges a message when the task starts, so the task of a    *)
(* killed worker is not run again. The queue is a count of messages per    *)
(* task: workers may run them in any order.                                *)
(***************************************************************************)
EXTENDS Integers, FiniteSets

CONSTANTS
    Reminder,    \* reminders
    Worker,      \* Celery workers
    Staff,       \* processes that serve the manual triggers
    Editor,      \* processes that serve the owner's PATCH
    Wanted,      \* Wanted[r]: the day date_expiration - days_before
    Unset,       \* next_run = NULL
    Keep,        \* a field that a PATCH does not post
    Absent,      \* the row is absent
    MaxClock,    \* bound: days
    MaxQueue,    \* bound: messages of a task in the queue
    MaxLogs,     \* bound: deliveries of a reminder that are counted
    MaxTriggers, \* bound: manual triggers
    MaxEdits,    \* bound: PATCH requests
    MaxCrashes   \* bound: processes killed

Day == 0 .. MaxClock

Process == Worker \cup Staff

ASSUME BoundAssumption   == /\ MaxClock \in Nat /\ MaxLogs \in Nat /\ MaxTriggers \in Nat
                            /\ MaxEdits \in Nat /\ MaxCrashes \in Nat
                            /\ MaxQueue \in Nat \ {0}
ASSUME WantedAssumption  == Wanted \in [Reminder -> Day]
ASSUME ProcessAssumption == Worker \cap Staff = {} /\ IsFiniteSet(Worker) /\ IsFiniteSet(Staff)
ASSUME ReminderAssumption == Reminder # {}

\* `sent` says that last_sent is set. owner, document, days_before and method
\* do not change the control: a push reminder is mailed like any other.
Row == [enabled : BOOLEAN, nextRun : Day \cup {Unset}, sent : BOOLEAN]

ASSUME SentinelAssumption == Absent \notin Row /\ Unset \notin Nat
                             /\ Keep \notin BOOLEAN \cup Nat \cup {Unset}

Status == {"pending", "sent", "failed"}

VARIABLES
    rows,        \* the table Reminder
    created,     \* created[r]: the owner's POST for r has been served
    logs,        \* logs[r][s]: ReminderLog rows of r with status s
    mailed,      \* mailed[r]: mails the SMTP server accepted
    runs,        \* queued schedule_due_reminders_task messages
    queued,      \* queued[r]: queued send_reminder_email_task(r) messages
    proc,        \* proc[p]: what a worker or a trigger is doing
    edit,        \* edit[e]: the PATCH that process e serves
    clock,       \* today
    triggers,    \* manual triggers so far
    edits,       \* PATCH requests so far
    crashes,     \* processes killed so far
    stranded,    \* history: a task on r stopped between two of its statements
    overwritten  \* history: a PATCH changed the last_sent of r

dbVars  == <<rows, created, logs>>
broker  == <<runs, queued>>
bounds  == <<triggers, edits, crashes>>
history == <<stranded, overwritten>>
vars    == <<rows, created, logs, mailed, runs, queued, proc, edit, clock,
             triggers, edits, crashes, stranded, overwritten>>

--------------------------------------------------------------------------

NoLogs == [s \in Status |-> 0]

\* `chosen`: reminders selected and not enqueued yet. A sending worker works on
\* reminder r; `log` says that its ReminderLog row still exists.
Idle == [pc |-> "idle", chosen |-> {}, r |-> CHOOSE r \in Reminder : TRUE, log |-> FALSE]

Resting == [pc |-> "idle", r |-> CHOOSE r \in Reminder : TRUE, snap |-> Absent]

Pc     == {"idle", "dispatch", "got", "logged", "mailed", "stamped", "unsent"}
Logged == {"logged", "mailed", "stamped", "unsent"}

SendersOf(r) == {w \in Worker : proc[w].pc \in {"got"} \cup Logged /\ proc[w].r = r}
OpenLogs(r)  == {w \in Worker : proc[w].pc \in Logged /\ proc[w].r = r /\ proc[w].log}
Choosing(r)  == {p \in Process : r \in proc[p].chosen}

At(p, pc) == proc[p].pc = pc

SetProc(p, new) == proc' = [proc EXCEPT ![p] = new]
SetEdit(e, new) == edit' = [edit EXCEPT ![e] = new]

Attempts(r) == logs[r]["pending"] + logs[r]["sent"] + logs[r]["failed"]

Init ==
    /\ rows = [r \in Reminder |-> Absent]
    /\ created = [r \in Reminder |-> FALSE]
    /\ logs = [r \in Reminder |-> NoLogs]
    /\ mailed = [r \in Reminder |-> 0]
    /\ runs = 0
    /\ queued = [r \in Reminder |-> 0]
    /\ proc = [p \in Process |-> Idle]
    /\ edit = [e \in Editor |-> Resting]
    /\ clock = 0
    /\ triggers = 0 /\ edits = 0 /\ crashes = 0
    /\ stranded = [r \in Reminder |-> FALSE]
    /\ overwritten = [r \in Reminder |-> FALSE]

--------------------------------------------------------------------------
(* Scheduling                                                              *)

\* Celery beat every day, or an administrator through AdminJobsView.
Beat ==
    /\ runs < MaxQueue
    /\ runs' = runs + 1
    /\ UNCHANGED <<dbVars, mailed, queued, proc, edit, clock, bounds, history>>

\* Mutant: the query without enabled=True.
DueDisabledToo(row) == row # Absent /\ row.nextRun # Unset /\ row.nextRun <= clock

\* filter(enabled=True, next_run__isnull=False, next_run__lte=now)
Due(row) == row # Absent /\ row.enabled /\ row.nextRun # Unset /\ row.nextRun <= clock

\* Mutant: next_run__lt=now.
SelectedLate == {r \in Reminder : Due(rows[r]) /\ rows[r].nextRun < clock}

Selected == {r \in Reminder : Due(rows[r])}

\* The bound of the queue: there is room for the messages of `chosen`.
Room(chosen) == \A r \in chosen : queued[r] + Cardinality(Choosing(r)) < MaxQueue

Dispatching(chosen) == [Idle EXCEPT !.pc = IF chosen = {} THEN "idle" ELSE "dispatch",
                                    !.chosen = chosen]

\* schedule_due_reminders_task: one SELECT. next_run and last_sent stay as they
\* are, so the next run selects the same reminders again.
SelectDue(w) ==
    /\ w \in Worker /\ At(w, "idle")
    /\ runs > 0 /\ Room(Selected)
    /\ runs' = runs - 1
    /\ SetProc(w, Dispatching(Selected))
    /\ UNCHANGED <<dbVars, mailed, queued, edit, clock, bounds, history>>

\* trigger_now and the administrator's trigger: all enabled reminders, or those
\* of reminder_ids.
Trigger(p, ids) ==
    LET enabled == {r \in ids : rows[r] # Absent /\ rows[r].enabled}
    IN /\ p \in Staff /\ At(p, "idle")
       /\ triggers < MaxTriggers /\ Room(enabled)
       /\ triggers' = triggers + 1
       /\ SetProc(p, Dispatching(enabled))
       /\ UNCHANGED <<dbVars, mailed, broker, edit, clock, edits, crashes, history>>

\* enqueue_reminder_email for one reminder of the loop.
Enqueue(p, r) ==
    /\ At(p, "dispatch")
    /\ r \in proc[p].chosen
    /\ queued' = [queued EXCEPT ![r] = @ + 1]
    /\ SetProc(p, Dispatching(proc[p].chosen \ {r}))
    /\ UNCHANGED <<dbVars, mailed, runs, edit, clock, bounds, history>>

--------------------------------------------------------------------------
(* send_reminder_email_task                                                *)

\* Reminder.objects.get; "missing" when there is none. `enabled` is not read.
Get(w, r) ==
    /\ w \in Worker /\ At(w, "idle")
    /\ queued[r] > 0
    /\ Attempts(r) + Cardinality(SendersOf(r)) < MaxLogs
    /\ queued' = [queued EXCEPT ![r] = @ - 1]
    /\ IF rows[r] = Absent
       THEN UNCHANGED proc
       ELSE SetProc(w, [Idle EXCEPT !.pc = "got", !.r = r])
    /\ UNCHANGED <<dbVars, mailed, runs, edit, clock, bounds, history>>

AddLog(r, s)    == logs' = [logs EXCEPT ![r][s] = @ + 1]
CloseLog(r, s)  == logs' = [logs EXCEPT ![r]["pending"] = @ - 1, ![r][s] = @ + 1]

\* ReminderLog.objects.create; the foreign key refuses a deleted reminder. An
\* owner without an email address is not mailed.
OpenLog(w, reachable) ==
    LET r == proc[w].r
    IN /\ At(w, "got")
       /\ IF rows[r] = Absent
          THEN SetProc(w, Idle) /\ UNCHANGED logs
          ELSE /\ AddLog(r, "pending")
               /\ SetProc(w, [proc[w] EXCEPT !.pc = IF reachable THEN "logged" ELSE "unsent",
                                             !.log = TRUE])
       /\ UNCHANGED <<rows, created, mailed, broker, edit, clock, bounds, history>>

\* send_mail returns.
Mail(w) ==
    /\ At(w, "logged")
    /\ mailed' = [mailed EXCEPT ![proc[w].r] = @ + 1]
    /\ SetProc(w, [proc[w] EXCEPT !.pc = "mailed"])
    /\ UNCHANGED <<dbVars, broker, edit, clock, bounds, history>>

\* send_mail raises: refused, or (EMAIL_TIMEOUT) accepted with the reply lost.
MailRaises(w, accepted) ==
    /\ At(w, "logged")
    /\ mailed' = [mailed EXCEPT ![proc[w].r] = @ + IF accepted THEN 1 ELSE 0]
    /\ SetProc(w, [proc[w] EXCEPT !.pc = "unsent"])
    /\ UNCHANGED <<dbVars, broker, edit, clock, bounds, history>>

\* Mutant: the instance is changed and not saved.
StampedNot(row) == row

\* The row with last_sent = now; enabled and next_run keep their values.
Stamped(row) == [row EXCEPT !.sent = TRUE]

\* reminder.save(update_fields=["last_sent"]) raises when the row is gone.
Stamp(w) ==
    LET r == proc[w].r
    IN /\ At(w, "mailed")
       /\ IF rows[r] = Absent
          THEN /\ SetProc(w, Idle)
               /\ UNCHANGED rows
          ELSE /\ rows' = [rows EXCEPT ![r] = Stamped(@)]
               /\ SetProc(w, [proc[w] EXCEPT !.pc = "stamped"])
       /\ UNCHANGED <<created, logs, mailed, broker, edit, clock, bounds, history>>

\* Mutants: a failed delivery closed as sent; the failure not saved.
OutcomeOfAll(pc) == "sent"
OutcomePending(pc) == IF pc = "stamped" THEN "sent" ELSE "pending"

\* The final status of the log.
Outcome(pc) == IF pc = "stamped" THEN "sent" ELSE "failed"

\* log.save(update_fields=[...]) raises when the log went with its reminder.
FinishLog(w) ==
    LET r == proc[w].r
    IN /\ proc[w].pc \in {"stamped", "unsent"}
       /\ IF proc[w].log THEN CloseLog(r, Outcome(proc[w].pc)) ELSE UNCHANGED logs
       /\ SetProc(w, Idle)
       /\ UNCHANGED <<rows, created, mailed, broker, edit, clock, bounds, history>>

\* The worker or the trigger's process is killed; its task is not run again.
Crash(p) ==
    /\ ~At(p, "idle")
    /\ crashes < MaxCrashes
    /\ crashes' = crashes + 1
    /\ stranded' = IF proc[p].pc \in Logged THEN [stranded EXCEPT ![proc[p].r] = TRUE] ELSE stranded
    /\ SetProc(p, Idle)
    /\ UNCHANGED <<dbVars, mailed, broker, edit, clock, triggers, edits, overwritten>>

--------------------------------------------------------------------------
(* The owner                                                               *)

\* POST; every field of the model is writable, next_run among them.
Create(r, enabled, nextRun) ==
    /\ ~created[r]
    /\ created' = [created EXCEPT ![r] = TRUE]
    /\ rows' = [rows EXCEPT ![r] = [enabled |-> enabled, nextRun |-> nextRun, sent |-> FALSE]]
    /\ UNCHANGED <<logs, mailed, broker, proc, edit, clock, bounds, history>>

Load(e, r) ==
    /\ edit[e].pc = "idle"
    /\ rows[r] # Absent
    /\ edits < MaxEdits
    /\ edits' = edits + 1
    /\ SetEdit(e, [pc |-> "loaded", r |-> r, snap |-> rows[r]])
    /\ UNCHANGED <<dbVars, mailed, broker, proc, clock, triggers, crashes, history>>

\* Mutant: a field that is not posted is stored all the same.
PostedAlways(new, old) == new

Posted(new, old) == IF new = Keep THEN old ELSE new

\* instance.save() writes every column, last_sent as it was when the PATCH read
\* the row, and INSERTs a row that has been deleted meanwhile.
SavePatch(e, enabled, nextRun, sent) ==
    LET r    == edit[e].r
        snap == edit[e].snap
        row  == [enabled |-> Posted(enabled, snap.enabled),
                 nextRun |-> Posted(nextRun, snap.nextRun),
                 sent    |-> Posted(sent, snap.sent)]
    IN /\ edit[e].pc = "loaded"
       /\ rows' = [rows EXCEPT ![r] = row]
       /\ overwritten' = [overwritten EXCEPT ![r] =
                            @ \/ rows[r] = Absent \/ rows[r].sent # row.sent]
       /\ SetEdit(e, Resting)
       /\ UNCHANGED <<created, logs, mailed, broker, proc, clock, bounds, stranded>>

\* The logs go with the reminder, and so do those of running tasks.
Destroy(r) ==
    /\ rows[r] # Absent
    /\ rows' = [rows EXCEPT ![r] = Absent]
    /\ logs' = [logs EXCEPT ![r] = NoLogs]
    /\ proc' = [p \in Process |-> IF p \in OpenLogs(r) THEN [proc[p] EXCEPT !.log = FALSE]
                                  ELSE proc[p]]
    /\ UNCHANGED <<created, mailed, broker, edit, clock, bounds, history>>

Tick ==
    /\ clock < MaxClock
    /\ clock' = clock + 1
    /\ UNCHANGED <<dbVars, mailed, broker, proc, edit, bounds, history>>

--------------------------------------------------------------------------

Send(w) == \/ \E r \in Reminder : Get(w, r)
           \/ Mail(w) \/ Stamp(w) \/ FinishLog(w)
           \/ \E reachable \in BOOLEAN : OpenLog(w, reachable)
           \/ \E accepted \in BOOLEAN : MailRaises(w, accepted)

Work(w) == SelectDue(w) \/ Send(w) \/ \E r \in Reminder : Enqueue(w, r)

Manual(p) == \/ \E ids \in SUBSET Reminder : Trigger(p, ids)
             \/ \E r \in Reminder : Enqueue(p, r)

Owner == \/ \E r \in Reminder : \/ Destroy(r)
                                \/ \E enabled \in BOOLEAN, nextRun \in Day \cup {Unset} :
                                     Create(r, enabled, nextRun)
                                \/ \E e \in Editor : Load(e, r)
         \/ \E e \in Editor, enabled \in BOOLEAN \cup {Keep},
               nextRun \in Day \cup {Unset, Keep}, sent \in {FALSE, Keep} :
                 SavePatch(e, enabled, nextRun, sent)

Next == \/ Tick \/ Beat \/ Owner
        \/ \E w \in Worker : Work(w)
        \/ \E p \in Staff : Manual(p)
        \/ \E p \in Process : Crash(p)

Spec == Init /\ [][Next]_vars

\* Days pass, beat fires, a trigger's request finishes its loop (gunicorn kills
\* one that hangs), and a worker takes the next message and carries its task
\* through (strong: the message of a reminder is not passed over for ever).
FairSpec == /\ Spec
            /\ WF_vars(Tick) /\ WF_vars(Beat)
            /\ \A p \in Staff : WF_vars(\E r \in Reminder : Enqueue(p, r))
            /\ \A w \in Worker : WF_vars(Work(w)) /\ SF_vars(SelectDue(w))
            /\ \A w \in Worker, r \in Reminder : SF_vars(Get(w, r))

--------------------------------------------------------------------------
(* Properties *)

\* Every variable keeps its type.
TypeOK ==
    /\ rows \in [Reminder -> Row \cup {Absent}]
    /\ created \in [Reminder -> BOOLEAN]
    /\ logs \in [Reminder -> [Status -> Nat]]
    /\ mailed \in [Reminder -> Nat]
    /\ runs \in 0 .. MaxQueue
    /\ queued \in [Reminder -> 0 .. MaxQueue]
    /\ proc \in [Process -> [pc : Pc, chosen : SUBSET Reminder, r : Reminder, log : BOOLEAN]]
    /\ edit \in [Editor -> [pc : {"idle", "loaded"}, r : Reminder, snap : Row \cup {Absent}]]
    /\ clock \in Day
    /\ triggers \in Nat /\ edits \in Nat /\ crashes \in Nat
    /\ stranded \in [Reminder -> BOOLEAN] /\ overwritten \in [Reminder -> BOOLEAN]

\* The logs do not boast: each log "sent", and each task that will close its log
\* so, stands for a mail of its own that the server accepted.
SentIsMailed ==
    \A r \in Reminder :
        logs[r]["sent"] + Cardinality({w \in OpenLogs(r) : proc[w].pc \in {"mailed", "stamped"}})
            <= mailed[r]

\* A pending log is one that a task is working on, unless a worker was killed
\* with it: no reminder looks forever as if it were about to be sent.
PendingIsRunning ==
    \A r \in Reminder :
        ~stranded[r] => logs[r]["pending"] = Cardinality(OpenLogs(r))

\* A reminder with a log "sent" has its last_sent, unless a PATCH put an older
\* value back.
SentIsStamped ==
    \A r \in Reminder :
        rows[r] # Absent /\ logs[r]["sent"] > 0 /\ ~overwritten[r] => rows[r].sent

\* Mails of r that are on their way, or have been accepted.
Flow(r) == mailed[r] + queued[r] + Cardinality(Choosing(r))
             + Cardinality({w \in SendersOf(r) : proc[w].pc \in {"got", "logged"}})

\* While a reminder is disabled nothing new is set off for it: only what had been
\* selected or enqueued before is still delivered.
DisabledIsSilent ==
    [][\A r \in Reminder :
        rows[r] # Absent /\ ~rows[r].enabled => Flow(r)' <= Flow(r)]_vars

\* A due reminder is mailed, or a failed delivery is on record, unless it is
\* changed or deleted first.
DueIsServed ==
    \A r \in Reminder :
        Due(rows[r]) ~> mailed[r] > 0 \/ logs[r]["failed"] > 0 \/ ~Due(rows[r])

\* cors/models.py:239 "A periodic job should create/send reminders according to
\* `days_before`": on the day an enabled reminder asks for, it is served.
DaysBeforeIsServed ==
    \A r \in Reminder :
        rows[r] # Absent /\ rows[r].enabled /\ clock >= Wanted[r]
            ~> \/ mailed[r] > 0 \/ logs[r]["failed"] > 0
               \/ rows[r] = Absent \/ ~rows[r].enabled
=============================================================================
