-------------------------- MODULE RemindersProofs --------------------------
(***************************************************************************)
(* Theorems about the reminders, for every number of reminders, workers    *)
(* and requests and all bounds: the logs tell what was mailed, whatever    *)
(* order tasks, kills, PATCHes and deletions come in.                      *)
(***************************************************************************)
EXTENDS Reminders, FiniteSetTheorems, TLAPS

--------------------------------------------------------------------------
(* The inductive invariant.                                                *)

Task == [pc : Pc, chosen : SUBSET Reminder, r : Reminder, log : BOOLEAN]

\* The task j delivers r: it has a log of r; its log will say "sent"; its mail
\* has not been handed to the server.
Delivering      == {"got"} \cup Logged
IsOpen(j, r)    == j.pc \in Logged /\ j.r = r /\ j.log
IsSure(j, r)    == IsOpen(j, r) /\ j.pc \in {"mailed", "stamped"}
IsEarly(j, r)   == j.pc \in {"got", "logged"} /\ j.r = r

SureLogs(r) == {w \in OpenLogs(r) : proc[w].pc \in {"mailed", "stamped"}}
EarlyOf(r)  == {w \in SendersOf(r) : proc[w].pc \in {"got", "logged"}}

\* Only a loop has reminders to enqueue, only a worker delivers, a task that has
\* a log has a reminder, and one that will close its log as sent has stamped it.
FittingTask(p, j) ==
    /\ j.pc # "dispatch" => j.chosen = {}
    /\ j.pc \in Delivering => p \in Worker
    /\ \A r \in Reminder :
         IsOpen(j, r) => /\ rows[r] # Absent
                         /\ j.pc = "stamped" /\ ~overwritten[r] => rows[r].sent
TasksFit == \A p \in Process : FittingTask(p, proc[p])

\* A PATCH works on a row that it has read.
EditsFit == \A e \in Editor : edit[e].pc = "loaded" => /\ edit[e].snap \in Row
                                                      /\ created[edit[e].r]

\* A row was created, and its logs go with it.
RowFits(r) == /\ rows[r] = Absent => logs[r] = NoLogs
              /\ rows[r] # Absent => created[r]
              /\ rows[r] # Absent /\ logs[r]["sent"] > 0 /\ ~overwritten[r] => rows[r].sent
RowsFit == \A r \in Reminder : RowFits(r)

\* The counters of r against the tasks that work on it.
CountsFit(r) ==
    /\ queued[r] + Cardinality(Choosing(r)) <= MaxQueue
    /\ Cardinality(OpenLogs(r)) <= logs[r]["pending"]
    /\ ~stranded[r] => logs[r]["pending"] = Cardinality(OpenLogs(r))
    /\ logs[r]["sent"] + Cardinality(SureLogs(r)) <= mailed[r]
LogsFit == \A r \in Reminder : CountsFit(r)

RemindersInv == TypeOK /\ TasksFit /\ EditsFit /\ RowsFit /\ LogsFit

--------------------------------------------------------------------------
(* What a task is.                                                         *)

LEMMA TasksTyped ==
    /\ Idle \in Task /\ Idle.pc = "idle" /\ Idle.chosen = {} /\ ~Idle.log
    /\ Resting \in [pc : {"idle", "loaded"}, r : Reminder, snap : Row \cup {Absent}]
    /\ Resting.pc = "idle"
<1>1. (CHOOSE r \in Reminder : TRUE) \in Reminder
  BY ReminderAssumption
<1>2. QED
  BY <1>1 DEF Idle, Resting, Task, Pc

LEMMA DispatchingTyped ==
    ASSUME NEW c \in SUBSET Reminder
    PROVE  /\ Dispatching(c) \in Task
           /\ Dispatching(c).chosen = c
           /\ Dispatching(c).pc \in {"idle", "dispatch"}
           /\ c = {} <=> Dispatching(c).pc # "dispatch"
<1>1. (CHOOSE r \in Reminder : TRUE) \in Reminder
  BY ReminderAssumption
<1>2. QED
  BY <1>1 DEF Dispatching, Idle, Task, Pc

--------------------------------------------------------------------------
(* Counting the tasks.                                                     *)

One(b) == IF b THEN 1 ELSE 0

\* One process changes, and so does the count.
LEMMA OneChanges ==
    ASSUME NEW S \in SUBSET Process, NEW T \in SUBSET Process, NEW p \in Process,
           \A q \in Process : q # p => (q \in T <=> q \in S)
    PROVE  /\ Cardinality(S) \in Nat /\ Cardinality(T) \in Nat
           /\ Cardinality(T) + One(p \in S) = Cardinality(S) + One(p \in T)
<1>0. IsFiniteSet(Process)
  BY ProcessAssumption, FS_Union DEF Process
<1>1. IsFiniteSet(S) /\ IsFiniteSet(T) /\ IsFiniteSet(S \ {p})
  BY <1>0, FS_Subset
<1>2. Cardinality(S) \in Nat /\ Cardinality(T) \in Nat /\ Cardinality(S \ {p}) \in Nat
  BY <1>1, FS_CardinalityType
<1>3. /\ Cardinality(S \ {p}) = IF p \in S THEN Cardinality(S) - 1 ELSE Cardinality(S)
      /\ Cardinality(T \ {p}) = IF p \in T THEN Cardinality(T) - 1 ELSE Cardinality(T)
  BY <1>1, FS_RemoveElement, ZenonT(40)
<1>4. Cardinality(S \ {p}) = Cardinality(T \ {p})
  <2>1. S \ {p} = T \ {p}
    OBVIOUS
  <2>2. QED
    BY <2>1
<1>5. /\ Cardinality(S) = Cardinality(S \ {p}) + One(p \in S)
      /\ Cardinality(T) = Cardinality(S \ {p}) + One(p \in T)
  BY <1>2, <1>3, <1>4 DEF One
<1>6. One(p \in S) \in Nat /\ One(p \in T) \in Nat
  BY DEF One
<1>7. QED
  BY <1>2, <1>5, <1>6

\* The counts are natural numbers.
LEMMA CountsTyped ==
    ASSUME NEW r
    PROVE  /\ Cardinality(Choosing(r)) \in Nat /\ Cardinality(OpenLogs(r)) \in Nat
           /\ Cardinality(SureLogs(r)) \in Nat /\ Cardinality(EarlyOf(r)) \in Nat
<1>1. IsFiniteSet(Process)
  BY ProcessAssumption, FS_Union DEF Process
<1>2. /\ Choosing(r) \in SUBSET Process /\ OpenLogs(r) \in SUBSET Process
      /\ SureLogs(r) \in SUBSET Process /\ EarlyOf(r) \in SUBSET Process
  BY DEF Process, Choosing, OpenLogs, SureLogs, EarlyOf, SendersOf
<1>3. QED
  BY <1>1, <1>2, FS_Subset, FS_CardinalityType

\* The counts of r when p takes up the task k.
Recounted(p, k, r) ==
    /\ Cardinality(Choosing(r)) \in Nat /\ Cardinality(OpenLogs(r)) \in Nat
    /\ Cardinality(SureLogs(r)) \in Nat /\ Cardinality(EarlyOf(r)) \in Nat
    /\ Cardinality(Choosing(r)') \in Nat /\ Cardinality(OpenLogs(r)') \in Nat
    /\ Cardinality(SureLogs(r)') \in Nat /\ Cardinality(EarlyOf(r)') \in Nat
    /\ Cardinality(Choosing(r)') + One(r \in proc[p].chosen)
          = Cardinality(Choosing(r)) + One(r \in k.chosen)
    /\ Cardinality(OpenLogs(r)') + One(IsOpen(proc[p], r))
          = Cardinality(OpenLogs(r)) + One(IsOpen(k, r))
    /\ Cardinality(SureLogs(r)') + One(IsSure(proc[p], r))
          = Cardinality(SureLogs(r)) + One(IsSure(k, r))
    /\ Cardinality(EarlyOf(r)') + One(IsEarly(proc[p], r))
          = Cardinality(EarlyOf(r)) + One(IsEarly(k, r))

\* A process takes up another task.
LEMMA Recount ==
    ASSUME proc \in [Process -> Task], NEW p \in Process, NEW k, NEW r,
           proc' = [proc EXCEPT ![p] = k],
           p \in Worker \/ (proc[p].pc \notin Delivering /\ k.pc \notin Delivering)
    PROVE  Recounted(p, k, r)
<1>1. proc'[p] = k /\ \A q \in Process : q # p => proc'[q] = proc[q]
  OBVIOUS
<1>2. Worker \subseteq Process
  BY DEF Process
<1>3. /\ Choosing(r) \in SUBSET Process /\ Choosing(r)' \in SUBSET Process
      /\ \A q \in Process : q # p => (q \in Choosing(r)' <=> q \in Choosing(r))
      /\ p \in Choosing(r) <=> r \in proc[p].chosen
      /\ p \in Choosing(r)' <=> r \in k.chosen
  BY <1>1 DEF Choosing
<1>4. /\ OpenLogs(r) \in SUBSET Process /\ OpenLogs(r)' \in SUBSET Process
      /\ \A q \in Process : q # p => (q \in OpenLogs(r)' <=> q \in OpenLogs(r))
      /\ p \in OpenLogs(r) <=> IsOpen(proc[p], r)
      /\ p \in OpenLogs(r)' <=> IsOpen(k, r)
  BY <1>1, <1>2 DEF OpenLogs, IsOpen, Delivering
<1>5. /\ SureLogs(r) \in SUBSET Process /\ SureLogs(r)' \in SUBSET Process
      /\ \A q \in Process : q # p => (q \in SureLogs(r)' <=> q \in SureLogs(r))
      /\ p \in SureLogs(r) <=> IsSure(proc[p], r)
      /\ p \in SureLogs(r)' <=> IsSure(k, r)
  BY <1>1, <1>4, <1>2 DEF SureLogs, IsSure
<1>6. /\ EarlyOf(r) \in SUBSET Process /\ EarlyOf(r)' \in SUBSET Process
      /\ \A q \in Process : q # p => (q \in EarlyOf(r)' <=> q \in EarlyOf(r))
      /\ p \in EarlyOf(r) <=> IsEarly(proc[p], r)
      /\ p \in EarlyOf(r)' <=> IsEarly(k, r)
  BY <1>1, <1>2 DEF EarlyOf, SendersOf, IsEarly, Delivering, Logged
<1>7. /\ Cardinality(Choosing(r)') \in Nat
      /\ Cardinality(Choosing(r)') + One(p \in Choosing(r)) = Cardinality(Choosing(r)) + One(p \in Choosing(r)')
  BY <1>3, OneChanges
<1>8. /\ Cardinality(OpenLogs(r)') \in Nat
      /\ Cardinality(OpenLogs(r)') + One(p \in OpenLogs(r)) = Cardinality(OpenLogs(r)) + One(p \in OpenLogs(r)')
  BY <1>4, OneChanges
<1>9. /\ Cardinality(SureLogs(r)') \in Nat
      /\ Cardinality(SureLogs(r)') + One(p \in SureLogs(r)) = Cardinality(SureLogs(r)) + One(p \in SureLogs(r)')
  BY <1>5, OneChanges
<1>10. /\ Cardinality(EarlyOf(r)') \in Nat
       /\ Cardinality(EarlyOf(r)') + One(p \in EarlyOf(r)) = Cardinality(EarlyOf(r)) + One(p \in EarlyOf(r)')
  BY <1>6, OneChanges
<1>11. QED
  BY CountsTyped, <1>3, <1>4, <1>5, <1>6, <1>7, <1>8, <1>9, <1>10 DEF One, Recounted

--------------------------------------------------------------------------
(* The tables.                                                             *)

\* The initial state.
LEMMA InvInit == Init => RemindersInv
<1> SUFFICES ASSUME Init PROVE RemindersInv
  OBVIOUS
<1>1. NoLogs \in [Status -> Nat] /\ NoLogs["pending"] = 0 /\ NoLogs["sent"] = 0 /\ NoLogs["failed"] = 0
  BY DEF NoLogs, Status
<1>2. TypeOK
  <2>1. 0 \in Day /\ 0 \in 0 .. MaxQueue
    BY BoundAssumption DEF Day
  <2>2. rows \in [Reminder -> Row \cup {Absent}] /\ created \in [Reminder -> BOOLEAN]
        /\ stranded \in [Reminder -> BOOLEAN] /\ overwritten \in [Reminder -> BOOLEAN]
    BY DEF Init
  <2>3. logs \in [Reminder -> [Status -> Nat]] /\ mailed \in [Reminder -> Nat]
    BY <1>1 DEF Init
  <2>4. queued \in [Reminder -> 0 .. MaxQueue] /\ runs \in 0 .. MaxQueue /\ clock \in Day
        /\ triggers \in Nat /\ edits \in Nat /\ crashes \in Nat
    BY <2>1 DEF Init
  <2>5. /\ proc \in [Process -> [pc : Pc, chosen : SUBSET Reminder, r : Reminder, log : BOOLEAN]]
        /\ edit \in [Editor -> [pc : {"idle", "loaded"}, r : Reminder, snap : Row \cup {Absent}]]
    BY TasksTyped DEF Init, Task
  <2>6. QED
    BY <2>2, <2>3, <2>4, <2>5 DEF TypeOK
<1>3. \A p \in Process : proc[p] = Idle
  BY DEF Init
<1>4. TasksFit
  BY <1>3, TasksTyped DEF TasksFit, FittingTask, IsOpen, Logged, Delivering
<1>5. EditsFit
  BY TasksTyped DEF Init, EditsFit
<1>6. RowsFit
  BY <1>1 DEF Init, RowsFit, RowFits
<1>7. LogsFit
  <2> SUFFICES ASSUME NEW r \in Reminder PROVE CountsFit(r)
    BY DEF LogsFit
  <2>1. Choosing(r) = {} /\ OpenLogs(r) = {} /\ SureLogs(r) = {}
    BY <1>3, TasksTyped DEF Process, Choosing, OpenLogs, SureLogs, Logged
  <2>2. queued[r] = 0 /\ logs[r] = NoLogs /\ mailed[r] = 0
    BY DEF Init
  <2>3. QED
    BY <1>1, <2>1, <2>2, FS_EmptySet, BoundAssumption DEF CountsFit
<1>8. QED
  BY <1>2, <1>4, <1>5, <1>6, <1>7 DEF RemindersInv

\* A process takes up a task and leaves the tables alone.
LEMMA TaskMoves ==
    ASSUME RemindersInv, NEW p \in Process, NEW k,
           proc' = [proc EXCEPT ![p] = k],
           FittingTask(p, k),
           UNCHANGED <<rows, overwritten>>
    PROVE  TasksFit'
<1>1. /\ proc'[p] = k /\ \A q \in Process : q # p => proc'[q] = proc[q]
      /\ rows' = rows /\ overwritten' = overwritten
  BY DEF RemindersInv, TypeOK
<1>2. ASSUME NEW q \in Process PROVE FittingTask(q, proc'[q])
  <2>1. CASE q = p
    BY <1>1, <2>1
  <2>2. CASE q # p
    BY <1>1, <2>2 DEF RemindersInv, TasksFit
  <2>3. QED
    BY <2>1, <2>2
<1>3. QED
  BY <1>1, <1>2 DEF TasksFit, FittingTask

LEMMA CountsMove ==
    ASSUME RemindersInv, NEW p \in Process, NEW k, NEW r,
           proc' = [proc EXCEPT ![p] = k], p \in Worker \/ k.pc \notin Delivering
    PROVE  Recounted(p, k, r)
<1>1. proc \in [Process -> Task]
  BY DEF RemindersInv, TypeOK, Task
<1>2. p \in Worker \/ (proc[p].pc \notin Delivering /\ k.pc \notin Delivering)
  BY DEF RemindersInv, TasksFit, FittingTask
<1>3. QED
  BY <1>1, <1>2, Recount

\* What the invariant says of the counters of r.
LEMMA CountersTyped ==
    ASSUME RemindersInv, NEW r \in Reminder
    PROVE  /\ queued[r] \in Nat /\ queued[r] <= MaxQueue /\ MaxQueue \in Nat
           /\ logs[r]["pending"] \in Nat /\ logs[r]["sent"] \in Nat /\ logs[r]["failed"] \in Nat
           /\ mailed[r] \in Nat /\ CountsFit(r) /\ RowFits(r)
<1>1. logs[r] \in [Status -> Nat]
  BY DEF RemindersInv, TypeOK
<1>2. QED
  BY <1>1, BoundAssumption DEF RemindersInv, TypeOK, LogsFit, RowsFit, Status

\* A loop starts or goes on.
LEMMA LoopInv ==
    ASSUME RemindersInv, NEW p \in Process, NEW c \in SUBSET Reminder,
           proc[p].pc \notin Delivering,
           proc' = [proc EXCEPT ![p] = Dispatching(c)],
           UNCHANGED <<rows, created, logs, mailed, edit, stranded, overwritten>>,
           queued' \in [Reminder -> Nat],
           \A r \in Reminder : queued'[r] + Cardinality(Choosing(r)) + One(r \in c)
                                   <= MaxQueue + One(r \in proc[p].chosen)
    PROVE  TasksFit' /\ EditsFit' /\ RowsFit' /\ LogsFit'
<1> DEFINE k == Dispatching(c)
<1>0. k \in Task /\ k.chosen = c /\ k.pc \in {"idle", "dispatch"} /\ (c = {} <=> k.pc # "dispatch")
  BY DispatchingTyped
<1> HIDE DEF k
<1>00. proc' = [proc EXCEPT ![p] = k]
  BY DEF k
<1>1. FittingTask(p, k)
  BY <1>0 DEF FittingTask, Delivering, IsOpen, Logged
<1>2. TasksFit'
  BY <1>00, <1>1, TaskMoves
<1>3. EditsFit' /\ RowsFit'
  BY DEF RemindersInv, EditsFit, RowsFit, RowFits
<1>4. LogsFit'
  <2> SUFFICES ASSUME NEW r \in Reminder PROVE CountsFit(r)'
    BY DEF LogsFit
  <2>1. k.pc \notin Delivering
    BY <1>0 DEF Delivering, Logged
  <2>2. One(IsOpen(proc[p], r)) = 0 /\ One(IsOpen(k, r)) = 0
        /\ One(IsSure(proc[p], r)) = 0 /\ One(IsSure(k, r)) = 0
    BY <2>1 DEF One, IsOpen, IsSure, Delivering
  <2>3. /\ Cardinality(Choosing(r)') + One(r \in proc[p].chosen) = Cardinality(Choosing(r)) + One(r \in c)
        /\ Cardinality(OpenLogs(r)') = Cardinality(OpenLogs(r))
        /\ Cardinality(SureLogs(r)') = Cardinality(SureLogs(r))
        /\ Cardinality(Choosing(r)) \in Nat /\ Cardinality(Choosing(r)') \in Nat
    <3>1. Recounted(p, k, r)
      BY <1>00, <2>1, CountsMove, Zenon
    <3>2. QED
      BY <3>1, <1>0, <2>2 DEF Recounted
  <2>4. One(r \in c) \in Nat /\ One(r \in proc[p].chosen) \in Nat /\ queued'[r] \in Nat /\ MaxQueue \in Nat
    BY BoundAssumption DEF One
  <2>5. queued'[r] + Cardinality(Choosing(r)) + One(r \in c) <= MaxQueue + One(r \in proc[p].chosen)
    OBVIOUS
  <2>6. queued'[r] + Cardinality(Choosing(r)') <= MaxQueue
    <3> HIDE DEF One
    <3>1. \A q, a, b, x, y, m \in Nat : a + x = b + y /\ q + b + y <= m + x => q + a <= m
      OBVIOUS
    <3>2. QED
      BY <2>3, <2>4, <2>5, <3>1
  <2>7. QED
    BY <2>3, <2>6, CountersTyped DEF CountsFit
<1>5. QED
  BY <1>2, <1>3, <1>4

--------------------------------------------------------------------------
(* Scheduling.                                                             *)

LEMMA SelectDueInv ==
    ASSUME RemindersInv, NEW w \in Worker, SelectDue(w)
    PROVE  RemindersInv'
<1>1. w \in Process /\ Selected \in SUBSET Reminder
  BY DEF Process, Selected
<1>2. proc[w].pc = "idle" /\ proc[w].chosen = {}
  BY <1>1 DEF SelectDue, At, RemindersInv, TasksFit, FittingTask
<1>3. proc[w].pc \notin Delivering
  BY <1>2 DEF Delivering, Logged
<1>4. ASSUME NEW r \in Reminder
      PROVE  queued'[r] + Cardinality(Choosing(r)) + One(r \in Selected)
                 <= MaxQueue + One(r \in proc[w].chosen)
  <2>1. Cardinality(Choosing(r)) \in Nat /\ queued[r] \in Nat /\ MaxQueue \in Nat
        /\ queued[r] + Cardinality(Choosing(r)) <= MaxQueue /\ queued' = queued
    BY CountsTyped, CountersTyped DEF CountsFit, SelectDue
  <2>2. r \in Selected => queued[r] + Cardinality(Choosing(r)) < MaxQueue
    BY DEF SelectDue, Room
  <2>3. QED
    BY <2>1, <2>2, <1>2 DEF One
<1>5. proc' = [proc EXCEPT ![w] = Dispatching(Selected)]
      /\ UNCHANGED <<rows, created, logs, mailed, edit, stranded, overwritten>>
      /\ queued' = queued /\ queued \in [Reminder -> Nat]
  BY DEF SelectDue, SetProc, dbVars, history, RemindersInv, TypeOK
<1>6. TasksFit' /\ EditsFit' /\ RowsFit' /\ LogsFit'
  BY <1>1, <1>3, <1>4, <1>5, LoopInv
<1>7. TypeOK'
  <2>1. Dispatching(Selected) \in Task
    BY <1>1, DispatchingTyped
  <2>2. runs' \in 0 .. MaxQueue
    BY BoundAssumption DEF SelectDue, RemindersInv, TypeOK
  <2>3. QED
    BY <2>1, <2>2 DEF SelectDue, SetProc, dbVars, bounds, history, RemindersInv, TypeOK, Task
<1>8. QED
  BY <1>6, <1>7 DEF RemindersInv

LEMMA TriggerInv ==
    ASSUME RemindersInv, NEW p \in Staff, NEW ids \in SUBSET Reminder, Trigger(p, ids)
    PROVE  RemindersInv'
<1> DEFINE enabled == {r \in ids : rows[r] # Absent /\ rows[r].enabled}
<1>1. p \in Process /\ enabled \in SUBSET Reminder
  BY DEF Process
<1>2. proc[p].pc = "idle" /\ proc[p].chosen = {}
  BY <1>1 DEF Trigger, At, RemindersInv, TasksFit, FittingTask
<1>3. proc[p].pc \notin Delivering
  BY <1>2 DEF Delivering, Logged
<1>5. proc' = [proc EXCEPT ![p] = Dispatching(enabled)]
      /\ UNCHANGED <<rows, created, logs, mailed, runs, clock, edits, crashes, edit, stranded, overwritten>>
      /\ queued' = queued /\ queued \in [Reminder -> Nat] /\ Room(enabled)
      /\ triggers' = triggers + 1
  BY DEF Trigger, SetProc, dbVars, broker, history, RemindersInv, TypeOK
<1> HIDE DEF enabled
<1>4. ASSUME NEW r \in Reminder
      PROVE  queued'[r] + Cardinality(Choosing(r)) + One(r \in enabled)
                 <= MaxQueue + One(r \in proc[p].chosen)
  <2>1. Cardinality(Choosing(r)) \in Nat /\ queued[r] \in Nat /\ MaxQueue \in Nat
        /\ queued[r] + Cardinality(Choosing(r)) <= MaxQueue /\ queued' = queued
    BY <1>5, CountsTyped, CountersTyped DEF CountsFit
  <2>2. r \in enabled => queued[r] + Cardinality(Choosing(r)) < MaxQueue
    BY <1>5 DEF Room
  <2>3. QED
    BY <2>1, <2>2, <1>2 DEF One
<1>6. TasksFit' /\ EditsFit' /\ RowsFit' /\ LogsFit'
  BY <1>1, <1>3, <1>4, <1>5, LoopInv
<1>7. TypeOK'
  <2>1. Dispatching(enabled) \in Task
    BY <1>1, DispatchingTyped
  <2>2. triggers' \in Nat
    BY <1>5 DEF RemindersInv, TypeOK
  <2>3. QED
    BY <2>1, <2>2, <1>5 DEF RemindersInv, TypeOK, Task
<1>8. QED
  BY <1>6, <1>7 DEF RemindersInv

LEMMA EnqueueInv ==
    ASSUME RemindersInv, NEW p \in Process, NEW q \in Reminder, Enqueue(p, q)
    PROVE  RemindersInv'
<1> DEFINE c == proc[p].chosen \ {q}
<1>1. proc[p] \in Task /\ c \in SUBSET Reminder
  BY DEF RemindersInv, TypeOK, Task
<1>3. proc[p].pc \notin Delivering
  BY DEF Enqueue, At, Delivering, Logged
<1>5. proc' = [proc EXCEPT ![p] = Dispatching(c)]
      /\ UNCHANGED <<rows, created, logs, mailed, runs, clock, triggers, edits, crashes, edit, stranded, overwritten>>
      /\ queued' = [queued EXCEPT ![q] = @ + 1] /\ queued \in [Reminder -> Nat]
      /\ q \in proc[p].chosen
  BY DEF Enqueue, SetProc, dbVars, bounds, history, RemindersInv, TypeOK
<1>2. queued' \in [Reminder -> Nat]
  BY <1>5
<1>4. ASSUME NEW r \in Reminder
      PROVE  queued'[r] + Cardinality(Choosing(r)) + One(r \in c)
                 <= MaxQueue + One(r \in proc[p].chosen)
  <2>1. Cardinality(Choosing(r)) \in Nat /\ queued[r] \in Nat /\ MaxQueue \in Nat
        /\ queued[r] + Cardinality(Choosing(r)) <= MaxQueue
    BY CountsTyped, CountersTyped DEF CountsFit
  <2>2. r = q => queued'[r] = queued[r] + 1 /\ r \in proc[p].chosen /\ r \notin c
    BY <1>5
  <2>3. r # q => queued'[r] = queued[r] /\ (r \in c <=> r \in proc[p].chosen)
    BY <1>5
  <2>4. CASE r = q
    BY <2>1, <2>2, <2>4 DEF One
  <2>5. CASE r # q
    BY <2>1, <2>3, <2>5 DEF One
  <2>6. QED
    BY <2>4, <2>5
<1> HIDE DEF c
<1>6. TasksFit' /\ EditsFit' /\ RowsFit' /\ LogsFit'
  BY <1>1, <1>2, <1>3, <1>4, <1>5, LoopInv
<1>7. TypeOK'
  <2>1. Dispatching(c) \in Task
    BY <1>1, DispatchingTyped
  <2>2. \A r \in Reminder : queued'[r] \in 0 .. MaxQueue
    <3> SUFFICES ASSUME NEW r \in Reminder PROVE queued'[r] \in 0 .. MaxQueue
      OBVIOUS
    <3>1. queued'[r] + Cardinality(Choosing(r)') <= MaxQueue
      BY <1>6 DEF LogsFit, CountsFit
    <3>2. Recounted(p, Dispatching(c), r)
      <4>1. Dispatching(c).pc \notin Delivering
        BY <1>1, DispatchingTyped DEF Delivering, Logged
      <4>2. QED
        BY <4>1, <1>5, CountsMove, Zenon
    <3>3. Cardinality(Choosing(r)') \in Nat /\ queued'[r] \in Nat /\ MaxQueue \in Nat
      BY <1>2, <3>2, BoundAssumption DEF Recounted
    <3>4. QED
      BY <3>1, <3>3
  <2>3. queued' \in [Reminder -> 0 .. MaxQueue]
    BY <2>2, <1>2
  <2>4. QED
    BY <2>1, <2>3, <1>5 DEF RemindersInv, TypeOK, Task
<1>8. QED
  BY <1>6, <1>7 DEF RemindersInv

--------------------------------------------------------------------------
(* Deliveries.                                                             *)

\* A worker at a delivery, and the records it becomes.
LEMMA TaskShape ==
    ASSUME RemindersInv, NEW p \in Process
    PROVE  /\ proc[p] \in Task /\ proc[p].r \in Reminder /\ proc[p].log \in BOOLEAN
           /\ proc[p].pc # "dispatch" => proc[p].chosen = {}
           /\ proc[p].pc \in Delivering => p \in Worker
           /\ proc \in [Process -> Task]
           /\ \A pc \in Pc : /\ [proc[p] EXCEPT !.pc = pc] \in Task
                             /\ [proc[p] EXCEPT !.pc = pc].pc = pc
                             /\ [proc[p] EXCEPT !.pc = pc].r = proc[p].r
                             /\ [proc[p] EXCEPT !.pc = pc].log = proc[p].log
                             /\ [proc[p] EXCEPT !.pc = pc].chosen = proc[p].chosen
BY DEF RemindersInv, TypeOK, Task, TasksFit, FittingTask

LEMMA GetInv ==
    ASSUME RemindersInv, NEW w \in Worker, NEW q \in Reminder, Get(w, q)
    PROVE  RemindersInv'
<1> DEFINE k == IF rows[q] = Absent THEN proc[w] ELSE [Idle EXCEPT !.pc = "got", !.r = q]
<1>1. w \in Process
  BY DEF Process
<1>2. proc[w].pc = "idle" /\ proc[w].chosen = {} /\ proc[w] \in Task
  BY <1>1, TaskShape DEF Get, At
<1>3. k \in Task /\ k.chosen = {} /\ k.pc \in {"idle", "got"}
  BY <1>2, TasksTyped DEF Task, Pc, Idle
<1>4. proc' = [proc EXCEPT ![w] = k]
  BY <1>1, TaskShape DEF Get, SetProc
<1> HIDE DEF k
<1>5. /\ UNCHANGED <<rows, created, logs, mailed, runs, clock, triggers, edits, crashes, edit, stranded, overwritten>>
      /\ queued' = [queued EXCEPT ![q] = @ - 1] /\ queued[q] > 0
  BY DEF Get, dbVars, bounds, history
<1>6. FittingTask(w, k)
  BY <1>3 DEF FittingTask, IsOpen, Logged
<1>7. TasksFit'
  BY <1>1, <1>4, <1>5, <1>6, TaskMoves
<1>8. EditsFit' /\ RowsFit'
  BY <1>5 DEF RemindersInv, EditsFit, RowsFit, RowFits
<1>9. \A r \in Reminder : queued'[r] \in 0 .. MaxQueue /\ queued'[r] <= queued[r]
  <2> SUFFICES ASSUME NEW r \in Reminder PROVE queued'[r] \in 0 .. MaxQueue /\ queued'[r] <= queued[r]
    OBVIOUS
  <2>1. queued[r] \in Nat /\ queued[r] <= MaxQueue /\ MaxQueue \in Nat
    BY CountersTyped
  <2>2. queued \in [Reminder -> 0 .. MaxQueue]
    BY DEF RemindersInv, TypeOK
  <2>3. queued'[r] = IF r = q THEN queued[r] - 1 ELSE queued[r]
    BY <1>5, <2>2
  <2>4. QED
    BY <2>1, <2>3, <1>5
<1>10. LogsFit'
  <2> SUFFICES ASSUME NEW r \in Reminder PROVE CountsFit(r)'
    BY DEF LogsFit
  <2>1. Recounted(w, k, r)
    BY <1>1, <1>4, CountsMove, Zenon
  <2>2. One(IsOpen(proc[w], r)) = 0 /\ One(IsOpen(k, r)) = 0
        /\ One(IsSure(proc[w], r)) = 0 /\ One(IsSure(k, r)) = 0
        /\ One(r \in proc[w].chosen) = 0 /\ One(r \in k.chosen) = 0
    BY <1>2, <1>3 DEF One, IsOpen, IsSure, Logged
  <2>3. /\ Cardinality(Choosing(r)') = Cardinality(Choosing(r)) /\ Cardinality(Choosing(r)) \in Nat
        /\ Cardinality(OpenLogs(r)') = Cardinality(OpenLogs(r))
        /\ Cardinality(SureLogs(r)') = Cardinality(SureLogs(r))
    BY <2>1, <2>2 DEF Recounted
  <2>4. queued'[r] + Cardinality(Choosing(r)) <= MaxQueue
    BY <1>9, <2>3, CountersTyped DEF CountsFit
  <2>5. QED
    BY <1>5, <2>3, <2>4, CountersTyped DEF CountsFit
<1>11. TypeOK'
  <2>1. queued' \in [Reminder -> 0 .. MaxQueue]
    BY <1>5, <1>9 DEF RemindersInv, TypeOK
  <2>2. QED
    BY <2>1, <1>3, <1>4, <1>5 DEF RemindersInv, TypeOK, Task
<1>12. QED
  BY <1>7, <1>8, <1>10, <1>11 DEF RemindersInv

\* A log is opened, and closed.
LEMMA LogsOpened ==
    ASSUME logs \in [Reminder -> [Status -> Nat]], NEW r \in Reminder, AddLog(r, "pending")
    PROVE  /\ logs' \in [Reminder -> [Status -> Nat]]
           /\ \A q \in Reminder : q # r => logs'[q] = logs[q]
           /\ logs'[r]["pending"] = logs[r]["pending"] + 1
           /\ logs'[r]["sent"] = logs[r]["sent"] /\ logs'[r]["failed"] = logs[r]["failed"]
<1>1. PICK k : k = [logs[r] EXCEPT !["pending"] = @ + 1]
  OBVIOUS
<1>2. logs[r] \in [Status -> Nat] /\ "pending" \in Status /\ "sent" \in Status /\ "failed" \in Status
  BY DEF Status
<1>3. k \in [Status -> Nat] /\ k["pending"] = logs[r]["pending"] + 1
      /\ k["sent"] = logs[r]["sent"] /\ k["failed"] = logs[r]["failed"]
  BY <1>1, <1>2
<1>4. logs' = [logs EXCEPT ![r] = k]
  BY <1>1 DEF AddLog
<1>5. QED
  BY <1>3, <1>4

LEMMA LogsClosed ==
    ASSUME logs \in [Reminder -> [Status -> Nat]], NEW r \in Reminder, NEW s \in {"sent", "failed"},
           logs[r]["pending"] > 0, CloseLog(r, s)
    PROVE  /\ logs' \in [Reminder -> [Status -> Nat]]
           /\ \A q \in Reminder : q # r => logs'[q] = logs[q]
           /\ logs'[r]["pending"] = logs[r]["pending"] - 1
           /\ logs'[r]["sent"] = logs[r]["sent"] + One(s = "sent")
<1>1. PICK k : k = [logs[r] EXCEPT !["pending"] = @ - 1]
  OBVIOUS
<1>2. logs[r] \in [Status -> Nat] /\ "pending" \in Status /\ "sent" \in Status /\ "failed" \in Status
  BY DEF Status
<1>3. k \in [Status -> Nat] /\ k["pending"] = logs[r]["pending"] - 1
      /\ k["sent"] = logs[r]["sent"] /\ k["failed"] = logs[r]["failed"]
  BY <1>1, <1>2
<1>4. PICK m : m = [k EXCEPT ![s] = @ + 1]
  OBVIOUS
<1>5. m \in [Status -> Nat] /\ m["pending"] = logs[r]["pending"] - 1
      /\ m["sent"] = logs[r]["sent"] + One(s = "sent")
  BY <1>2, <1>3, <1>4 DEF One
<1>6. PICK g : g = [logs EXCEPT ![r] = k]
  OBVIOUS
<1>7. g \in [Reminder -> [Status -> Nat]] /\ g[r] = k /\ \A q \in Reminder : q # r => g[q] = logs[q]
  BY <1>3, <1>6
<1>8. logs' = [g EXCEPT ![r] = m]
  <2>1. logs' = [g EXCEPT ![r][s] = @ + 1]
    BY <1>1, <1>6 DEF CloseLog
  <2>2. QED
    BY <2>1, <1>4, <1>7
<1>9. QED
  BY <1>5, <1>7, <1>8

LEMMA OpenLogInv ==
    ASSUME RemindersInv, NEW w \in Worker, NEW reachable \in BOOLEAN, OpenLog(w, reachable)
    PROVE  RemindersInv'
<1> DEFINE q == proc[w].r
           k == IF rows[q] = Absent THEN Idle
                ELSE [proc[w] EXCEPT !.pc = IF reachable THEN "logged" ELSE "unsent", !.log = TRUE]
<1>1. w \in Process
  BY DEF Process
<1>2. proc[w].pc = "got" /\ proc[w].chosen = {} /\ proc[w] \in Task /\ q \in Reminder
  BY <1>1, TaskShape DEF OpenLog, At
<1>3. /\ k \in Task /\ k.chosen = {} /\ k.pc \in {"idle", "logged", "unsent"}
      /\ rows[q] = Absent => k.pc = "idle"
      /\ rows[q] # Absent => k.pc \in {"logged", "unsent"} /\ k.r = q /\ k.log
  BY <1>2, TasksTyped DEF Task, Pc
<1>4. proc' = [proc EXCEPT ![w] = k]
      /\ UNCHANGED <<rows, created, mailed, runs, queued, clock, triggers, edits, crashes, edit, stranded, overwritten>>
      /\ (rows[q] = Absent => logs' = logs) /\ (rows[q] # Absent => AddLog(q, "pending"))
      /\ logs \in [Reminder -> [Status -> Nat]]
  BY DEF OpenLog, SetProc, broker, bounds, history, RemindersInv, TypeOK
<1> HIDE DEF q, k
<1>5. /\ logs' \in [Reminder -> [Status -> Nat]]
      /\ \A r \in Reminder : r # q \/ rows[q] = Absent => logs'[r] = logs[r]
      /\ \A r \in Reminder : logs'[r]["sent"] = logs[r]["sent"]
      /\ rows[q] # Absent => logs'[q]["pending"] = logs[q]["pending"] + 1
  <2>1. CASE rows[q] = Absent
    BY <1>4, <2>1
  <2>2. CASE rows[q] # Absent
    <3>1. /\ logs' \in [Reminder -> [Status -> Nat]]
          /\ \A r \in Reminder : r # q => logs'[r] = logs[r]
          /\ logs'[q]["pending"] = logs[q]["pending"] + 1
          /\ logs'[q]["sent"] = logs[q]["sent"]
      BY <1>2, <1>4, <2>2, LogsOpened
    <3>2. QED
      BY <3>1, <2>2
  <2>3. QED
    BY <2>1, <2>2
<1>6. FittingTask(w, k)
  BY <1>3 DEF FittingTask, IsOpen, Logged
<1>7. TasksFit'
  BY <1>1, <1>4, <1>6, TaskMoves
<1>8. EditsFit'
  BY <1>4 DEF RemindersInv, EditsFit
<1>9. RowsFit'
  <2> SUFFICES ASSUME NEW r \in Reminder PROVE RowFits(r)'
    BY DEF RowsFit
  <2>1. RowFits(r)
    BY DEF RemindersInv, RowsFit
  <2>2. QED
    BY <2>1, <1>4, <1>5 DEF RowFits
<1>10. LogsFit'
  <2> SUFFICES ASSUME NEW r \in Reminder PROVE CountsFit(r)'
    BY DEF LogsFit
  <2>1. Recounted(w, k, r)
    BY <1>1, <1>4, CountsMove, Zenon
  <2>2. One(IsOpen(proc[w], r)) = 0 /\ One(IsSure(proc[w], r)) = 0 /\ One(IsSure(k, r)) = 0
        /\ One(r \in proc[w].chosen) = 0 /\ One(r \in k.chosen) = 0
        /\ (r = q /\ rows[q] # Absent => One(IsOpen(k, r)) = 1)
        /\ (r # q \/ rows[q] = Absent => One(IsOpen(k, r)) = 0)
    BY <1>2, <1>3 DEF One, IsOpen, IsSure, Logged
  <2>3. /\ Cardinality(Choosing(r)') = Cardinality(Choosing(r)) /\ Cardinality(Choosing(r)) \in Nat
        /\ Cardinality(SureLogs(r)') = Cardinality(SureLogs(r))
        /\ Cardinality(OpenLogs(r)) \in Nat
        /\ (r = q /\ rows[q] # Absent => Cardinality(OpenLogs(r)') = Cardinality(OpenLogs(r)) + 1)
        /\ (r # q \/ rows[q] = Absent => Cardinality(OpenLogs(r)') = Cardinality(OpenLogs(r)))
    BY <2>1, <2>2 DEF Recounted
  <2>4. CASE r = q /\ rows[q] # Absent
    <3>1. logs'[r]["pending"] = logs[r]["pending"] + 1 /\ logs'[r]["sent"] = logs[r]["sent"]
          /\ Cardinality(OpenLogs(r)') = Cardinality(OpenLogs(r)) + 1
      BY <1>5, <2>3, <2>4
    <3>2. QED
      BY <1>4, <2>3, <3>1, CountersTyped DEF CountsFit
  <2>5. CASE r # q \/ rows[q] = Absent
    BY <1>4, <1>5, <2>3, <2>5, CountersTyped DEF CountsFit
  <2>6. QED
    BY <2>4, <2>5
<1>11. TypeOK'
  BY <1>3, <1>4, <1>5 DEF RemindersInv, TypeOK, Task
<1>12. QED
  BY <1>7, <1>8, <1>9, <1>10, <1>11 DEF RemindersInv

\* A mail is handed over, or raises.
LEMMA MailMoves ==
    ASSUME RemindersInv, NEW w \in Worker, NEW pc \in {"mailed", "unsent"}, NEW n \in {0, 1},
           proc[w].pc = "logged", pc = "mailed" => n = 1,
           proc' = [proc EXCEPT ![w] = [proc[w] EXCEPT !.pc = pc]],
           mailed' = [mailed EXCEPT ![proc[w].r] = @ + n],
           UNCHANGED <<rows, created, logs, runs, queued, edit, clock, triggers, edits, crashes,
                       stranded, overwritten>>
    PROVE  RemindersInv'
<1> DEFINE q == proc[w].r
           k == [proc[w] EXCEPT !.pc = pc]
<1>1. w \in Process /\ pc \in Pc
  BY DEF Process, Pc
<1>2. proc[w].chosen = {} /\ proc[w] \in Task /\ q \in Reminder
  BY <1>1, TaskShape
<1>3. k \in Task /\ k.chosen = {} /\ k.pc = pc /\ k.r = q /\ k.log = proc[w].log
  BY <1>1, <1>2, TaskShape
<1>4. proc' = [proc EXCEPT ![w] = k] /\ mailed' = [mailed EXCEPT ![q] = @ + n]
  OBVIOUS
<1> HIDE DEF q, k
<1>5. /\ mailed' \in [Reminder -> Nat]
      /\ \A r \in Reminder : mailed'[r] = IF r = q THEN mailed[r] + n ELSE mailed[r]
  <2>1. mailed \in [Reminder -> Nat] /\ n \in Nat
    BY DEF RemindersInv, TypeOK
  <2>2. mailed[q] + n \in Nat
    BY <2>1, <1>2
  <2>3. QED
    BY <1>2, <1>4, <2>1, <2>2
<1>6. FittingTask(w, k)
  <2>1. FittingTask(w, proc[w])
    BY <1>1 DEF RemindersInv, TasksFit
  <2>2. \A r \in Reminder : IsOpen(k, r) => IsOpen(proc[w], r)
    BY <1>3 DEF IsOpen, Logged, q
  <2>3. QED
    BY <1>3, <2>1, <2>2 DEF FittingTask
<1>7. TasksFit'
  BY <1>1, <1>4, <1>6, TaskMoves
<1>8. EditsFit' /\ RowsFit'
  BY DEF RemindersInv, EditsFit, RowsFit, RowFits
<1>9. LogsFit'
  <2> SUFFICES ASSUME NEW r \in Reminder PROVE CountsFit(r)'
    BY DEF LogsFit
  <2>1. Recounted(w, k, r)
    BY <1>1, <1>4, CountsMove, Zenon
  <2>2. /\ One(IsOpen(proc[w], r)) = One(IsOpen(k, r)) /\ One(IsOpen(k, r)) \in Nat
        /\ One(IsSure(proc[w], r)) = 0 /\ One(IsSure(k, r)) \in Nat
        /\ One(IsSure(k, r)) <= IF r = q THEN n ELSE 0
        /\ One(r \in proc[w].chosen) = 0 /\ One(r \in k.chosen) = 0
    BY <1>2, <1>3 DEF One, IsOpen, IsSure, Logged, q
  <2>3. /\ Cardinality(Choosing(r)') = Cardinality(Choosing(r))
        /\ Cardinality(OpenLogs(r)') = Cardinality(OpenLogs(r))
        /\ Cardinality(SureLogs(r)') = Cardinality(SureLogs(r)) + One(IsSure(k, r))
        /\ Cardinality(SureLogs(r)) \in Nat
    BY <2>1, <2>2 DEF Recounted
  <2>4. logs[r]["sent"] + Cardinality(SureLogs(r)) + One(IsSure(k, r)) <= mailed'[r]
    <3>1. logs[r]["sent"] \in Nat /\ mailed[r] \in Nat
          /\ logs[r]["sent"] + Cardinality(SureLogs(r)) <= mailed[r]
      BY CountersTyped DEF CountsFit
    <3>2. QED
      BY <3>1, <2>2, <2>3, <1>5
  <2>5. logs[r]["sent"] + Cardinality(SureLogs(r)') <= mailed'[r]
    BY <2>2, <2>3, <2>4, CountersTyped
  <2>6. QED
    BY <2>3, <2>5, CountersTyped DEF CountsFit
<1>10. TypeOK'
  <2>1. proc' \in [Process -> Task]
    BY <1>1, <1>3, <1>4, TaskShape
  <2>2. QED
    BY <2>1, <1>5 DEF RemindersInv, TypeOK, Task
<1>11. QED
  BY <1>7, <1>8, <1>9, <1>10 DEF RemindersInv

LEMMA MailInv ==
    ASSUME RemindersInv, NEW w \in Worker, Mail(w)
    PROVE  RemindersInv'
<1>1. /\ proc[w].pc = "logged"
      /\ proc' = [proc EXCEPT ![w] = [proc[w] EXCEPT !.pc = "mailed"]]
      /\ mailed' = [mailed EXCEPT ![proc[w].r] = @ + 1]
      /\ UNCHANGED <<rows, created, logs, runs, queued, edit, clock, triggers, edits, crashes,
                     stranded, overwritten>>
  BY DEF Mail, At, SetProc, dbVars, broker, bounds, history
<1>2. QED
  BY <1>1, MailMoves

LEMMA MailRaisesInv ==
    ASSUME RemindersInv, NEW w \in Worker, NEW accepted \in BOOLEAN, MailRaises(w, accepted)
    PROVE  RemindersInv'
<1> DEFINE n == IF accepted THEN 1 ELSE 0
<1>1. /\ proc[w].pc = "logged"
      /\ proc' = [proc EXCEPT ![w] = [proc[w] EXCEPT !.pc = "unsent"]]
      /\ mailed' = [mailed EXCEPT ![proc[w].r] = @ + n]
      /\ UNCHANGED <<rows, created, logs, runs, queued, edit, clock, triggers, edits, crashes,
                     stranded, overwritten>>
  BY DEF MailRaises, At, SetProc, dbVars, broker, bounds, history
<1>2. n \in {0, 1}
  OBVIOUS
<1> HIDE DEF n
<1>3. QED
  BY <1>1, <1>2, MailMoves

LEMMA StampInv ==
    ASSUME RemindersInv, NEW w \in Worker, Stamp(w)
    PROVE  RemindersInv'
<1> DEFINE q == proc[w].r
           k == IF rows[q] = Absent THEN Idle ELSE [proc[w] EXCEPT !.pc = "stamped"]
<1>1. w \in Process /\ "stamped" \in Pc
  BY DEF Process, Pc
<1>2. proc[w].pc = "mailed" /\ proc[w].chosen = {} /\ proc[w] \in Task /\ q \in Reminder
  BY <1>1, TaskShape DEF Stamp, At
<1>3. /\ k \in Task /\ k.chosen = {} /\ k.pc \in {"idle", "stamped"}
      /\ rows[q] = Absent => k.pc = "idle"
      /\ rows[q] # Absent => k.pc = "stamped" /\ k.r = q /\ k.log = proc[w].log
  BY <1>1, <1>2, TasksTyped, TaskShape
<1>4. proc' = [proc EXCEPT ![w] = k]
      /\ UNCHANGED <<created, logs, mailed, runs, queued, clock, triggers, edits, crashes, edit, stranded, overwritten>>
      /\ (rows[q] = Absent => rows' = rows)
      /\ (rows[q] # Absent => rows' = [rows EXCEPT ![q] = Stamped(rows[q])])
      /\ rows \in [Reminder -> Row \cup {Absent}]
  BY DEF Stamp, SetProc, broker, bounds, history, RemindersInv, TypeOK
<1> HIDE DEF q, k
<1>5. ASSUME rows[q] # Absent PROVE Stamped(rows[q]) \in Row /\ Stamped(rows[q]).sent
  BY <1>2, <1>4, <1>5 DEF Stamped, Row
<1>6. /\ rows' \in [Reminder -> Row \cup {Absent}]
      /\ \A r \in Reminder : rows'[r] = rows[r] \/ (r = q /\ rows'[r] # Absent /\ rows'[r].sent)
      /\ \A r \in Reminder : rows'[r] = Absent <=> rows[r] = Absent
      /\ rows[q] # Absent => rows'[q].sent
  <2>1. CASE rows[q] = Absent
    BY <1>4, <2>1
  <2>2. CASE rows[q] # Absent
    <3>1. rows' = [rows EXCEPT ![q] = Stamped(rows[q])] /\ Stamped(rows[q]) \in Row /\ Stamped(rows[q]).sent
          /\ Stamped(rows[q]) # Absent
      BY <1>4, <1>5, <2>2, SentinelAssumption
    <3>2. QED
      BY <1>2, <1>4, <2>2, <3>1
  <2>3. QED
    BY <2>1, <2>2
<1>7. TasksFit'
  <2> SUFFICES ASSUME NEW p \in Process PROVE FittingTask(p, proc[p])'
    BY DEF TasksFit
  <2>1. FittingTask(p, proc[p]) /\ FittingTask(w, proc[w])
    BY <1>1 DEF RemindersInv, TasksFit
  <2>2. CASE p = w
    <3>1. proc'[p] = k
      BY <1>1, <1>4, <2>2, TaskShape
    <3>2. \A r \in Reminder : IsOpen(k, r) => r = q /\ rows[q] # Absent
      BY <1>3 DEF IsOpen, Logged
    <3>3. k.pc # "dispatch" /\ k.chosen = {} /\ p \in Worker /\ overwritten' = overwritten
      BY <1>3, <1>4, <2>2
    <3>4. QED
      BY <3>1, <3>2, <3>3, <1>6 DEF FittingTask
  <2>3. CASE p # w
    <3>1. proc'[p] = proc[p] /\ overwritten' = overwritten
      BY <1>4, <2>3, TaskShape
    <3>2. QED
      BY <3>1, <2>1, <1>6 DEF FittingTask
  <2>4. QED
    BY <2>2, <2>3
<1>8. EditsFit'
  BY <1>4 DEF RemindersInv, EditsFit
<1>9. RowsFit'
  <2> SUFFICES ASSUME NEW r \in Reminder PROVE RowFits(r)'
    BY DEF RowsFit
  <2>1. RowFits(r)
    BY DEF RemindersInv, RowsFit
  <2>2. QED
    BY <2>1, <1>4, <1>6 DEF RowFits
<1>10. LogsFit'
  <2> SUFFICES ASSUME NEW r \in Reminder PROVE CountsFit(r)'
    BY DEF LogsFit
  <2>1. Recounted(w, k, r)
    BY <1>1, <1>4, CountsMove, Zenon
  <2>2. FittingTask(w, proc[w])
    BY <1>1 DEF RemindersInv, TasksFit
  <2>3. /\ IsOpen(proc[w], r) <=> IsOpen(k, r)
        /\ IsSure(proc[w], r) <=> IsSure(k, r)
        /\ ~(r \in proc[w].chosen) /\ ~(r \in k.chosen)
    BY <1>2, <1>3, <2>2 DEF IsOpen, IsSure, Logged, FittingTask, q
  <2>4. /\ One(IsOpen(proc[w], r)) = One(IsOpen(k, r)) /\ One(IsOpen(k, r)) \in Nat
        /\ One(IsSure(proc[w], r)) = One(IsSure(k, r)) /\ One(IsSure(k, r)) \in Nat
        /\ One(r \in proc[w].chosen) = 0 /\ One(r \in k.chosen) = 0
    BY <2>3 DEF One
  <2>5. /\ Cardinality(Choosing(r)') = Cardinality(Choosing(r))
        /\ Cardinality(OpenLogs(r)') = Cardinality(OpenLogs(r))
        /\ Cardinality(SureLogs(r)') = Cardinality(SureLogs(r))
    BY <2>1, <2>4 DEF Recounted
  <2>6. QED
    BY <1>4, <2>5, CountersTyped DEF CountsFit
<1>11. TypeOK'
  BY <1>3, <1>4, <1>6 DEF RemindersInv, TypeOK, Task
<1>12. QED
  BY <1>7, <1>8, <1>9, <1>10, <1>11 DEF RemindersInv

LEMMA FinishLogInv ==
    ASSUME RemindersInv, NEW w \in Worker, FinishLog(w)
    PROVE  RemindersInv'
<1> DEFINE q == proc[w].r
           s == Outcome(proc[w].pc)
<1>1. w \in Process
  BY DEF Process
<1>2. proc[w].pc \in {"stamped", "unsent"} /\ proc[w].chosen = {} /\ proc[w] \in Task /\ q \in Reminder
  BY <1>1, TaskShape DEF FinishLog
<1>3. s \in {"sent", "failed"} /\ (s = "sent" <=> proc[w].pc = "stamped")
  BY <1>2 DEF Outcome
<1>4. proc' = [proc EXCEPT ![w] = Idle]
      /\ UNCHANGED <<rows, created, mailed, runs, queued, clock, triggers, edits, crashes, edit, stranded, overwritten>>
      /\ (proc[w].log => CloseLog(q, s)) /\ (~proc[w].log => logs' = logs)
      /\ logs \in [Reminder -> [Status -> Nat]]
  BY DEF FinishLog, SetProc, broker, bounds, history, RemindersInv, TypeOK
<1>5. proc[w].log <=> IsOpen(proc[w], q)
  BY <1>2 DEF IsOpen, Logged
<1>6. FittingTask(w, proc[w])
  BY <1>1 DEF RemindersInv, TasksFit
<1> HIDE DEF q, s
<1>7. ASSUME IsOpen(proc[w], q) PROVE logs[q]["pending"] > 0
  <2>1. Recounted(w, Idle, q)
    BY <1>1, <1>4, CountsMove, Zenon
  <2>2. One(IsOpen(proc[w], q)) = 1 /\ One(IsOpen(Idle, q)) = 0
    BY <1>7, TasksTyped DEF One, IsOpen
  <2>3. Cardinality(OpenLogs(q)') \in Nat /\ Cardinality(OpenLogs(q)') + 1 = Cardinality(OpenLogs(q))
        /\ Cardinality(OpenLogs(q)) \in Nat
    BY <2>1, <2>2 DEF Recounted
  <2>4. Cardinality(OpenLogs(q)) <= logs[q]["pending"] /\ logs[q]["pending"] \in Nat
    BY <1>2, CountersTyped DEF CountsFit
  <2>5. QED
    BY <2>3, <2>4
<1>8. /\ logs' \in [Reminder -> [Status -> Nat]]
      /\ \A r \in Reminder : r # q \/ ~proc[w].log => logs'[r] = logs[r]
      /\ proc[w].log => /\ logs'[q]["pending"] = logs[q]["pending"] - 1
                        /\ logs'[q]["sent"] = logs[q]["sent"] + One(s = "sent")
  <2>1. CASE ~proc[w].log
    BY <1>4, <2>1
  <2>2. CASE proc[w].log
    <3>1. CloseLog(q, s) /\ logs[q]["pending"] > 0
      BY <1>4, <1>5, <1>7, <2>2
    <3>2. /\ logs' \in [Reminder -> [Status -> Nat]]
          /\ \A r \in Reminder : r # q => logs'[r] = logs[r]
          /\ logs'[q]["pending"] = logs[q]["pending"] - 1
          /\ logs'[q]["sent"] = logs[q]["sent"] + One(s = "sent")
      BY <1>2, <1>3, <1>4, <3>1, LogsClosed, Zenon
    <3>3. QED
      BY <3>2, <2>2
  <2>3. QED
    BY <2>1, <2>2
<1>9. TasksFit'
  <2>1. FittingTask(w, Idle)
    BY TasksTyped DEF FittingTask, IsOpen, Delivering, Logged
  <2>2. QED
    BY <2>1, <1>1, <1>4, TaskMoves
<1>10. EditsFit'
  BY <1>4 DEF RemindersInv, EditsFit
<1>11. RowsFit'
  <2> SUFFICES ASSUME NEW r \in Reminder PROVE RowFits(r)'
    BY DEF RowsFit
  <2>1. RowFits(r)
    BY DEF RemindersInv, RowsFit
  <2>2. CASE r # q \/ ~proc[w].log
    BY <2>1, <2>2, <1>4, <1>8 DEF RowFits
  <2>3. CASE r = q /\ proc[w].log
    <3>1. rows[r] # Absent /\ (proc[w].pc = "stamped" /\ ~overwritten[r] => rows[r].sent)
      BY <1>2, <1>5, <1>6, <2>3 DEF FittingTask
    <3>2. proc[w].pc # "stamped" => logs'[r]["sent"] = logs[r]["sent"]
      BY <1>3, <1>8, <2>3, CountersTyped DEF One
    <3>3. QED
      BY <2>1, <3>1, <3>2, <1>4 DEF RowFits
  <2>4. QED
    BY <2>2, <2>3
<1>12. LogsFit'
  <2> SUFFICES ASSUME NEW r \in Reminder PROVE CountsFit(r)'
    BY DEF LogsFit
  <2>1. Recounted(w, Idle, r)
    BY <1>1, <1>4, CountsMove, Zenon
  <2>2. /\ One(IsOpen(Idle, r)) = 0 /\ One(IsSure(Idle, r)) = 0
        /\ One(r \in proc[w].chosen) = 0 /\ One(r \in Idle.chosen) = 0
    BY <1>2, TasksTyped DEF One, IsOpen, IsSure
  <2>3. /\ r # q \/ ~proc[w].log => One(IsOpen(proc[w], r)) = 0 /\ One(IsSure(proc[w], r)) = 0
        /\ r = q /\ proc[w].log => One(IsOpen(proc[w], r)) = 1 /\ One(IsSure(proc[w], r)) = One(s = "sent")
    BY <1>2, <1>3 DEF One, IsOpen, IsSure, Logged, q
  <2>4. /\ Cardinality(Choosing(r)') = Cardinality(Choosing(r))
        /\ Cardinality(OpenLogs(r)') \in Nat /\ Cardinality(SureLogs(r)') \in Nat
        /\ Cardinality(OpenLogs(r)') + One(IsOpen(proc[w], r)) = Cardinality(OpenLogs(r))
        /\ Cardinality(SureLogs(r)') + One(IsSure(proc[w], r)) = Cardinality(SureLogs(r))
    BY <2>1, <2>2 DEF Recounted
  <2>5. CASE r # q \/ ~proc[w].log
    <3>1. Cardinality(OpenLogs(r)') = Cardinality(OpenLogs(r))
          /\ Cardinality(SureLogs(r)') = Cardinality(SureLogs(r))
      BY <2>3, <2>4, <2>5
    <3>2. QED
      BY <1>4, <1>8, <2>4, <2>5, <3>1, CountersTyped DEF CountsFit
  <2>6. CASE r = q /\ proc[w].log
    <3>1. Cardinality(OpenLogs(r)') + 1 = Cardinality(OpenLogs(r))
          /\ Cardinality(SureLogs(r)') + One(s = "sent") = Cardinality(SureLogs(r))
          /\ One(s = "sent") \in {0, 1}
      BY <2>3, <2>4, <2>6 DEF One
    <3>2. logs'[r]["pending"] = logs[r]["pending"] - 1
          /\ logs'[r]["sent"] = logs[r]["sent"] + One(s = "sent")
      BY <1>8, <2>6
    <3>3. logs'[r]["sent"] + Cardinality(SureLogs(r)') = logs[r]["sent"] + Cardinality(SureLogs(r))
      BY <3>1, <3>2, <2>4, CountersTyped
    <3>4. /\ Cardinality(OpenLogs(r)') <= logs'[r]["pending"]
          /\ ~stranded[r] => logs'[r]["pending"] = Cardinality(OpenLogs(r)')
      BY <3>1, <3>2, <2>4, CountersTyped DEF CountsFit
    <3>5. QED
      BY <3>3, <3>4, <2>4, <1>4, CountersTyped DEF CountsFit
  <2>7. QED
    BY <2>5, <2>6
<1>13. TypeOK'
  BY <1>4, <1>8, TasksTyped DEF RemindersInv, TypeOK, Task
<1>14. QED
  BY <1>9, <1>10, <1>11, <1>12, <1>13 DEF RemindersInv

LEMMA CrashInv ==
    ASSUME RemindersInv, NEW p \in Process, Crash(p)
    PROVE  RemindersInv'
<1> DEFINE q == proc[p].r
<1>1. proc[p] \in Task /\ q \in Reminder
  BY TaskShape
<1>2. proc' = [proc EXCEPT ![p] = Idle]
      /\ UNCHANGED <<rows, created, logs, mailed, runs, queued, clock, triggers, edits, edit, overwritten>>
      /\ crashes' = crashes + 1
      /\ stranded' = IF proc[p].pc \in Logged THEN [stranded EXCEPT ![q] = TRUE] ELSE stranded
  BY DEF Crash, SetProc, dbVars, broker
<1> HIDE DEF q
<1>3. /\ stranded' \in [Reminder -> BOOLEAN]
      /\ \A r \in Reminder : ~stranded'[r] => ~stranded[r]
      /\ proc[p].pc \in Logged => stranded'[q]
  BY <1>1, <1>2 DEF RemindersInv, TypeOK
<1>4. TasksFit'
  <2>1. FittingTask(p, Idle)
    BY TasksTyped DEF FittingTask, IsOpen, Delivering, Logged
  <2>2. QED
    BY <2>1, <1>2, TaskMoves
<1>5. EditsFit' /\ RowsFit'
  BY <1>2 DEF RemindersInv, EditsFit, RowsFit, RowFits
<1>6. LogsFit'
  <2> SUFFICES ASSUME NEW r \in Reminder PROVE CountsFit(r)'
    BY DEF LogsFit
  <2>1. Recounted(p, Idle, r)
    <3>1. Idle.pc \notin Delivering
      BY TasksTyped DEF Delivering, Logged
    <3>2. QED
      BY <3>1, <1>2, CountsMove, Zenon
  <2>2. /\ One(IsOpen(Idle, r)) = 0 /\ One(IsSure(Idle, r)) = 0 /\ One(r \in Idle.chosen) = 0
        /\ One(IsOpen(proc[p], r)) \in Nat /\ One(IsSure(proc[p], r)) \in Nat
        /\ One(r \in proc[p].chosen) \in Nat
        /\ IsOpen(proc[p], r) \/ One(IsOpen(proc[p], r)) = 0
    BY TasksTyped DEF One, IsOpen, IsSure
  <2>3. /\ Cardinality(Choosing(r)') <= Cardinality(Choosing(r))
        /\ Cardinality(OpenLogs(r)') <= Cardinality(OpenLogs(r))
        /\ Cardinality(SureLogs(r)') <= Cardinality(SureLogs(r))
        /\ Cardinality(Choosing(r)) \in Nat /\ Cardinality(Choosing(r)') \in Nat
        /\ Cardinality(OpenLogs(r)) \in Nat /\ Cardinality(OpenLogs(r)') \in Nat
        /\ Cardinality(SureLogs(r)) \in Nat /\ Cardinality(SureLogs(r)') \in Nat
        /\ IsOpen(proc[p], r) \/ Cardinality(OpenLogs(r)') = Cardinality(OpenLogs(r))
    BY <2>1, <2>2 DEF Recounted
  <2>4. ~stranded'[r] => ~IsOpen(proc[p], r)
    BY <1>3 DEF IsOpen, q
  <2>5. /\ queued[r] + Cardinality(Choosing(r)') <= MaxQueue
        /\ Cardinality(OpenLogs(r)') <= logs[r]["pending"]
        /\ logs[r]["sent"] + Cardinality(SureLogs(r)') <= mailed[r]
    BY <2>3, CountersTyped DEF CountsFit
  <2>6. ~stranded'[r] => logs[r]["pending"] = Cardinality(OpenLogs(r)')
    BY <1>3, <2>3, <2>4, CountersTyped DEF CountsFit
  <2>7. QED
    BY <1>2, <2>5, <2>6 DEF CountsFit
<1>7. TypeOK'
  BY <1>2, <1>3, TasksTyped DEF RemindersInv, TypeOK, Task
<1>8. QED
  BY <1>4, <1>5, <1>6, <1>7 DEF RemindersInv

--------------------------------------------------------------------------
(* The owner.                                                              *)

\* The counts stay when the tasks do.
LEMMA CountsStay ==
    ASSUME UNCHANGED proc, NEW r
    PROVE  /\ Choosing(r)' = Choosing(r) /\ OpenLogs(r)' = OpenLogs(r)
           /\ SureLogs(r)' = SureLogs(r) /\ EarlyOf(r)' = EarlyOf(r)
BY DEF Choosing, OpenLogs, SureLogs, EarlyOf, SendersOf

LEMMA LogsStay ==
    ASSUME RemindersInv, UNCHANGED <<proc, logs, mailed, queued, stranded>>
    PROVE  LogsFit'
<1> SUFFICES ASSUME NEW r \in Reminder PROVE CountsFit(r)'
  BY DEF LogsFit
<1>1. CountsFit(r)
  BY DEF RemindersInv, LogsFit
<1>2. QED
  BY <1>1, CountsStay DEF CountsFit

\* What touches no row and no task: beat, the day, a PATCH that reads.
LEMMA QuietInv ==
    ASSUME RemindersInv,
           UNCHANGED <<rows, created, logs, mailed, queued, proc, stranded, overwritten>>,
           TypeOK', EditsFit'
    PROVE  RemindersInv'
<1>1. TasksFit' /\ RowsFit'
  BY DEF RemindersInv, TasksFit, FittingTask, RowsFit, RowFits
<1>2. QED
  BY <1>1, LogsStay DEF RemindersInv

LEMMA BeatInv ==
    ASSUME RemindersInv, Beat
    PROVE  RemindersInv'
<1>1. runs' \in 0 .. MaxQueue
  BY BoundAssumption DEF Beat, RemindersInv, TypeOK
<1>2. TypeOK' /\ EditsFit'
  BY <1>1 DEF Beat, dbVars, bounds, history, RemindersInv, TypeOK, EditsFit
<1>3. QED
  BY <1>2, QuietInv DEF Beat, dbVars, history

LEMMA TickInv ==
    ASSUME RemindersInv, Tick
    PROVE  RemindersInv'
<1>1. clock' \in Day
  BY BoundAssumption DEF Tick, RemindersInv, TypeOK, Day
<1>2. TypeOK' /\ EditsFit'
  BY <1>1 DEF Tick, dbVars, broker, bounds, history, RemindersInv, TypeOK, EditsFit
<1>3. QED
  BY <1>2, QuietInv DEF Tick, dbVars, broker, history

LEMMA LoadInv ==
    ASSUME RemindersInv, NEW e \in Editor, NEW r \in Reminder, Load(e, r)
    PROVE  RemindersInv'
<1>1. PICK m : m = [pc |-> "loaded", r |-> r, snap |-> rows[r]]
  OBVIOUS
<1>2. edit' = [edit EXCEPT ![e] = m]
  BY <1>1 DEF Load, SetEdit
<1>3. rows[r] \in Row /\ created[r] /\ edits' \in Nat
  BY DEF Load, RemindersInv, TypeOK, RowsFit, RowFits
<1>4. m \in [pc : {"idle", "loaded"}, r : Reminder, snap : Row \cup {Absent}]
      /\ m.snap \in Row /\ created[m.r]
  BY <1>1, <1>3
<1>5. UNCHANGED <<rows, created, logs, mailed, runs, queued, proc, clock, triggers, crashes, stranded, overwritten>>
  BY DEF Load, dbVars, broker, history
<1>6. edit \in [Editor -> [pc : {"idle", "loaded"}, r : Reminder, snap : Row \cup {Absent}]]
  BY DEF RemindersInv, TypeOK
<1>7. TypeOK'
  <2>1. edit' \in [Editor -> [pc : {"idle", "loaded"}, r : Reminder, snap : Row \cup {Absent}]]
    BY <1>2, <1>4, <1>6
  <2>2. QED
    BY <2>1, <1>3, <1>5 DEF RemindersInv, TypeOK
<1>8. EditsFit'
  <2>1. \A f \in Editor : edit'[f] = m \/ edit'[f] = edit[f]
    BY <1>2, <1>6
  <2>2. QED
    BY <2>1, <1>4, <1>5 DEF RemindersInv, EditsFit
<1>9. QED
  BY <1>5, <1>7, <1>8, QuietInv

LEMMA CreateInv ==
    ASSUME RemindersInv, NEW q \in Reminder, NEW enabled \in BOOLEAN, NEW nextRun \in Day \cup {Unset},
           Create(q, enabled, nextRun)
    PROVE  RemindersInv'
<1>1. PICK m : m = [enabled |-> enabled, nextRun |-> nextRun, sent |-> FALSE]
  OBVIOUS
<1>2. m \in Row /\ m # Absent
  <2>1. m \in Row
    BY <1>1 DEF Row
  <2>2. QED
    BY <2>1, SentinelAssumption
<1>3. /\ rows' = [rows EXCEPT ![q] = m] /\ created' = [created EXCEPT ![q] = TRUE] /\ ~created[q]
      /\ UNCHANGED <<logs, mailed, runs, queued, proc, edit, clock, triggers, edits, crashes, stranded, overwritten>>
  BY <1>1 DEF Create, broker, bounds, history
<1>4. rows \in [Reminder -> Row \cup {Absent}] /\ created \in [Reminder -> BOOLEAN]
  BY DEF RemindersInv, TypeOK
<1>5. rows[q] = Absent /\ logs[q] = NoLogs
  BY <1>3 DEF RemindersInv, RowsFit, RowFits
<1>6. /\ rows'[q] = m /\ created'[q]
      /\ \A r \in Reminder : r # q => rows'[r] = rows[r] /\ created'[r] = created[r]
  BY <1>3, <1>4
<1>7. TypeOK'
  BY <1>2, <1>3, <1>4 DEF RemindersInv, TypeOK
<1>8. TasksFit'
  <2> SUFFICES ASSUME NEW p \in Process PROVE FittingTask(p, proc[p])'
    BY DEF TasksFit
  <2>1. FittingTask(p, proc[p])
    BY DEF RemindersInv, TasksFit
  <2>2. \A r \in Reminder : IsOpen(proc[p], r) => r # q
    BY <2>1, <1>5 DEF FittingTask
  <2>3. QED
    BY <2>1, <2>2, <1>3, <1>6 DEF FittingTask
<1>9. EditsFit'
  BY <1>3, <1>6 DEF RemindersInv, EditsFit, TypeOK
<1>10. RowsFit'
  <2> SUFFICES ASSUME NEW r \in Reminder PROVE RowFits(r)'
    BY DEF RowsFit
  <2>1. RowFits(r)
    BY DEF RemindersInv, RowsFit
  <2>2. CASE r = q
    <3>1. logs[q]["sent"] = 0
      BY <1>5 DEF NoLogs, Status
    <3>2. QED
      BY <2>2, <3>1, <1>2, <1>3, <1>6 DEF RowFits
  <2>3. CASE r # q
    BY <2>1, <2>3, <1>3, <1>6 DEF RowFits
  <2>4. QED
    BY <2>2, <2>3
<1>11. QED
  BY <1>3, <1>7, <1>8, <1>9, <1>10, LogsStay DEF RemindersInv

LEMMA SavePatchInv ==
    ASSUME RemindersInv, NEW e \in Editor, NEW enabled \in BOOLEAN \cup {Keep},
           NEW nextRun \in Day \cup {Unset, Keep}, NEW sent \in {FALSE, Keep},
           SavePatch(e, enabled, nextRun, sent)
    PROVE  RemindersInv'
<1> DEFINE q == edit[e].r
           snap == edit[e].snap
<1>1. PICK m : m = [enabled |-> Posted(enabled, snap.enabled),
                    nextRun |-> Posted(nextRun, snap.nextRun),
                    sent    |-> Posted(sent, snap.sent)]
  OBVIOUS
<1>2. snap \in Row /\ created[q] /\ q \in Reminder
  BY DEF SavePatch, RemindersInv, TypeOK, EditsFit
<1>3. m \in Row /\ m # Absent
  <2>1. snap.enabled \in BOOLEAN /\ snap.nextRun \in Day \cup {Unset} /\ snap.sent \in BOOLEAN
    BY <1>2 DEF Row
  <2>2. /\ Posted(enabled, snap.enabled) \in BOOLEAN
        /\ Posted(nextRun, snap.nextRun) \in Day \cup {Unset}
        /\ Posted(sent, snap.sent) \in BOOLEAN
    BY <2>1 DEF Posted
  <2>3. QED
    BY <1>1, <2>2, SentinelAssumption DEF Row
<1>4. /\ rows' = [rows EXCEPT ![q] = m]
      /\ overwritten' = [overwritten EXCEPT ![q] = @ \/ rows[q] = Absent \/ rows[q].sent # m.sent]
      /\ edit' = [edit EXCEPT ![e] = Resting]
      /\ UNCHANGED <<created, logs, mailed, runs, queued, proc, clock, triggers, edits, crashes, stranded>>
  BY <1>1 DEF SavePatch, SetEdit, broker, bounds
<1> HIDE DEF q, snap
<1>5. /\ rows \in [Reminder -> Row \cup {Absent}] /\ overwritten \in [Reminder -> BOOLEAN]
      /\ edit \in [Editor -> [pc : {"idle", "loaded"}, r : Reminder, snap : Row \cup {Absent}]]
  BY DEF RemindersInv, TypeOK
<1>6. /\ overwritten' \in [Reminder -> BOOLEAN]
      /\ \A r \in Reminder : r # q => overwritten'[r] = overwritten[r]
      /\ ~overwritten'[q] => ~overwritten[q] /\ rows[q] # Absent /\ rows[q].sent = m.sent
  <2>1. PICK b : b = (overwritten[q] \/ rows[q] = Absent \/ rows[q].sent # m.sent)
    OBVIOUS
  <2>2. b \in BOOLEAN /\ overwritten' = [overwritten EXCEPT ![q] = b]
    BY <2>1, <1>4
  <2>3. overwritten' \in [Reminder -> BOOLEAN] /\ overwritten'[q] = b
        /\ \A r \in Reminder : r # q => overwritten'[r] = overwritten[r]
    BY <2>2, <1>2, <1>5
  <2>4. QED
    BY <2>1, <2>3
<1>7. /\ rows'[q] = m /\ \A r \in Reminder : r # q => rows'[r] = rows[r]
  BY <1>2, <1>4, <1>5
<1>8. TypeOK'
  <2>1. rows' \in [Reminder -> Row \cup {Absent}]
    BY <1>3, <1>4, <1>5
  <2>2. edit' \in [Editor -> [pc : {"idle", "loaded"}, r : Reminder, snap : Row \cup {Absent}]]
    BY <1>4, <1>5, TasksTyped
  <2>3. QED
    BY <2>1, <2>2, <1>4, <1>6 DEF RemindersInv, TypeOK
<1>9. \A r \in Reminder : rows[r] # Absent /\ ~overwritten'[r] =>
          /\ ~overwritten[r]
          /\ rows[r].sent => rows'[r].sent
  BY <1>6, <1>7
<1>10. \A r \in Reminder : rows[r] # Absent => rows'[r] # Absent
  BY <1>3, <1>7
<1>11. TasksFit'
  <2> SUFFICES ASSUME NEW p \in Process PROVE FittingTask(p, proc[p])'
    BY DEF TasksFit
  <2>1. FittingTask(p, proc[p])
    BY DEF RemindersInv, TasksFit
  <2>2. QED
    BY <2>1, <1>4, <1>9, <1>10 DEF FittingTask
<1>12. EditsFit'
  <2>1. \A f \in Editor : edit'[f] = Resting \/ edit'[f] = edit[f]
    BY <1>4, <1>5
  <2>2. QED
    BY <2>1, <1>4, TasksTyped DEF RemindersInv, EditsFit
<1>13. RowsFit'
  <2> SUFFICES ASSUME NEW r \in Reminder PROVE RowFits(r)'
    BY DEF RowsFit
  <2>1. RowFits(r)
    BY DEF RemindersInv, RowsFit
  <2>2. CASE r = q
    <3>1. rows'[r] # Absent /\ created'[r] /\ (~overwritten'[r] => rows[r] # Absent)
      BY <2>2, <1>2, <1>3, <1>4, <1>6, <1>7
    <3>2. QED
      BY <3>1, <2>1, <1>4, <1>9 DEF RowFits
  <2>3. CASE r # q
    BY <2>1, <2>3, <1>4, <1>6, <1>7 DEF RowFits
  <2>4. QED
    BY <2>2, <2>3
<1>14. QED
  BY <1>4, <1>8, <1>11, <1>12, <1>13, LogsStay DEF RemindersInv

\* The logs go with the reminder, and the tasks lose theirs.
LEMMA DestroyedTasks ==
    ASSUME RemindersInv, NEW q \in Reminder, Destroy(q)
    PROVE  /\ proc' \in [Process -> Task]
           /\ \A p \in Process : /\ proc'[p].pc = proc[p].pc /\ proc'[p].chosen = proc[p].chosen
                                 /\ proc'[p].r = proc[p].r
                                 /\ \A r \in Reminder :
                                       IsOpen(proc'[p], r) <=> IsOpen(proc[p], r) /\ r # q
<1>1. proc \in [Process -> Task]
  BY DEF RemindersInv, TypeOK, Task
<1>2. proc' = [p \in Process |-> IF p \in OpenLogs(q) THEN [proc[p] EXCEPT !.log = FALSE] ELSE proc[p]]
  BY DEF Destroy
<1>3. ASSUME NEW p \in Process
      PROVE  /\ proc'[p] \in Task
             /\ proc'[p].pc = proc[p].pc /\ proc'[p].chosen = proc[p].chosen /\ proc'[p].r = proc[p].r
             /\ \A r \in Reminder : IsOpen(proc'[p], r) <=> IsOpen(proc[p], r) /\ r # q
  <2>1. proc[p] \in Task
    BY <1>1
  <2>2. p \in OpenLogs(q) <=> IsOpen(proc[p], q)
    BY TaskShape DEF OpenLogs, IsOpen, Delivering
  <2>3. CASE IsOpen(proc[p], q)
    <3>1. proc'[p] = [proc[p] EXCEPT !.log = FALSE]
      BY <1>2, <2>2, <2>3
    <3>2. proc[p].r = q
      BY <2>3 DEF IsOpen
    <3>3. QED
      BY <2>1, <3>1, <3>2 DEF IsOpen, Task
  <2>4. CASE ~IsOpen(proc[p], q)
    <3>1. proc'[p] = proc[p]
      BY <1>2, <2>2, <2>4
    <3>2. QED
      BY <2>1, <2>4, <3>1
  <2>5. QED
    BY <2>3, <2>4
<1>4. QED
  BY <1>2, <1>3

LEMMA DestroyInv ==
    ASSUME RemindersInv, NEW q \in Reminder, Destroy(q)
    PROVE  RemindersInv'
<1>1. /\ proc' \in [Process -> Task]
      /\ \A p \in Process : /\ proc'[p].pc = proc[p].pc /\ proc'[p].chosen = proc[p].chosen
                            /\ proc'[p].r = proc[p].r
                            /\ \A r \in Reminder :
                                  IsOpen(proc'[p], r) <=> IsOpen(proc[p], r) /\ r # q
  BY DestroyedTasks
<1>2. /\ rows' = [rows EXCEPT ![q] = Absent] /\ logs' = [logs EXCEPT ![q] = NoLogs]
      /\ UNCHANGED <<created, mailed, runs, queued, edit, clock, triggers, edits, crashes, stranded, overwritten>>
  BY DEF Destroy, broker, bounds, history
<1>3. NoLogs \in [Status -> Nat] /\ NoLogs["pending"] = 0 /\ NoLogs["sent"] = 0
  BY DEF NoLogs, Status
<1>4. rows \in [Reminder -> Row \cup {Absent}] /\ logs \in [Reminder -> [Status -> Nat]]
  BY DEF RemindersInv, TypeOK
<1>5. /\ rows'[q] = Absent /\ logs'[q] = NoLogs
      /\ \A r \in Reminder : r # q => rows'[r] = rows[r] /\ logs'[r] = logs[r]
  BY <1>2, <1>4
<1>6. TypeOK'
  BY <1>1, <1>2, <1>3, <1>4 DEF RemindersInv, TypeOK, Task
<1>7. TasksFit'
  <2> SUFFICES ASSUME NEW p \in Process PROVE FittingTask(p, proc[p])'
    BY DEF TasksFit
  <2>1. FittingTask(p, proc[p])
    BY DEF RemindersInv, TasksFit
  <2>2. \A r \in Reminder : IsOpen(proc'[p], r) => IsOpen(proc[p], r) /\ r # q
    BY <1>1
  <2>3. proc'[p].pc = proc[p].pc /\ proc'[p].chosen = proc[p].chosen /\ overwritten' = overwritten
    BY <1>1, <1>2
  <2>4. QED
    BY <2>1, <2>2, <2>3, <1>5 DEF FittingTask
<1>8. EditsFit'
  BY <1>2 DEF RemindersInv, EditsFit
<1>9. RowsFit'
  <2> SUFFICES ASSUME NEW r \in Reminder PROVE RowFits(r)'
    BY DEF RowsFit
  <2>1. RowFits(r)
    BY DEF RemindersInv, RowsFit
  <2>2. QED
    BY <2>1, <1>2, <1>5 DEF RowFits
<1>10. LogsFit'
  <2> SUFFICES ASSUME NEW r \in Reminder PROVE CountsFit(r)'
    BY DEF LogsFit
  <2>1. Choosing(r)' = Choosing(r)
    BY <1>1 DEF Choosing
  <2>2. OpenLogs(r)' = IF r = q THEN {} ELSE OpenLogs(r)
    BY <1>1 DEF OpenLogs, IsOpen, Process
  <2>3. SureLogs(r)' = IF r = q THEN {} ELSE SureLogs(r)
    BY <1>1, <2>2 DEF SureLogs, OpenLogs, Process
  <2>4. CASE r = q
    <3>1. Cardinality(OpenLogs(r)') = 0 /\ Cardinality(SureLogs(r)') = 0
      BY <2>2, <2>3, <2>4, FS_EmptySet
    <3>2. QED
      BY <2>1, <2>4, <3>1, <1>2, <1>3, <1>5, CountersTyped DEF CountsFit
  <2>5. CASE r # q
    BY <2>1, <2>2, <2>3, <2>5, <1>2, <1>5, CountersTyped DEF CountsFit
  <2>6. QED
    BY <2>4, <2>5
<1>11. QED
  BY <1>6, <1>7, <1>8, <1>9, <1>10 DEF RemindersInv

--------------------------------------------------------------------------
(* The invariant holds.                                                    *)

LEMMA SendInv ==
    ASSUME RemindersInv, NEW w \in Worker, Send(w)
    PROVE  RemindersInv'
<1>1. ASSUME NEW r \in Reminder, Get(w, r) PROVE RemindersInv'
  BY <1>1, GetInv
<1>2. ASSUME Mail(w) PROVE RemindersInv'
  BY <1>2, MailInv
<1>3. ASSUME Stamp(w) PROVE RemindersInv'
  BY <1>3, StampInv
<1>4. ASSUME FinishLog(w) PROVE RemindersInv'
  BY <1>4, FinishLogInv
<1>5. ASSUME NEW reachable \in BOOLEAN, OpenLog(w, reachable) PROVE RemindersInv'
  BY <1>5, OpenLogInv
<1>6. ASSUME NEW accepted \in BOOLEAN, MailRaises(w, accepted) PROVE RemindersInv'
  BY <1>6, MailRaisesInv
<1>7. QED
  BY <1>1, <1>2, <1>3, <1>4, <1>5, <1>6, Zenon DEF Send

LEMMA WorkInv ==
    ASSUME RemindersInv, NEW w \in Worker, Work(w)
    PROVE  RemindersInv'
<1>1. ASSUME NEW r \in Reminder, Enqueue(w, r) PROVE RemindersInv'
  <2>1. w \in Process
    BY DEF Process
  <2>2. QED
    BY <1>1, <2>1, EnqueueInv
<1>2. ASSUME SelectDue(w) PROVE RemindersInv'
  BY <1>2, SelectDueInv
<1>3. ASSUME Send(w) PROVE RemindersInv'
  BY <1>3, SendInv
<1>4. QED
  BY <1>1, <1>2, <1>3, Zenon DEF Work

LEMMA ManualInv ==
    ASSUME RemindersInv, NEW p \in Staff, Manual(p)
    PROVE  RemindersInv'
<1>1. ASSUME NEW r \in Reminder, Enqueue(p, r) PROVE RemindersInv'
  <2>1. p \in Process
    BY DEF Process
  <2>2. QED
    BY <1>1, <2>1, EnqueueInv
<1>2. ASSUME NEW ids \in SUBSET Reminder, Trigger(p, ids) PROVE RemindersInv'
  BY <1>2, TriggerInv
<1>3. QED
  BY <1>1, <1>2, Zenon DEF Manual

LEMMA OwnerInv ==
    ASSUME RemindersInv, Owner
    PROVE  RemindersInv'
<1>1. ASSUME NEW r \in Reminder, Destroy(r) PROVE RemindersInv'
  BY <1>1, DestroyInv
<1>2. ASSUME NEW r \in Reminder, NEW enabled \in BOOLEAN, NEW nextRun \in Day \cup {Unset},
             Create(r, enabled, nextRun)
      PROVE  RemindersInv'
  BY <1>2, CreateInv
<1>3. ASSUME NEW r \in Reminder, NEW e \in Editor, Load(e, r) PROVE RemindersInv'
  BY <1>3, LoadInv
<1>4. ASSUME NEW e \in Editor, NEW enabled \in BOOLEAN \cup {Keep},
             NEW nextRun \in Day \cup {Unset, Keep}, NEW sent \in {FALSE, Keep},
             SavePatch(e, enabled, nextRun, sent)
      PROVE  RemindersInv'
  BY <1>4, SavePatchInv
<1>5. QED
  BY <1>1, <1>2, <1>3, <1>4, Zenon DEF Owner

\* Every step keeps the invariant.
LEMMA InvNext == RemindersInv /\ [Next]_vars => RemindersInv'
<1> SUFFICES ASSUME RemindersInv, [Next]_vars PROVE RemindersInv'
  OBVIOUS
<1>1. ASSUME UNCHANGED vars PROVE RemindersInv'
  <2>1. TypeOK' /\ EditsFit'
    BY <1>1 DEF vars, RemindersInv, TypeOK, EditsFit
  <2>2. QED
    BY <1>1, <2>1, QuietInv DEF vars
<1>2. ASSUME NEW w \in Worker, Work(w) PROVE RemindersInv'
  BY <1>2, WorkInv
<1>3. ASSUME NEW p \in Staff, Manual(p) PROVE RemindersInv'
  BY <1>3, ManualInv
<1>4. ASSUME NEW p \in Process, Crash(p) PROVE RemindersInv'
  BY <1>4, CrashInv
<1>5. QED
  BY <1>1, <1>2, <1>3, <1>4, TickInv, BeatInv, OwnerInv, Zenon DEF Next

\* The invariant in every reachable state.
THEOREM Inductive == Spec => []RemindersInv
<1>1. QED
  BY InvInit, InvNext, PTL DEF Spec

\* Every variable keeps its type, and no queue outgrows its bound.
THEOREM TypesOK == Spec => []TypeOK
<1>1. RemindersInv => TypeOK
  BY DEF RemindersInv
<1>2. QED
  BY <1>1, Inductive, PTL

\* A log "sent" stands for a mail of its own that the server accepted.
THEOREM SentLogsAreMailed == Spec => []SentIsMailed
<1>1. RemindersInv => SentIsMailed
  BY DEF RemindersInv, LogsFit, CountsFit, SureLogs, SentIsMailed
<1>2. QED
  BY <1>1, Inductive, PTL

\* A log is pending only while a task works on it, unless a worker was killed.
THEOREM PendingLogsAreRunning == Spec => []PendingIsRunning
<1>1. RemindersInv => PendingIsRunning
  BY DEF RemindersInv, LogsFit, CountsFit, PendingIsRunning
<1>2. QED
  BY <1>1, Inductive, PTL

\* A reminder with a log "sent" has its last_sent, unless a PATCH overwrote it.
THEOREM SentLogsAreStamped == Spec => []SentIsStamped
<1>1. RemindersInv => SentIsStamped
  BY DEF RemindersInv, RowsFit, RowFits, SentIsStamped
<1>2. QED
  BY <1>1, Inductive, PTL

--------------------------------------------------------------------------
(* Nothing new is set off for a disabled reminder.                         *)

Disabled(r) == rows[r] # Absent /\ ~rows[r].enabled

LEMMA FlowParts ==
    ASSUME RemindersInv, NEW r \in Reminder
    PROVE  /\ Flow(r) = mailed[r] + queued[r] + Cardinality(Choosing(r)) + Cardinality(EarlyOf(r))
           /\ Flow(r) \in Nat
<1>1. Flow(r) = mailed[r] + queued[r] + Cardinality(Choosing(r)) + Cardinality(EarlyOf(r))
  BY DEF Flow, EarlyOf
<1>2. QED
  BY <1>1, CountsTyped, CountersTyped

\* Tasks and queues stay.
LEMMA FlowStays ==
    ASSUME RemindersInv, NEW r \in Reminder, UNCHANGED <<mailed, queued, proc>>
    PROVE  Flow(r)' <= Flow(r)
<1>1. Flow(r)' = Flow(r)
  BY CountsStay DEF Flow, Choosing, SendersOf
<1>2. QED
  BY <1>1, FlowParts

\* What p brings to the counts of r does not grow.
LEMMA FlowMoves ==
    ASSUME RemindersInv, NEW p \in Process, NEW k, NEW r \in Reminder,
           proc' = [proc EXCEPT ![p] = k], p \in Worker \/ k.pc \notin Delivering,
           mailed'[r] \in Nat, queued'[r] \in Nat,
           mailed'[r] + queued'[r] + One(r \in k.chosen) + One(IsEarly(k, r))
              <= mailed[r] + queued[r] + One(r \in proc[p].chosen) + One(IsEarly(proc[p], r))
    PROVE  Flow(r)' <= Flow(r)
<1>1. Recounted(p, k, r)
  BY CountsMove, Zenon
<1>2. Flow(r) = mailed[r] + queued[r] + Cardinality(Choosing(r)) + Cardinality(EarlyOf(r))
  BY FlowParts
<1>3. Flow(r)' = mailed'[r] + queued'[r] + Cardinality(Choosing(r)') + Cardinality(EarlyOf(r)')
  BY DEF Flow, EarlyOf
<1>4. mailed[r] \in Nat /\ queued[r] \in Nat
  BY CountersTyped
<1>5. One(r \in k.chosen) \in Nat /\ One(IsEarly(k, r)) \in Nat
      /\ One(r \in proc[p].chosen) \in Nat /\ One(IsEarly(proc[p], r)) \in Nat
  BY DEF One
<1> HIDE DEF One
<1>6. \A a, b, c, d, e, f, m, n, x, y, u, v \in Nat :
         /\ m + n + x + y <= a + b + u + v
         /\ c + u = e + x
         /\ d + v = f + y
         => m + n + c + d <= a + b + e + f
  OBVIOUS
<1>7. /\ Cardinality(Choosing(r)') \in Nat /\ Cardinality(Choosing(r)) \in Nat
      /\ Cardinality(EarlyOf(r)') \in Nat /\ Cardinality(EarlyOf(r)) \in Nat
      /\ Cardinality(Choosing(r)') + One(r \in proc[p].chosen)
            = Cardinality(Choosing(r)) + One(r \in k.chosen)
      /\ Cardinality(EarlyOf(r)') + One(IsEarly(proc[p], r))
            = Cardinality(EarlyOf(r)) + One(IsEarly(k, r))
  BY <1>1 DEF Recounted
<1>8. mailed'[r] + queued'[r] + Cardinality(Choosing(r)') + Cardinality(EarlyOf(r)')
         <= mailed[r] + queued[r] + Cardinality(Choosing(r)) + Cardinality(EarlyOf(r))
  BY <1>4, <1>5, <1>6, <1>7
<1>9. QED
  BY <1>2, <1>3, <1>8

\* The loops: only what was chosen is enqueued, and nothing disabled is chosen.
LEMMA LoopQuiet ==
    ASSUME RemindersInv, NEW r \in Reminder, Disabled(r), NEW p \in Process,
           \/ SelectDue(p)
           \/ \E ids \in SUBSET Reminder : Trigger(p, ids)
           \/ \E q \in Reminder : Enqueue(p, q)
    PROVE  Flow(r)' <= Flow(r)
<1>1. /\ mailed[r] \in Nat /\ queued[r] \in Nat
      /\ proc[p].pc # "dispatch" => proc[p].chosen = {}
      /\ queued \in [Reminder -> 0 .. MaxQueue]
  BY CountersTyped, TaskShape DEF RemindersInv, TypeOK
<1>2. ASSUME NEW c \in SUBSET Reminder, r \notin c, proc[p].pc = "idle",
             proc' = [proc EXCEPT ![p] = Dispatching(c)], UNCHANGED <<mailed, queued>>
      PROVE  Flow(r)' <= Flow(r)
  <2> DEFINE k == Dispatching(c)
  <2>1. k.chosen = c /\ k.pc \in {"idle", "dispatch"}
    BY DispatchingTyped
  <2>2. proc' = [proc EXCEPT ![p] = k]
    BY <1>2
  <2> HIDE DEF k
  <2>3. k.pc \notin Delivering
    BY <2>1 DEF Delivering, Logged
  <2>4. One(r \in k.chosen) = 0 /\ One(IsEarly(k, r)) = 0
        /\ One(r \in proc[p].chosen) = 0 /\ One(IsEarly(proc[p], r)) = 0
    BY <1>1, <1>2, <2>1 DEF One, IsEarly
  <2>5. mailed'[r] = mailed[r] /\ queued'[r] = queued[r]
    BY <1>2
  <2>6. mailed'[r] + queued'[r] + One(r \in k.chosen) + One(IsEarly(k, r))
           <= mailed[r] + queued[r] + One(r \in proc[p].chosen) + One(IsEarly(proc[p], r))
    BY <1>1, <2>4, <2>5
  <2>7. QED
    BY <1>1, <2>2, <2>3, <2>5, <2>6, FlowMoves
<1>3. ASSUME SelectDue(p) PROVE Flow(r)' <= Flow(r)
  <2>1. Selected \in SUBSET Reminder /\ r \notin Selected
    BY DEF Selected, Due, Disabled
  <2>2. proc[p].pc = "idle" /\ proc' = [proc EXCEPT ![p] = Dispatching(Selected)]
        /\ UNCHANGED <<mailed, queued>>
    BY <1>3 DEF SelectDue, At, SetProc
  <2>3. QED
    BY <1>2, <2>1, <2>2
<1>4. ASSUME NEW ids \in SUBSET Reminder, Trigger(p, ids) PROVE Flow(r)' <= Flow(r)
  <2> DEFINE enabled == {s \in ids : rows[s] # Absent /\ rows[s].enabled}
  <2>1. enabled \in SUBSET Reminder /\ r \notin enabled
    BY DEF Disabled
  <2>2. proc[p].pc = "idle" /\ proc' = [proc EXCEPT ![p] = Dispatching(enabled)]
        /\ UNCHANGED <<mailed, queued>>
    BY <1>4 DEF Trigger, At, SetProc, broker
  <2> HIDE DEF enabled
  <2>3. QED
    BY <1>2, <2>1, <2>2
<1>5. ASSUME NEW q \in Reminder, Enqueue(p, q) PROVE Flow(r)' <= Flow(r)
  <2> DEFINE c == proc[p].chosen \ {q}
             k == Dispatching(c)
  <2>1. c \in SUBSET Reminder
    BY DEF RemindersInv, TypeOK
  <2>2. k.chosen = c /\ k.pc \in {"idle", "dispatch"}
    BY <2>1, DispatchingTyped
  <2>3. /\ proc' = [proc EXCEPT ![p] = k] /\ mailed' = mailed
        /\ queued' = [queued EXCEPT ![q] = @ + 1]
        /\ proc[p].pc = "dispatch" /\ q \in proc[p].chosen
    BY <1>5 DEF Enqueue, At, SetProc
  <2>4. queued'[r] = IF r = q THEN queued[r] + 1 ELSE queued[r]
    BY <1>1, <2>3
  <2>5. r \in k.chosen <=> r \in proc[p].chosen /\ r # q
    BY <2>2
  <2> HIDE DEF c, k
  <2>6. k.pc \notin Delivering /\ ~IsEarly(k, r) /\ ~IsEarly(proc[p], r)
    BY <2>2, <2>3 DEF IsEarly, Delivering, Logged
  <2>7. mailed'[r] + queued'[r] + One(r \in k.chosen) + One(IsEarly(k, r))
           <= mailed[r] + queued[r] + One(r \in proc[p].chosen) + One(IsEarly(proc[p], r))
    <3>1. CASE r = q
      BY <1>1, <2>3, <2>4, <2>5, <2>6, <3>1 DEF One
    <3>2. CASE r # q
      BY <1>1, <2>3, <2>4, <2>5, <2>6, <3>2 DEF One
    <3>3. QED
      BY <3>1, <3>2
  <2>8. mailed'[r] \in Nat /\ queued'[r] \in Nat
    BY <1>1, <2>3, <2>4
  <2>9. QED
    BY <2>3, <2>6, <2>7, <2>8, FlowMoves
<1>6. QED
  BY <1>3, <1>4, <1>5, Zenon

\* A delivery only moves on what was enqueued.
LEMMA SendQuiet ==
    ASSUME RemindersInv, NEW r \in Reminder, NEW w \in Worker, Send(w)
    PROVE  Flow(r)' <= Flow(r)
<1>1. w \in Process
  BY DEF Process
<1>2. /\ mailed[r] \in Nat /\ queued[r] \in Nat
      /\ proc[w].pc # "dispatch" => proc[w].chosen = {}
      /\ queued \in [Reminder -> 0 .. MaxQueue] /\ mailed \in [Reminder -> Nat]
      /\ proc[w] \in Task /\ proc[w].r \in Reminder
  BY <1>1, CountersTyped, TaskShape DEF RemindersInv, TypeOK
<1>3. ASSUME NEW k, proc' = [proc EXCEPT ![w] = k], k.chosen = {}, proc[w].pc # "dispatch",
             NEW n \in Nat, NEW g \in Nat, mailed'[r] = n, queued'[r] = g,
             n + g + One(IsEarly(k, r)) <= mailed[r] + queued[r] + One(IsEarly(proc[w], r))
      PROVE  Flow(r)' <= Flow(r)
  <2>1. One(r \in k.chosen) = 0 /\ One(r \in proc[w].chosen) = 0
    BY <1>2, <1>3 DEF One
  <2>2. One(IsEarly(k, r)) \in Nat /\ One(IsEarly(proc[w], r)) \in Nat
    BY DEF One
  <2>3. mailed'[r] + queued'[r] + One(r \in k.chosen) + One(IsEarly(k, r))
           <= mailed[r] + queued[r] + One(r \in proc[w].chosen) + One(IsEarly(proc[w], r))
    BY <1>2, <1>3, <2>1, <2>2
  <2>4. QED
    BY <1>1, <1>3, <2>3, FlowMoves
<1>4. ASSUME NEW q \in Reminder, Get(w, q) PROVE Flow(r)' <= Flow(r)
  <2> DEFINE k == IF rows[q] = Absent THEN proc[w] ELSE [Idle EXCEPT !.pc = "got", !.r = q]
  <2>1. proc' = [proc EXCEPT ![w] = k] /\ proc[w].pc = "idle"
        /\ queued' = [queued EXCEPT ![q] = @ - 1] /\ queued[q] > 0 /\ mailed' = mailed
    BY <1>1, <1>4, TaskShape DEF Get, At, SetProc
  <2>2. k.chosen = {} /\ (IsEarly(k, r) => r = q)
    <3>1. [Idle EXCEPT !.pc = "got", !.r = q].chosen = {} /\ [Idle EXCEPT !.pc = "got", !.r = q].r = q
      BY DEF Idle
    <3>2. QED
      BY <1>2, <2>1, <3>1 DEF IsEarly
  <2> HIDE DEF k
  <2>3. queued'[r] = IF r = q THEN queued[r] - 1 ELSE queued[r]
    BY <1>2, <2>1
  <2>4. queued'[r] \in Nat /\ (r = q => queued'[r] + 1 = queued[r]) /\ (r # q => queued'[r] = queued[r])
    BY <1>2, <2>1, <2>3
  <2>5. ~IsEarly(proc[w], r)
    BY <2>1 DEF IsEarly
  <2>6. mailed[r] + queued'[r] + One(IsEarly(k, r)) <= mailed[r] + queued[r] + One(IsEarly(proc[w], r))
    <3>1. One(IsEarly(proc[w], r)) = 0 /\ One(IsEarly(k, r)) \in Nat
          /\ queued'[r] + One(IsEarly(k, r)) <= queued[r]
      BY <1>2, <2>2, <2>4, <2>5 DEF One
    <3>2. QED
      BY <1>2, <2>4, <3>1
  <2>7. k.chosen = {} /\ proc[w].pc # "dispatch" /\ mailed'[r] = mailed[r]
    BY <2>1, <2>2
  <2>8. QED
    BY <1>2, <1>3, <2>1, <2>4, <2>6, <2>7
<1>5. ASSUME NEW k, NEW n \in {0, 1}, proc[w].pc = "logged", k.pc \notin {"got", "logged"}, k.chosen = {},
             proc' = [proc EXCEPT ![w] = k],
             mailed' = [mailed EXCEPT ![proc[w].r] = @ + n], queued' = queued
      PROVE  Flow(r)' <= Flow(r)
  <2>1. mailed'[r] = IF r = proc[w].r THEN mailed[r] + n ELSE mailed[r]
    BY <1>2, <1>5
  <2>2. One(IsEarly(k, r)) = 0 /\ One(IsEarly(proc[w], r)) = IF r = proc[w].r THEN 1 ELSE 0
    BY <1>5 DEF One, IsEarly
  <2>3. mailed'[r] \in Nat /\ mailed'[r] <= mailed[r] + One(IsEarly(proc[w], r))
    BY <1>2, <2>1, <2>2
  <2>4. mailed'[r] + queued[r] + One(IsEarly(k, r)) <= mailed[r] + queued[r] + One(IsEarly(proc[w], r))
    BY <1>2, <2>2, <2>3
  <2>5. queued'[r] = queued[r] /\ proc[w].pc # "dispatch"
    BY <1>5
  <2>6. QED
    BY <1>2, <1>3, <1>5, <2>3, <2>4, <2>5
<1>6. ASSUME NEW k, proc' = [proc EXCEPT ![w] = k], k.chosen = {}, proc[w].pc # "dispatch",
             IsEarly(k, r) => IsEarly(proc[w], r), UNCHANGED <<mailed, queued>>
      PROVE  Flow(r)' <= Flow(r)
  <2>1. mailed'[r] = mailed[r] /\ queued'[r] = queued[r]
    BY <1>6
  <2>2. mailed[r] + queued[r] + One(IsEarly(k, r)) <= mailed[r] + queued[r] + One(IsEarly(proc[w], r))
    BY <1>2, <1>6 DEF One
  <2>3. QED
    BY <1>2, <1>3, <1>6, <2>1, <2>2
<1>7. ASSUME Mail(w) PROVE Flow(r)' <= Flow(r)
  <2> DEFINE k == [proc[w] EXCEPT !.pc = "mailed"]
  <2>1. proc[w].pc = "logged" /\ proc' = [proc EXCEPT ![w] = k]
        /\ mailed' = [mailed EXCEPT ![proc[w].r] = @ + 1] /\ queued' = queued
    BY <1>7 DEF Mail, At, SetProc, broker
  <2>2. k.pc = "mailed" /\ k.chosen = {}
    BY <1>2, <2>1 DEF Task
  <2> HIDE DEF k
  <2>3. QED
    BY <1>5, <2>1, <2>2
<1>8. ASSUME NEW accepted \in BOOLEAN, MailRaises(w, accepted) PROVE Flow(r)' <= Flow(r)
  <2> DEFINE k == [proc[w] EXCEPT !.pc = "unsent"]
             n == IF accepted THEN 1 ELSE 0
  <2>1. proc[w].pc = "logged" /\ proc' = [proc EXCEPT ![w] = k]
        /\ mailed' = [mailed EXCEPT ![proc[w].r] = @ + n] /\ queued' = queued
    BY <1>8 DEF MailRaises, At, SetProc, broker
  <2>2. k.pc = "unsent" /\ k.chosen = {} /\ n \in {0, 1}
    BY <1>2, <2>1 DEF Task
  <2> HIDE DEF k, n
  <2>3. QED
    BY <1>5, <2>1, <2>2
<1>9. ASSUME NEW reachable \in BOOLEAN, OpenLog(w, reachable) PROVE Flow(r)' <= Flow(r)
  <2> DEFINE k == IF rows[proc[w].r] = Absent THEN Idle
                  ELSE [proc[w] EXCEPT !.pc = IF reachable THEN "logged" ELSE "unsent", !.log = TRUE]
  <2>1. proc[w].pc = "got" /\ proc' = [proc EXCEPT ![w] = k] /\ UNCHANGED <<mailed, queued>>
    BY <1>9 DEF OpenLog, At, SetProc, broker
  <2>2. k.chosen = {} /\ (k.pc \in {"idle", "unsent"} \/ k.r = proc[w].r)
    BY <1>2, <2>1, TasksTyped DEF Task
  <2> HIDE DEF k
  <2>3. IsEarly(k, r) => IsEarly(proc[w], r)
    BY <2>1, <2>2 DEF IsEarly
  <2>4. QED
    BY <1>6, <2>1, <2>2, <2>3
<1>10. ASSUME Stamp(w) PROVE Flow(r)' <= Flow(r)
  <2> DEFINE k == IF rows[proc[w].r] = Absent THEN Idle ELSE [proc[w] EXCEPT !.pc = "stamped"]
  <2>1. proc[w].pc = "mailed" /\ proc' = [proc EXCEPT ![w] = k] /\ UNCHANGED <<mailed, queued>>
    BY <1>10 DEF Stamp, At, SetProc, broker
  <2>2. k.chosen = {} /\ k.pc \in {"idle", "stamped"}
    BY <1>2, <2>1, TasksTyped DEF Task
  <2> HIDE DEF k
  <2>3. ~IsEarly(k, r)
    BY <2>2 DEF IsEarly
  <2>4. QED
    BY <1>6, <2>1, <2>2, <2>3
<1>11. ASSUME FinishLog(w) PROVE Flow(r)' <= Flow(r)
  <2>1. proc[w].pc \in {"stamped", "unsent"} /\ proc' = [proc EXCEPT ![w] = Idle] /\ UNCHANGED <<mailed, queued>>
    BY <1>11 DEF FinishLog, SetProc, broker
  <2>2. Idle.chosen = {} /\ ~IsEarly(Idle, r)
    BY TasksTyped DEF IsEarly
  <2>3. QED
    BY <1>6, <2>1, <2>2
<1>12. QED
  BY <1>4, <1>7, <1>8, <1>9, <1>10, <1>11, Zenon DEF Send

\* A kill only takes away.
LEMMA CrashQuiet ==
    ASSUME RemindersInv, NEW r \in Reminder, NEW p \in Process, Crash(p)
    PROVE  Flow(r)' <= Flow(r)
<1>1. proc' = [proc EXCEPT ![p] = Idle] /\ mailed'[r] = mailed[r] /\ queued'[r] = queued[r]
  BY DEF Crash, SetProc, broker
<1>2. Idle.pc \notin Delivering
  BY TasksTyped DEF Delivering, Logged
<1>3. mailed[r] \in Nat /\ queued[r] \in Nat
  BY CountersTyped
<1>4. One(r \in Idle.chosen) = 0 /\ One(IsEarly(Idle, r)) = 0
      /\ One(r \in proc[p].chosen) \in Nat /\ One(IsEarly(proc[p], r)) \in Nat
  BY TasksTyped DEF One, IsEarly
<1>5. mailed'[r] + queued'[r] + One(r \in Idle.chosen) + One(IsEarly(Idle, r))
         <= mailed[r] + queued[r] + One(r \in proc[p].chosen) + One(IsEarly(proc[p], r))
  BY <1>1, <1>3, <1>4
<1>6. QED
  BY <1>1, <1>2, <1>3, <1>5, FlowMoves

\* A deletion takes logs away and leaves every task at its step.
LEMMA DestroyQuiet ==
    ASSUME RemindersInv, NEW r \in Reminder, NEW q \in Reminder, Destroy(q)
    PROVE  Flow(r)' <= Flow(r)
<1>1. \A p \in Process : proc'[p].pc = proc[p].pc /\ proc'[p].chosen = proc[p].chosen /\ proc'[p].r = proc[p].r
  BY DestroyedTasks
<1>2. Choosing(r)' = Choosing(r) /\ EarlyOf(r)' = EarlyOf(r)
  BY <1>1 DEF Choosing, EarlyOf, SendersOf, Process
<1>3. mailed' = mailed /\ queued' = queued
  BY DEF Destroy, broker
<1>4. Flow(r)' = mailed'[r] + queued'[r] + Cardinality(Choosing(r)') + Cardinality(EarlyOf(r)')
  BY DEF Flow, EarlyOf
<1>5. QED
  BY <1>2, <1>3, <1>4, FlowParts

\* No step lets the flow of a disabled reminder grow.
LEMMA NextQuiet ==
    ASSUME RemindersInv, NEW r \in Reminder, Disabled(r), [Next]_vars
    PROVE  Flow(r)' <= Flow(r)
<1>1. ASSUME UNCHANGED <<mailed, queued, proc>> PROVE Flow(r)' <= Flow(r)
  BY <1>1, FlowStays
<1>2. ASSUME Tick \/ Beat \/ UNCHANGED vars PROVE Flow(r)' <= Flow(r)
  BY <1>1, <1>2 DEF Tick, Beat, vars, broker
<1>3. ASSUME NEW w \in Worker, Work(w) PROVE Flow(r)' <= Flow(r)
  <2>1. w \in Process
    BY DEF Process
  <2>2. ASSUME Send(w) PROVE Flow(r)' <= Flow(r)
    BY <2>2, SendQuiet
  <2>3. ASSUME SelectDue(w) \/ \E q \in Reminder : Enqueue(w, q) PROVE Flow(r)' <= Flow(r)
    BY <2>1, <2>3, LoopQuiet
  <2>4. QED
    BY <1>3, <2>2, <2>3, Zenon DEF Work
<1>4. ASSUME NEW p \in Staff, Manual(p) PROVE Flow(r)' <= Flow(r)
  <2>1. p \in Process
    BY DEF Process
  <2>2. QED
    BY <1>4, <2>1, LoopQuiet DEF Manual
<1>5. ASSUME NEW p \in Process, Crash(p) PROVE Flow(r)' <= Flow(r)
  BY <1>5, CrashQuiet
<1>6. ASSUME Owner PROVE Flow(r)' <= Flow(r)
  <2>1. ASSUME NEW q \in Reminder, Destroy(q) PROVE Flow(r)' <= Flow(r)
    BY <2>1, DestroyQuiet
  <2>2. ASSUME NEW q \in Reminder, NEW enabled \in BOOLEAN, NEW nextRun \in Day \cup {Unset},
               Create(q, enabled, nextRun)
        PROVE  Flow(r)' <= Flow(r)
    BY <1>1, <2>2 DEF Create, broker
  <2>3. ASSUME NEW q \in Reminder, NEW e \in Editor, Load(e, q) PROVE Flow(r)' <= Flow(r)
    BY <1>1, <2>3 DEF Load, broker
  <2>4. ASSUME NEW e \in Editor, NEW enabled \in BOOLEAN \cup {Keep},
               NEW nextRun \in Day \cup {Unset, Keep}, NEW sent \in {FALSE, Keep},
               SavePatch(e, enabled, nextRun, sent)
        PROVE  Flow(r)' <= Flow(r)
    BY <1>1, <2>4 DEF SavePatch, broker
  <2>5. QED
    BY <1>6, <2>1, <2>2, <2>3, <2>4, Zenon DEF Owner
<1>7. QED
  BY <1>2, <1>3, <1>4, <1>5, <1>6, Zenon DEF Next

\* Nothing new is set off for a reminder while it is disabled: what was selected
\* or enqueued before is delivered at most.
THEOREM DisabledStaysSilent == Spec => DisabledIsSilent
<1>1. RemindersInv /\ [Next]_vars =>
         [\A r \in Reminder : rows[r] # Absent /\ ~rows[r].enabled => Flow(r)' <= Flow(r)]_vars
  BY NextQuiet DEF Disabled
<1>2. QED
  BY <1>1, Inductive, PTL DEF Spec, DisabledIsSilent
=============================================================================
