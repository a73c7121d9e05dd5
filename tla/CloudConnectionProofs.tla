------------------------ MODULE CloudConnectionProofs ------------------------
(***************************************************************************)
(* Theorems about CloudConnection, for every set of connections of every   *)
(* kind, every number of requests and all bounds.                          *)
(***************************************************************************)
EXTENDS CloudConnection, TLAPS

--------------------------------------------------------------------------
(* What a handler holds. The instance in memory differs from the row as    *)
(* the handler last saw it only in what the handler has changed itself.    *)

Fits(h, j) ==
    /\ j.pc # "idle" => j.snap \in Row /\ j.base \in Row
    /\ j.pc # "idle" /\ h = Hourly => j.op = "hourly"
    /\ j.pc \in {"answered", "refused", "orphaned", "ensured", "quoted"} => j.op \in Syncing \cup {"use"}
    /\ j.pc \in {"granted", "connected", "promoting"} => j.op = "callback"
    /\ j.pc = "cleared" => j.op = "default"
    /\ j.pc # "idle" /\ j.snap.active => j.base.active
    /\ j.pc \in {"refused", "orphaned"} => ~j.snap.active
    /\ j.pc \notin {"idle", "answered"} => j.snap.refresh = j.base.refresh
    /\ j.pc \notin {"idle", "cleared"} => j.snap.isDefault = j.base.isDefault
    /\ j.pc = "cleared" => ~j.base.isDefault
    /\ j.pc = "granted" => ~j.snap.isDefault

Held == \A h \in Handler : Fits(h, job[h])

TypeInv == TypeOK /\ Held

\* The resting handler is well typed and holds nothing.
LEMMA IdleTyped ==
    ASSUME NEW h \in Handler, NEW c \in Connection
    PROVE  Idle(c) \in Doing /\ Fits(h, Idle(c)) /\ Idle(c).pc = "idle" /\ Idle(c).conn = c
BY DEF Idle, Doing, Op, Pc, Fits

\* What the writes make of a row.
LEMMA RowsTyped ==
    ASSUME NEW r \in Row
    PROVE  /\ \A f \in BOOLEAN : [r EXCEPT !.active = f] \in Row
           /\ \A f \in BOOLEAN : [r EXCEPT !.isDefault = f] \in Row
           /\ \A f \in BOOLEAN : [r EXCEPT !.sized = f] \in Row
           /\ \A a, b \in BOOLEAN : [r EXCEPT !.active = a, !.isDefault = b] \in Row
           /\ \A a, b \in Nat : Renewed(r, a, b) \in Row
           /\ \A a, b \in Nat : [r EXCEPT !.access = a, !.refresh = b, !.active = TRUE] \in Row
BY DEF Row, Renewed

\* A step of a handler changes what that handler holds.
LEMMA Stepped ==
    ASSUME TypeInv, NEW h \in Handler, NEW j \in Doing, Step(h, j), Fits(h, j)
    PROVE  /\ job' \in [Handler -> Doing]
           /\ job'[h] = j
           /\ \A g \in Handler : g # h => job'[g] = job[g]
           /\ Held'
BY DEF Step, TypeInv, TypeOK, Held

LEMMA Finished ==
    ASSUME TypeInv, NEW h \in Handler, Done(h)
    PROVE  /\ job' \in [Handler -> Doing]
           /\ job'[h].pc = "idle"
           /\ \A g \in Handler : g # h => job'[g] = job[g]
           /\ Held'
<1>1. job[h].conn \in Connection
  BY DEF TypeInv, TypeOK, Doing
<1>2. QED
  BY <1>1, IdleTyped, Stepped DEF Done

\* A handler at work holds two rows.
LEMMA AtWork ==
    ASSUME TypeInv, NEW h \in Handler, job[h].pc # "idle"
    PROVE  /\ job[h] \in Doing /\ Fits(h, job[h])
           /\ job[h].snap \in Row /\ job[h].base \in Row /\ job[h].conn \in Connection
           /\ job[h].op \in Op
BY DEF TypeInv, TypeOK, Held, Fits, Doing

--------------------------------------------------------------------------
(* One default *)

Calm == ~raced /\ "isDefault" \notin posted \cup lost

IsDefault(c) == rows[c] # NoRow /\ rows[c].isDefault

\* One handler at most is promoting a connection, and while it does there is no
\* default.
OnePromotion ==
    Calm => /\ \A g, h \in Promoting : g = h
            /\ Promoting # {} => \A c \in Connection : ~IsDefault(c)
            /\ \A c, d \in Connection : IsDefault(c) /\ IsDefault(d) => c = d

--------------------------------------------------------------------------
(* The grant *)

Working(h, c) == job[h].pc # "idle" /\ job[h].conn = c

\* Handlers that bring a refresh token nobody has stored.
Fresh(h) == \/ job[h].pc = "granted"
            \/ job[h].pc = "answered" /\ job[h].snap.refresh # job[h].base.refresh

\* Tokens and ids are numbered by grants that were made.
Known(row, c) == row # NoRow => row.id <= issued[c] /\ row.refresh <= issued[c]
Numbered ==
    \A c \in Connection :
        /\ Known(rows[c], c) /\ Known(batch[c], c)
        /\ \A h \in Handler : Working(h, c) => Known(job[h].snap, c) /\ Known(job[h].base, c)

\* A token that nobody has stored is in nobody else's hands.
Differs(row, h) == row # NoRow => row.refresh # job[h].snap.refresh
Exclusive(c) ==
    \A h \in Handler : Working(h, c) /\ Fresh(h) =>
        /\ Differs(rows[c], h) /\ Differs(batch[c], h)
        /\ \A g \in Handler : g # h /\ Working(g, c) => Differs(job[g].snap, h)

\* Copies with the same refresh token are copies of the same row.
Agree(x, y) == x # NoRow /\ y # NoRow /\ x.refresh = y.refresh => x.id = y.id
SameRow(c) ==
    /\ Agree(rows[c], batch[c])
    /\ \A h \in Handler : Working(h, c) =>
          /\ Agree(job[h].snap, rows[c]) /\ Agree(job[h].snap, batch[c])
          /\ \A g \in Handler : Working(g, c) => Agree(job[h].snap, job[g].snap)

\* A rotated token is newer than the one it replaces; it is accepted, or all
\* that are were issued after it. So is a granted one, unless there was another
\* grant since.
Newer(c) ==
    \A h \in Handler : Working(h, c) /\ Fresh(h) =>
        /\ job[h].pc = "answered" =>
              /\ job[h].base.refresh < job[h].snap.refresh
              /\ \/ job[h].snap.refresh \in honoured[c]
                 \/ \A t \in honoured[c] : t > job[h].snap.refresh
        /\ job[h].pc = "granted" =>
              /\ job[h].snap.access = job[h].snap.refresh
              /\ \/ job[h].snap.refresh \in honoured[c]
                 \/ honoured[c] = {}
                 \/ issued[c] > job[h].snap.refresh

\* A handler that brings an accepted token to the row.
Brings(h, c) == /\ Working(h, c) /\ job[h].snap.refresh \in honoured[c]
                /\ \/ job[h].pc = "granted"
                   \/ job[h].pc = "answered" /\ rows[c] # NoRow /\ job[h].snap.id = rows[c].id

\* A handler whose answer was lost and that will switch the row off.
WillDisable(h, c) == /\ Working(h, c) /\ job[h].pc = "orphaned"
                     /\ rows[c] # NoRow /\ job[h].snap.id = rows[c].id

\* The row's token may be gone with an answer that was lost: it is seen as off.
Covered(c) == /\ c \in unheard
              /\ \/ ~rows[c].active \/ "active" \in posted \cup lost
                 \/ \E h \in Handler : WillDisable(h, c)

Kept(c) == rows[c] # NoRow /\ honoured[c] # {} /\ "refresh" \notin lost =>
              \/ rows[c].refresh \in honoured[c]
              \/ \E h \in Handler : Brings(h, c)
              \/ Covered(c)

Renewable == Connection \ LongLived

Sound(c) == Exclusive(c) /\ SameRow(c) /\ Newer(c) /\ Kept(c)

GrantInv == \A c \in Renewable : Numbered /\ Sound(c)

--------------------------------------------------------------------------
(* The steps that only pass on what a handler holds.                       *)

Copy(x, y) == x \in Row /\ y \in Row /\ x.id = y.id /\ x.refresh = y.refresh

Tables == [Connection -> Row \cup {NoRow}]

Flags == {"active", "isDefault"}

\* The handler goes on with its row or rests.
GoesOn(h) ==
    /\ job' \in [Handler -> Doing] /\ Held'
    /\ \A g \in Handler : g # h => job'[g] = job[g]
    /\ job[h].pc # "idle" /\ job'[h].pc \notin {"answered", "granted"}
    /\ job'[h].pc # "idle" => /\ job'[h].conn = job[h].conn
                              /\ Copy(job'[h].snap, job[h].snap)
                              /\ \/ Copy(job'[h].base, job[h].base)
                                 \/ Copy(job'[h].base, job[h].snap)

\* It leaves the provider alone; a row keeps its tokens or gets the handler's.
Plain(h) ==
    /\ GoesOn(h)
    /\ batch' \in Tables /\ \A c \in Connection : batch'[c] \in {batch[c], NoRow}
    /\ issued' = issued /\ honoured' = honoured /\ expired' = expired
    /\ rows' \in Tables
    /\ \A c \in Connection : \/ rows'[c] = NoRow /\ rows[c] = NoRow
                             \/ Copy(rows'[c], rows[c])
                             \/ c = job[h].conn /\ Copy(rows'[c], job[h].snap)
    /\ lost' \subseteq Column /\ lost \subseteq lost'
    /\ posted' \subseteq Flags /\ posted \subseteq posted' /\ unheard' = unheard
    /\ requests' \in Nat /\ crashes' \in Nat

\* Unless it is recorded as lost, a row keeps its token or gets the one that
\* replaces it, and an accepted token does not go down with its handler; a
\* handler whose answer was lost leaves the row switched off.
Careful(h) ==
    "refresh" \notin lost' =>
        /\ job[h].pc # "granted"
        /\ \A d \in Connection : rows'[d] # NoRow =>
              /\ rows[d] # NoRow /\ rows'[d].id = rows[d].id
              /\ \/ rows'[d].refresh = rows[d].refresh
                 \/ d = job[h].conn /\ rows[d].refresh = job[h].base.refresh
        /\ job[h].pc = "answered" =>
              \/ rows'[job[h].conn] = NoRow
              \/ rows'[job[h].conn].refresh = job[h].snap.refresh
              \/ rows[job[h].conn].id # job[h].snap.id
        /\ job[h].pc = "orphaned" =>
              \/ rows'[job[h].conn] = NoRow
              \/ ~rows'[job[h].conn].active
              \/ rows[job[h].conn].id # job[h].snap.id

\* Who switches a connection on with what it has in memory.
Switches(h) ==
    \A c \in Connection :
        /\ rows[c] # NoRow /\ rows'[c] # NoRow
        /\ ~rows[c].active /\ rows'[c].active /\ "active" \notin lost'
        => h \in Request /\ job[h].conn = c /\ job[h].op = "patch" /\ "active" \in posted'

Tame(h) == Plain(h) /\ Careful(h) /\ Switches(h)

\* Model.save() of an instance.
LEMMA SaveFacts ==
    ASSUME TypeInv, NEW h \in Handler, job[h].pc # "idle", NEW new \in Row, Save(h, new)
    PROVE  LET c == job[h].conn
           IN  /\ c \in Connection /\ rows' \in Tables /\ rows'[c] = new
               /\ \A d \in Connection : d # c => rows'[d] = rows[d]
               /\ rows[c] # NoRow => rows[c] \in Row /\ rows[c].id = job[h].snap.id
               /\ lost' \subseteq Column /\ lost \subseteq lost'
               /\ \A f \in Column : f \notin lost' => rows[c] # NoRow /\ rows[c][f] = job[h].base[f]
<1> DEFINE c == job[h].conn
<1>1. c \in Connection /\ rows \in [Connection -> Row \cup {NoRow}] /\ lost \subseteq Column
  BY AtWork DEF TypeInv, TypeOK
<1>2. CanSave(h) /\ rows' = [rows EXCEPT ![c] = new] /\ lost' = lost \cup Overtaken(h)
  BY DEF Save
<1>3. Overtaken(h) \subseteq Column
  BY DEF Overtaken
<1>4. \A f \in Column : f \notin Overtaken(h) => rows[c] # NoRow /\ rows[c][f] = job[h].base[f]
  BY DEF Overtaken
<1>5. rows[c] # NoRow => rows[c] \in Row /\ rows[c].id = job[h].snap.id
  BY <1>1, <1>2 DEF CanSave
<1> HIDE DEF c
<1>6. rows' \in Tables /\ rows'[c] = new /\ \A d \in Connection : d # c => rows'[d] = rows[d]
  BY <1>1, <1>2 DEF Tables
<1>7. QED
  BY <1>1, <1>2, <1>3, <1>4, <1>5, <1>6 DEF c

\* Steps that write no row.
LEMMA KeepingIsTame ==
    ASSUME TypeInv, NEW h \in Handler, GoesOn(h), rows' = rows,
           batch' = batch \/ batch' = [c \in Connection |-> NoRow],
           issued' = issued, honoured' = honoured, expired' = expired,
           requests' \in Nat, crashes' \in Nat, lost' \subseteq Column, lost \subseteq lost',
           posted' = posted, unheard' = unheard,
           "refresh" \notin lost' =>
              /\ job[h].pc # "granted"
              /\ job[h].pc \in {"answered", "orphaned"} => \/ rows[job[h].conn] = NoRow
                                                           \/ rows[job[h].conn].id # job[h].snap.id
    PROVE  Tame(h)
<1>1. rows \in Tables /\ batch \in Tables
  BY DEF TypeInv, TypeOK, Tables
<1>2. \A c \in Connection : rows[c] = NoRow \/ Copy(rows[c], rows[c])
  BY <1>1 DEF Tables, Copy
<1>3. batch' \in Tables /\ \A c \in Connection : batch'[c] \in {batch[c], NoRow}
  BY <1>1 DEF Tables
<1>4. Plain(h)
  <2>1. posted' \subseteq Flags
    BY DEF TypeInv, TypeOK, Flags
  <2>2. QED
    BY <1>1, <1>2, <1>3, <2>1 DEF Plain
<1>5. Careful(h)
  BY DEF Careful
<1>6. Switches(h)
  BY DEF Switches
<1>7. QED
  BY <1>4, <1>5, <1>6 DEF Tame

\* Whole-row saves of the instance in memory.
LEMMA SavingIsTame ==
    ASSUME TypeInv, NEW h \in Handler, GoesOn(h), NEW new \in Row, Save(h, new),
           Copy(new, job[h].snap), job[h].pc # "granted",
           new.active => \/ job[h].snap.active
                         \/ h \in Request /\ job[h].op = "patch" /\ "active" \in posted',
           posted' \subseteq posted \cup Flags, posted \subseteq posted',
           UNCHANGED <<batch, issued, honoured, expired, requests, crashes, unheard>>
    PROVE  Tame(h)
<1> DEFINE c == job[h].conn
<1>1. job[h].pc # "idle" /\ job[h].base \in Row /\ job[h].snap \in Row /\ Fits(h, job[h])
  BY AtWork DEF GoesOn
<1>2. /\ c \in Connection /\ rows' \in Tables /\ rows'[c] = new
      /\ \A d \in Connection : d # c => rows'[d] = rows[d]
      /\ rows[c] # NoRow => rows[c] \in Row /\ rows[c].id = job[h].snap.id
      /\ lost' \subseteq Column /\ lost \subseteq lost'
      /\ \A f \in Column : f \notin lost' => rows[c] # NoRow /\ rows[c][f] = job[h].base[f]
  BY <1>1, SaveFacts
<1>3. rows \in Tables /\ batch \in Tables /\ requests \in Nat /\ crashes \in Nat /\ posted' \subseteq Flags
  BY DEF TypeInv, TypeOK, Tables, Flags
<1>4. \A d \in Connection : d # c => (rows'[d] = NoRow /\ rows[d] = NoRow) \/ Copy(rows'[d], rows[d])
  BY <1>2, <1>3 DEF Tables, Copy
<1>5. \A d \in Connection : batch'[d] \in {batch[d], NoRow}
  OBVIOUS
<1>6. Plain(h)
  BY <1>2, <1>3, <1>4, <1>5 DEF Plain
<1>7. Careful(h)
  <2>1. ASSUME "refresh" \notin lost'
        PROVE  rows[c] # NoRow /\ rows[c].refresh = job[h].base.refresh
    BY <1>2, <2>1 DEF Column
  <2>2. ASSUME "refresh" \notin lost', job[h].pc # "answered"
        PROVE  new.refresh = rows[c].refresh
    BY <1>1, <2>1, <2>2 DEF Fits, Copy
  <2>3. ASSUME job[h].pc = "orphaned" PROVE ~new.active
    BY <1>1, <2>3 DEF Fits, Syncing
  <2>4. QED
    BY <1>2, <2>1, <2>2, <2>3 DEF Careful, Copy
<1>8. Switches(h)
  <2>1. "active" \notin lost' => rows[c] # NoRow /\ rows[c].active = job[h].base.active
    BY <1>2 DEF Column
  <2>2. ASSUME NEW d \in Connection, rows[d] # NoRow, rows'[d] # NoRow, ~rows[d].active,
               rows'[d].active, "active" \notin lost'
        PROVE  h \in Request /\ c = d /\ job[h].op = "patch" /\ "active" \in posted'
    <3>1. d = c
      BY <1>2, <2>2
    <3>2. ~job[h].snap.active
      BY <1>1, <2>1, <2>2, <3>1 DEF Fits, Row
    <3>3. new.active
      BY <1>2, <2>2, <3>1
    <3>4. QED
      BY <3>1, <3>2, <3>3
  <2>3. QED
    BY <2>2 DEF Switches
<1>9. QED
  BY <1>6, <1>7, <1>8 DEF Tame

\* UPDATEs that name their columns.
LEMMA FlaggingIsTame ==
    ASSUME TypeInv, NEW h \in Handler, GoesOn(h), rows' \in Tables,
           \A c \in Connection : \/ rows'[c] = NoRow /\ rows[c] = NoRow
                                 \/ Copy(rows'[c], rows[c]) /\ rows'[c].active = rows[c].active,
           job[h].pc \notin {"granted", "answered", "orphaned"},
           UNCHANGED <<batch, issued, honoured, expired, requests, crashes, lost, posted, unheard>>
    PROVE  Tame(h)
<1>1. /\ rows \in Tables /\ batch \in Tables /\ requests \in Nat /\ crashes \in Nat
      /\ lost \subseteq Column /\ posted \subseteq Flags
  BY DEF TypeInv, TypeOK, Tables, Flags
<1>2. Plain(h)
  BY <1>1 DEF Plain
<1>3. Careful(h)
  BY SentinelAssumption DEF Careful, Copy
<1>4. Switches(h)
  BY DEF Switches
<1>5. QED
  BY <1>2, <1>3, <1>4 DEF Tame

\* A handler that is done.
LEMMA DoneGoesOn ==
    ASSUME TypeInv, NEW h \in Handler, Done(h), job[h].pc # "idle"
    PROVE  GoesOn(h) /\ job'[h].pc = "idle"
BY Finished DEF GoesOn

\* A handler that goes on.
LEMMA StepGoesOn ==
    ASSUME TypeInv, NEW h \in Handler, NEW j \in Doing, Step(h, j), Fits(h, j),
           job[h].pc # "idle", j.pc \notin {"answered", "granted"}, j.conn = job[h].conn,
           Copy(j.snap, job[h].snap),
           Copy(j.base, job[h].base) \/ Copy(j.base, job[h].snap)
    PROVE  GoesOn(h) /\ job'[h] = j
BY Stepped DEF GoesOn

\* The token check.
LEMMA StillValidIsTame ==
    ASSUME TypeInv, NEW h \in Handler, StillValid(h)
    PROVE  Tame(h)
<1>1. job[h].pc = "loaded" /\ job[h].op \in Syncing \cup {"use"}
  BY DEF StillValid, Ensuring, At
<1>2. /\ job[h] \in Doing /\ Fits(h, job[h]) /\ job[h].snap \in Row /\ job[h].base \in Row
  BY <1>1, AtWork
<1> DEFINE j == [job[h] EXCEPT !.pc = "ensured"]
<1>3. /\ j \in Doing /\ j.pc = "ensured" /\ j.op = job[h].op /\ j.conn = job[h].conn
      /\ j.snap = job[h].snap /\ j.base = job[h].base
  BY <1>2 DEF Doing, Pc
<1>4. Step(h, j)
  BY DEF StillValid
<1> HIDE DEF j
<1>5. Fits(h, j)
  BY <1>1, <1>2, <1>3 DEF Fits
<1>6. GoesOn(h)
  BY <1>1, <1>2, <1>3, <1>4, <1>5, StepGoesOn DEF Copy
<1>7. UNCHANGED <<rows, batch, issued, honoured, expired, requests, crashes, lost, posted, unheard>>
  BY DEF StillValid, table, provider, bounds, history
<1>8. QED
  BY <1>1, <1>6, <1>7, KeepingIsTame DEF TypeInv, TypeOK

LEMMA RefreshFailsIsTame ==
    ASSUME TypeInv, NEW h \in Handler, RefreshFails(h)
    PROVE  Tame(h)
<1>1. job[h].pc = "loaded" /\ job[h].op \in Syncing \cup {"use"}
  BY DEF RefreshFails, Refreshing, Ensuring, At
<1>2. /\ job[h] \in Doing /\ Fits(h, job[h]) /\ job[h].snap \in Row /\ job[h].base \in Row
  BY <1>1, AtWork
<1> DEFINE new == Disabled(job[h].snap)
           j == [job[h] EXCEPT !.pc = "refused", !.snap = new]
<1>3. /\ new \in Row /\ ~new.active /\ new.isDefault = job[h].snap.isDefault
      /\ new.refresh = job[h].snap.refresh /\ new.id = job[h].snap.id
  BY <1>2, RowsTyped, ZenonT(40) DEF Disabled, Row
<1>4. Step(h, j)
  BY DEF RefreshFails, Give
<1> HIDE DEF new
<1>5. /\ j \in Doing /\ j.pc = "refused" /\ j.op = job[h].op /\ j.conn = job[h].conn
      /\ j.snap = new /\ j.base = job[h].base
  BY <1>2, <1>3 DEF Doing, Pc
<1> HIDE DEF j
<1>6. Fits(h, j)
  BY <1>1, <1>2, <1>3, <1>5 DEF Fits
<1>7. GoesOn(h)
  BY <1>1, <1>2, <1>3, <1>4, <1>5, <1>6, StepGoesOn DEF Copy
<1>8. UNCHANGED <<rows, batch, issued, honoured, expired, requests, crashes, lost, posted, unheard>>
  BY DEF RefreshFails, table, provider, bounds, history
<1>9. QED
  BY <1>1, <1>7, <1>8, KeepingIsTame DEF TypeInv, TypeOK

LEMMA QuoteIsTame ==
    ASSUME TypeInv, NEW h \in Handler, Quote(h)
    PROVE  Tame(h)
<1>1. job[h].pc = "ensured" /\ job[h].op \in Syncing
  BY DEF Quote, At
<1>2. /\ job[h] \in Doing /\ Fits(h, job[h]) /\ job[h].snap \in Row /\ job[h].base \in Row
  BY <1>1, AtWork
<1> DEFINE new == [job[h].snap EXCEPT !.sized = TRUE]
           j == [job[h] EXCEPT !.pc = "quoted", !.snap.sized = TRUE]
<1>3. /\ new \in Row /\ new.active = job[h].snap.active /\ new.isDefault = job[h].snap.isDefault
      /\ new.refresh = job[h].snap.refresh /\ new.id = job[h].snap.id
  BY <1>2, RowsTyped, ZenonT(40) DEF Row
<1>4. Step(h, j)
  BY DEF Quote
<1>5. /\ j \in Doing /\ j.pc = "quoted" /\ j.op = job[h].op /\ j.conn = job[h].conn
      /\ j.snap = new /\ j.base = job[h].base
  BY <1>2, <1>3 DEF Doing, Pc
<1> HIDE DEF j, new
<1>6. Fits(h, j)
  BY <1>1, <1>2, <1>3, <1>5 DEF Fits
<1>7. GoesOn(h)
  BY <1>1, <1>2, <1>3, <1>4, <1>5, <1>6, StepGoesOn DEF Copy
<1>8. UNCHANGED <<rows, batch, issued, honoured, expired, requests, crashes, lost, posted, unheard>>
  BY DEF Quote, table, provider, bounds, history
<1>9. QED
  BY <1>1, <1>7, <1>8, KeepingIsTame DEF TypeInv, TypeOK

LEMMA SaveTokensIsTame ==
    ASSUME TypeInv, NEW h \in Handler, SaveTokens(h)
    PROVE  Tame(h)
<1>1. job[h].pc = "answered"
  BY DEF SaveTokens, At
<1>2. /\ job[h] \in Doing /\ Fits(h, job[h]) /\ job[h].snap \in Row /\ job[h].base \in Row
  BY <1>1, AtWork
<1> DEFINE j == [job[h] EXCEPT !.pc = "ensured", !.base = job[h].snap]
<1>3. /\ j \in Doing /\ j.pc = "ensured" /\ j.op = job[h].op /\ j.conn = job[h].conn
      /\ j.snap = job[h].snap /\ j.base = job[h].snap
  BY <1>2 DEF Doing, Pc
<1>4. Step(h, j)
  BY DEF SaveTokens
<1> HIDE DEF j
<1>5. Fits(h, j)
  BY <1>1, <1>2, <1>3 DEF Fits
<1>6. GoesOn(h)
  BY <1>1, <1>2, <1>3, <1>4, <1>5, StepGoesOn DEF Copy
<1>7. Save(h, job[h].snap) /\ UNCHANGED <<batch, issued, honoured, expired, requests, crashes, posted, unheard>>
  BY DEF SaveTokens, provider, bounds
<1>8. QED
  BY <1>1, <1>2, <1>6, <1>7, SavingIsTame DEF Copy

LEMMA SaveDisabledIsTame ==
    ASSUME TypeInv, NEW h \in Handler, SaveDisabled(h)
    PROVE  Tame(h)
<1>1. job[h].pc \in {"refused", "orphaned"}
  BY DEF SaveDisabled
<1>2. /\ job[h] \in Doing /\ Fits(h, job[h]) /\ job[h].snap \in Row /\ job[h].base \in Row
  BY <1>1, AtWork
<1>3. GoesOn(h)
  <2>1. CASE h = Hourly
    <3> DEFINE j == [job[h] EXCEPT !.pc = "ensured", !.base = job[h].snap]
    <3>1. /\ j \in Doing /\ j.pc = "ensured" /\ j.op = job[h].op /\ j.conn = job[h].conn
          /\ j.snap = job[h].snap /\ j.base = job[h].snap
      BY <1>2 DEF Doing, Pc
    <3>2. Step(h, j)
      BY <2>1 DEF SaveDisabled
    <3> HIDE DEF j
    <3>3. Fits(h, j)
      BY <1>1, <1>2, <3>1 DEF Fits
    <3>4. QED
      BY <1>1, <1>2, <3>1, <3>2, <3>3, StepGoesOn DEF Copy
  <2>2. CASE h # Hourly
    BY <1>1, <2>2, DoneGoesOn DEF SaveDisabled
  <2>3. QED
    BY <2>1, <2>2
<1>4. Save(h, job[h].snap) /\ UNCHANGED <<batch, issued, honoured, expired, requests, crashes, posted, unheard>>
  BY DEF SaveDisabled, provider, bounds
<1>5. QED
  BY <1>1, <1>2, <1>3, <1>4, SavingIsTame DEF Copy

\* After the token check: what is saved, and how.
LEMMA LeaveIsTame ==
    ASSUME TypeInv, NEW h \in Handler, Leave(h) \/ (h = Hourly /\ StoreQuotaHourly)
    PROVE  Tame(h)
<1>1. Done(h) /\ job[h].pc \in {"ensured", "quoted"}
  BY DEF Leave, StoreQuotaHourly, At
<1>2. GoesOn(h)
  BY <1>1, DoneGoesOn
<1>3. UNCHANGED <<rows, batch, issued, honoured, expired, requests, crashes, lost, posted, unheard>>
  BY DEF Leave, StoreQuotaHourly, table, provider, bounds, history
<1>4. QED
  BY <1>1, <1>2, <1>3, KeepingIsTame DEF TypeInv, TypeOK

LEMMA StoreQuotaIsTame ==
    ASSUME TypeInv, NEW h \in Handler, StoreQuota(h) \/ Disconnect(h)
    PROVE  Tame(h)
<1>1. job[h].pc \in {"quoted", "loaded"} /\ Done(h)
  BY DEF StoreQuota, Disconnect, At
<1>2. job[h].snap \in Row
  BY <1>1, AtWork
<1>3. /\ Disabled(job[h].snap) \in Row /\ Copy(Disabled(job[h].snap), job[h].snap)
      /\ ~Disabled(job[h].snap).active /\ Copy(job[h].snap, job[h].snap)
  BY <1>2 DEF Disabled, Row, Copy
<1>4. UNCHANGED <<batch, issued, honoured, expired, requests, crashes, posted, unheard>>
  BY DEF StoreQuota, Disconnect, provider, bounds
<1>5. GoesOn(h)
  BY <1>1, DoneGoesOn
<1>6. Save(h, job[h].snap) \/ Save(h, Disabled(job[h].snap))
  BY DEF StoreQuota, Disconnect
<1>7. QED
  BY <1>1, <1>2, <1>3, <1>4, <1>5, <1>6, SavingIsTame

LEMMA PatchIsTame ==
    ASSUME TypeInv, NEW h \in Handler, NEW active \in BOOLEAN \cup {Keep},
           NEW isDefault \in BOOLEAN \cup {Keep}, Patch(h, active, isDefault)
    PROVE  Tame(h)
<1> DEFINE new == [job[h].snap EXCEPT !.active = Posted(active, @),
                                      !.isDefault = Posted(isDefault, @)]
<1>1. job[h].pc = "loaded" /\ job[h].op = "patch" /\ Done(h)
  BY DEF Patch, At
<1>2. job[h].snap \in Row /\ Fits(h, job[h])
  BY <1>1, AtWork
<1>3. h \in Request
  BY <1>1, <1>2 DEF Fits, Handler
<1>4. Save(h, new) /\ posted' = posted \cup {f \in Flags : new[f] /\ ~job[h].snap[f]}
  BY DEF Patch, Flags
<1>5. new \in Row /\ Copy(new, job[h].snap)
  BY <1>2, SentinelAssumption DEF Posted, Row, Copy
<1>6. UNCHANGED <<batch, issued, honoured, expired, requests, crashes, unheard>>
  BY DEF Patch, provider, bounds
<1> HIDE DEF new
<1>7. GoesOn(h)
  BY <1>1, DoneGoesOn
<1>8. new.active => job[h].snap.active \/ "active" \in posted'
  BY <1>4 DEF Flags
<1>9. posted' \subseteq posted \cup Flags /\ posted \subseteq posted'
  BY <1>4
<1>10. QED
  BY <1>1, <1>3, <1>4, <1>5, <1>6, <1>7, <1>8, <1>9, SavingIsTame

LEMMA StoreQuotaOnlyIsTame ==
    ASSUME TypeInv, NEW h \in Handler, StoreQuotaOnly(h)
    PROVE  Tame(h)
<1> DEFINE c == job[h].conn
<1>1. job[h].pc = "quoted" /\ Done(h)
  BY DEF StoreQuotaOnly, At
<1>2. c \in Connection /\ rows \in Tables
  BY <1>1, AtWork DEF TypeInv, TypeOK, Tables
<1>3. rows' = rows \/ (rows[c] # NoRow /\ rows' = [rows EXCEPT ![c].sized = TRUE])
  BY DEF StoreQuotaOnly
<1>4. UNCHANGED <<batch, issued, honoured, expired, requests, crashes, lost, posted, unheard>>
  BY DEF StoreQuotaOnly, provider, bounds, history
<1> HIDE DEF c
<1>5. rows' \in Tables
  BY <1>2, <1>3, RowsTyped DEF Tables
<1>6. \A d \in Connection : \/ rows'[d] = NoRow /\ rows[d] = NoRow
                            \/ Copy(rows'[d], rows[d]) /\ rows'[d].active = rows[d].active
  <2>1. \A d \in Connection : rows[d] = NoRow \/ Copy(rows[d], rows[d])
    BY <1>2 DEF Tables, Copy
  <2>2. CASE rows[c] # NoRow /\ rows' = [rows EXCEPT ![c].sized = TRUE]
    <3> DEFINE new == [rows[c] EXCEPT !.sized = TRUE]
    <3>1. Copy(new, rows[c]) /\ new.active = rows[c].active
      BY <1>2, <2>2 DEF Tables, Row, Copy
    <3>2. rows'[c] = new /\ \A d \in Connection : d # c => rows'[d] = rows[d]
      BY <1>2, <2>2 DEF Tables
    <3> HIDE DEF new
    <3>3. QED
      BY <2>1, <3>1, <3>2
  <2>3. QED
    BY <1>3, <2>1, <2>2
<1>7. GoesOn(h)
  BY <1>1, DoneGoesOn
<1>8. QED
  BY <1>1, <1>4, <1>5, <1>6, <1>7, FlaggingIsTame

LEMMA WithoutDefaultTyped ==
    ASSUME TypeInv, NEW c
    PROVE  /\ WithoutDefault(rows, c) \in Tables
           /\ \A d \in Connection :
                 \/ WithoutDefault(rows, c)[d] = NoRow /\ rows[d] = NoRow
                 \/ /\ Copy(WithoutDefault(rows, c)[d], rows[d])
                    /\ WithoutDefault(rows, c)[d].active = rows[d].active
                    /\ ~WithoutDefault(rows, c)[d].isDefault
<1>1. \A d \in Connection : rows[d] = NoRow \/ rows[d] \in Row
  BY DEF TypeInv, TypeOK
<1>2. \A d \in Connection :
         WithoutDefault(rows, c)[d] = IF rows[d] = NoRow THEN NoRow
                                      ELSE [rows[d] EXCEPT !.isDefault = FALSE]
  BY DEF WithoutDefault
<1>3. \A r \in Row : LET s == [r EXCEPT !.isDefault = FALSE]
                     IN  s \in Row /\ Copy(s, r) /\ s.active = r.active /\ ~s.isDefault
  BY DEF Row, Copy
<1>4. WithoutDefault(rows, c) \in Tables
  BY <1>1, <1>3 DEF WithoutDefault, Tables
<1>5. QED
  BY <1>1, <1>2, <1>3, <1>4

LEMMA ClearDefaultIsTame ==
    ASSUME TypeInv, NEW h \in Handler, ClearDefault(h)
    PROVE  Tame(h)
<1>1. job[h].pc = "loaded" /\ job[h].op = "default"
  BY DEF ClearDefault, At
<1>2. /\ job[h] \in Doing /\ Fits(h, job[h]) /\ job[h].snap \in Row /\ job[h].base \in Row
  BY <1>1, AtWork
<1> DEFINE new == [job[h].base EXCEPT !.isDefault = FALSE]
           j == [job[h] EXCEPT !.pc = "cleared", !.base.isDefault = FALSE]
<1>3. /\ new \in Row /\ new.active = job[h].base.active /\ ~new.isDefault
      /\ new.refresh = job[h].base.refresh /\ new.id = job[h].base.id
  BY <1>2 DEF Row
<1>4. Step(h, j)
  BY DEF ClearDefault
<1>5. /\ j \in Doing /\ j.pc = "cleared" /\ j.op = job[h].op /\ j.conn = job[h].conn
      /\ j.snap = job[h].snap /\ j.base = new
  BY <1>2, <1>3 DEF Doing, Pc
<1> HIDE DEF j, new
<1>6. Fits(h, j)
  BY <1>1, <1>2, <1>3, <1>5 DEF Fits
<1>7. GoesOn(h)
  BY <1>1, <1>2, <1>3, <1>4, <1>5, <1>6, StepGoesOn DEF Copy
<1>8. UNCHANGED <<batch, issued, honoured, expired, requests, crashes, lost, posted, unheard>>
  BY DEF ClearDefault, provider, bounds
<1>9. rows' = WithoutDefault(rows, job[h].conn)
  BY DEF ClearDefault
<1>10. QED
  BY <1>1, <1>7, <1>8, <1>9, WithoutDefaultTyped, FlaggingIsTame

LEMMA SaveDefaultIsTame ==
    ASSUME TypeInv, NEW h \in Handler, SaveDefault(h)
    PROVE  Tame(h)
<1> DEFINE new == [job[h].snap EXCEPT !.isDefault = TRUE]
<1>1. job[h].pc \in {"cleared", "promoting"} /\ Done(h) /\ Save(h, new)
  BY DEF SaveDefault
<1>2. job[h].snap \in Row
  BY <1>1, AtWork
<1>3. new \in Row /\ Copy(new, job[h].snap) /\ new.active = job[h].snap.active
  BY <1>2 DEF Row, Copy
<1>4. UNCHANGED <<batch, issued, honoured, expired, requests, crashes, posted, unheard>>
  BY DEF SaveDefault, provider, bounds
<1> HIDE DEF new
<1>5. GoesOn(h)
  BY <1>1, DoneGoesOn
<1>6. QED
  BY <1>1, <1>3, <1>4, <1>5, SavingIsTame

LEMMA CheckDefaultIsTame ==
    ASSUME TypeInv, NEW h \in Handler, CheckDefault(h)
    PROVE  Tame(h)
<1>1. job[h].pc = "connected"
  BY DEF CheckDefault, At
<1>2. /\ job[h] \in Doing /\ Fits(h, job[h]) /\ job[h].snap \in Row /\ job[h].base \in Row
  BY <1>1, AtWork
<1>3. GoesOn(h)
  <2>1. CASE HasDefault
    BY <1>1, <2>1, DoneGoesOn DEF CheckDefault
  <2>2. CASE ~HasDefault
    <3> DEFINE j == [job[h] EXCEPT !.pc = "promoting"]
    <3>1. /\ j \in Doing /\ j.pc = "promoting" /\ j.op = job[h].op /\ j.conn = job[h].conn
          /\ j.snap = job[h].snap /\ j.base = job[h].base
      BY <1>2 DEF Doing, Pc
    <3>2. Step(h, j)
      BY <2>2 DEF CheckDefault
    <3> HIDE DEF j
    <3>3. Fits(h, j)
      BY <1>1, <1>2, <3>1 DEF Fits
    <3>4. QED
      BY <1>1, <1>2, <3>1, <3>2, <3>3, StepGoesOn DEF Copy
  <2>3. QED
    BY <2>1, <2>2
<1>4. UNCHANGED <<rows, batch, issued, honoured, expired, requests, crashes, lost, posted, unheard>>
  BY DEF CheckDefault, table, provider, bounds
<1>5. QED
  BY <1>1, <1>3, <1>4, KeepingIsTame DEF TypeInv, TypeOK

\* Failures.
LEMMA SaveRaisesIsTame ==
    ASSUME TypeInv, NEW h \in Handler, SaveRaises(h)
    PROVE  Tame(h)
<1>1. Done(h) /\ ~CanSave(h) /\ job[h].pc \notin {"idle", "granted"}
  BY DEF SaveRaises, Saving, At
<1>2. GoesOn(h)
  BY <1>1, DoneGoesOn
<1>3. UNCHANGED <<rows, batch, issued, honoured, expired, requests, crashes, lost, posted, unheard>>
  BY DEF SaveRaises, table, provider, bounds, history
<1>4. rows[job[h].conn].id # job[h].snap.id
  BY <1>1 DEF CanSave
<1>5. QED
  BY <1>1, <1>2, <1>3, <1>4, KeepingIsTame DEF TypeInv, TypeOK

LEMMA CrashIsTame ==
    ASSUME TypeInv, NEW h \in Handler, Crash(h)
    PROVE  Tame(h)
<1>1. Done(h) /\ job[h].pc # "idle" /\ crashes' = crashes + 1
  BY DEF Crash, Resting
<1>2. GoesOn(h)
  BY <1>1, DoneGoesOn
<1>3. UNCHANGED <<rows, issued, honoured, expired, requests, posted, unheard>>
  BY DEF Crash, provider
<1>4. batch' = batch \/ batch' = [c \in Connection |-> NoRow]
  BY DEF Crash
<1>5. lost' = lost \cup IF job[h].pc \in {"answered", "granted", "orphaned"} THEN {"refresh"} ELSE {}
  BY DEF Crash
<1>6. /\ lost \subseteq lost' /\ lost' \subseteq Column
      /\ "refresh" \notin lost' => job[h].pc \notin {"answered", "granted", "orphaned"}
  BY <1>5 DEF TypeInv, TypeOK, Column
<1>7. requests' \in Nat /\ crashes' \in Nat
  BY <1>1, <1>3 DEF TypeInv, TypeOK
<1>8. QED
  BY <1>2, <1>3, <1>4, <1>6, <1>7, KeepingIsTame

LEMMA TameKeepsTypes ==
    ASSUME TypeInv, NEW h \in Handler, Tame(h), raced' \in BOOLEAN
    PROVE  TypeInv'
BY DEF TypeInv, TypeOK, Tame, Plain, GoesOn, Tables, Flags

--------------------------------------------------------------------------
(* The other steps.                                                        *)

\* A handler takes up a row, of the table or of the batch.
Fetch(h, c, row) ==
    /\ c \in Connection /\ row \in Row /\ row \in {rows[c], batch[c]}
    /\ job' \in [Handler -> Doing] /\ Held'
    /\ \A g \in Handler : g # h => job'[g] = job[g]
    /\ job[h].pc = "idle" /\ job'[h].pc = "loaded"
    /\ job'[h].conn = c /\ job'[h].snap = row /\ job'[h].base = row
    /\ batch' \in Tables /\ \A d \in Connection : batch'[d] \in {batch[d], NoRow}
    /\ UNCHANGED <<rows, issued, honoured, expired, lost, raced, posted, unheard>>
    /\ requests' \in Nat /\ crashes' \in Nat

LEMMA BeginFetches ==
    ASSUME TypeInv, NEW h \in Handler, NEW c \in Connection, NEW op \in Op \ {"none", "hourly", "callback"},
           Begin(h, op, c)
    PROVE  Fetch(h, c, rows[c])
<1> DEFINE j == [op |-> op, pc |-> "loaded", conn |-> c, snap |-> rows[c], base |-> rows[c]]
<1>1. rows[c] \in Row /\ h \in Request /\ h # Hourly /\ Step(h, j) /\ job[h].pc = "idle"
  BY HandlerAssumption DEF Begin, Resting, TypeInv, TypeOK
<1>2. j \in Doing
  BY <1>1 DEF Doing, Pc
<1>3. Fits(h, j)
  BY <1>1 DEF Fits
<1>4. j.pc = "loaded" /\ j.conn = c /\ j.snap = rows[c] /\ j.base = rows[c]
  OBVIOUS
<1> HIDE DEF j
<1>5. /\ job' \in [Handler -> Doing] /\ Held' /\ job'[h] = j
      /\ \A g \in Handler : g # h => job'[g] = job[g]
  BY <1>1, <1>2, <1>3, Stepped
<1>6. UNCHANGED <<rows, batch, issued, honoured, expired, crashes, lost, raced, posted, unheard>> /\ requests' = requests + 1
  BY DEF Begin, table, provider, history
<1>7. batch' \in Tables /\ \A d \in Connection : batch'[d] \in {batch[d], NoRow}
  BY <1>6 DEF TypeInv, TypeOK, Tables
<1>8. requests' \in Nat /\ crashes' \in Nat
  BY <1>6 DEF TypeInv, TypeOK
<1>9. QED
  BY <1>1, <1>4, <1>5, <1>6, <1>7, <1>8 DEF Fetch

LEMMA TakeNextFetches ==
    ASSUME TypeInv, NEW c \in Connection, TakeNext(c)
    PROVE  Fetch(Hourly, c, batch[c])
<1> DEFINE h == Hourly
           j == [op |-> "hourly", pc |-> "loaded", conn |-> c, snap |-> batch[c], base |-> batch[c]]
<1>1. batch[c] \in Row /\ h \in Handler /\ h \notin Request /\ Step(h, j) /\ job[h].pc = "idle"
  BY HandlerAssumption DEF TakeNext, Resting, TypeInv, TypeOK, Handler
<1>2. j \in Doing
  BY <1>1 DEF Doing, Op, Syncing, Pc
<1>3. Fits(h, j)
  BY <1>1 DEF Fits
<1>4. j.pc = "loaded" /\ j.conn = c /\ j.snap = batch[c] /\ j.base = batch[c]
  OBVIOUS
<1> HIDE DEF j
<1>5. /\ job' \in [Handler -> Doing] /\ Held' /\ job'[h] = j
      /\ \A g \in Handler : g # h => job'[g] = job[g]
  BY <1>1, <1>2, <1>3, Stepped
<1>6. /\ UNCHANGED <<rows, issued, honoured, expired, requests, crashes, lost, raced, posted, unheard>>
      /\ batch' = [batch EXCEPT ![c] = NoRow]
  BY DEF TakeNext, provider, bounds, history
<1>7. batch' \in Tables /\ \A d \in Connection : batch'[d] \in {batch[d], NoRow}
  BY <1>6 DEF TypeInv, TypeOK, Tables
<1>8. requests' \in Nat /\ crashes' \in Nat
  BY <1>6 DEF TypeInv, TypeOK
<1>9. QED
  BY <1>1, <1>4, <1>5, <1>6, <1>7, <1>8 DEF Fetch

\* No handler moves: the batch is loaded, a row goes or loses its flag, tokens
\* expire or are withdrawn.
Outside ==
    /\ job' = job
    /\ rows' \in Tables
    /\ \A c \in Connection : \/ rows'[c] = NoRow
                             \/ Copy(rows'[c], rows[c]) /\ (rows'[c].active => rows[c].active)
                                  /\ rows'[c].isDefault = rows[c].isDefault
    /\ batch' \in Tables /\ \A c \in Connection : batch'[c] \in {batch[c], rows[c], NoRow}
    /\ issued' = issued /\ expired' \in [Connection -> Nat]
    /\ honoured' \in [Connection -> SUBSET Nat]
    /\ \A c \in Connection : honoured'[c] \in {honoured[c], {}}
    /\ UNCHANGED <<lost, raced, posted, unheard>>
    /\ requests' \in Nat /\ crashes' \in Nat

LEMMA OutsideSteps ==
    ASSUME TypeInv,
           \/ LoadBatch
           \/ \E c \in Connection : Destroy(c) \/ ForceDisable(c) \/ Expire(c) \/ Withdraw(c)
           \/ UNCHANGED vars
    PROVE  Outside
<1>1. /\ rows \in Tables /\ batch \in Tables /\ requests \in Nat /\ crashes \in Nat
      /\ honoured \in [Connection -> SUBSET Nat] /\ expired \in [Connection -> Nat]
      /\ issued \in [Connection -> Nat]
  BY DEF TypeInv, TypeOK, Tables
<1>2. \A c \in Connection : \/ rows[c] = NoRow
                            \/ rows[c] \in Row /\ Copy(rows[c], rows[c])
  BY <1>1 DEF Tables, Copy
<1>3. CASE LoadBatch
  <2>1. /\ UNCHANGED <<rows, job, issued, honoured, expired, requests, crashes, lost, raced, posted, unheard>>
        /\ batch' = [c \in Connection |-> IF rows[c] # NoRow /\ rows[c].active THEN rows[c] ELSE NoRow]
    BY <1>3 DEF LoadBatch, provider, bounds, history
  <2>2. batch' \in Tables /\ \A c \in Connection : batch'[c] \in {rows[c], NoRow}
    BY <1>1, <2>1 DEF Tables
  <2>3. QED
    BY <1>1, <1>2, <2>1, <2>2 DEF Outside
<1>4. ASSUME NEW c \in Connection, Destroy(c) PROVE Outside
  <2>1. /\ UNCHANGED <<job, batch, issued, honoured, expired, crashes, lost, raced, posted, unheard>>
        /\ requests' = requests + 1 /\ rows' = [rows EXCEPT ![c] = NoRow]
    BY <1>4 DEF Destroy, provider, history
  <2>2. rows' \in Tables /\ \A d \in Connection : rows'[d] = rows[d] \/ rows'[d] = NoRow
    BY <1>1, <2>1 DEF Tables
  <2>3. \A d \in Connection : \/ rows'[d] = NoRow
                              \/ Copy(rows'[d], rows[d]) /\ (rows'[d].active => rows[d].active)
                                   /\ rows'[d].isDefault = rows[d].isDefault
    BY <1>2, <2>2
  <2>4. requests' \in Nat
    BY <1>1, <2>1
  <2>5. \A d \in Connection : batch'[d] \in {batch[d], rows[d], NoRow} /\ honoured'[d] \in {honoured[d], {}}
    BY <2>1
  <2>6. batch' \in Tables /\ honoured' \in [Connection -> SUBSET Nat] /\ expired' \in [Connection -> Nat]
    BY <1>1, <2>1
  <2>7. crashes' \in Nat
    BY <1>1, <2>1
  <2>8. QED
    BY <2>1, <2>2, <2>3, <2>4, <2>5, <2>6, <2>7 DEF Outside
<1>5. ASSUME NEW c \in Connection, ForceDisable(c) PROVE Outside
  <2> DEFINE new == [rows[c] EXCEPT !.active = FALSE]
  <2>1. /\ UNCHANGED <<job, batch, issued, honoured, expired, crashes, lost, raced, posted, unheard>>
        /\ requests' = requests + 1 /\ rows[c] # NoRow /\ rows' = [rows EXCEPT ![c].active = FALSE]
    BY <1>5 DEF ForceDisable, provider, history
  <2>2. new \in Row /\ Copy(new, rows[c]) /\ ~new.active /\ new.isDefault = rows[c].isDefault
    BY <1>1, <2>1 DEF Tables, Row, Copy
  <2>3. rows'[c] = new /\ \A d \in Connection : d # c => rows'[d] = rows[d]
    BY <1>1, <2>1 DEF Tables
  <2>4. rows' = [rows EXCEPT ![c] = new]
    BY <2>1
  <2> HIDE DEF new
  <2>5. rows' \in Tables
    BY <1>1, <2>2, <2>4 DEF Tables
  <2>6. \A d \in Connection : batch'[d] \in {batch[d], rows[d], NoRow} /\ honoured'[d] \in {honoured[d], {}}
    BY <2>1
  <2>7. batch' \in Tables /\ honoured' \in [Connection -> SUBSET Nat] /\ expired' \in [Connection -> Nat]
    BY <1>1, <2>1
  <2>8. requests' \in Nat /\ crashes' \in Nat
    BY <1>1, <2>1
  <2>9. \A d \in Connection : \/ rows'[d] = NoRow
                              \/ Copy(rows'[d], rows[d]) /\ (rows'[d].active => rows[d].active)
                                   /\ rows'[d].isDefault = rows[d].isDefault
    BY <1>2, <2>2, <2>3
  <2>10. QED
    BY <2>1, <2>5, <2>6, <2>7, <2>8, <2>9 DEF Outside
<1>6. ASSUME NEW c \in Connection, Expire(c) \/ Withdraw(c) PROVE Outside
  <2>1. UNCHANGED <<job, rows, batch, issued, requests, crashes, lost, raced, posted, unheard>>
    BY <1>6 DEF Expire, Withdraw, table, bounds, history
  <2>2. expired' \in [Connection -> Nat]
    BY <1>1, <1>6 DEF Expire, Withdraw
  <2>3. honoured' \in [Connection -> SUBSET Nat] /\ \A d \in Connection : honoured'[d] \in {honoured[d], {}}
    BY <1>1, <1>6 DEF Expire, Withdraw
  <2>4. QED
    BY <1>1, <1>2, <2>1, <2>2, <2>3 DEF Outside
<1>7. CASE UNCHANGED vars
  BY <1>1, <1>2, <1>7 DEF vars, Outside
<1>8. QED
  BY <1>3, <1>4, <1>5, <1>6, <1>7

\* A refresh: the handler takes up the tokens of the answer.
Renews(h, refresh) ==
    /\ job' \in [Handler -> Doing] /\ Held'
    /\ \A g \in Handler : g # h => job'[g] = job[g]
    /\ job[h].pc = "loaded" /\ job'[h].pc = "answered"
    /\ job'[h].conn = job[h].conn /\ job'[h].base = job[h].base
    /\ job'[h].snap.id = job[h].snap.id /\ job'[h].snap.refresh = refresh
    /\ job[h].snap \in Row /\ job[h].base \in Row /\ job'[h].snap \in Row
    /\ job[h].snap.refresh = job[h].base.refresh
    /\ UNCHANGED <<rows, batch, expired, requests, crashes, lost, raced, posted, unheard>>

\* The provider makes one more grant for the handler's connection.
OneMore(h) == LET c == job[h].conn
              IN  /\ c \in Connection
                  /\ issued' = [issued EXCEPT ![c] = @ + 1]

LEMMA BecomeRenews ==
    ASSUME TypeInv, NEW h \in Handler, NEW access \in Nat, NEW refresh \in Nat,
           Refreshing(h), Become(h, access, refresh),
           UNCHANGED <<table, expired, bounds, history>>
    PROVE  Renews(h, refresh)
<1>1. job[h].pc = "loaded" /\ job[h].op \in Syncing \cup {"use"}
  BY DEF Refreshing, Ensuring, At
<1>2. /\ job[h] \in Doing /\ Fits(h, job[h]) /\ job[h].snap \in Row /\ job[h].base \in Row
  BY <1>1, AtWork
<1> DEFINE new == Renewed(job[h].snap, access, refresh)
           j == [job[h] EXCEPT !.pc = "answered", !.snap = new]
<1>3. /\ new \in Row /\ new.active = job[h].snap.active /\ new.isDefault = job[h].snap.isDefault
      /\ new.refresh = refresh /\ new.id = job[h].snap.id
  BY <1>2, RowsTyped, ZenonT(40) DEF Renewed, Row
<1>4. Step(h, j)
  BY DEF Become
<1> HIDE DEF new
<1>5. /\ j \in Doing /\ j.pc = "answered" /\ j.op = job[h].op /\ j.conn = job[h].conn
      /\ j.snap = new /\ j.base = job[h].base
  BY <1>2, <1>3 DEF Doing, Pc
<1> HIDE DEF j
<1>6. Fits(h, j)
  BY <1>1, <1>2, <1>3, <1>5 DEF Fits
<1>7. /\ job' \in [Handler -> Doing] /\ Held' /\ job'[h] = j
      /\ \A g \in Handler : g # h => job'[g] = job[g]
  BY <1>4, <1>5, <1>6, Stepped
<1>8. job[h].snap.refresh = job[h].base.refresh
  BY <1>1, <1>2 DEF Fits
<1>9. UNCHANGED <<rows, batch, expired, requests, crashes, lost, raced, posted, unheard>>
  BY DEF table, bounds, history
<1>10. QED
  BY <1>1, <1>2, <1>3, <1>5, <1>7, <1>8, <1>9 DEF Renews

\* What a grant is when a refresh gets one.
LEMMA GrantingFacts ==
    ASSUME TypeInv, NEW h \in Handler, Granting(h)
    PROVE  /\ Refreshing(h) /\ OneMore(h) /\ job[h].conn \notin LongLived
           /\ job[h].snap.refresh \in honoured[job[h].conn]
           /\ job[h].snap.refresh \in Nat /\ issued[job[h].conn] + 1 \in Nat
<1>1. job[h].pc # "idle"
  BY DEF Granting, Refreshing, Ensuring, At
<1>2. job[h].conn \in Connection /\ job[h].snap \in Row
  BY <1>1, AtWork
<1>3. QED
  BY <1>2 DEF Granting, OneMore, TypeInv, TypeOK, Row

\* The refreshes, each with what it does to the provider.
KeepsToken(h) == /\ Renews(h, job[h].snap.refresh) /\ OneMore(h) /\ honoured' = honoured
LongLives(h)  == /\ Renews(h, 0) /\ job[h].conn \in LongLived
                 /\ issued' = issued /\ honoured' = honoured
Rotates(h)    == LET c   == job[h].conn
                     new == issued[c] + 1
                     old == job[h].snap.refresh
                 IN  /\ Renews(h, new) /\ OneMore(h) /\ old \in honoured[c]
                     /\ \E left \in SUBSET honoured[c] :
                          /\ honoured[c] \ {old} \subseteq left
                          /\ honoured' = [honoured EXCEPT ![c] = left \cup {new}]

LEMMA RefreshSteps ==
    ASSUME TypeInv, NEW h \in Handler, Refresh(h)
    PROVE  KeepsToken(h) \/ LongLives(h) \/ Rotates(h)
<1> DEFINE c == job[h].conn
           old == job[h].snap.refresh
<1>1. CASE RefreshKeeps(h)
  <2>1. Granting(h) /\ Become(h, issued[c] + 1, old)
        /\ UNCHANGED <<table, honoured, expired, bounds, history>>
    BY <1>1 DEF RefreshKeeps
  <2>2. Refreshing(h) /\ OneMore(h) /\ old \in Nat /\ issued[c] + 1 \in Nat
    BY <2>1, GrantingFacts
  <2>3. UNCHANGED <<table, expired, bounds, history>> /\ honoured' = honoured
    BY <2>1
  <2>4. Renews(h, old)
    BY <2>1, <2>2, <2>3, BecomeRenews
  <2>5. QED
    BY <2>2, <2>3, <2>4 DEF KeepsToken
<1>2. CASE RefreshRotates(h)
  <2> DEFINE new == issued[c] + 1
  <2>1. Granting(h) /\ Become(h, new, new) /\ UNCHANGED <<table, expired, bounds, history>>
    BY <1>2 DEF RefreshRotates
  <2>2. Refreshing(h) /\ OneMore(h) /\ old \in honoured[c] /\ new \in Nat
    BY <2>1, GrantingFacts
  <2>3. Renews(h, new)
    BY <2>1, <2>2, BecomeRenews
  <2>4. PICK kept \in {{}, {old}} : honoured' = [honoured EXCEPT ![c] = (@ \ {old}) \cup kept \cup {new}]
    BY <1>2 DEF RefreshRotates
  <2> DEFINE left == (honoured[c] \ {old}) \cup kept
  <2>5. left \in SUBSET honoured[c] /\ honoured[c] \ {old} \subseteq left
    BY <2>2
  <2>6. honoured' = [honoured EXCEPT ![c] = left \cup {new}]
    BY <2>4
  <2> HIDE DEF left
  <2>7. QED
    BY <2>2, <2>3, <2>5, <2>6 DEF Rotates
<1>3. CASE RefreshLongLived(h)
  <2>1. /\ Refreshing(h) /\ c \in LongLived /\ Become(h, job[h].snap.access, 0)
        /\ UNCHANGED <<table, provider, bounds, history>>
    BY <1>3 DEF RefreshLongLived
  <2>2. job[h].snap \in Row
    BY <2>1, AtWork DEF Refreshing, Ensuring, At
  <2>3. job[h].snap.access \in Nat /\ 0 \in Nat
    BY <2>2 DEF Row
  <2>4. UNCHANGED <<table, expired, bounds, history>> /\ issued' = issued /\ honoured' = honoured
    BY <2>1 DEF provider
  <2>5. Renews(h, 0)
    BY <2>1, <2>3, <2>4, BecomeRenews
  <2>6. QED
    BY <2>1, <2>4, <2>5 DEF LongLives
<1>4. QED
  BY <1>1, <1>2, <1>3 DEF Refresh

\* A refresh whose answer is lost: there is one more grant, of which the handler
\* knows nothing, and the old token is accepted on, or the handler is orphaned.
Misses(h) ==
    LET c   == job[h].conn
        new == issued[c] + 1
        old == job[h].snap.refresh
    IN  /\ OneMore(h) /\ old \in honoured[c]
        /\ job' \in [Handler -> Doing] /\ Held'
        /\ \A g \in Handler : g # h => job'[g] = job[g]
        /\ job[h].pc = "loaded" /\ job'[h].pc \in {"refused", "orphaned"}
        /\ job'[h].conn = c /\ job'[h].base = job[h].base
        /\ Copy(job'[h].snap, job[h].snap)
        /\ \E now \in SUBSET (honoured[c] \cup {new}) :
             /\ honoured[c] \ {old} \subseteq now
             /\ honoured' = [honoured EXCEPT ![c] = now]
             /\ \/ old \in now /\ unheard' = unheard
                \/ job'[h].pc = "orphaned" /\ unheard' = unheard \cup {c}
        /\ UNCHANGED <<rows, batch, expired, requests, crashes, lost, raced, posted>>

LEMMA GiveMisses ==
    ASSUME TypeInv, NEW h \in Handler, Refreshing(h), NEW pc \in {"refused", "orphaned"}, Give(h, pc)
    PROVE  /\ job' \in [Handler -> Doing] /\ Held'
           /\ \A g \in Handler : g # h => job'[g] = job[g]
           /\ job[h].pc = "loaded" /\ job'[h].pc = pc
           /\ job'[h].conn = job[h].conn /\ job'[h].base = job[h].base
           /\ Copy(job'[h].snap, job[h].snap)
<1>1. job[h].pc = "loaded" /\ job[h].op \in Syncing \cup {"use"}
  BY DEF Refreshing, Ensuring, At
<1>2. /\ job[h] \in Doing /\ Fits(h, job[h]) /\ job[h].snap \in Row /\ job[h].base \in Row
  BY <1>1, AtWork
<1> DEFINE new == Disabled(job[h].snap)
           j == [job[h] EXCEPT !.pc = pc, !.snap = new]
<1>3. /\ new \in Row /\ ~new.active /\ new.isDefault = job[h].snap.isDefault
      /\ new.refresh = job[h].snap.refresh /\ new.id = job[h].snap.id
  BY <1>2, RowsTyped, ZenonT(40) DEF Disabled, Row
<1>4. Step(h, j)
  BY DEF Give
<1> HIDE DEF new
<1>5. /\ j \in Doing /\ j.pc = pc /\ j.op = job[h].op /\ j.conn = job[h].conn
      /\ j.snap = new /\ j.base = job[h].base
  BY <1>2, <1>3 DEF Doing, Pc
<1> HIDE DEF j
<1>6. Fits(h, j)
  BY <1>1, <1>2, <1>3, <1>5 DEF Fits
<1>7. /\ job' \in [Handler -> Doing] /\ Held' /\ job'[h] = j
      /\ \A g \in Handler : g # h => job'[g] = job[g]
  BY <1>4, <1>5, <1>6, Stepped
<1>8. QED
  BY <1>1, <1>2, <1>3, <1>5, <1>7 DEF Copy

LEMMA LostSteps ==
    ASSUME TypeInv, NEW h \in Handler, AnswerLost(h) \/ RotationLost(h)
    PROVE  Misses(h)
<1> DEFINE c == job[h].conn
           new == issued[c] + 1
           old == job[h].snap.refresh
           kept == honoured[c]
           more == honoured[c] \cup {new}
           swapped == (honoured[c] \ {old}) \cup {new}
<1>1. Granting(h)
  BY DEF AnswerLost, RotationLost
<1>2. Refreshing(h) /\ OneMore(h) /\ old \in honoured[c]
  BY <1>1, GrantingFacts
<1>3. /\ kept \in SUBSET (honoured[c] \cup {new}) /\ honoured[c] \ {old} \subseteq kept /\ old \in kept
      /\ more \in SUBSET (honoured[c] \cup {new}) /\ honoured[c] \ {old} \subseteq more /\ old \in more
      /\ swapped \in SUBSET (honoured[c] \cup {new}) /\ honoured[c] \ {old} \subseteq swapped
  BY <1>2
<1>4. honoured = [honoured EXCEPT ![c] = kept]
  BY DEF TypeInv, TypeOK
<1>5. CASE AnswerLost(h)
  <2>1. /\ Give(h, "refused")
        /\ UNCHANGED <<rows, batch, expired, requests, crashes, lost, raced, posted, unheard>>
        /\ honoured' = honoured \/ honoured' = [honoured EXCEPT ![c] = more]
    BY <1>5 DEF AnswerLost, table, bounds, history
  <2>2. \E now \in {kept, more} : honoured' = [honoured EXCEPT ![c] = now]
    BY <1>4, <2>1
  <2> HIDE DEF kept, more
  <2>3. QED
    BY <1>2, <1>3, <2>1, <2>2, GiveMisses DEF Misses
<1>6. CASE RotationLost(h)
  <2>1. /\ Give(h, "orphaned") /\ honoured' = [honoured EXCEPT ![c] = swapped]
        /\ unheard' = unheard \cup {c}
        /\ UNCHANGED <<rows, batch, expired, requests, crashes, lost, raced, posted>>
    BY <1>6 DEF RotationLost, table, bounds
  <2> HIDE DEF swapped
  <2>2. QED
    BY <1>2, <1>3, <2>1, GiveMisses DEF Misses
<1>7. QED
  BY <1>5, <1>6

\* The callback's exchange of the code for tokens.
Exchanges(h, c) ==
    LET new  == issued[c] + 1
        mine == IF c \in LongLived THEN 0 ELSE new
    IN  /\ c \in Connection /\ h \in Request
        /\ job' \in [Handler -> Doing] /\ Held'
        /\ \A g \in Handler : g # h => job'[g] = job[g]
        /\ job[h].pc = "idle" /\ job'[h].pc = "granted"
        /\ job'[h].conn = c /\ job'[h].base = job'[h].snap
        /\ job'[h].snap \in Row /\ job'[h].snap.id = new /\ job'[h].snap.access = new
        /\ job'[h].snap.refresh = mine
        /\ issued' = [issued EXCEPT ![c] = new]
        /\ honoured' = [honoured EXCEPT ![c] = @ \cup ({mine} \ {0})]
        /\ UNCHANGED <<rows, batch, expired, crashes, lost, raced, posted, unheard>>
        /\ requests' = requests + 1

LEMMA AuthenticateExchanges ==
    ASSUME TypeInv, NEW h \in Handler, NEW c \in Connection, Authenticate(h, c)
    PROVE  Exchanges(h, c)
<1> DEFINE new  == issued[c] + 1
           mine == IF c \in LongLived THEN 0 ELSE new
           snap == [id |-> new, active |-> TRUE, isDefault |-> FALSE, access |-> new,
                    refresh |-> mine, sized |-> FALSE]
           j == [op |-> "callback", pc |-> "granted", conn |-> c, snap |-> snap, base |-> snap]
<1>1. new \in Nat /\ mine \in Nat
  BY DEF TypeInv, TypeOK
<1>2. /\ snap \in Row /\ snap.id = new /\ snap.access = new /\ snap.refresh = mine
      /\ ~snap.isDefault /\ snap.active
  BY <1>1 DEF Row
<1>3. /\ h \in Request /\ job[h].pc = "idle" /\ requests' = requests + 1
      /\ issued' = [issued EXCEPT ![c] = new]
      /\ honoured' = [honoured EXCEPT ![c] = @ \cup ({mine} \ {0})]
      /\ Step(h, j)
      /\ UNCHANGED <<rows, batch, expired, crashes, lost, raced, posted, unheard>>
  BY DEF Authenticate, Resting, table, history
<1> HIDE DEF snap
<1>4. /\ j \in Doing /\ j.pc = "granted" /\ j.op = "callback" /\ j.conn = c
      /\ j.snap = snap /\ j.base = snap
  BY <1>2 DEF Doing, Pc, Op
<1> HIDE DEF j
<1>5. Fits(h, j)
  BY <1>2, <1>3, <1>4, HandlerAssumption DEF Fits
<1>6. /\ job' \in [Handler -> Doing] /\ Held' /\ job'[h] = j
      /\ \A g \in Handler : g # h => job'[g] = job[g]
  BY <1>3, <1>4, <1>5, Stepped
<1>7. QED
  BY <1>2, <1>3, <1>4, <1>6 DEF Exchanges

\* update_or_create: the row gets the new tokens, or is a new one.
Stores(h) ==
    LET c == job[h].conn
    IN  /\ c \in Connection /\ h \in Request /\ job[h].op = "callback"
        /\ job' \in [Handler -> Doing] /\ Held'
        /\ \A g \in Handler : g # h => job'[g] = job[g]
        /\ job[h].pc = "granted" /\ job'[h].pc = "connected" /\ job'[h].conn = c
        /\ job[h].snap \in Row
        /\ job'[h].snap = rows'[c] /\ job'[h].base = rows'[c]
        /\ rows' \in Tables /\ rows'[c] \in Row
        /\ \A d \in Connection : d # c => rows'[d] = rows[d]
        /\ rows'[c].refresh = job[h].snap.refresh
        /\ rows'[c].id = IF rows[c] = NoRow THEN job[h].snap.id ELSE rows[c].id
        /\ rows'[c].isDefault => rows[c] # NoRow /\ rows[c].isDefault
        /\ lost' = lost \cup IF issued[c] > job[h].snap.access THEN {"refresh"} ELSE {}
        /\ UNCHANGED <<batch, issued, honoured, expired, requests, crashes, raced, posted, unheard>>

LEMMA ConnectStores ==
    ASSUME TypeInv, NEW h \in Handler, Connect(h)
    PROVE  Stores(h)
<1> DEFINE c    == job[h].conn
           snap == job[h].snap
           row  == IF rows[c] = NoRow THEN snap
                   ELSE [rows[c] EXCEPT !.access = snap.access, !.refresh = snap.refresh,
                                        !.active = TRUE]
           j == [job[h] EXCEPT !.pc = "connected", !.snap = row, !.base = row]
<1>1. job[h].pc = "granted"
  BY DEF Connect, At
<1>2. /\ job[h] \in Doing /\ Fits(h, job[h]) /\ snap \in Row /\ c \in Connection
  BY <1>1, AtWork
<1>3. job[h].op = "callback" /\ ~snap.isDefault /\ h \in Request
  BY <1>1, <1>2 DEF Fits, Handler
<1>4. rows \in Tables /\ (rows[c] = NoRow \/ rows[c] \in Row)
  BY <1>2 DEF TypeInv, TypeOK, Tables
<1>5. /\ row \in Row /\ row.refresh = snap.refresh
      /\ row.id = IF rows[c] = NoRow THEN snap.id ELSE rows[c].id
      /\ row.isDefault => rows[c] # NoRow /\ rows[c].isDefault
  <2>1. CASE rows[c] = NoRow
    BY <1>2, <1>3, <2>1
  <2>2. CASE rows[c] # NoRow
    <3>1. rows[c] \in Row
      BY <1>4, <2>2
    <3>2. QED
      BY <1>2, <2>2, <3>1 DEF Row
  <2>3. QED
    BY <2>1, <2>2
<1>6. /\ rows' = [rows EXCEPT ![c] = row] /\ Step(h, j)
      /\ lost' = lost \cup IF issued[c] > snap.access THEN {"refresh"} ELSE {}
      /\ UNCHANGED <<batch, issued, honoured, expired, requests, crashes, raced, posted, unheard>>
  BY DEF Connect, provider, bounds
<1> HIDE DEF row
<1>7. /\ j \in Doing /\ j.pc = "connected" /\ j.op = job[h].op /\ j.conn = c
      /\ j.snap = row /\ j.base = row
  BY <1>2, <1>5 DEF Doing, Pc
<1> HIDE DEF j
<1>8. Fits(h, j)
  BY <1>1, <1>2, <1>3, <1>5, <1>7, HandlerAssumption DEF Fits
<1>9. /\ job' \in [Handler -> Doing] /\ Held' /\ job'[h] = j
      /\ \A g \in Handler : g # h => job'[g] = job[g]
  BY <1>5, <1>6, <1>7, <1>8, Stepped
<1>10. rows' \in Tables /\ rows'[c] = row /\ \A d \in Connection : d # c => rows'[d] = rows[d]
  BY <1>2, <1>4, <1>5, <1>6 DEF Tables
<1>11. QED
  BY <1>1, <1>2, <1>3, <1>5, <1>6, <1>7, <1>9, <1>10 DEF Stores

--------------------------------------------------------------------------
(* Types *)

\* What kinds of step there are.
Passing  == \E h \in Handler : Tame(h) /\ raced' \in BOOLEAN
Fetching == \E h \in Handler, c \in Connection, row \in Row : Fetch(h, c, row)

LEMMA ServeKinds ==
    ASSUME TypeInv, NEW h \in Handler, Serve(h)
    PROVE  \/ Tame(h) /\ raced' \in BOOLEAN
           \/ KeepsToken(h) \/ LongLives(h) \/ Rotates(h) \/ Misses(h) \/ Stores(h)
<1>1. raced \in BOOLEAN
  BY DEF TypeInv, TypeOK
<1>2. CASE StillValid(h)
  <2>1. raced' = raced
    BY <1>2 DEF StillValid, history
  <2>2. QED
    BY <1>1, <1>2, <2>1, StillValidIsTame
<1>3. CASE Refresh(h)
  BY <1>3, RefreshSteps
<1>4. CASE RefreshFails(h)
  <2>1. raced' = raced
    BY <1>4 DEF RefreshFails, history
  <2>2. QED
    BY <1>1, <1>4, <2>1, RefreshFailsIsTame
<1>5. CASE SaveTokens(h)
  <2>1. raced' = raced
    BY <1>5 DEF SaveTokens
  <2>2. QED
    BY <1>1, <1>5, <2>1, SaveTokensIsTame
<1>6. CASE SaveDisabled(h)
  <2>1. raced' = raced
    BY <1>6 DEF SaveDisabled
  <2>2. QED
    BY <1>1, <1>6, <2>1, SaveDisabledIsTame
<1>7. CASE Quote(h)
  <2>1. raced' = raced
    BY <1>7 DEF Quote, history
  <2>2. QED
    BY <1>1, <1>7, <2>1, QuoteIsTame
<1>8. CASE Leave(h)
  <2>1. raced' = raced
    BY <1>8 DEF Leave, history
  <2>2. QED
    BY <1>1, <1>8, <2>1, LeaveIsTame
<1>9. CASE StoreQuota(h) \/ Disconnect(h)
  <2>1. raced' = raced
    BY <1>9 DEF StoreQuota, Disconnect
  <2>2. QED
    BY <1>1, <1>9, <2>1, StoreQuotaIsTame
<1>10. CASE StoreQuotaOnly(h)
  <2>1. raced' = raced
    BY <1>10 DEF StoreQuotaOnly, history
  <2>2. QED
    BY <1>1, <1>10, <2>1, StoreQuotaOnlyIsTame
<1>11. CASE ClearDefault(h)
  <2>1. raced' \in BOOLEAN
    BY <1>1, <1>11, Zenon DEF ClearDefault
  <2>2. QED
    BY <1>1, <1>11, <2>1, ClearDefaultIsTame
<1>12. CASE SaveDefault(h)
  <2>1. raced' = raced
    BY <1>12 DEF SaveDefault
  <2>2. QED
    BY <1>1, <1>12, <2>1, SaveDefaultIsTame
<1>13. CASE Connect(h)
  BY <1>13, ConnectStores
<1>14. CASE CheckDefault(h)
  <2>1. raced' \in BOOLEAN
    BY <1>1, <1>14, Zenon DEF CheckDefault
  <2>2. QED
    BY <1>1, <1>14, <2>1, CheckDefaultIsTame
<1>15. CASE SaveRaises(h)
  <2>1. raced' = raced
    BY <1>15 DEF SaveRaises, history
  <2>2. QED
    BY <1>1, <1>15, <2>1, SaveRaisesIsTame
<1>16. ASSUME NEW active \in BOOLEAN \cup {Keep}, NEW isDefault \in BOOLEAN \cup {Keep},
              Patch(h, active, isDefault)
       PROVE  Tame(h) /\ raced' \in BOOLEAN
  <2>1. raced' = raced
    BY <1>16 DEF Patch
  <2>2. QED
    BY <1>1, <1>16, <2>1, PatchIsTame
<1>17. CASE AnswerLost(h) \/ RotationLost(h)
  BY <1>17, LostSteps
<1>18. QED
  BY <1>2, <1>3, <1>4, <1>5, <1>6, <1>7, <1>8, <1>9, <1>10, <1>11, <1>12, <1>13, <1>14,
     <1>15, <1>16, <1>17, Zenon DEF Serve, Ensure

LEMMA NextKinds ==
    ASSUME TypeInv, [Next]_vars
    PROVE  \/ Passing \/ Fetching \/ Outside
           \/ \E h \in Handler : KeepsToken(h) \/ LongLives(h) \/ Rotates(h) \/ Misses(h) \/ Stores(h)
           \/ \E h \in Handler, c \in Connection : Exchanges(h, c)
<1>1. Request \subseteq Handler /\ Hourly \in Handler
  BY DEF Handler
<1>2. ASSUME NEW h \in Handler, Serve(h)
      PROVE  Passing \/ KeepsToken(h) \/ LongLives(h) \/ Rotates(h) \/ Misses(h) \/ Stores(h)
  BY <1>2, ServeKinds, Zenon DEF Passing
<1>3. ASSUME NEW h \in Handler, NEW c \in Connection,
             NEW op \in Op \ {"none", "hourly", "callback"}, Begin(h, op, c)
      PROVE  Fetching
  <2>1. Fetch(h, c, rows[c])
    BY <1>3, BeginFetches
  <2>2. rows[c] \in Row
    BY <2>1 DEF Fetch
  <2>3. QED
    BY <2>1, <2>2, Zenon DEF Fetching
<1>4. ASSUME NEW c \in Connection, TakeNext(c)
      PROVE  Fetching
  <2>1. Fetch(Hourly, c, batch[c])
    BY <1>4, TakeNextFetches
  <2>2. batch[c] \in Row
    BY <2>1 DEF Fetch
  <2>3. QED
    BY <1>1, <2>1, <2>2, Zenon DEF Fetching
<1>5. ASSUME NEW h \in Handler, NEW c \in Connection, Authenticate(h, c)
      PROVE  Exchanges(h, c)
  BY <1>5, AuthenticateExchanges
<1>6. ASSUME StoreQuotaHourly
      PROVE  Passing
  <2>1. raced' \in BOOLEAN
    BY <1>6 DEF StoreQuotaHourly, history, TypeInv, TypeOK
  <2>2. Tame(Hourly)
    BY <1>1, <1>6, LeaveIsTame
  <2>3. QED
    BY <1>1, <2>1, <2>2, Zenon DEF Passing
<1>7. ASSUME NEW h \in Handler, Crash(h)
      PROVE  Passing
  <2>1. raced' \in BOOLEAN
    BY <1>7 DEF Crash, TypeInv, TypeOK
  <2>2. Tame(h)
    BY <1>7, CrashIsTame
  <2>3. QED
    BY <2>1, <2>2, Zenon DEF Passing
<1>8. ASSUME NEW c \in Connection, Destroy(c) \/ ForceDisable(c) \/ Expire(c) \/ Withdraw(c)
      PROVE  Outside
  BY <1>8, OutsideSteps
<1>9. ASSUME LoadBatch \/ UNCHANGED vars PROVE Outside
  BY <1>9, OutsideSteps
<1>10. ASSUME Arrive
       PROVE  Fetching \/ Outside \/ \E h \in Handler, c \in Connection : Exchanges(h, c)
  BY <1>1, <1>3, <1>5, <1>8, <1>10, Zenon DEF Arrive
<1>11. ASSUME RunHourly
       PROVE  \/ Passing \/ Fetching \/ Outside
              \/ \E h \in Handler : KeepsToken(h) \/ LongLives(h) \/ Rotates(h) \/ Misses(h) \/ Stores(h)
  BY <1>1, <1>2, <1>4, <1>6, <1>9, <1>11, Zenon DEF RunHourly
<1>12. QED
  BY <1>1, <1>2, <1>7, <1>8, <1>9, <1>10, <1>11, Zenon DEF Next

\* A table of numbers after one entry moved on.
LEMMA OneMoreFacts ==
    ASSUME NEW c \in Connection, issued \in [Connection -> Nat],
           issued' = [issued EXCEPT ![c] = @ + 1]
    PROVE  /\ issued' \in [Connection -> Nat] /\ issued'[c] = issued[c] + 1
           /\ \A d \in Connection : d # c => issued'[d] = issued[d]
OBVIOUS

\* The accepted tokens after one entry changed.
LEMMA HonouredFacts ==
    ASSUME NEW c \in Connection, honoured \in [Connection -> SUBSET Nat],
           NEW new \in SUBSET Nat, honoured' = [honoured EXCEPT ![c] = new]
    PROVE  /\ honoured' \in [Connection -> SUBSET Nat] /\ honoured'[c] = new
           /\ \A d \in Connection : d # c => honoured'[d] = honoured[d]
OBVIOUS

\* No step spoils a type, or the bookkeeping of the instance in memory.
LEMMA NextKeepsTypes ==
    ASSUME TypeInv, [Next]_vars
    PROVE  TypeInv'
<1>1. /\ rows \in Tables /\ batch \in Tables /\ issued \in [Connection -> Nat]
      /\ honoured \in [Connection -> SUBSET Nat] /\ expired \in [Connection -> Nat]
      /\ \A d \in Connection : honoured[d] \subseteq 1 .. issued[d]
      /\ requests \in Nat /\ crashes \in Nat /\ lost \subseteq Column
      /\ raced \in BOOLEAN /\ posted \subseteq Flags /\ unheard \subseteq Connection
  BY DEF TypeInv, TypeOK, Tables, Flags
<1>2. CASE Passing
  BY <1>2, TameKeepsTypes DEF Passing
<1>3. CASE Fetching
  BY <1>1, <1>3 DEF Fetching, Fetch, TypeInv, TypeOK, Tables
<1>4. CASE Outside
  <2>1. \A d \in Connection : honoured'[d] \subseteq 1 .. issued'[d]
    BY <1>1, <1>4 DEF Outside
  <2>2. Held' /\ job' \in [Handler -> Doing]
    BY <1>4 DEF Outside, TypeInv, TypeOK, Held
  <2>3. QED
    BY <1>1, <1>4, <2>1, <2>2 DEF Outside, TypeInv, TypeOK, Tables
<1>5. ASSUME NEW h \in Handler, KeepsToken(h) PROVE TypeInv'
  <2> DEFINE c == job[h].conn
  <2>1. c \in Connection /\ issued' = [issued EXCEPT ![c] = @ + 1] /\ honoured' = honoured
    BY <1>5 DEF KeepsToken, OneMore
  <2> HIDE DEF c
  <2>2. /\ issued' \in [Connection -> Nat] /\ issued'[c] = issued[c] + 1
        /\ \A d \in Connection : d # c => issued'[d] = issued[d]
    BY <1>1, <2>1, OneMoreFacts
  <2>3. \A d \in Connection : honoured'[d] \subseteq 1 .. issued'[d]
    BY <1>1, <2>1, <2>2
  <2>4. QED
    BY <1>1, <1>5, <2>1, <2>2, <2>3 DEF KeepsToken, Renews, TypeInv, TypeOK, Tables
<1>6. ASSUME NEW h \in Handler, LongLives(h) PROVE TypeInv'
  BY <1>1, <1>6 DEF LongLives, Renews, TypeInv, TypeOK, Tables
<1>7. ASSUME NEW h \in Handler, Rotates(h) PROVE TypeInv'
  <2> DEFINE c == job[h].conn
             new == issued[c] + 1
  <2>1. c \in Connection /\ issued' = [issued EXCEPT ![c] = @ + 1]
    BY <1>7 DEF Rotates, OneMore
  <2>2. PICK left \in SUBSET honoured[c] : honoured' = [honoured EXCEPT ![c] = left \cup {new}]
    BY <1>7 DEF Rotates
  <2>3. new \in Nat \ {0}
    BY <1>1, <2>1
  <2> HIDE DEF c
  <2>4. /\ issued' \in [Connection -> Nat] /\ issued'[c] = new
        /\ \A d \in Connection : d # c => issued'[d] = issued[d]
    BY <1>1, <2>1, OneMoreFacts
  <2>5. left \cup {new} \in SUBSET Nat
    BY <1>1, <2>1, <2>2, <2>3
  <2> DEFINE now == left \cup {new}
  <2>6. now \subseteq 1 .. new
    <3>1. left \subseteq 1 .. issued[c] /\ issued[c] \in Nat
      BY <1>1, <2>1
    <3>2. \A t \in left : t \in 1 .. new
      BY <3>1
    <3>3. QED
      BY <2>3, <3>2
  <2>7. honoured' = [honoured EXCEPT ![c] = now] /\ now \in SUBSET Nat
    BY <2>2, <2>5
  <2> HIDE DEF now, new
  <2>8. /\ honoured' \in [Connection -> SUBSET Nat] /\ honoured'[c] = now
        /\ \A d \in Connection : d # c => honoured'[d] = honoured[d]
    BY <1>1, <2>1, <2>7, HonouredFacts
  <2>9. \A d \in Connection : honoured'[d] \subseteq 1 .. issued'[d]
    BY <1>1, <2>4, <2>6, <2>8
  <2>10. QED
    BY <1>1, <1>7, <2>1, <2>4, <2>8, <2>9 DEF Rotates, Renews, TypeInv, TypeOK, Tables
<1>8. ASSUME NEW h \in Handler, Misses(h) PROVE TypeInv'
  <2> DEFINE c == job[h].conn
             new == issued[c] + 1
  <2>1. c \in Connection /\ issued' = [issued EXCEPT ![c] = @ + 1] /\ unheard' \subseteq unheard \cup {c}
    BY <1>8 DEF Misses, OneMore
  <2>2. PICK now \in SUBSET (honoured[c] \cup {new}) : honoured' = [honoured EXCEPT ![c] = now]
    BY <1>8 DEF Misses
  <2>3. new \in Nat \ {0} /\ issued[c] \in Nat /\ honoured[c] \subseteq 1 .. issued[c]
    BY <1>1, <2>1
  <2> HIDE DEF c
  <2>4. /\ issued' \in [Connection -> Nat] /\ issued'[c] = new
        /\ \A d \in Connection : d # c => issued'[d] = issued[d]
    BY <1>1, <2>1, OneMoreFacts
  <2>5. now \in SUBSET Nat /\ now \subseteq 1 .. new
    BY <2>2, <2>3
  <2> HIDE DEF new
  <2>6. /\ honoured' \in [Connection -> SUBSET Nat] /\ honoured'[c] = now
        /\ \A d \in Connection : d # c => honoured'[d] = honoured[d]
    BY <1>1, <2>1, <2>2, <2>5, HonouredFacts
  <2>7. \A d \in Connection : honoured'[d] \subseteq 1 .. issued'[d]
    BY <1>1, <2>4, <2>5, <2>6
  <2>8. unheard' \subseteq Connection
    BY <1>1, <2>1
  <2>9. QED
    BY <1>1, <1>8, <2>4, <2>6, <2>7, <2>8 DEF Misses, TypeInv, TypeOK, Tables, Flags
<1>9. ASSUME NEW h \in Handler, Stores(h) PROVE TypeInv'
  <2>1. lost' \subseteq Column
    BY <1>1, <1>9 DEF Stores, Column
  <2>2. QED
    BY <1>1, <1>9, <2>1 DEF Stores, TypeInv, TypeOK, Tables
<1>10. ASSUME NEW h \in Handler, NEW c \in Connection, Exchanges(h, c) PROVE TypeInv'
  <2> DEFINE new  == issued[c] + 1
             mine == IF c \in LongLived THEN 0 ELSE new
             now  == honoured[c] \cup ({mine} \ {0})
  <2>1. issued' = [issued EXCEPT ![c] = @ + 1] /\ honoured' = [honoured EXCEPT ![c] = now]
    BY <1>10 DEF Exchanges
  <2>2. new \in Nat \ {0}
    BY <1>1
  <2>3. /\ issued' \in [Connection -> Nat] /\ issued'[c] = new
        /\ \A d \in Connection : d # c => issued'[d] = issued[d]
    BY <1>1, <2>1, OneMoreFacts
  <2>4. now \in SUBSET Nat /\ now \subseteq 1 .. new
    BY <1>1, <2>2
  <2> HIDE DEF now, new
  <2>5. /\ honoured' \in [Connection -> SUBSET Nat] /\ honoured'[c] = now
        /\ \A d \in Connection : d # c => honoured'[d] = honoured[d]
    BY <1>1, <2>1, <2>4, HonouredFacts
  <2>6. \A d \in Connection : honoured'[d] \subseteq 1 .. issued'[d]
    BY <1>1, <2>3, <2>4, <2>5
  <2>7. requests' \in Nat
    BY <1>1, <1>10 DEF Exchanges
  <2>8. QED
    BY <1>1, <1>10, <2>3, <2>5, <2>6, <2>7 DEF Exchanges, TypeInv, TypeOK, Tables
<1>11. QED
  BY <1>2, <1>3, <1>4, <1>5, <1>6, <1>7, <1>8, <1>9, <1>10, NextKinds, Zenon

LEMMA InitTypes == Init => TypeInv
<1> SUFFICES ASSUME Init PROVE TypeInv
  OBVIOUS
<1>1. PICK c \in Connection : c = CHOOSE d \in Connection : TRUE
  BY KindAssumption
<1>2. job = [h \in Handler |-> Idle(c)]
  BY <1>1 DEF Init
<1>3. job \in [Handler -> Doing] /\ Held
  BY <1>2, IdleTyped DEF Held
<1>4. QED
  BY <1>3 DEF Init, TypeInv, TypeOK

\* Every variable keeps its type: no handler works on a row that is not one,
\* whatever is deleted, reconnected or killed meanwhile.
THEOREM TypesOK == Spec => []TypeOK
<1>1. Init => TypeInv
  BY InitTypes
<1>2. TypeInv /\ [Next]_vars => TypeInv'
  BY NextKeepsTypes
<1>3. TypeInv => TypeOK
  BY DEF TypeInv
<1>4. QED
  BY <1>1, <1>2, <1>3, PTL DEF Spec

--------------------------------------------------------------------------
(* Switched off *)

\* What a step does to the flag of a connection.
SwitchesOn(c) == /\ rows[c] # NoRow /\ rows'[c] # NoRow
                 /\ ~rows[c].active /\ rows'[c].active /\ "active" \notin lost'
StaysOff == \A c \in Connection : SwitchesOn(c) =>
                \E h \in Request : job[h].conn = c /\ job[h].op \in {"callback", "patch"}

LEMMA NextStaysOff ==
    ASSUME TypeInv, [Next]_vars
    PROVE  StaysOff
<1>1. ASSUME NEW h \in Handler, Tame(h) PROVE StaysOff
  BY <1>1, Zenon DEF Tame, Switches, StaysOff, SwitchesOn
<1>2. CASE Passing
  BY <1>1, <1>2, Zenon DEF Passing
<1>3. CASE Fetching
  BY <1>3 DEF Fetching, Fetch, StaysOff, SwitchesOn
<1>4. CASE Outside
  BY <1>4 DEF Outside, StaysOff, SwitchesOn
<1>5. ASSUME NEW h \in Handler, KeepsToken(h) \/ LongLives(h) \/ Rotates(h) \/ Misses(h)
      PROVE  StaysOff
  BY <1>5 DEF KeepsToken, LongLives, Rotates, Renews, Misses, StaysOff, SwitchesOn
<1>6. ASSUME NEW h \in Handler, Stores(h) PROVE StaysOff
  BY <1>6 DEF Stores, StaysOff, SwitchesOn
<1>7. ASSUME NEW h \in Handler, NEW c \in Connection, Exchanges(h, c) PROVE StaysOff
  BY <1>7 DEF Exchanges, StaysOff, SwitchesOn
<1>8. QED
  BY <1>2, <1>3, <1>4, <1>5, <1>6, <1>7, NextKinds, Zenon

\* A connection that was switched off comes back only through its owner, or
\* through a save that overwrites the flag with the one it read earlier: the
\* instance in memory is active only when the row was, as it was last seen.
THEOREM SwitchedOffStaysOff == Spec => OffStaysOff
<1>1. Init => TypeInv
  BY InitTypes
<1>2. TypeInv /\ [Next]_vars => TypeInv'
  BY NextKeepsTypes
<1>3. ASSUME TypeInv, [Next]_vars
      PROVE  \A c \in Connection :
                /\ rows[c] # NoRow /\ rows'[c] # NoRow
                /\ ~rows[c].active /\ rows'[c].active /\ "active" \notin lost'
                => \E h \in Request : job[h].conn = c /\ job[h].op \in {"callback", "patch"}
  BY <1>3, NextStaysOff DEF StaysOff, SwitchesOn
<1>4. QED
  BY <1>1, <1>2, <1>3, PTL DEF Spec, OffStaysOff

--------------------------------------------------------------------------
(* One default *)

\* The handlers that promote, and what is the default, only become fewer.
Quieter == /\ Calm' => Calm
           /\ Calm' => \A h \in Handler : h \in Promoting' => h \in Promoting
           /\ Calm' => \A c \in Connection : IsDefault(c)' => IsDefault(c)

LEMMA QuietKeepsOne ==
    ASSUME OnePromotion, Quieter
    PROVE  OnePromotion'
<1> SUFFICES ASSUME Calm'
             PROVE  /\ \A g, h \in Promoting' : g = h
                    /\ Promoting' # {} => \A c \in Connection : ~IsDefault(c)'
                    /\ \A c, d \in Connection : IsDefault(c)' /\ IsDefault(d)' => c = d
  BY Zenon DEF OnePromotion
<1>1. Calm /\ Promoting' \subseteq Promoting
  BY DEF Quieter, Promoting
<1>2. \A c \in Connection : IsDefault(c)' => IsDefault(c)
  BY DEF Quieter
<1>3. /\ \A g, h \in Promoting : g = h
      /\ Promoting # {} => \A c \in Connection : ~IsDefault(c)
      /\ \A c, d \in Connection : IsDefault(c) /\ IsDefault(d) => c = d
  BY <1>1 DEF OnePromotion
<1>4. QED
  BY <1>1, <1>2, <1>3

\* A handler that goes on without promoting, and a row without a flag it had not.
LEMMA SavesQuietly ==
    ASSUME TypeInv, NEW h \in Handler, job[h].pc # "idle", NEW new \in Row, Save(h, new),
           \A g \in Handler : g # h => job'[g] = job[g],
           job'[h].pc \notin {"cleared", "promoting"},
           new.isDefault => job[h].base.isDefault,
           raced' = raced, posted \subseteq posted'
    PROVE  Quieter
<1> DEFINE c == job[h].conn
<1>1. /\ c \in Connection /\ rows'[c] = new /\ \A d \in Connection : d # c => rows'[d] = rows[d]
      /\ lost \subseteq lost'
      /\ "isDefault" \notin lost' => rows[c] # NoRow /\ rows[c].isDefault = job[h].base.isDefault
  BY SaveFacts DEF Column
<1>2. Calm' => Calm
  BY <1>1 DEF Calm
<1>3. \A g \in Handler : g \in Promoting' => g \in Promoting
  BY DEF Promoting
<1>4. Calm' => \A d \in Connection : IsDefault(d)' => IsDefault(d)
  BY <1>1 DEF Calm, IsDefault
<1>5. QED
  BY <1>2, <1>3, <1>4 DEF Quieter

\* A step that writes no flag.
LEMMA MovesQuietly ==
    ASSUME NEW h \in Handler, \A g \in Handler : g # h => job'[g] = job[g],
           job'[h].pc \notin {"cleared", "promoting"},
           \A c \in Connection : IsDefault(c)' => IsDefault(c),
           lost \subseteq lost', raced' = raced, posted \subseteq posted'
    PROVE  Quieter
<1>1. Calm' => Calm
  BY DEF Calm
<1>2. \A g \in Handler : g \in Promoting' => g \in Promoting
  BY DEF Promoting
<1>3. QED
  BY <1>1, <1>2 DEF Quieter

\* A handler's step leaves the others alone.
LEMMA Moved ==
    ASSUME TypeInv, NEW h \in Handler, NEW j, Step(h, j)
    PROVE  job'[h] = j /\ \A g \in Handler : g # h => job'[g] = job[g]
BY DEF TypeInv, TypeOK, Step

LEMMA Ended ==
    ASSUME TypeInv, NEW h \in Handler, Done(h)
    PROVE  job'[h].pc = "idle" /\ \A g \in Handler : g # h => job'[g] = job[g]
BY Finished

\* Steps of a handler that save nothing.
LEMMA WorkIsQuiet ==
    ASSUME TypeInv, NEW h \in Handler,
           \/ StillValid(h) \/ RefreshFails(h) \/ Quote(h) \/ Leave(h) \/ StoreQuotaOnly(h)
           \/ SaveRaises(h) \/ Crash(h) \/ (h = Hourly /\ StoreQuotaHourly)
    PROVE  Quieter
<1>1. raced' = raced /\ posted' = posted /\ lost \subseteq lost'
  BY DEF StillValid, RefreshFails, Quote, Leave, StoreQuotaOnly, SaveRaises, Crash,
         StoreQuotaHourly, history
<1>2. /\ job'[h].pc \notin {"cleared", "promoting"}
      /\ \A g \in Handler : g # h => job'[g] = job[g]
  <2>1. CASE StillValid(h)
    <3>1. Step(h, [job[h] EXCEPT !.pc = "ensured"]) /\ job[h].pc = "loaded"
      BY <2>1 DEF StillValid, Ensuring, At
    <3>2. [job[h] EXCEPT !.pc = "ensured"].pc = "ensured"
      BY <3>1, AtWork DEF Doing
    <3>3. QED
      BY <3>1, <3>2, Moved
  <2>2. CASE RefreshFails(h)
    <3>1. Step(h, [job[h] EXCEPT !.pc = "refused", !.snap = Disabled(@)]) /\ job[h].pc = "loaded"
      BY <2>2 DEF RefreshFails, Give, Refreshing, Ensuring, At
    <3>2. [job[h] EXCEPT !.pc = "refused", !.snap = Disabled(@)].pc = "refused"
      BY <3>1, AtWork DEF Doing
    <3>3. QED
      BY <3>1, <3>2, Moved
  <2>3. CASE Quote(h)
    <3>1. Step(h, [job[h] EXCEPT !.pc = "quoted", !.snap.sized = TRUE]) /\ job[h].pc = "ensured"
      BY <2>3 DEF Quote, At
    <3>2. [job[h] EXCEPT !.pc = "quoted", !.snap.sized = TRUE].pc = "quoted"
      BY <3>1, AtWork DEF Doing
    <3>3. QED
      BY <3>1, <3>2, Moved
  <2>4. CASE Leave(h) \/ StoreQuotaOnly(h) \/ SaveRaises(h) \/ Crash(h) \/ (h = Hourly /\ StoreQuotaHourly)
    BY <2>4, Ended DEF Leave, StoreQuotaOnly, SaveRaises, Crash, StoreQuotaHourly
  <2>5. QED
    BY <2>1, <2>2, <2>3, <2>4
<1>3. \A c \in Connection : IsDefault(c)' => IsDefault(c)
  <2>1. CASE StoreQuotaOnly(h)
    <3>1. \/ rows' = rows
          \/ rows[job[h].conn] # NoRow /\ rows' = [rows EXCEPT ![job[h].conn].sized = TRUE]
      BY <2>1 DEF StoreQuotaOnly
    <3>2. \A r \in Row : [r EXCEPT !.sized = TRUE].isDefault = r.isDefault
      BY DEF Row
    <3>3. \A c \in Connection : rows[c] \in Row \cup {NoRow}
      BY DEF TypeInv, TypeOK
    <3>4. ASSUME NEW c \in Connection, rows[job[h].conn] # NoRow,
                 rows' = [rows EXCEPT ![job[h].conn].sized = TRUE]
          PROVE  rows'[c] = rows[c] \/ (rows[c] \in Row /\ rows'[c] = [rows[c] EXCEPT !.sized = TRUE])
      BY <3>3, <3>4 DEF TypeInv, TypeOK
    <3>5. QED
      BY <3>1, <3>2, <3>4, SentinelAssumption DEF IsDefault
  <2>2. CASE ~StoreQuotaOnly(h)
    <3>1. rows' = rows
      BY <2>2 DEF StillValid, RefreshFails, Quote, Leave, SaveRaises, Crash, StoreQuotaHourly, table
    <3>2. QED
      BY <3>1 DEF IsDefault
  <2>3. QED
    BY <2>1, <2>2
<1>4. QED
  BY <1>1, <1>2, <1>3, MovesQuietly

\* Whole-row saves that set no flag.
LEMMA SavingIsQuiet ==
    ASSUME TypeInv, NEW h \in Handler,
           SaveTokens(h) \/ SaveDisabled(h) \/ StoreQuota(h) \/ Disconnect(h)
    PROVE  Quieter
<1>1. job[h].pc \in {"answered", "refused", "orphaned", "quoted", "loaded"}
  BY DEF SaveTokens, SaveDisabled, StoreQuota, Disconnect, At
<1>2. /\ job[h] \in Doing /\ Fits(h, job[h]) /\ job[h].snap \in Row
  BY <1>1, AtWork
<1>3. job[h].snap.isDefault = job[h].base.isDefault
  BY <1>1, <1>2 DEF Fits
<1>4. /\ Disabled(job[h].snap) \in Row
      /\ Disabled(job[h].snap).isDefault = job[h].snap.isDefault
  BY <1>2 DEF Disabled, Row
<1>5. Save(h, job[h].snap) \/ Save(h, Disabled(job[h].snap))
  BY DEF SaveTokens, SaveDisabled, StoreQuota, Disconnect
<1>6. /\ job'[h].pc \notin {"cleared", "promoting"}
      /\ \A g \in Handler : g # h => job'[g] = job[g]
  <2> DEFINE j == [job[h] EXCEPT !.pc = "ensured", !.base = job[h].snap]
  <2>1. Step(h, j) \/ Done(h)
    BY DEF SaveTokens, SaveDisabled, StoreQuota, Disconnect
  <2>2. j.pc = "ensured"
    BY <1>2 DEF Doing
  <2> HIDE DEF j
  <2>3. QED
    BY <2>1, <2>2, Moved, Ended
<1>7. raced' = raced /\ posted' = posted
  BY DEF SaveTokens, SaveDisabled, StoreQuota, Disconnect
<1>8. QED
  BY <1>1, <1>2, <1>3, <1>4, <1>5, <1>6, <1>7, SavesQuietly

\* A PATCH of the flag is recorded.
LEMMA PatchKeepsOne ==
    ASSUME TypeInv, NEW h \in Handler, NEW active \in BOOLEAN \cup {Keep},
           NEW isDefault \in BOOLEAN \cup {Keep}, Patch(h, active, isDefault), OnePromotion
    PROVE  OnePromotion'
<1> DEFINE new == [job[h].snap EXCEPT !.active = Posted(active, @),
                                      !.isDefault = Posted(isDefault, @)]
<1>1. job[h].pc = "loaded" /\ Done(h)
  BY DEF Patch, At
<1>2. job[h] \in Doing /\ Fits(h, job[h]) /\ job[h].snap \in Row
  BY <1>1, AtWork
<1>3. Save(h, new) /\ raced' = raced /\ posted' = posted \cup {f \in Flags : new[f] /\ ~job[h].snap[f]}
  BY DEF Patch, Flags
<1>4. new \in Row
  BY <1>2, SentinelAssumption DEF Posted, Row
<1>5. job[h].snap.isDefault = job[h].base.isDefault
  BY <1>1, <1>2 DEF Fits
<1> HIDE DEF new
<1>6. CASE "isDefault" \in posted'
  BY <1>6 DEF OnePromotion, Calm
<1>7. CASE "isDefault" \notin posted'
  <2>1. new.isDefault => job[h].base.isDefault
    BY <1>3, <1>5, <1>7 DEF Flags
  <2>2. /\ job'[h].pc \notin {"cleared", "promoting"}
        /\ \A g \in Handler : g # h => job'[g] = job[g]
    BY <1>1, Ended
  <2>3. Quieter
    BY <1>1, <1>3, <1>4, <2>1, <2>2, SavesQuietly
  <2>4. QED
    BY <2>3, QuietKeepsOne
<1>8. QED
  BY <1>6, <1>7

\* The promotions. The flag is cleared, or found clear, while nobody else
\* promotes, and set by the one handler that does.
LEMMA ClearKeepsOne ==
    ASSUME TypeInv, NEW h \in Handler, ClearDefault(h), OnePromotion
    PROVE  OnePromotion'
<1> SUFFICES ASSUME Calm'
             PROVE  /\ \A g \in Handler : g \in Promoting' => g = h
                    /\ \A c \in Connection : ~IsDefault(c)'
  BY DEF OnePromotion, Promoting
<1>1. rows' = WithoutDefault(rows, job[h].conn) /\ lost' = lost /\ posted' = posted
  BY DEF ClearDefault
<1>2. raced' = (raced \/ Promoting # {})
  BY DEF ClearDefault
<1>3. Promoting = {}
  BY <1>2, Zenon DEF Calm
<1>4. \A g \in Handler : g # h => job'[g] = job[g]
  BY Moved DEF ClearDefault
<1>5. \A c \in Connection : ~IsDefault(c)'
  BY <1>1, WithoutDefaultTyped DEF IsDefault
<1>6. QED
  BY <1>3, <1>4, <1>5 DEF Promoting

LEMMA SetKeepsOne ==
    ASSUME TypeInv, NEW h \in Handler, SaveDefault(h), OnePromotion
    PROVE  OnePromotion'
<1> DEFINE c == job[h].conn
           new == [job[h].snap EXCEPT !.isDefault = TRUE]
<1>1. job[h].pc \in {"cleared", "promoting"} /\ Done(h) /\ Save(h, new)
      /\ raced' = raced /\ posted' = posted
  BY DEF SaveDefault
<1>2. new \in Row
  BY <1>1, AtWork DEF Row
<1> HIDE DEF new
<1>3. c \in Connection /\ lost \subseteq lost' /\ \A d \in Connection : d # c => rows'[d] = rows[d]
  BY <1>1, <1>2, SaveFacts
<1>4. Calm' => Calm
  BY <1>1, <1>3 DEF Calm
<1>5. job'[h].pc = "idle" /\ \A g \in Handler : g # h => job'[g] = job[g]
  BY <1>1, Ended
<1>6. h \in Promoting
  BY <1>1 DEF Promoting
<1>7. Calm => /\ \A g \in Promoting : g = h
              /\ \A d \in Connection : ~IsDefault(d)
  BY <1>6 DEF OnePromotion
<1>8. Calm' => Promoting' = {}
  BY <1>4, <1>5, <1>7 DEF Promoting
<1>9. Calm' => \A d \in Connection : IsDefault(d)' => d = c
  BY <1>3, <1>4, <1>7 DEF IsDefault
<1>10. QED
  BY <1>8, <1>9 DEF OnePromotion

LEMMA CheckKeepsOne ==
    ASSUME TypeInv, NEW h \in Handler, CheckDefault(h), OnePromotion
    PROVE  OnePromotion'
<1>1. rows' = rows /\ lost' = lost /\ posted' = posted
  BY DEF CheckDefault, table
<1>2. CASE HasDefault
  <2>1. Done(h) /\ raced' = raced
    BY <1>2 DEF CheckDefault
  <2>2. job'[h].pc = "idle" /\ \A g \in Handler : g # h => job'[g] = job[g]
    BY <2>1, Ended
  <2>3. \A c \in Connection : IsDefault(c)' => IsDefault(c)
    BY <1>1 DEF IsDefault
  <2>4. Quieter
    BY <1>1, <2>1, <2>2, <2>3, MovesQuietly
  <2>5. QED
    BY <2>4, QuietKeepsOne
<1>3. CASE ~HasDefault
  <2>1. raced' = (raced \/ Promoting # {})
    BY <1>3 DEF CheckDefault
  <2>2. \A g \in Handler : g # h => job'[g] = job[g]
    BY <1>3, Moved DEF CheckDefault
  <2>3. \A c \in Connection : ~IsDefault(c)'
    BY <1>1, <1>3 DEF HasDefault, IsDefault
  <2>4. Calm' => Promoting = {}
    BY <2>1, Zenon DEF Calm
  <2>5. Calm' => \A g \in Handler : g \in Promoting' => g = h
    BY <2>2, <2>4 DEF Promoting
  <2>6. QED
    BY <2>3, <2>5 DEF OnePromotion, Promoting
<1>4. QED
  BY <1>2, <1>3

\* Refreshes and callbacks give no flag.
LEMMA TokensAreQuiet ==
    ASSUME TypeInv, NEW h \in Handler, KeepsToken(h) \/ LongLives(h) \/ Rotates(h) \/ Misses(h) \/ Stores(h)
    PROVE  Quieter
<1>1. /\ job'[h].pc \notin {"cleared", "promoting"}
      /\ \A g \in Handler : g # h => job'[g] = job[g]
      /\ lost \subseteq lost' /\ raced' = raced /\ posted' = posted
  BY DEF KeepsToken, LongLives, Rotates, Misses, Stores, Renews
<1>2. \A c \in Connection : IsDefault(c)' => IsDefault(c)
  <2>1. CASE Stores(h)
    BY <2>1 DEF Stores, IsDefault
  <2>2. CASE ~Stores(h)
    BY <2>2 DEF KeepsToken, LongLives, Rotates, Misses, Renews, IsDefault
  <2>3. QED
    BY <2>1, <2>2
<1>3. QED
  BY <1>1, <1>2, MovesQuietly

LEMMA ServeKeepsOne ==
    ASSUME TypeInv, NEW h \in Handler, Serve(h), OnePromotion
    PROVE  OnePromotion'
<1>1. ASSUME \/ StillValid(h) \/ RefreshFails(h) \/ Quote(h) \/ Leave(h) \/ StoreQuotaOnly(h)
             \/ SaveRaises(h)
      PROVE  OnePromotion'
  BY <1>1, WorkIsQuiet, QuietKeepsOne
<1>2. ASSUME SaveTokens(h) \/ SaveDisabled(h) \/ StoreQuota(h) \/ Disconnect(h)
      PROVE  OnePromotion'
  BY <1>2, SavingIsQuiet, QuietKeepsOne
<1>3. ASSUME Refresh(h) \/ AnswerLost(h) \/ RotationLost(h) \/ Connect(h) PROVE OnePromotion'
  BY <1>3, RefreshSteps, LostSteps, ConnectStores, TokensAreQuiet, QuietKeepsOne
<1>4. ASSUME NEW active \in BOOLEAN \cup {Keep}, NEW isDefault \in BOOLEAN \cup {Keep},
             Patch(h, active, isDefault)
      PROVE  OnePromotion'
  BY <1>4, PatchKeepsOne
<1>5. ASSUME ClearDefault(h) PROVE OnePromotion'
  BY <1>5, ClearKeepsOne
<1>6. ASSUME SaveDefault(h) PROVE OnePromotion'
  BY <1>6, SetKeepsOne
<1>7. ASSUME CheckDefault(h) PROVE OnePromotion'
  BY <1>7, CheckKeepsOne
<1>8. QED
  BY <1>1, <1>2, <1>3, <1>4, <1>5, <1>6, <1>7, Zenon DEF Serve, Ensure

LEMMA OthersAreQuiet ==
    ASSUME TypeInv,
           \/ Outside \/ Fetching
           \/ \E h \in Handler, c \in Connection : Exchanges(h, c)
    PROVE  Quieter
<1>1. CASE Outside
  <2>1. \A c \in Connection : IsDefault(c)' => IsDefault(c)
    BY <1>1, SentinelAssumption DEF Outside, IsDefault, Copy
  <2>2. QED
    BY <1>1, <2>1 DEF Outside, Quieter, Calm, Promoting
<1>2. ASSUME NEW h \in Handler, NEW c \in Connection, NEW row \in Row, Fetch(h, c, row)
      PROVE  Quieter
  BY <1>2, MovesQuietly DEF Fetch, IsDefault
<1>3. ASSUME NEW h \in Handler, NEW c \in Connection, Exchanges(h, c)
      PROVE  Quieter
  BY <1>3, MovesQuietly DEF Exchanges, IsDefault
<1>4. QED
  BY <1>1, <1>2, <1>3 DEF Fetching

LEMMA NextKeepsOne ==
    ASSUME TypeInv, [Next]_vars, OnePromotion
    PROVE  OnePromotion'
<1>1. Request \subseteq Handler /\ Hourly \in Handler
  BY DEF Handler
<1>2. ASSUME NEW h \in Handler, Serve(h) PROVE OnePromotion'
  BY <1>2, ServeKeepsOne
<1>3. ASSUME NEW h \in Handler, Crash(h) PROVE OnePromotion'
  BY <1>3, WorkIsQuiet, QuietKeepsOne
<1>4. ASSUME StoreQuotaHourly PROVE OnePromotion'
  BY <1>1, <1>4, WorkIsQuiet, QuietKeepsOne
<1>5. ASSUME \/ Outside \/ Fetching
             \/ \E h \in Handler, c \in Connection : Exchanges(h, c)
      PROVE  OnePromotion'
  BY <1>5, OthersAreQuiet, QuietKeepsOne
<1>6. ASSUME Arrive PROVE OnePromotion'
  <2>1. ASSUME NEW h \in Request, NEW c \in Connection,
               NEW op \in Op \ {"none", "hourly", "callback"}, Begin(h, op, c)
        PROVE  Fetching
    <3>1. h \in Handler
      BY <1>1
    <3>2. Fetch(h, c, rows[c])
      BY <2>1, <3>1, BeginFetches
    <3>3. rows[c] \in Row
      BY <3>2 DEF Fetch
    <3>4. QED
      BY <3>1, <3>2, <3>3, Zenon DEF Fetching
  <2>2. ASSUME NEW h \in Request, NEW c \in Connection, Authenticate(h, c)
        PROVE  \E g \in Handler, d \in Connection : Exchanges(g, d)
    <3>1. h \in Handler
      BY <1>1
    <3>2. QED
      BY <2>2, <3>1, AuthenticateExchanges, Zenon
  <2>3. ASSUME NEW c \in Connection, Destroy(c) \/ ForceDisable(c) PROVE Outside
    BY <2>3, OutsideSteps
  <2>4. QED
    BY <1>5, <1>6, <2>1, <2>2, <2>3, Zenon DEF Arrive
<1>7. ASSUME RunHourly PROVE OnePromotion'
  <2>1. ASSUME NEW c \in Connection, TakeNext(c) PROVE Fetching
    <3>1. Fetch(Hourly, c, batch[c])
      BY <2>1, TakeNextFetches
    <3>2. batch[c] \in Row
      BY <3>1 DEF Fetch
    <3>3. QED
      BY <1>1, <3>1, <3>2, Zenon DEF Fetching
  <2>2. LoadBatch => Outside
    BY OutsideSteps
  <2>3. QED
    BY <1>1, <1>2, <1>4, <1>5, <1>7, <2>1, <2>2, Zenon DEF RunHourly
<1>8. ASSUME NEW c \in Connection, Expire(c) \/ Withdraw(c) PROVE OnePromotion'
  BY <1>5, <1>8, OutsideSteps
<1>9. CASE UNCHANGED vars
  BY <1>5, <1>9, OutsideSteps
<1>10. QED
  BY <1>1, <1>2, <1>3, <1>6, <1>7, <1>8, <1>9, Zenon DEF Next

LEMMA InitOnePromotion == Init => OnePromotion
<1> SUFFICES ASSUME Init PROVE OnePromotion
  OBVIOUS
<1>1. \A h \in Handler : job[h].pc = "idle"
  BY DEF Init, Idle
<1>2. \A c \in Connection : rows[c] = NoRow
  BY DEF Init
<1>3. QED
  BY <1>1, <1>2 DEF OnePromotion, Promoting, IsDefault

\* The user has one default connection at most, unless two promotions
\* overlapped, a stale save brought a flag back, or a PATCH set it: set_default
\* and the first callback are safe one after the other, and only so.
THEOREM DefaultIsOne == Spec => []OneDefault
<1> DEFINE Inv == TypeInv /\ OnePromotion
<1>1. Init => Inv
  BY InitTypes, InitOnePromotion
<1>2. Inv /\ [Next]_vars => Inv'
  BY NextKeepsTypes, NextKeepsOne
<1>3. Inv => OneDefault
  BY DEF OnePromotion, Calm, IsDefault, OneDefault
<1>4. QED
  BY <1>1, <1>2, <1>3, PTL DEF Spec

--------------------------------------------------------------------------
(* The grant is not lost *)

\* The rows somebody holds, as numbers can be compared.
LEMMA Rows ==
    ASSUME TypeInv
    PROVE  /\ \A c \in Connection : rows[c] \in Row \cup {NoRow} /\ batch[c] \in Row \cup {NoRow}
           /\ \A c \in Connection : issued[c] \in Nat /\ honoured[c] \subseteq 1 .. issued[c]
           /\ \A h \in Handler, c \in Connection : Working(h, c) =>
                 job[h].snap \in Row /\ job[h].base \in Row
           /\ \A row \in Row : row.id \in Nat /\ row.refresh \in Nat /\ row # NoRow
BY SentinelAssumption DEF TypeInv, TypeOK, Held, Fits, Working, Row

\* A step of another connection's handler.
LEMMA Aside ==
    ASSUME NEW h \in Handler, NEW c \in Connection, ~Working(h, c), ~Working(h, c)',
           \A g \in Handler : g # h => job'[g] = job[g],
           rows'[c] = rows[c], batch'[c] = batch[c], honoured'[c] = honoured[c],
           issued'[c] = issued[c], lost \subseteq lost', posted \subseteq posted',
           unheard \subseteq unheard', Sound(c)
    PROVE  Sound(c)'
<1>1. \A g \in Handler : Working(g, c)' => g # h /\ Working(g, c) /\ job'[g] = job[g]
  BY DEF Working
<1>2. \A g \in Handler : Working(g, c) => Working(g, c)' /\ job'[g] = job[g]
  BY DEF Working
<1>3. \A g \in Handler : Working(g, c)' => (Fresh(g)' <=> Fresh(g))
  BY <1>1 DEF Fresh
<1>4. Exclusive(c)'
  BY <1>1, <1>3 DEF Sound, Exclusive, Differs
<1>5. SameRow(c)'
  BY <1>1 DEF Sound, SameRow, Agree
<1>6. Newer(c)'
  BY <1>1, <1>3 DEF Sound, Newer
<1>7. Kept(c)'
  <2>1. \A g \in Handler : Brings(g, c) => Brings(g, c)'
    BY <1>2 DEF Brings
  <2>2. \A g \in Handler : WillDisable(g, c) => WillDisable(g, c)'
    BY <1>2 DEF WillDisable
  <2>3. Covered(c) => Covered(c)'
    BY <2>2 DEF Covered
  <2>4. QED
    BY <2>1, <2>3 DEF Sound, Kept
<1>8. QED
  BY <1>4, <1>5, <1>6, <1>7 DEF Sound

\* A row that is seen as off, or will be switched off, stays so, unless that is
\* recorded.
LEMMA TameKeepsCover ==
    ASSUME TypeInv, NEW h \in Handler, Tame(h), NEW c \in Connection,
           rows'[c] # NoRow, "refresh" \notin lost', Covered(c)
    PROVE  Covered(c)'
<1>1. /\ rows[c] # NoRow /\ rows'[c].id = rows[c].id
      /\ c = job[h].conn /\ job[h].pc = "orphaned" =>
            ~rows'[c].active \/ rows[c].id # job[h].snap.id
  BY DEF Tame, Careful
<1>2. /\ unheard' = unheard /\ posted \subseteq posted' /\ lost \subseteq lost'
      /\ \A g \in Handler : g # h => job'[g] = job[g]
  BY DEF Tame, Plain, GoesOn
<1>3. CASE ~rows[c].active
  <2>1. ~rows'[c].active \/ "active" \in posted' \cup lost'
    BY <1>1, <1>3, Zenon DEF Tame, Switches
  <2>2. QED
    BY <1>2, <2>1 DEF Covered
<1>4. CASE "active" \in posted \cup lost
  BY <1>2, <1>4 DEF Covered
<1>5. ASSUME NEW g \in Handler, WillDisable(g, c) PROVE Covered(c)'
  <2>1. CASE g = h
    BY <1>1, <1>2, <1>5, <2>1 DEF WillDisable, Working, Covered
  <2>2. CASE g # h
    <3>1. WillDisable(g, c)'
      BY <1>1, <1>2, <1>5, <2>2 DEF WillDisable, Working
    <3>2. QED
      BY <1>2, <3>1 DEF Covered
  <2>3. QED
    BY <2>1, <2>2
<1>6. QED
  BY <1>3, <1>4, <1>5 DEF Covered

\* Passing on what a handler holds: what is stored is what was held.
LEMMA TameKeepsNumbers ==
    ASSUME TypeInv, NEW h \in Handler, Tame(h), Numbered
    PROVE  Numbered'
<1> SUFFICES ASSUME NEW c \in Connection
             PROVE  /\ Known(rows[c], c)' /\ Known(batch[c], c)'
                    /\ \A g \in Handler : Working(g, c)' => Known(job[g].snap, c)' /\ Known(job[g].base, c)'
  BY DEF Numbered
<1>1. /\ Known(rows[c], c) /\ Known(batch[c], c)
      /\ \A g \in Handler : Working(g, c) => Known(job[g].snap, c) /\ Known(job[g].base, c)
  BY DEF Numbered
<1>2. c = job[h].conn => Working(h, c)
  BY DEF Tame, Plain, GoesOn, Working
<1>3. Known(rows[c], c)'
  BY <1>1, <1>2, SentinelAssumption DEF Tame, Plain, Known, Copy
<1>4. Known(batch[c], c)'
  BY <1>1 DEF Tame, Plain, Known
<1>5. ASSUME NEW g \in Handler, Working(g, c)'
      PROVE  Known(job[g].snap, c)' /\ Known(job[g].base, c)'
  <2>1. CASE g = h
    BY <1>1, <1>2, <1>5, <2>1, SentinelAssumption DEF Tame, Plain, GoesOn, Working, Known, Copy
  <2>2. CASE g # h
    BY <1>1, <1>5, <2>2 DEF Tame, Plain, GoesOn, Working, Known
  <2>3. QED
    BY <2>1, <2>2
<1>6. QED
  BY <1>3, <1>4, <1>5

LEMMA TameKeepsGrants ==
    ASSUME TypeInv, NEW h \in Handler, Tame(h), NEW c \in Connection, Sound(c)
    PROVE  Sound(c)'
<1>1. /\ \A g \in Handler : g # h => job'[g] = job[g]
      /\ job'[h].pc \notin {"answered", "granted"} /\ job[h].pc # "idle"
      /\ job'[h].pc # "idle" => job'[h].conn = job[h].conn /\ Copy(job'[h].snap, job[h].snap)
  BY DEF Tame, Plain, GoesOn
<1>2. /\ \/ rows'[c] = NoRow /\ rows[c] = NoRow
         \/ Copy(rows'[c], rows[c])
         \/ c = job[h].conn /\ Copy(rows'[c], job[h].snap)
      /\ batch'[c] \in {batch[c], NoRow} /\ issued' = issued /\ honoured' = honoured
      /\ lost \subseteq lost'
  BY DEF Tame, Plain
<1>3. \A g \in Handler : Working(g, c)' => Working(g, c) /\ (g # h => job'[g] = job[g])
                                              /\ (g = h => Copy(job'[h].snap, job[h].snap))
  BY <1>1 DEF Working
<1>4. \A g \in Handler : Fresh(g)' => g # h /\ Fresh(g)
  BY <1>1 DEF Fresh
<1>5. c = job[h].conn => Working(h, c)
  BY <1>1 DEF Working
<1>6. Exclusive(c)'
  <2> SUFFICES ASSUME NEW g \in Handler, Working(g, c)', Fresh(g)'
               PROVE  /\ Differs(rows[c], g)' /\ Differs(batch[c], g)'
                      /\ \A w \in Handler : w # g /\ Working(w, c)' => Differs(job[w].snap, g)'
    BY DEF Exclusive
  <2>1. /\ g # h /\ job'[g] = job[g] /\ Differs(rows[c], g) /\ Differs(batch[c], g)
        /\ \A w \in Handler : w # g /\ Working(w, c) => Differs(job[w].snap, g)
    BY <1>1, <1>3, <1>4 DEF Sound, Exclusive
  <2>2. Differs(rows[c], g)'
    BY <1>2, <1>5, <2>1, SentinelAssumption DEF Differs, Copy
  <2>3. Differs(batch[c], g)'
    BY <1>2, <2>1 DEF Differs
  <2>4. ASSUME NEW w \in Handler, w # g, Working(w, c)' PROVE Differs(job[w].snap, g)'
    BY <1>3, <2>1, <2>4, SentinelAssumption DEF Differs, Copy
  <2>5. QED
    BY <2>2, <2>3, <2>4
<1>7. SameRow(c)'
  <2>1. /\ Agree(rows[c], batch[c])
        /\ \A g \in Handler : Working(g, c) =>
              /\ Agree(job[g].snap, rows[c]) /\ Agree(job[g].snap, batch[c])
              /\ \A w \in Handler : Working(w, c) => Agree(job[g].snap, job[w].snap)
    BY DEF Sound, SameRow
  <2>2. Agree(rows[c], batch[c])'
    BY <1>2, <1>5, <2>1, SentinelAssumption DEF Agree, Copy
  <2>3. ASSUME NEW g \in Handler, Working(g, c)' PROVE Agree(job[g].snap, rows[c])'
    BY <1>2, <1>3, <1>5, <2>1, <2>3, SentinelAssumption DEF Agree, Copy
  <2>4. ASSUME NEW g \in Handler, Working(g, c)' PROVE Agree(job[g].snap, batch[c])'
    BY <1>2, <1>3, <2>1, <2>4, SentinelAssumption DEF Agree, Copy
  <2>5. ASSUME NEW g \in Handler, NEW w \in Handler, Working(g, c)', Working(w, c)'
        PROVE  Agree(job[g].snap, job[w].snap)'
    BY <1>3, <2>1, <2>5, SentinelAssumption DEF Agree, Copy
  <2>6. QED
    BY <2>2, <2>3, <2>4, <2>5 DEF SameRow
<1>8. Newer(c)'
  BY <1>2, <1>3, <1>4 DEF Sound, Newer
<1>9. Kept(c)'
  <2> SUFFICES ASSUME rows'[c] # NoRow, honoured'[c] # {}, "refresh" \notin lost'
               PROVE  \/ rows'[c].refresh \in honoured'[c]
                      \/ \E g \in Handler : Brings(g, c)'
                      \/ Covered(c)'
    BY DEF Kept
  <2>1. /\ job[h].pc # "granted"
        /\ rows[c] # NoRow /\ rows'[c].id = rows[c].id
        /\ \/ rows'[c].refresh = rows[c].refresh
           \/ c = job[h].conn /\ rows[c].refresh = job[h].base.refresh
        /\ c = job[h].conn /\ job[h].pc = "answered" =>
              rows'[c].refresh = job[h].snap.refresh \/ rows[c].id # job[h].snap.id
    BY DEF Tame, Careful
  <2>2. \A g \in Handler : g # h /\ Brings(g, c) => Brings(g, c)'
    BY <1>1, <1>2, <2>1 DEF Brings, Working
  <2>3. rows[c].refresh \in honoured[c] \/ (\E g \in Handler : Brings(g, c)) \/ Covered(c)
    BY <1>2, <2>1 DEF Sound, Kept
  <2>4. Covered(c) => Covered(c)'
    BY TameKeepsCover
  <2>5. CASE rows'[c].refresh = rows[c].refresh
    <3>1. Brings(h, c) => rows'[c].refresh \in honoured'[c]
      BY <1>2, <2>1 DEF Brings, Working
    <3>2. QED
      BY <1>2, <2>2, <2>3, <2>5, <2>4, <3>1
  <2>6. CASE rows'[c].refresh # rows[c].refresh
    <3>1. /\ c = job[h].conn /\ rows[c].refresh = job[h].base.refresh
          /\ rows'[c].refresh = job[h].snap.refresh /\ Working(h, c)
      BY <1>2, <1>5, <2>1, <2>6 DEF Copy
    <3>2. job[h].pc = "answered" /\ Fresh(h)
      BY <1>1, <2>6, <3>1, AtWork DEF Fits, Fresh
    <3>3. /\ job[h].base.refresh < job[h].snap.refresh
          /\ \/ job[h].snap.refresh \in honoured[c]
             \/ \A t \in honoured[c] : t > job[h].snap.refresh
      BY <3>1, <3>2 DEF Sound, Newer
    <3>4. CASE job[h].snap.refresh \in honoured[c]
      BY <1>2, <3>1, <3>4
    <3>5. CASE job[h].snap.refresh \notin honoured[c]
      <4>1. job[h].base.refresh \in Nat /\ job[h].snap.refresh \in Nat /\ honoured[c] \subseteq Nat
        BY <3>1, Rows
      <4>2. rows[c].refresh \notin honoured[c]
        BY <3>1, <3>3, <3>5, <4>1
      <4>3. ~Brings(h, c)
        BY <3>5 DEF Brings
      <4>4. QED
        BY <2>2, <2>3, <2>4, <4>2, <4>3
    <3>6. QED
      BY <3>4, <3>5
  <2>7. QED
    BY <2>5, <2>6
<1>10. QED
  BY <1>6, <1>7, <1>8, <1>9 DEF Sound

\* A handler that takes up a row holds a copy of it.
LEMMA FetchKeepsGrants ==
    ASSUME TypeInv, NEW h \in Handler, NEW d \in Connection, NEW row \in Row, Fetch(h, d, row),
           Numbered, NEW c \in Connection, Sound(c)
    PROVE  Numbered' /\ Sound(c)'
<1>1. /\ \A g \in Handler : g # h => job'[g] = job[g]
      /\ job[h].pc = "idle" /\ job'[h].pc = "loaded" /\ job'[h].conn = d
      /\ job'[h].snap = row /\ job'[h].base = row /\ row \in {rows[d], batch[d]}
      /\ \A e \in Connection : batch'[e] \in {batch[e], NoRow}
      /\ UNCHANGED <<rows, issued, honoured, lost, posted, unheard>>
  BY DEF Fetch
<1>2. Numbered'
  <2>1. ASSUME NEW e \in Connection PROVE Known(rows[e], e)' /\ Known(batch[e], e)'
    BY <1>1 DEF Numbered, Known
  <2>2. ASSUME NEW e \in Connection, NEW g \in Handler, Working(g, e)'
        PROVE  Known(job[g].snap, e)' /\ Known(job[g].base, e)'
    BY <1>1, <2>2 DEF Numbered, Known, Working
  <2>3. QED
    BY <2>1, <2>2 DEF Numbered
<1>3. \A g \in Handler : Working(g, c)' => \/ g # h /\ Working(g, c) /\ job'[g] = job[g]
                                           \/ g = h /\ job'[g].snap \in {rows[c], batch[c]}
  BY <1>1 DEF Working
<1>4. \A g \in Handler : Fresh(g)' => g # h /\ Fresh(g)
  BY <1>1 DEF Fresh
<1>5. Exclusive(c)'
  BY <1>1, <1>3, <1>4 DEF Sound, Exclusive, Differs
<1>6. SameRow(c)'
  <2>1. /\ Agree(rows[c], batch[c])
        /\ \A g \in Handler : Working(g, c) =>
              /\ Agree(job[g].snap, rows[c]) /\ Agree(job[g].snap, batch[c])
              /\ \A w \in Handler : Working(w, c) => Agree(job[g].snap, job[w].snap)
    BY DEF Sound, SameRow
  <2>2. Agree(rows[c], batch[c])'
    BY <1>1, <2>1 DEF Agree
  <2>3. ASSUME NEW g \in Handler, Working(g, c)' PROVE Agree(job[g].snap, rows[c])'
    BY <1>1, <1>3, <2>1, <2>3 DEF Agree
  <2>4. ASSUME NEW g \in Handler, Working(g, c)' PROVE Agree(job[g].snap, batch[c])'
    BY <1>1, <1>3, <2>1, <2>4 DEF Agree
  <2>5. ASSUME NEW g \in Handler, NEW w \in Handler, Working(g, c)', Working(w, c)'
        PROVE  Agree(job[g].snap, job[w].snap)'
    BY <1>3, <2>1, <2>5 DEF Agree
  <2>6. QED
    BY <2>2, <2>3, <2>4, <2>5 DEF SameRow
<1>7. Newer(c)'
  BY <1>1, <1>3, <1>4 DEF Sound, Newer
<1>8. Kept(c)'
  <2>1. \A g \in Handler : Brings(g, c) => Brings(g, c)'
    BY <1>1 DEF Brings, Working
  <2>2. \A g \in Handler : WillDisable(g, c) => WillDisable(g, c)'
    BY <1>1 DEF WillDisable, Working
  <2>3. Covered(c) => Covered(c)'
    BY <1>1, <2>2 DEF Covered
  <2>4. QED
    BY <1>1, <2>1, <2>3 DEF Sound, Kept
<1>9. QED
  BY <1>2, <1>5, <1>6, <1>7, <1>8 DEF Sound

\* What happens outside the handlers takes tokens away and gives none.
LEMMA OutsideKeepsGrants ==
    ASSUME TypeInv, Outside, Numbered, NEW c \in Connection, Sound(c)
    PROVE  Numbered' /\ Sound(c)'
<1>1. /\ job' = job /\ issued' = issued /\ lost' = lost
      /\ posted' = posted /\ unheard' = unheard
      /\ \A d \in Connection : \/ rows'[d] = NoRow
                               \/ Copy(rows'[d], rows[d]) /\ (rows'[d].active => rows[d].active)
      /\ \A d \in Connection : batch'[d] \in {batch[d], rows[d], NoRow}
      /\ \A d \in Connection : honoured'[d] \in {honoured[d], {}}
  BY DEF Outside
<1>2. Numbered'
  <2>1. ASSUME NEW e \in Connection PROVE Known(rows[e], e)' /\ Known(batch[e], e)'
    BY <1>1, SentinelAssumption DEF Numbered, Known, Copy
  <2>2. ASSUME NEW e \in Connection, NEW g \in Handler, Working(g, e)'
        PROVE  Known(job[g].snap, e)' /\ Known(job[g].base, e)'
    BY <1>1, <2>2 DEF Numbered, Known, Working
  <2>3. QED
    BY <2>1, <2>2 DEF Numbered
<1>3. \A g \in Handler : (Working(g, c)' <=> Working(g, c)) /\ (Fresh(g)' <=> Fresh(g))
  BY <1>1 DEF Working, Fresh
<1>4. Exclusive(c)'
  BY <1>1, <1>3, SentinelAssumption DEF Sound, Exclusive, Differs, Copy
<1>5. SameRow(c)'
  <2>1. /\ Agree(rows[c], batch[c])
        /\ \A g \in Handler : Working(g, c) =>
              /\ Agree(job[g].snap, rows[c]) /\ Agree(job[g].snap, batch[c])
              /\ \A w \in Handler : Working(w, c) => Agree(job[g].snap, job[w].snap)
    BY DEF Sound, SameRow
  <2>2. Agree(rows[c], batch[c])'
    BY <1>1, <2>1, SentinelAssumption DEF Agree, Copy
  <2>3. ASSUME NEW g \in Handler, Working(g, c)'
        PROVE  /\ Agree(job[g].snap, rows[c])' /\ Agree(job[g].snap, batch[c])'
    BY <1>1, <1>3, <2>1, <2>3, SentinelAssumption DEF Agree, Copy
  <2>4. ASSUME NEW g \in Handler, NEW w \in Handler, Working(g, c)', Working(w, c)'
        PROVE  Agree(job[g].snap, job[w].snap)'
    BY <1>1, <1>3, <2>1, <2>4 DEF Agree
  <2>5. QED
    BY <2>2, <2>3, <2>4 DEF SameRow
<1>6. Newer(c)'
  BY <1>1, <1>3 DEF Sound, Newer
<1>7. Kept(c)'
  <2> SUFFICES ASSUME rows'[c] # NoRow, honoured'[c] # {}, "refresh" \notin lost'
               PROVE  \/ rows'[c].refresh \in honoured'[c]
                      \/ \E g \in Handler : Brings(g, c)'
                      \/ Covered(c)'
    BY DEF Kept
  <2>1. /\ honoured'[c] = honoured[c] /\ rows[c] # NoRow
        /\ rows'[c].id = rows[c].id /\ rows'[c].refresh = rows[c].refresh
        /\ rows'[c].active => rows[c].active
    BY <1>1, SentinelAssumption DEF Copy
  <2>2. \A g \in Handler : Brings(g, c) => Brings(g, c)'
    BY <1>1, <1>3, <2>1 DEF Brings
  <2>3. \A g \in Handler : WillDisable(g, c) => WillDisable(g, c)'
    BY <1>1, <1>3, <2>1 DEF WillDisable
  <2>4. Covered(c) => Covered(c)'
    BY <1>1, <2>1, <2>3 DEF Covered
  <2>5. QED
    BY <1>1, <2>1, <2>2, <2>4 DEF Sound, Kept
<1>8. QED
  BY <1>2, <1>4, <1>5, <1>6, <1>7 DEF Sound

\* A refresh that keeps the refresh token.
LEMMA KeepingKeepsGrants ==
    ASSUME TypeInv, NEW h \in Handler, KeepsToken(h), Numbered, NEW c \in Connection, Sound(c)
    PROVE  Numbered' /\ Sound(c)'
<1>1. /\ \A g \in Handler : g # h => job'[g] = job[g]
      /\ job[h].pc = "loaded" /\ job'[h].pc = "answered"
      /\ job'[h].conn = job[h].conn /\ job'[h].base = job[h].base
      /\ job'[h].snap.id = job[h].snap.id /\ job'[h].snap.refresh = job[h].snap.refresh
      /\ job[h].snap.refresh = job[h].base.refresh /\ job[h].snap \in Row
      /\ job'[h].snap \in Row
      /\ UNCHANGED <<rows, batch, honoured, lost, posted, unheard>>
  BY DEF KeepsToken, Renews
<1>2. \A d \in Connection : issued[d] \in Nat /\ issued'[d] \in Nat /\ issued[d] <= issued'[d]
  BY Rows DEF KeepsToken, OneMore, TypeInv, TypeOK
<1>3. \A g \in Handler, d \in Connection : Working(g, d)' <=> Working(g, d)
  BY <1>1 DEF Working
<1>4. \A g \in Handler : Fresh(g)' => g # h /\ Fresh(g)
  BY <1>1 DEF Fresh
<1>5. ASSUME NEW row \in Row \cup {NoRow}, NEW d \in Connection, Known(row, d)
      PROVE  row # NoRow => row.id <= issued'[d] /\ row.refresh <= issued'[d]
  BY <1>2, <1>5 DEF Known, Row
<1>6. Numbered'
  <2>1. ASSUME NEW e \in Connection PROVE Known(rows[e], e)' /\ Known(batch[e], e)'
    BY <1>1, <1>5, Rows DEF Numbered, Known
  <2>2. ASSUME NEW e \in Connection, NEW g \in Handler, Working(g, e)'
        PROVE  Known(job[g].snap, e)' /\ Known(job[g].base, e)'
    <3>1. /\ job[g].snap \in Row /\ job[g].base \in Row
          /\ Known(job[g].snap, e) /\ Known(job[g].base, e)
          /\ job[g].snap # NoRow /\ job[g].base # NoRow
      BY <1>3, <2>2, Rows DEF Numbered
    <3>2. /\ job'[g].snap.id = job[g].snap.id /\ job'[g].snap.refresh = job[g].snap.refresh
          /\ job'[g].base = job[g].base
      BY <1>1
    <3>3. QED
      BY <1>5, <3>1, <3>2 DEF Known
  <2>3. QED
    BY <2>1, <2>2 DEF Numbered
<1>7. Exclusive(c)'
  BY <1>1, <1>3, <1>4, SentinelAssumption DEF Sound, Exclusive, Differs
<1>8. SameRow(c)'
  BY <1>1, <1>3, SentinelAssumption DEF Sound, SameRow, Agree
<1>9. Newer(c)'
  <2> SUFFICES ASSUME NEW g \in Handler, Working(g, c)', Fresh(g)'
               PROVE  /\ job'[g].pc = "answered" =>
                            /\ job'[g].base.refresh < job'[g].snap.refresh
                            /\ \/ job'[g].snap.refresh \in honoured'[c]
                               \/ \A t \in honoured'[c] : t > job'[g].snap.refresh
                      /\ job'[g].pc = "granted" =>
                            /\ job'[g].snap.access = job'[g].snap.refresh
                            /\ \/ job'[g].snap.refresh \in honoured'[c]
                               \/ honoured'[c] = {}
                               \/ issued'[c] > job'[g].snap.refresh
    BY DEF Newer
  <2>1. job'[g] = job[g] /\ Fresh(g) /\ Working(g, c) /\ job[g].snap.refresh \in Nat
    BY <1>1, <1>3, <1>4, Rows
  <2>2. QED
    BY <1>1, <1>2, <2>1 DEF Sound, Newer
<1>10. Kept(c)'
  <2>1. \A g \in Handler : Brings(g, c) => Brings(g, c)'
    BY <1>1 DEF Brings, Working
  <2>2. \A g \in Handler : WillDisable(g, c) => WillDisable(g, c)'
    BY <1>1 DEF WillDisable, Working
  <2>3. Covered(c) => Covered(c)'
    BY <1>1, <2>2 DEF Covered
  <2>4. QED
    BY <1>1, <2>1, <2>3 DEF Sound, Kept
<1>11. QED
  BY <1>6, <1>7, <1>8, <1>9, <1>10 DEF Sound

\* Connections whose token does not expire have no refresh token to lose.
LEMMA LongLivedKeepsGrants ==
    ASSUME TypeInv, NEW h \in Handler, LongLives(h), Numbered, NEW c \in Renewable, Sound(c)
    PROVE  Numbered' /\ Sound(c)'
<1>1. /\ \A g \in Handler : g # h => job'[g] = job[g]
      /\ job[h].pc = "loaded" /\ job'[h].pc = "answered"
      /\ job'[h].conn = job[h].conn /\ job'[h].base = job[h].base
      /\ job'[h].snap.id = job[h].snap.id /\ job'[h].snap.refresh = 0
      /\ job[h].snap \in Row /\ job'[h].snap \in Row
      /\ UNCHANGED <<rows, batch, issued, honoured, lost, posted, unheard>>
  BY DEF LongLives, Renews
<1>2. c \in Connection /\ job[h].conn # c
  BY DEF Renewable, LongLives
<1>3. Numbered'
  <2>1. ASSUME NEW e \in Connection PROVE Known(rows[e], e)' /\ Known(batch[e], e)'
    BY <1>1 DEF Numbered, Known
  <2>2. ASSUME NEW e \in Connection, NEW g \in Handler, Working(g, e)'
        PROVE  Known(job[g].snap, e)' /\ Known(job[g].base, e)'
    <3>1. Working(g, e) /\ Known(job[g].snap, e) /\ Known(job[g].base, e) /\ issued[e] \in Nat
      BY <1>1, <2>2, Rows DEF Working, Numbered
    <3>2. QED
      BY <1>1, <3>1, Rows DEF Known
  <2>3. QED
    BY <2>1, <2>2 DEF Numbered
<1>4. ~Working(h, c) /\ ~Working(h, c)'
  BY <1>1, <1>2 DEF Working
<1>5. Sound(c)'
  BY <1>1, <1>2, <1>4, Aside
<1>6. QED
  BY <1>3, <1>5

\* One more grant for c, of which h has the number.
LEMMA GrantKeepsNumbers ==
    ASSUME TypeInv, Numbered, NEW h \in Handler, NEW c \in Connection,
           \A g \in Handler : g # h => job'[g] = job[g],
           rows' = rows, batch' = batch, issued' = [issued EXCEPT ![c] = @ + 1],
           job'[h].conn = c, Known(job[h].snap, c)', Known(job[h].base, c)'
    PROVE  Numbered'
<1>1. \A d \in Connection : issued[d] \in Nat /\ issued'[d] \in Nat /\ issued[d] <= issued'[d]
  BY Rows DEF TypeInv, TypeOK
<1>2. ASSUME NEW row \in Row \cup {NoRow}, NEW d \in Connection, Known(row, d)
      PROVE  row # NoRow => row.id <= issued'[d] /\ row.refresh <= issued'[d]
  BY <1>1, <1>2 DEF Known, Row
<1>3. ASSUME NEW e \in Connection PROVE Known(rows[e], e)' /\ Known(batch[e], e)'
  BY <1>2, Rows DEF Numbered, Known
<1>4. ASSUME NEW e \in Connection, NEW g \in Handler, Working(g, e)'
      PROVE  Known(job[g].snap, e)' /\ Known(job[g].base, e)'
  <2>1. CASE g = h
    BY <1>4, <2>1 DEF Working
  <2>2. CASE g # h
    <3>1. /\ job'[g] = job[g] /\ job[g].snap \in Row /\ job[g].base \in Row
          /\ Known(job[g].snap, e) /\ Known(job[g].base, e)
      BY <1>4, <2>2, Rows DEF Numbered, Working
    <3>2. QED
      BY <1>2, <3>1 DEF Known
  <2>3. QED
    BY <2>1, <2>2
<1>5. QED
  BY <1>3, <1>4 DEF Numbered

\* A number of the past is below the next one.
LEMMA Older ==
    ASSUME TypeInv, Numbered, NEW c \in Connection
    PROVE  /\ rows[c] # NoRow => rows[c].refresh < issued[c] + 1
           /\ batch[c] # NoRow => batch[c].refresh < issued[c] + 1
           /\ \A g \in Handler : Working(g, c) =>
                 /\ job[g].snap.refresh < issued[c] + 1 /\ job[g].snap.refresh \in Nat
                 /\ job[g].base.refresh < issued[c] + 1 /\ job[g].base.refresh \in Nat
<1>1. \A row \in Row : Known(row, c) => row.refresh < issued[c] + 1 /\ row.refresh \in Nat
  BY Rows DEF Known
<1>2. QED
  BY <1>1, Rows DEF Numbered

\* A handler with a token that was issued this moment.
LEMMA FreshKeepsGrants ==
    ASSUME TypeInv, Numbered, NEW h \in Handler, NEW c \in Connection, Sound(c),
           \A g \in Handler : g # h => job'[g] = job[g], rows' = rows, batch' = batch,
           job'[h].snap.refresh = issued[c] + 1
    PROVE  Exclusive(c)' /\ SameRow(c)'
<1>1. \A g \in Handler : g # h /\ Working(g, c)' =>
         /\ Working(g, c) /\ job'[g] = job[g] /\ (Fresh(g)' <=> Fresh(g))
         /\ job'[g].snap.refresh < issued[c] + 1 /\ job'[g].snap.refresh \in Nat
  BY Older DEF Working, Fresh
<1>2. issued[c] + 1 \in Nat
  BY Rows
<1>3. Exclusive(c)'
  <2> SUFFICES ASSUME NEW g \in Handler, Working(g, c)', Fresh(g)'
               PROVE  /\ Differs(rows[c], g)' /\ Differs(batch[c], g)'
                      /\ \A w \in Handler : w # g /\ Working(w, c)' => Differs(job[w].snap, g)'
    BY DEF Exclusive
  <2>1. CASE g = h
    <3>1. Differs(rows[c], g)' /\ Differs(batch[c], g)'
      BY <1>2, <2>1, Older DEF Differs
    <3>2. \A w \in Handler : w # g /\ Working(w, c)' => Differs(job[w].snap, g)'
      BY <1>1, <1>2, <2>1 DEF Differs
    <3>3. QED
      BY <3>1, <3>2
  <2>2. CASE g # h
    <3>1. Working(g, c) /\ Fresh(g) /\ job'[g] = job[g]
      BY <1>1, <2>2
    <3>2. Differs(rows[c], g)' /\ Differs(batch[c], g)'
      BY <3>1 DEF Sound, Exclusive, Differs
    <3>3. ASSUME NEW w \in Handler, w # g, Working(w, c)' PROVE Differs(job[w].snap, g)'
      <4>1. CASE w = h
        BY <1>1, <1>2, <2>2, <3>1, <4>1 DEF Differs
      <4>2. CASE w # h
        BY <1>1, <3>1, <3>3, <4>2 DEF Sound, Exclusive, Differs
      <4>3. QED
        BY <4>1, <4>2
    <3>4. QED
      BY <3>2, <3>3
  <2>3. QED
    BY <2>1, <2>2
<1>4. SameRow(c)'
  <2>1. Agree(rows[c], batch[c])'
    BY DEF Sound, SameRow, Agree
  <2>2. ASSUME NEW g \in Handler, Working(g, c)'
        PROVE  Agree(job[g].snap, rows[c])' /\ Agree(job[g].snap, batch[c])'
    <3>1. CASE g = h
      BY <1>2, <3>1, Older DEF Agree
    <3>2. CASE g # h
      BY <1>1, <2>2, <3>2 DEF Sound, SameRow, Agree
    <3>3. QED
      BY <3>1, <3>2
  <2>3. ASSUME NEW g \in Handler, NEW w \in Handler, Working(g, c)', Working(w, c)'
        PROVE  Agree(job[g].snap, job[w].snap)'
    <3>1. CASE g = h /\ w = h
      BY <3>1 DEF Agree
    <3>2. CASE g = h /\ w # h
      BY <1>1, <1>2, <2>3, <3>2 DEF Agree
    <3>3. CASE g # h /\ w = h
      BY <1>1, <1>2, <2>3, <3>3 DEF Agree
    <3>4. CASE g # h /\ w # h
      BY <1>1, <2>3, <3>4 DEF Sound, SameRow, Agree
    <3>5. QED
      BY <3>1, <3>2, <3>3, <3>4
  <2>4. QED
    BY <2>1, <2>2, <2>3 DEF SameRow
<1>5. QED
  BY <1>3, <1>4

\* A refresh that replaces the refresh token: the handler brings the new one,
\* or, when its row has been deleted meanwhile, takes away none that is needed.
LEMMA RotatingKeepsGrants ==
    ASSUME TypeInv, NEW h \in Handler, Rotates(h), Numbered, NEW c \in Connection, Sound(c)
    PROVE  Numbered' /\ Sound(c)'
<1> DEFINE k   == job[h].conn
           new == issued[k] + 1
           old == job[h].snap.refresh
<1>1. /\ \A g \in Handler : g # h => job'[g] = job[g]
      /\ job[h].pc = "loaded" /\ job'[h].pc = "answered"
      /\ job'[h].conn = k /\ job'[h].base = job[h].base
      /\ job'[h].snap.id = job[h].snap.id /\ job'[h].snap.refresh = new
      /\ old = job[h].base.refresh
      /\ UNCHANGED <<rows, batch, lost, posted, unheard>>
  BY DEF Rotates, Renews
<1>2. k \in Connection /\ issued' = [issued EXCEPT ![k] = @ + 1] /\ old \in honoured[k]
  BY DEF Rotates, OneMore
<1>3. PICK left \in SUBSET honoured[k] :
         honoured[k] \ {old} \subseteq left /\ honoured' = [honoured EXCEPT ![k] = left \cup {new}]
  BY DEF Rotates
<1>4. new \in Nat /\ issued[k] \in Nat /\ honoured[k] \subseteq 1 .. issued[k] /\ left \cup {new} \in SUBSET Nat
  BY <1>2, <1>3, Rows
<1>5. issued'[k] = new /\ \A d \in Connection : d # k => issued'[d] = issued[d]
  BY <1>2 DEF TypeInv, TypeOK
<1> DEFINE now == left \cup {new}
<1>6. new \in now /\ (\A t \in honoured[k] : t # old => t \in now) /\ now \in SUBSET Nat
      /\ honoured' = [honoured EXCEPT ![k] = now] /\ \A t \in now : t \in honoured[k] \/ t = new
  BY <1>3, <1>4
<1> HIDE DEF now
<1>7. honoured'[k] = now /\ \A d \in Connection : d # k => honoured'[d] = honoured[d]
  BY <1>2, <1>6 DEF TypeInv, TypeOK
<1>8. Working(h, k) /\ ~Fresh(h)
  BY <1>1 DEF Working, Fresh
<1>9. Numbered'
  <2>1. Known(job[h].snap, k)' /\ Known(job[h].base, k)'
    BY <1>1, <1>2, <1>4, <1>5, <1>8, Rows DEF Numbered, Known
  <2>2. QED
    BY <1>1, <1>2, <2>1, GrantKeepsNumbers
<1>10. CASE c # k
  <2>1. ~Working(h, c) /\ ~Working(h, c)'
    BY <1>1, <1>10 DEF Working
  <2>2. Sound(c)'
    BY <1>1, <1>5, <1>7, <1>10, <2>1, Aside
  <2>3. QED
    BY <1>9, <2>2
<1>11. CASE c = k
  <2>1. Exclusive(c)' /\ SameRow(c)'
    BY <1>1, <1>11, FreshKeepsGrants
  <2>2. \A g \in Handler : g # h /\ Working(g, c) =>
           job[g].snap.refresh < new /\ job[g].snap.refresh \in Nat
    BY <1>11, Older
  <2>3. \A g \in Handler : g # h /\ Working(g, c) /\ Fresh(g) => job[g].snap.refresh # old
    BY <1>1, <1>8, <1>11, Rows DEF Sound, Exclusive, Differs
  <2>4. Newer(c)'
    <3> SUFFICES ASSUME NEW g \in Handler, Working(g, c)', Fresh(g)'
                 PROVE  /\ job'[g].pc = "answered" =>
                              /\ job'[g].base.refresh < job'[g].snap.refresh
                              /\ \/ job'[g].snap.refresh \in honoured'[c]
                                 \/ \A t \in honoured'[c] : t > job'[g].snap.refresh
                        /\ job'[g].pc = "granted" =>
                              /\ job'[g].snap.access = job'[g].snap.refresh
                              /\ \/ job'[g].snap.refresh \in honoured'[c]
                                 \/ honoured'[c] = {}
                                 \/ issued'[c] > job'[g].snap.refresh
      BY DEF Newer
    <3>1. CASE g = h
      <4>1. job[h].base.refresh < new
        BY <1>8, <1>11, Older
      <4>2. QED
        BY <1>1, <1>6, <1>7, <1>11, <3>1, <4>1
    <3>2. CASE g # h
      <4>1. /\ job'[g] = job[g] /\ Working(g, c) /\ Fresh(g)
            /\ job[g].snap.refresh < new /\ job[g].snap.refresh \in Nat /\ job[g].snap.refresh # old
        BY <1>1, <2>2, <2>3, <3>2 DEF Working, Fresh
      <4>2. job[g].pc = "answered" =>
               /\ job[g].base.refresh < job[g].snap.refresh
               /\ \/ job[g].snap.refresh \in honoured[c]
                  \/ \A t \in honoured[c] : t > job[g].snap.refresh
        BY <4>1 DEF Sound, Newer
      <4>3. job[g].pc = "granted" => job[g].snap.access = job[g].snap.refresh
        BY <4>1 DEF Sound, Newer
      <4>4. issued'[c] > job[g].snap.refresh
        BY <1>4, <1>5, <1>11, <4>1
      <4>5. job[g].snap.refresh \in honoured[c] => job[g].snap.refresh \in honoured'[c]
        BY <1>6, <1>7, <1>11, <4>1
      <4>6. (\A t \in honoured[c] : t > job[g].snap.refresh) => \A t \in honoured'[c] : t > job[g].snap.refresh
        BY <1>4, <1>6, <1>7, <1>11, <4>1
      <4>7. QED
        BY <4>1, <4>2, <4>3, <4>4, <4>5, <4>6
    <3>3. QED
      BY <3>1, <3>2
  <2>5. Kept(c)'
    <3> SUFFICES ASSUME rows[c] # NoRow, "refresh" \notin lost
                 PROVE  \/ rows[c].refresh \in honoured'[c]
                      \/ \E g \in Handler : Brings(g, c)'
                      \/ Covered(c)'
      BY <1>1 DEF Kept
    <3>1. CASE job[h].snap.id = rows[c].id
      <4>1. Brings(h, c)'
        BY <1>1, <1>6, <1>7, <1>11, <3>1 DEF Brings, Working
      <4>2. QED
        BY <4>1
    <3>2. CASE job[h].snap.id # rows[c].id
      <4>1. rows[c].refresh # old
        BY <1>8, <1>11, <3>2, Rows DEF Sound, SameRow, Agree
      <4>2. rows[c].refresh \in honoured[c] \/ (\E g \in Handler : Brings(g, c)) \/ Covered(c)
        BY <1>2, <1>11 DEF Sound, Kept
      <4>3. ASSUME NEW g \in Handler, Brings(g, c) PROVE Brings(g, c)'
        <5>1. g # h /\ Working(g, c) /\ job[g].snap.refresh \in honoured[c]
          BY <1>1, <4>3 DEF Brings
        <5>2. job[g].snap.refresh # old
          <6>1. CASE job[g].pc = "granted"
            BY <2>3, <5>1, <6>1 DEF Fresh
          <6>2. CASE job[g].pc # "granted"
            <7>1. job[g].snap.id = rows[c].id
              BY <4>3, <6>2 DEF Brings
            <7>2. Agree(job[g].snap, job[h].snap) /\ job[g].snap # NoRow /\ job[h].snap # NoRow
              BY <1>8, <1>11, <5>1, Rows DEF Sound, SameRow
            <7>3. QED
              BY <3>2, <7>1, <7>2 DEF Agree
          <6>3. QED
            BY <6>1, <6>2
        <5>3. job[g].snap.refresh \in honoured'[c]
          BY <1>6, <1>7, <1>11, <5>1, <5>2
        <5>4. QED
          BY <1>1, <4>3, <5>1, <5>3 DEF Brings, Working
      <4>4. \A g \in Handler : WillDisable(g, c) => WillDisable(g, c)'
        BY <1>1 DEF WillDisable, Working
      <4>5. Covered(c) => Covered(c)'
        BY <1>1, <4>4 DEF Covered
      <4>6. QED
        BY <1>6, <1>7, <1>11, <4>1, <4>2, <4>3, <4>5
    <3>3. QED
      BY <3>1, <3>2
  <2>6. QED
    BY <1>9, <2>1, <2>4, <2>5 DEF Sound
<1>12. QED
  BY <1>10, <1>11

\* A refresh whose answer is lost: the old token is accepted on, or the handler
\* is about to switch its row off, or the row is not the one it holds.
LEMMA MissingKeepsGrants ==
    ASSUME TypeInv, NEW h \in Handler, Misses(h), Numbered, NEW c \in Connection, Sound(c)
    PROVE  Numbered' /\ Sound(c)'
<1> DEFINE k   == job[h].conn
           new == issued[k] + 1
           old == job[h].snap.refresh
<1>1. /\ \A g \in Handler : g # h => job'[g] = job[g]
      /\ job[h].pc = "loaded" /\ job'[h].pc \in {"refused", "orphaned"}
      /\ job'[h].conn = k /\ job'[h].base = job[h].base
      /\ Copy(job'[h].snap, job[h].snap)
      /\ UNCHANGED <<rows, batch, lost, posted>>
  BY DEF Misses
<1>2. k \in Connection /\ issued' = [issued EXCEPT ![k] = @ + 1] /\ old \in honoured[k]
  BY DEF Misses, OneMore
<1>3. PICK now \in SUBSET (honoured[k] \cup {new}) :
         /\ honoured[k] \ {old} \subseteq now /\ honoured' = [honoured EXCEPT ![k] = now]
         /\ \/ old \in now /\ unheard' = unheard
            \/ job'[h].pc = "orphaned" /\ unheard' = unheard \cup {k}
  BY DEF Misses
<1>4. new \in Nat /\ issued[k] \in Nat /\ honoured[k] \subseteq 1 .. issued[k]
  BY <1>2, Rows
<1>5. issued'[k] = new /\ \A d \in Connection : d # k => issued'[d] = issued[d]
  BY <1>2 DEF TypeInv, TypeOK
<1>6. \A t \in now : t \in honoured[k] \/ t = new
  BY <1>3
<1>7. honoured'[k] = now /\ \A d \in Connection : d # k => honoured'[d] = honoured[d]
  BY <1>2, <1>3 DEF TypeInv, TypeOK
<1>8. Working(h, k) /\ ~Fresh(h)
  BY <1>1 DEF Working, Fresh
<1>9. \A g \in Handler, d \in Connection : Working(g, d)' <=> Working(g, d)
  BY <1>1 DEF Working
<1>10. \A g \in Handler : Fresh(g)' => g # h /\ Fresh(g)
  BY <1>1 DEF Fresh
<1>11. Numbered'
  <2>1. Known(job[h].snap, k) /\ Known(job[h].base, k) /\ job[h].snap \in Row /\ job[h].base \in Row
    BY <1>2, <1>8, Rows DEF Numbered
  <2>2. Known(job[h].snap, k)' /\ Known(job[h].base, k)'
    BY <1>1, <1>4, <1>5, <2>1, Rows DEF Known, Copy
  <2>3. QED
    BY <1>1, <1>2, <2>2, GrantKeepsNumbers
<1>12. unheard \subseteq unheard'
  BY <1>3
<1>13. CASE c # k
  <2>1. ~Working(h, c) /\ ~Working(h, c)'
    BY <1>1, <1>13 DEF Working
  <2>2. Sound(c)'
    BY <1>1, <1>5, <1>7, <1>12, <1>13, <2>1, Aside
  <2>3. QED
    BY <1>11, <2>2
<1>14. CASE c = k
  <2>1. Exclusive(c)'
    BY <1>1, <1>9, <1>10, SentinelAssumption DEF Sound, Exclusive, Differs, Copy
  <2>2. SameRow(c)'
    BY <1>1, <1>9, SentinelAssumption DEF Sound, SameRow, Agree, Copy
  <2>3. \A g \in Handler : g # h /\ Working(g, c) /\ Fresh(g) => job[g].snap.refresh # old
    BY <1>1, <1>8, <1>14, Rows DEF Sound, Exclusive, Differs
  <2>4. Newer(c)'
    <3> SUFFICES ASSUME NEW g \in Handler, Working(g, c)', Fresh(g)'
                 PROVE  /\ job'[g].pc = "answered" =>
                              /\ job'[g].base.refresh < job'[g].snap.refresh
                              /\ \/ job'[g].snap.refresh \in honoured'[c]
                                 \/ \A t \in honoured'[c] : t > job'[g].snap.refresh
                        /\ job'[g].pc = "granted" =>
                              /\ job'[g].snap.access = job'[g].snap.refresh
                              /\ \/ job'[g].snap.refresh \in honoured'[c]
                                 \/ honoured'[c] = {}
                                 \/ issued'[c] > job'[g].snap.refresh
      BY DEF Newer
    <3>1. /\ g # h /\ job'[g] = job[g] /\ Working(g, c) /\ Fresh(g)
      BY <1>1, <1>9, <1>10
    <3>2. job[g].snap.refresh < new /\ job[g].snap.refresh \in Nat /\ job[g].snap.refresh # old
      BY <1>14, <2>3, <3>1, Older
    <3>3. job[g].pc = "answered" =>
             /\ job[g].base.refresh < job[g].snap.refresh
             /\ \/ job[g].snap.refresh \in honoured[c]
                \/ \A t \in honoured[c] : t > job[g].snap.refresh
      BY <3>1 DEF Sound, Newer
    <3>4. job[g].pc = "granted" => job[g].snap.access = job[g].snap.refresh
      BY <3>1 DEF Sound, Newer
    <3>5. issued'[c] > job[g].snap.refresh
      BY <1>4, <1>5, <1>14, <3>2
    <3>6. job[g].snap.refresh \in honoured[c] => job[g].snap.refresh \in honoured'[c]
      BY <1>3, <1>7, <1>14, <3>2
    <3>7. (\A t \in honoured[c] : t > job[g].snap.refresh) => \A t \in honoured'[c] : t > job[g].snap.refresh
      BY <1>4, <1>6, <1>7, <1>14, <3>2
    <3>8. QED
      BY <3>1, <3>3, <3>4, <3>5, <3>6, <3>7
  <2>5. ASSUME NEW g \in Handler, Brings(g, c), old \in now \/ job[g].snap.refresh # old
        PROVE  Brings(g, c)'
    <3>1. g # h /\ Working(g, c) /\ job[g].snap.refresh \in honoured[c]
      BY <1>1, <2>5 DEF Brings
    <3>2. job[g].snap.refresh \in honoured'[c]
      BY <1>3, <1>7, <1>14, <2>5, <3>1
    <3>3. QED
      BY <1>1, <2>5, <3>1, <3>2 DEF Brings, Working
  <2>6. Covered(c) => Covered(c)'
    <3>1. \A g \in Handler : WillDisable(g, c) => WillDisable(g, c)'
      BY <1>1 DEF WillDisable, Working
    <3>2. QED
      BY <1>1, <1>12, <3>1 DEF Covered
  <2>7. Kept(c)'
    <3> SUFFICES ASSUME rows[c] # NoRow, "refresh" \notin lost
                 PROVE  \/ rows[c].refresh \in honoured'[c]
                        \/ \E g \in Handler : Brings(g, c)'
                        \/ Covered(c)'
      BY <1>1 DEF Kept
    <3>1. rows[c].refresh \in honoured[c] \/ (\E g \in Handler : Brings(g, c)) \/ Covered(c)
      BY <1>2, <1>14 DEF Sound, Kept
    <3>2. CASE old \in now
      BY <1>3, <1>7, <1>14, <2>5, <2>6, <3>1, <3>2
    <3>3. CASE job'[h].pc = "orphaned" /\ unheard' = unheard \cup {k}
      <4>1. job[h].snap.id = rows[c].id => Covered(c)'
        <5>1. job[h].snap.id = rows[c].id => WillDisable(h, c)'
          BY <1>1, <1>14, <3>3 DEF WillDisable, Working, Copy
        <5>2. QED
          BY <1>14, <3>3, <5>1 DEF Covered
      <4>2. rows[c].refresh = old => job[h].snap.id = rows[c].id
        BY <1>8, <1>14, Rows DEF Sound, SameRow, Agree
      <4>3. ASSUME NEW g \in Handler, Brings(g, c), job[g].snap.refresh = old
            PROVE  job[h].snap.id = rows[c].id
        <5>1. g # h /\ Working(g, c) /\ ~Fresh(g)
          BY <1>1, <2>3, <4>3 DEF Brings
        <5>2. job[g].snap.id = rows[c].id
          BY <4>3, <5>1 DEF Brings, Fresh
        <5>3. Agree(job[g].snap, job[h].snap) /\ job[g].snap # NoRow /\ job[h].snap # NoRow
          BY <1>8, <1>14, <5>1, Rows DEF Sound, SameRow
        <5>4. QED
          BY <4>3, <5>2, <5>3 DEF Agree
      <4>4. CASE rows[c].refresh \in honoured[c]
        BY <1>3, <1>7, <1>14, <4>1, <4>2, <4>4
      <4>5. ASSUME NEW g \in Handler, Brings(g, c)
            PROVE  Brings(g, c)' \/ Covered(c)'
        BY <2>5, <4>1, <4>3, <4>5
      <4>6. QED
        BY <2>6, <3>1, <4>4, <4>5
    <3>4. QED
      BY <1>3, <3>2, <3>3
  <2>8. QED
    BY <1>11, <2>1, <2>2, <2>4, <2>7 DEF Sound
<1>15. QED
  BY <1>13, <1>14

\* The callback's process has the new token until it stores it.
LEMMA ExchangeKeepsGrants ==
    ASSUME TypeInv, NEW h \in Handler, NEW k \in Connection, Exchanges(h, k), Numbered,
           NEW c \in Renewable, Sound(c)
    PROVE  Numbered' /\ Sound(c)'
<1> DEFINE new  == issued[k] + 1
           mine == IF k \in LongLived THEN 0 ELSE new
           now  == honoured[k] \cup ({mine} \ {0})
<1>1. /\ \A g \in Handler : g # h => job'[g] = job[g]
      /\ job[h].pc = "idle" /\ job'[h].pc = "granted" /\ job'[h].conn = k
      /\ job'[h].base = job'[h].snap /\ job'[h].snap \in Row
      /\ job'[h].snap.id = new /\ job'[h].snap.access = new /\ job'[h].snap.refresh = mine
      /\ issued' = [issued EXCEPT ![k] = @ + 1] /\ honoured' = [honoured EXCEPT ![k] = now]
      /\ UNCHANGED <<rows, batch, lost, posted, unheard>>
  BY DEF Exchanges
<1>2. new \in Nat \ {0} /\ issued[k] \in Nat /\ mine \in Nat /\ honoured[k] \subseteq 1 .. issued[k] /\ c \in Connection
  BY Rows DEF Renewable
<1>3. issued'[k] = new /\ \A d \in Connection : d # k => issued'[d] = issued[d]
  BY <1>1 DEF TypeInv, TypeOK
<1>4. now \in SUBSET Nat /\ \A t \in honoured[k] : t \in now
  BY <1>2
<1>5. k \notin LongLived => mine = new /\ new \in now /\ \A t \in now : t \in honoured[k] \/ t = new
  BY <1>2
<1> HIDE DEF now
<1>6. honoured'[k] = now /\ \A d \in Connection : d # k => honoured'[d] = honoured[d]
  BY <1>1 DEF TypeInv, TypeOK
<1>7. Numbered'
  <2>1. Known(job[h].snap, k)' /\ Known(job[h].base, k)'
    BY <1>1, <1>2, <1>3 DEF Known
  <2>2. QED
    BY <1>1, <2>1, GrantKeepsNumbers
<1>8. CASE c # k
  <2>1. ~Working(h, c) /\ ~Working(h, c)'
    BY <1>1, <1>8 DEF Working
  <2>2. Sound(c)'
    BY <1>1, <1>2, <1>3, <1>6, <1>8, <2>1, Aside
  <2>3. QED
    BY <1>7, <2>2
<1>9. CASE c = k
  <2>1. k \notin LongLived
    BY <1>9 DEF Renewable
  <2>2. Exclusive(c)' /\ SameRow(c)'
    BY <1>1, <1>2, <1>5, <1>9, <2>1, FreshKeepsGrants
  <2>3. Newer(c)'
    <3> SUFFICES ASSUME NEW g \in Handler, Working(g, c)', Fresh(g)'
                 PROVE  /\ job'[g].pc = "answered" =>
                              /\ job'[g].base.refresh < job'[g].snap.refresh
                              /\ \/ job'[g].snap.refresh \in honoured'[c]
                                 \/ \A t \in honoured'[c] : t > job'[g].snap.refresh
                        /\ job'[g].pc = "granted" =>
                              /\ job'[g].snap.access = job'[g].snap.refresh
                              /\ \/ job'[g].snap.refresh \in honoured'[c]
                                 \/ honoured'[c] = {}
                                 \/ issued'[c] > job'[g].snap.refresh
      BY DEF Newer
    <3>1. CASE g = h
      BY <1>1, <1>5, <1>6, <1>9, <2>1, <3>1
    <3>2. CASE g # h
      <4>1. job'[g] = job[g] /\ Working(g, c) /\ Fresh(g)
        BY <1>1, <3>2 DEF Working, Fresh
      <4>2. job[g].snap.refresh < new /\ job[g].snap.refresh \in Nat
        BY <1>9, <4>1, Older
      <4>3. job[g].pc = "answered" =>
               /\ job[g].base.refresh < job[g].snap.refresh
               /\ \/ job[g].snap.refresh \in honoured[c]
                  \/ \A t \in honoured[c] : t > job[g].snap.refresh
        BY <4>1 DEF Sound, Newer
      <4>4. job[g].pc = "granted" => job[g].snap.access = job[g].snap.refresh
        BY <4>1 DEF Sound, Newer
      <4>5. issued'[c] > job[g].snap.refresh
        BY <1>2, <1>3, <1>9, <4>2
      <4>6. job[g].snap.refresh \in honoured[c] => job[g].snap.refresh \in honoured'[c]
        BY <1>4, <1>6, <1>9
      <4>7. (\A t \in honoured[c] : t > job[g].snap.refresh) => \A t \in honoured'[c] : t > job[g].snap.refresh
        BY <1>2, <1>5, <1>6, <1>9, <2>1, <4>2
      <4>8. QED
        BY <4>1, <4>3, <4>4, <4>5, <4>6, <4>7
    <3>3. QED
      BY <3>1, <3>2
  <2>4. Brings(h, c)'
    BY <1>1, <1>5, <1>6, <1>9, <2>1 DEF Brings, Working
  <2>5. Kept(c)'
    BY <2>4 DEF Kept
  <2>6. QED
    BY <1>7, <2>2, <2>3, <2>5 DEF Sound
<1>10. QED
  BY <1>8, <1>9

\* The callback stores its token; if that is no longer accepted, there was
\* another grant since, and the row has lost it.
LEMMA StoringKeepsGrants ==
    ASSUME TypeInv, NEW h \in Handler, Stores(h), Numbered, NEW c \in Connection, Sound(c)
    PROVE  Numbered' /\ Sound(c)'
<1> DEFINE k == job[h].conn
<1>1. /\ k \in Connection
      /\ \A g \in Handler : g # h => job'[g] = job[g]
      /\ job[h].pc = "granted" /\ job'[h].pc = "connected" /\ job'[h].conn = k
      /\ job[h].snap \in Row
      /\ job'[h].snap = rows'[k] /\ job'[h].base = rows'[k] /\ rows'[k] \in Row
      /\ \A d \in Connection : d # k => rows'[d] = rows[d]
      /\ rows'[k].refresh = job[h].snap.refresh
      /\ rows'[k].id = IF rows[k] = NoRow THEN job[h].snap.id ELSE rows[k].id
      /\ lost' = lost \cup IF issued[k] > job[h].snap.access THEN {"refresh"} ELSE {}
      /\ UNCHANGED <<batch, issued, honoured, posted, unheard>>
  BY DEF Stores
<1>2. Working(h, k) /\ Fresh(h) /\ job[h].snap # NoRow /\ rows'[k] # NoRow
  BY <1>1, SentinelAssumption DEF Working, Fresh
<1>3. Known(rows'[k], k)
  BY <1>1, <1>2 DEF Numbered, Known
<1>4. Numbered'
  <2>1. ASSUME NEW e \in Connection PROVE Known(rows[e], e)' /\ Known(batch[e], e)'
    <3>1. CASE e = k
      BY <1>1, <1>3, <3>1 DEF Numbered, Known
    <3>2. CASE e # k
      BY <1>1, <3>2 DEF Numbered, Known
    <3>3. QED
      BY <3>1, <3>2
  <2>2. ASSUME NEW e \in Connection, NEW g \in Handler, Working(g, e)'
        PROVE  Known(job[g].snap, e)' /\ Known(job[g].base, e)'
    <3>1. CASE g = h
      BY <1>1, <1>3, <2>2, <3>1 DEF Known, Working
    <3>2. CASE g # h
      BY <1>1, <2>2, <3>2 DEF Numbered, Known, Working
    <3>3. QED
      BY <3>1, <3>2
  <2>3. QED
    BY <2>1, <2>2 DEF Numbered
<1>5. CASE c # k
  <2>1. ~Working(h, c) /\ ~Working(h, c)' /\ lost \subseteq lost'
    BY <1>1, <1>5 DEF Working
  <2>2. Sound(c)'
    BY <1>1, <1>5, <2>1, Aside
  <2>3. QED
    BY <1>4, <2>2
<1>6. CASE c = k
  <2>1. \A g \in Handler : Working(g, c)' => g = h \/ (g # h /\ Working(g, c) /\ job'[g] = job[g])
    BY <1>1 DEF Working
  <2>2. \A g \in Handler : Fresh(g)' => g # h /\ Fresh(g)
    BY <1>1 DEF Fresh
  <2>3. /\ Differs(batch[c], h)
        /\ \A g \in Handler : g # h /\ Working(g, c) => Differs(job[g].snap, h)
    BY <1>2, <1>6 DEF Sound, Exclusive
  <2>4. Exclusive(c)'
    <3> SUFFICES ASSUME NEW g \in Handler, Working(g, c)', Fresh(g)'
                 PROVE  /\ Differs(rows[c], g)' /\ Differs(batch[c], g)'
                        /\ \A w \in Handler : w # g /\ Working(w, c)' => Differs(job[w].snap, g)'
      BY DEF Exclusive
    <3>1. /\ g # h /\ Working(g, c) /\ Fresh(g) /\ job'[g] = job[g] /\ Differs(batch[c], g)
          /\ \A w \in Handler : w # g /\ Working(w, c) => Differs(job[w].snap, g)
      BY <2>1, <2>2 DEF Sound, Exclusive
    <3>2. Differs(rows[c], g)'
      BY <1>1, <1>2, <1>6, <3>1 DEF Differs
    <3>3. Differs(batch[c], g)'
      BY <1>1, <3>1 DEF Differs
    <3>4. ASSUME NEW w \in Handler, w # g, Working(w, c)' PROVE Differs(job[w].snap, g)'
      BY <1>1, <1>6, <2>1, <3>1, <3>2, <3>4 DEF Differs
    <3>5. QED
      BY <3>2, <3>3, <3>4
  <2>5. SameRow(c)'
    <3>1. Agree(rows[c], batch[c])'
      BY <1>1, <1>2, <1>6, <2>3 DEF Agree, Differs
    <3>2. ASSUME NEW g \in Handler, Working(g, c)'
          PROVE  Agree(job[g].snap, rows[c])' /\ Agree(job[g].snap, batch[c])'
      <4>1. CASE g = h
        BY <1>1, <1>6, <3>1, <4>1 DEF Agree
      <4>2. CASE g # h
        BY <1>1, <1>2, <1>6, <2>1, <2>3, <3>2, <4>2 DEF Sound, SameRow, Agree, Differs
      <4>3. QED
        BY <4>1, <4>2
    <3>3. ASSUME NEW g \in Handler, NEW w \in Handler, Working(g, c)', Working(w, c)'
          PROVE  Agree(job[g].snap, job[w].snap)'
      <4>1. CASE w = h
        BY <1>1, <1>6, <3>2, <3>3, <4>1 DEF Agree
      <4>2. CASE g = h
        BY <1>1, <1>6, <3>2, <3>3, <4>2 DEF Agree
      <4>3. CASE g # h /\ w # h
        BY <2>1, <3>3, <4>3 DEF Sound, SameRow, Agree
      <4>4. QED
        BY <4>1, <4>2, <4>3
    <3>4. QED
      BY <3>1, <3>2, <3>3 DEF SameRow
  <2>6. Newer(c)'
    BY <1>1, <2>1, <2>2 DEF Sound, Newer
  <2>7. Kept(c)'
    <3> SUFFICES ASSUME honoured[c] # {}, "refresh" \notin lost'
                 PROVE  rows'[c].refresh \in honoured[c]
      BY <1>1 DEF Kept
    <3>1. ~(issued[c] > job[h].snap.access)
      BY <1>1, <1>6
    <3>2. /\ job[h].snap.access = job[h].snap.refresh
          /\ \/ job[h].snap.refresh \in honoured[c]
             \/ honoured[c] = {}
             \/ issued[c] > job[h].snap.refresh
      BY <1>1, <1>2, <1>6 DEF Sound, Newer
    <3>3. QED
      BY <1>1, <1>6, <3>1, <3>2
  <2>8. QED
    BY <1>4, <2>4, <2>5, <2>6, <2>7 DEF Sound
<1>7. QED
  BY <1>5, <1>6

LEMMA NextKeepsGrants ==
    ASSUME TypeInv, [Next]_vars, Numbered, NEW c \in Renewable, Sound(c)
    PROVE  Numbered' /\ Sound(c)'
<1>1. c \in Connection
  BY DEF Renewable
<1>2. CASE Passing
  BY <1>1, <1>2, TameKeepsNumbers, TameKeepsGrants DEF Passing
<1>3. CASE Fetching
  BY <1>1, <1>3, FetchKeepsGrants DEF Fetching
<1>4. CASE Outside
  BY <1>1, <1>4, OutsideKeepsGrants
<1>5. ASSUME NEW h \in Handler, KeepsToken(h) \/ LongLives(h) \/ Rotates(h) \/ Misses(h) \/ Stores(h)
      PROVE  Numbered' /\ Sound(c)'
  BY <1>1, <1>5, KeepingKeepsGrants, LongLivedKeepsGrants, RotatingKeepsGrants,
     MissingKeepsGrants, StoringKeepsGrants
<1>6. ASSUME NEW h \in Handler, NEW k \in Connection, Exchanges(h, k)
      PROVE  Numbered' /\ Sound(c)'
  BY <1>6, ExchangeKeepsGrants
<1>7. QED
  BY <1>2, <1>3, <1>4, <1>5, <1>6, NextKinds, Zenon

LEMMA InitGrants == Init => GrantInv
<1> SUFFICES ASSUME Init, NEW c \in Renewable PROVE Numbered /\ Sound(c)
  BY DEF GrantInv
<1>1. /\ \A d \in Connection : rows[d] = NoRow /\ batch[d] = NoRow
      /\ \A h \in Handler, d \in Connection : ~Working(h, d)
      /\ c \in Connection
  BY DEF Init, Idle, Working, Renewable
<1>2. Numbered
  BY <1>1 DEF Numbered, Known
<1>3. Sound(c)
  BY <1>1 DEF Sound, Exclusive, SameRow, Agree, Newer, Kept
<1>4. QED
  BY <1>2, <1>3

\* While the provider accepts a refresh token of a connection, the row or a
\* handler about to store it has one, unless a stale save overwrote a newer one
\* or a handler died with it, or the answer that carried it never arrived; then
\* the connection is switched off and does not go on with the consumed token.
THEOREM GrantIsKept == Spec => []GrantNotLost
<1> DEFINE Inv == TypeInv /\ GrantInv
<1>1. Init => Inv
  BY InitTypes, InitGrants
<1>2. Inv /\ [Next]_vars => Inv'
  <2> SUFFICES ASSUME Inv, [Next]_vars PROVE Inv'
    OBVIOUS
  <2>1. TypeInv'
    BY NextKeepsTypes
  <2>2. ASSUME NEW c \in Renewable PROVE Numbered' /\ Sound(c)'
    BY <2>2, NextKeepsGrants DEF GrantInv
  <2>3. GrantInv'
    BY <2>2 DEF GrantInv
  <2>4. QED
    BY <2>1, <2>3
<1>3. Inv => GrantNotLost
  <2> SUFFICES ASSUME Inv, NEW c \in Connection \ LongLived,
                      rows[c] # NoRow, honoured[c] # {}, "refresh" \notin lost
               PROVE  \/ rows[c].refresh \in honoured[c]
                      \/ \E h \in Handler : Holds(h, c)
                      \/ c \in unheard /\ SeenAsOff(c)
    BY DEF GrantNotLost
  <2>1. rows[c].refresh \in honoured[c] \/ (\E h \in Handler : Brings(h, c)) \/ Covered(c)
    BY DEF GrantInv, Renewable, Sound, Kept
  <2>2. \A h \in Handler : Brings(h, c) => Holds(h, c)
    BY DEF Brings, Working, Holds
  <2>3. Covered(c) => c \in unheard /\ SeenAsOff(c)
    BY DEF Covered, WillDisable, Working, SeenAsOff, At
  <2>4. QED
    BY <2>1, <2>2, <2>3
<1>4. QED
  BY <1>1, <1>2, <1>3, PTL DEF Spec
=============================================================================
