--------------------------- MODULE AccountsProofs ---------------------------
(***************************************************************************)
(* What the account handlers promise, for every number of processes and    *)
(* users and every set of roles: flags are what was last asked for, a role *)
(* change that nothing disturbs is whole, and a login that is turned away  *)
(* has lost its state in both places.                                      *)
(***************************************************************************)
EXTENDS WebProcessProofs

--------------------------------------------------------------------------
(* The flags of an account.                                                *)

\* What a save of one user's row must show: a flag that it leaves different from
\* what was asked for was so before, or it is marked.
LEMMA OneRowKeepsFlags ==
    ASSUME AccountsInv, FlagsAsSet, NEW u \in User, NEW new \in Flags, NEW given \in Flags,
           users' = [users EXCEPT ![u] = new], want' = [want EXCEPT ![u] = given],
           \A v \in User, f \in Flag : v # u /\ <<v, f>> \in stale => <<v, f>> \in stale',
           \A f \in Flag : new[f] # given[f] => <<u, f>> \in stale'
    PROVE  FlagsAsSet'
<1> SUFFICES ASSUME NEW v \in User, NEW f \in Flag, Exists(v)', users'[v][f] # want'[v][f]
             PROVE  <<v, f>> \in stale'
  BY DEF FlagsAsSet
<1> USE DEF AccountsInv, AccountsTypeOK
<1>1. CASE v = u
  BY <1>1
<1>2. CASE v # u
  BY <1>2 DEF FlagsAsSet, Exists
<1>3. QED
  BY <1>1, <1>2

LEMMA SavesKeepFlags ==
    ASSUME AccountsInv, FlagsAsSet, NEW p \in Process, SaveFlag(p) \/ SavePatch(p) \/ SaveRename(p)
    PROVE  FlagsAsSet'
<1> DEFINE j == job[p]
<1>1. PICK u \in User : u = j.user /\ j \in Jobs /\ Exists(u)
  BY JobTyped DEF SaveFlag, SavePatch, SaveRename, AccountsInv, AccountsTypeOK, Founded
<1>2. users[u] \in Flags /\ want[u] \in Flags
  BY <1>1, RowOrNone DEF Exists, SameRows, AccountsInv, AccountsTypeOK
<1>3. \A f \in Flag : users[u][f] # want[u][f] => <<u, f>> \in stale
  BY <1>1 DEF FlagsAsSet
<1>4. CASE SaveFlag(p)
  <2> DEFINE new   == [users[u] EXCEPT ![j.flag] = j.value]
             given == [want[u] EXCEPT ![j.flag] = j.value]
  <2>1. /\ users' = [users EXCEPT ![u] = new] /\ want' = [want EXCEPT ![u] = given]
        /\ stale' = stale \ {<<u, j.flag>>}
        /\ j.flag \in Flag /\ j.value \in BOOLEAN
    BY <1>1, <1>4, JobTyped DEF SaveFlag, WithFlag
  <2>2. new \in Flags /\ given \in Flags
    BY <1>2, <2>1, FlagTyped
  <2>3. \A f \in Flag : new[f] # given[f] => f # j.flag /\ users[u][f] # want[u][f]
    BY <1>2, <2>1 DEF Flags
  <2>4. \A f \in Flag : new[f] # given[f] => <<u, f>> \in stale'
    BY <1>3, <2>1, <2>3
  <2>5. \A v \in User, f \in Flag : v # u /\ <<v, f>> \in stale => <<v, f>> \in stale'
    BY <2>1
  <2> HIDE DEF new, given
  <2>6. QED
    <3>1. users' = [users EXCEPT ![u] = new] /\ want' = [want EXCEPT ![u] = given]
      BY <2>1
    <3>2. QED
      BY <2>2, <2>4, <2>5, <3>1, OneRowKeepsFlags
<1>5. ASSUME NEW new \in Flags, NEW f \in Flag, new[f] # want[u][f]
      PROVE  <<u, f>> \in stale \cup Overwritten(u, new)
  BY <1>3, <1>5 DEF Overwritten
<1>6. CASE SavePatch(p)
  <2> DEFINE new   == [j.snap EXCEPT ![j.flag] = j.value]
             given == [want[u] EXCEPT ![j.flag] = j.value]
  <2>1. /\ users' = [users EXCEPT ![u] = new] /\ want' = [want EXCEPT ![u] = given]
        /\ stale' = (stale \cup Overwritten(u, new)) \ {<<u, j.flag>>}
        /\ j.flag \in Flag /\ j.value \in BOOLEAN /\ j.snap \in Flags
    BY <1>1, <1>6, JobTyped DEF SavePatch
  <2>2. new \in Flags /\ given \in Flags
    BY <1>2, <2>1, FlagTyped
  <2>3. \A f \in Flag : new[f] # given[f] => f # j.flag /\ new[f] # want[u][f]
    BY <1>2, <2>1 DEF Flags
  <2>4. \A f \in Flag : new[f] # given[f] => <<u, f>> \in stale'
    BY <1>5, <2>1, <2>2, <2>3
  <2>5. \A v \in User, f \in Flag : v # u /\ <<v, f>> \in stale => <<v, f>> \in stale'
    BY <2>1
  <2> HIDE DEF new, given
  <2>6. QED
    <3>1. users' = [users EXCEPT ![u] = new] /\ want' = [want EXCEPT ![u] = given]
      BY <2>1
    <3>2. QED
      BY <2>2, <2>4, <2>5, <3>1, OneRowKeepsFlags
<1>7. CASE SaveRename(p)
  <2> DEFINE new   == j.snap
             given == want[u]
  <2>1. /\ users' = [users EXCEPT ![u] = new] /\ want' = [want EXCEPT ![u] = given]
        /\ stale' = stale \cup Overwritten(u, new) /\ new \in Flags /\ given \in Flags
    BY <1>1, <1>2, <1>7, JobTyped DEF SaveRename, AccountsInv, AccountsTypeOK
  <2>2. \A f \in Flag : new[f] # given[f] => <<u, f>> \in stale'
    BY <1>5, <2>1
  <2>3. \A v \in User, f \in Flag : v # u /\ <<v, f>> \in stale => <<v, f>> \in stale'
    BY <2>1
  <2> HIDE DEF new, given
  <2>4. users' = [users EXCEPT ![u] = new] /\ want' = [want EXCEPT ![u] = given]
    BY <2>1
  <2>5. new \in Flags /\ given \in Flags
    BY <2>1
  <2>6. QED
    BY <2>2, <2>3, <2>4, <2>5, OneRowKeepsFlags
<1>8. QED
  BY <1>4, <1>6, <1>7

LEMMA BulkKeepsFlags ==
    ASSUME AccountsInv, FlagsAsSet, NEW p \in Process, NEW U \in SUBSET User, bulk_actions(p, U)
    PROVE  FlagsAsSet'
<1> SUFFICES ASSUME NEW w \in User, NEW g \in Flag, Exists(w)', users'[w][g] # want'[w][g]
             PROVE  <<w, g>> \in stale'
  BY DEF FlagsAsSet
<1>1. PICK f \in {"is_active", "is_staff"}, v \in BOOLEAN :
          /\ users' = [u \in User |-> IF u \in U THEN [users[u] EXCEPT ![f] = v] ELSE users[u]]
          /\ want' = [u \in User |-> IF u \in U THEN [want[u] EXCEPT ![f] = v] ELSE want[u]]
          /\ stale' = stale \ {<<u, f>> : u \in U}
  BY DEF bulk_actions
<1>2. \A u \in U : users[u] \in Flags /\ want[u] \in Flags
  BY RowOrNone DEF bulk_actions, Exists, SameRows, AccountsInv, AccountsTypeOK
<1>3. users'[w] = IF w \in U THEN [users[w] EXCEPT ![f] = v] ELSE users[w]
  BY <1>1, Zenon
<1>4. want'[w] = IF w \in U THEN [want[w] EXCEPT ![f] = v] ELSE want[w]
  BY <1>1, Zenon
<1>5. ~(w \in U /\ g = f) /\ users[w][g] # want[w][g]
  BY <1>2, <1>3, <1>4 DEF Flags
<1>6. Exists(w)
  <2>1. CASE w \in U
    BY <2>1 DEF bulk_actions
  <2>2. CASE w \notin U
    BY <1>3, <2>2 DEF Exists
  <2>3. QED
    BY <2>1, <2>2
<1>7. <<w, g>> \in stale
  BY <1>5, <1>6 DEF FlagsAsSet
<1>8. QED
  BY <1>1, <1>5, <1>7

LEMMA LoginKeepsFlags ==
    ASSUME AccountsInv, FlagsAsSet, NEW p \in Process, GetOrCreate(p) \/ LogIn(p)
    PROVE  FlagsAsSet'
<1>1. CASE GetOrCreate(p)
  <2>1. CASE Exists(Google)
    BY <1>1, <2>1 DEF GetOrCreate, FlagsAsSet, Exists
  <2>2. CASE ~Exists(Google)
    <3>1. PICK verified \in BOOLEAN : /\ users' = [users EXCEPT ![Google] = NewAccount(verified)]
                                      /\ want' = [want EXCEPT ![Google] = NewAccount(verified)]
      BY <1>1, <2>2 DEF GetOrCreate
    <3>2. NewAccount(verified) \in Flags /\ UNCHANGED stale
      BY <1>1, NewAccountTyped DEF GetOrCreate
    <3>3. QED
      BY <3>1, <3>2, OneRowKeepsFlags, AccountAssumption
  <2>3. QED
    BY <2>1, <2>2
<1>2. CASE LogIn(p)
  <2>1. PICK verified \in BOOLEAN :
          /\ users' = [users EXCEPT ![Google] =
                           [f \in Flag |-> @[f] \/ f \in Changed(job[p].snap, verified)]]
          /\ want' = [want EXCEPT ![Google] =
                           [f \in Flag |-> @[f] \/ f \in Changed(job[p].snap, verified)]]
          /\ stale' = stale \ ({Google} \X Changed(job[p].snap, verified))
    BY <1>2 DEF LogIn
  <2> DEFINE C     == Changed(job[p].snap, verified)
             new   == [f \in Flag |-> users[Google][f] \/ f \in C]
             given == [f \in Flag |-> want[Google][f] \/ f \in C]
  <2>2. job[p].op = "account" /\ Exists(Google)
    BY <1>2 DEF LogIn, AccountsInv, Founded
  <2>3. users[Google] \in Flags /\ want[Google] \in Flags
    BY <2>2, RowOrNone, AccountAssumption DEF SameRows, Exists, AccountsInv, AccountsTypeOK
  <2> HIDE DEF C
  <2>4. new \in Flags /\ given \in Flags
    BY <2>3 DEF Flags
  <2>5. ASSUME NEW f \in Flag, new[f] # given[f]
        PROVE  <<Google, f>> \in stale'
    <3>1. f \notin C /\ users[Google][f] # want[Google][f]
      BY <2>3, <2>5 DEF Flags
    <3>2. <<Google, f>> \in stale
      BY <2>2, <3>1, AccountAssumption DEF FlagsAsSet
    <3>3. stale' = stale \ ({Google} \X C)
      BY <2>1 DEF C
    <3>4. QED
      BY <3>1, <3>2, <3>3
  <2>6. \A v \in User, f \in Flag : v # Google /\ <<v, f>> \in stale => <<v, f>> \in stale'
    <3>1. stale' = stale \ ({Google} \X C)
      BY <2>1 DEF C
    <3>2. QED
      BY <3>1
  <2>7. users' = [users EXCEPT ![Google] = new] /\ want' = [want EXCEPT ![Google] = given]
    BY <2>1 DEF C
  <2> HIDE DEF new, given
  <2>8. QED
    BY <2>4, <2>5, <2>6, <2>7, OneRowKeepsFlags, AccountAssumption
<1>3. QED
  BY <1>1, <1>2

LEMMA FlagsKept == AccountsInv /\ FlagsAsSet /\ [WebNext]_webVars => FlagsAsSet'
<1> SUFFICES ASSUME AccountsInv, FlagsAsSet, [WebNext]_webVars PROVE FlagsAsSet'
  OBVIOUS
<1>1. CASE UNCHANGED <<users, want, stale>>
  BY <1>1 DEF FlagsAsSet, Exists
<1>2. CASE ~UNCHANGED <<users, want, stale>>
  <2>1. AccountsNext
    BY <1>2 DEF WebNext, webVars, accountVars, KillWorker, AccountsWiped, userVars
  <2>2. PICK p \in Process : AccountsStep(p)
    BY <2>1 DEF AccountsNext
  <2>3. \/ SaveFlag(p) \/ SavePatch(p) \/ SaveRename(p)
        \/ \E U \in SUBSET User \ {{}} : bulk_actions(p, U)
        \/ GetOrCreate(p) \/ LogIn(p)
    BY <1>2, <2>2 DEF AccountsStep, LoadForFlag, LoadForPatch, LoadForProfile, StartSetRoles, RemoveRoles,
                      AddRoles, OpenWindow, Throttle, Look, Count, ExpireHits, GoogleAuthStart,
                      GoogleDeclined, ExpireState, GoogleAuthCallback, GoogleFails, userVars, accountVars
  <2>4. QED
    BY <2>3, SavesKeepFlags, BulkKeepsFlags, LoginKeepsFlags
<1>3. QED
  BY <1>1, <1>2

\* Only the whole-row save of a PATCH turns a flag back: the handlers that save one
\* column, the bulk update and the login never undo each other.
THEOREM FlagsAreAsSet == WebSpec => []FlagsAsSet
<1>1. WebInit => FlagsAsSet
  BY DEF WebInit, AccountsInit, FlagsAsSet
<1>2. WebInv => AccountsInv
  BY DEF WebInv
<1>3. QED
  BY <1>1, <1>2, FlagsKept, WebInvHolds, PTL DEF WebSpec
--------------------------------------------------------------------------
(* The roles of a user.                                                    *)

\* What is owed to a user whose roles nobody set twice at once: one request at most
\* is setting them, and what it still has to write makes the groups what was asked
\* for. RolesAsAsked says so only of the end, and is not inductive by itself.
RolesDue == \A u \in User \ raced :
    /\ \A p, q \in SettingRoles(u) : p = q
    /\ SettingRoles(u) = {} => groups[u] = wanted[u]
    /\ \A p \in SettingRoles(u) :
          wanted[u] = job[p].roles \cup
              (IF job[p].op = "replace" THEN groups[u] \ AdminRole ELSE groups[u])
    /\ OtherGroup \subseteq groups[u]

\* A request that sets no roles leaves them alone.
LEMMA RolesFramed ==
    ASSUME RolesDue, UNCHANGED groupVars,
           \A p \in Process : {job[p].op, job'[p].op} \cap {"replace", "append", "add"} # {}
                                  => job'[p] = job[p]
    PROVE  RolesDue'
<1>1. \A u \in User : SettingRoles(u)' = SettingRoles(u)
  BY DEF SettingRoles
<1>2. \A u \in User : \A p \in SettingRoles(u) : job'[p] = job[p]
  BY DEF SettingRoles
<1>3. QED
  BY <1>1, <1>2 DEF RolesDue, groupVars

\* So does one that is not yet, or not, about roles.
LEMMA OtherJobsKeepRoles ==
    ASSUME AccountsInv, RolesDue, NEW p \in Process, NEW new, UNCHANGED groupVars,
           job' = [job EXCEPT ![p] = new],
           {job[p].op, new.op} \cap {"replace", "append", "add"} = {}
    PROVE  RolesDue'
<1>1. \A q \in Process : job'[q] = IF q = p THEN new ELSE job[q]
  BY DEF AccountsInv, AccountsTypeOK
<1>2. QED
  BY <1>1, RolesFramed

LEMMA StartKeepsRoles ==
    ASSUME AccountsInv, RolesDue, NEW p \in Process, NEW u \in User, job[p].op = "none",
           StartSetRoles(p, u)
    PROVE  RolesDue'
<1> USE DEF AccountsInv, AccountsTypeOK
<1>1. PICK mode \in {"replace", "append"}, roles \in Asked :
          /\ job' = [job EXCEPT ![p] = [op |-> mode, user |-> u, roles |-> roles]]
          /\ wanted' = [wanted EXCEPT ![u] =
                 roles \cup (IF mode = "append" THEN @ ELSE @ \ AdminRole)]
  BY DEF StartSetRoles, Begin
<1>2. /\ raced' = IF SettingRoles(u) = {} THEN raced ELSE raced \cup {u}
      /\ UNCHANGED groups
  BY DEF StartSetRoles
<1>3. \A v \in User : SettingRoles(v)' = IF v = u THEN SettingRoles(v) \cup {p} ELSE SettingRoles(v)
  BY <1>1 DEF SettingRoles
<1>4. \A v \in User : p \notin SettingRoles(v)
  BY DEF SettingRoles
<1>5. SUFFICES ASSUME NEW v \in User, v \notin raced'
               PROVE  /\ \A q, r \in SettingRoles(v)' : q = r
                      /\ SettingRoles(v)' = {} => groups'[v] = wanted'[v]
                      /\ \A q \in SettingRoles(v)' :
                            wanted'[v] = job'[q].roles \cup
                                (IF job'[q].op = "replace" THEN groups'[v] \ AdminRole ELSE groups'[v])
                      /\ OtherGroup \subseteq groups'[v]
  BY DEF RolesDue
<1>6. v \notin raced
  BY <1>2, <1>5
<1>7. CASE v = u
  <2>1. SettingRoles(u) = {} /\ SettingRoles(u)' = {p}
    BY <1>2, <1>3, <1>5, <1>7
  <2>2. groups[u] = wanted[u] /\ OtherGroup \subseteq groups[u]
    BY <1>6, <1>7, <2>1 DEF RolesDue
  <2>3. job'[p].op = mode /\ job'[p].roles = roles
    BY <1>1
  <2>4. wanted'[u] = roles \cup (IF mode = "append" THEN wanted[u] ELSE wanted[u] \ AdminRole)
    BY <1>1
  <2>5. QED
    BY <1>2, <1>7, <2>1, <2>2, <2>3, <2>4
<1>8. CASE v # u
  <2>1. SettingRoles(v)' = SettingRoles(v) /\ wanted'[v] = wanted[v]
    BY <1>1, <1>3, <1>8
  <2>2. \A q \in SettingRoles(v) : job'[q] = job[q]
    BY <1>1, <1>4 DEF SettingRoles
  <2>3. QED
    BY <1>2, <1>6, <2>1, <2>2 DEF RolesDue
<1>9. QED
  BY <1>7, <1>8

\* Each of the two statements of set_roles writes its part of what is owed.
LEMMA StatementsKeepRoles ==
    ASSUME AccountsInv, RolesDue, NEW p \in Process, RemoveRoles(p) \/ AddRoles(p)
    PROVE  RolesDue'
<1> USE RoleAssumption DEF AccountsInv, AccountsTypeOK
<1> DEFINE j == job[p]
<1>1. PICK u \in User : /\ u = j.user /\ p \in SettingRoles(u)
                        /\ j.roles \in SUBSET AdminRole /\ j \in RoleJobs
  BY JobTyped, RoleJobTyped DEF SettingRoles, RemoveRoles, AddRoles
<1>2. UNCHANGED <<wanted, raced>>
  BY DEF RemoveRoles, AddRoles
<1>3. \A v \in User : v # u => p \notin SettingRoles(v)
  BY <1>1 DEF SettingRoles
<1>4. CASE RemoveRoles(p)
  <2>1. /\ j.op = "replace" /\ groups' = [groups EXCEPT ![u] = groups[u] \ AdminRole]
        /\ job' = [job EXCEPT ![p] = [j EXCEPT !.op = "add"]]
    BY <1>1, <1>4 DEF RemoveRoles, WithoutRoles
  <2>2. /\ [j EXCEPT !.op = "add"].op = "add" /\ [j EXCEPT !.op = "add"].user = u
        /\ [j EXCEPT !.op = "add"].roles = j.roles
    BY <1>1 DEF RoleJobs
  <2>3. /\ job'[p].op = "add" /\ job'[p].user = u /\ job'[p].roles = j.roles
        /\ \A q \in Process : q # p => job'[q] = job[q]
    BY <2>1, <2>2
  <2>4. \A v \in User : SettingRoles(v)' = SettingRoles(v)
    BY <1>1, <2>1, <2>3 DEF SettingRoles
  <2>5. \A v \in User : groups'[v] = IF v = u THEN groups[u] \ AdminRole ELSE groups[v]
    BY <2>1
  <2>6. \A v \in User : v # u => \A q \in SettingRoles(v) : job'[q] = job[q]
    BY <1>3, <2>3 DEF SettingRoles
  <2>7. u \notin raced => /\ SettingRoles(u) = {p} /\ wanted[u] = j.roles \cup (groups[u] \ AdminRole)
                          /\ OtherGroup \subseteq groups[u] \ AdminRole
    BY <1>1, <2>1 DEF RolesDue
  <2>8. QED
    BY <1>2, <2>3, <2>4, <2>5, <2>6, <2>7 DEF RolesDue
<1>5. CASE AddRoles(p)
  <2>1. /\ j.op # "replace" /\ groups' = [groups EXCEPT ![u] = groups[u] \cup j.roles]
        /\ \A q \in Process : job'[q] = IF q = p THEN NoJob ELSE job[q]
    BY <1>1, <1>5 DEF AddRoles, End
  <2>2. \A v \in User : SettingRoles(v)' = SettingRoles(v) \ {p}
    BY <2>1 DEF SettingRoles, NoJob
  <2>3. \A v \in User : groups'[v] = IF v = u THEN groups[u] \cup j.roles ELSE groups[v]
    BY <2>1
  <2>4. \A v \in User : v # u => /\ SettingRoles(v)' = SettingRoles(v)
                                 /\ \A q \in SettingRoles(v) : job'[q] = job[q]
    BY <1>3, <2>1, <2>2 DEF SettingRoles
  <2>5. u \notin raced => /\ SettingRoles(u)' = {} /\ wanted[u] = j.roles \cup groups[u]
                          /\ OtherGroup \subseteq groups[u]
    BY <1>1, <2>1, <2>2 DEF RolesDue
  <2>6. QED
    <3> SUFFICES ASSUME NEW v \in User, v \notin raced
                 PROVE  /\ \A q, r \in SettingRoles(v)' : q = r
                        /\ SettingRoles(v)' = {} => groups'[v] = wanted[v]
                        /\ \A q \in SettingRoles(v)' :
                              wanted[v] = job'[q].roles \cup
                                  (IF job'[q].op = "replace" THEN groups'[v] \ AdminRole ELSE groups'[v])
                        /\ OtherGroup \subseteq groups'[v]
      BY <1>2 DEF RolesDue
    <3>1. CASE v = u
      <4>1. SettingRoles(u)' = {}
        BY <2>5, <3>1
      <4>2. groups'[u] = wanted[u] /\ OtherGroup \subseteq groups'[u]
        <5>1. groups'[u] = groups[u] \cup j.roles
          BY <2>3
        <5>2. wanted[u] = j.roles \cup groups[u] /\ OtherGroup \subseteq groups[u]
          BY <2>5, <3>1
        <5>3. \A A, B : A \cup B = B \cup A /\ A \subseteq A \cup B
          OBVIOUS
        <5>4. groups'[u] = wanted[u]
          BY <5>1, <5>2, <5>3, Zenon
        <5>5. OtherGroup \subseteq groups'[u]
          BY <5>1, <5>2, Zenon
        <5>6. QED
          BY <5>4, <5>5
      <4>3. QED
        BY <3>1, <4>1, <4>2
    <3>2. CASE v # u
      BY <2>3, <2>4, <3>2 DEF RolesDue
    <3>3. QED
      BY <3>1, <3>2
<1>6. QED
  BY <1>4, <1>5

\* A kill takes the users whose roles were being set out of the promise.
LEMMA KillKeepsRoles ==
    ASSUME AccountsInv, RolesDue, NEW p \in Process, KillWorker(p)
    PROVE  RolesDue'
<1> USE DEF AccountsInv, AccountsTypeOK, KillWorker, AccountsWiped
<1>1. \A q \in Process : job'[q] = IF q = p THEN NoJob ELSE job[q]
  OBVIOUS
<1>2. \A v \in User : SettingRoles(v)' = SettingRoles(v) \ {p}
  BY <1>1 DEF SettingRoles, NoJob
<1>3. \A v \in User : v \notin raced' => v \notin raced /\ p \notin SettingRoles(v)
  OBVIOUS
<1>4. \A v \in User : v \notin raced' => /\ SettingRoles(v)' = SettingRoles(v)
                                         /\ \A q \in SettingRoles(v) : job'[q] = job[q]
  BY <1>1, <1>2, <1>3 DEF SettingRoles
<1>5. UNCHANGED <<groups, wanted>>
  OBVIOUS
<1>6. QED
  BY <1>3, <1>4, <1>5 DEF RolesDue

LEMMA RolesKept == WebInv /\ RolesDue /\ [WebNext]_webVars => RolesDue'
<1> SUFFICES ASSUME WebInv, RolesDue, [WebNext]_webVars PROVE RolesDue'
  OBVIOUS
<1> USE DEF WebInv
<1>1. CASE UNCHANGED accountVars
  BY <1>1, RolesFramed DEF accountVars, groupVars
<1>2. ASSUME NEW p \in Process, AccountsStep(p)
      PROVE  RolesDue'
  <2>1. CASE \E u \in User : StartSetRoles(p, u)
    <3>1. job[p].op = "none"
      BY <2>1 DEF StartSetRoles, Begin, Accept, Free, FlowInv, Own
    <3>2. QED
      BY <2>1, <3>1, StartKeepsRoles
  <2>2. CASE RemoveRoles(p) \/ AddRoles(p)
    BY <2>2, StatementsKeepRoles
  <2>3. CASE UNCHANGED <<groupVars, job>>
    BY <2>3, RolesFramed
  <2>4. CASE /\ UNCHANGED groupVars
             /\ \E new : /\ job' = [job EXCEPT ![p] = new]
                         /\ {job[p].op, new.op} \cap {"replace", "append", "add"} = {}
    BY <2>4, OtherJobsKeepRoles
  <2>5. p \notin busy => job[p].op = "none"
    BY DEF FlowInv, Own
  <2>6. ASSUME NEW new, Begin(p, new), UNCHANGED groupVars,
               new.op \in {"flag", "patch", "rename", "count", "login"}
        PROVE  RolesDue'
    <3>1. job[p].op = "none" /\ job' = [job EXCEPT ![p] = new]
      BY <2>5, <2>6 DEF Begin, Accept, Free
    <3>2. QED
      BY <2>4, <2>6, <3>1
  <2>7. CASE SaveFlag(p) \/ SavePatch(p) \/ SaveRename(p) \/ GoogleFails(p) \/ LogIn(p) \/ Count(p)
    <3>1. /\ UNCHANGED groupVars /\ job' = [job EXCEPT ![p] = NoJob] /\ NoJob.op = "none"
          /\ job[p].op \in {"flag", "patch", "rename", "login", "account", "count"}
      BY <2>7 DEF SaveFlag, SavePatch, SaveRename, GoogleFails, LogIn, Count, End, NoJob
    <3>2. QED
      BY <2>4, <3>1
  <2>8. CASE GetOrCreate(p)
    <3> DEFINE new == [op |-> "account", cookie |-> job[p].cookie, snap |-> users'[Google]]
    <3>1. /\ UNCHANGED groupVars /\ job' = [job EXCEPT ![p] = new] /\ new.op = "account"
          /\ job[p].op = "login"
      BY <2>8 DEF GetOrCreate
    <3> HIDE DEF new
    <3>2. QED
      BY <2>4, <3>1
  <2>9. ASSUME NEW u \in User, LoadForFlag(p, u) \/ LoadForPatch(p, u) \/ LoadForProfile(p, u)
        PROVE  RolesDue'
    <3>1. CASE LoadForFlag(p, u)
      <4>1. PICK to \in FlagActions \cup PrivilegeActions :
              Begin(p, [op |-> "flag", user |-> u, flag |-> to.flag, value |-> to.value, snap |-> users[u]])
        BY <3>1 DEF LoadForFlag
      <4>2. UNCHANGED groupVars
        BY <3>1 DEF LoadForFlag
      <4>3. QED
        BY <2>6, <4>1, <4>2
    <3>2. CASE LoadForPatch(p, u) \/ LoadForProfile(p, u)
      <4>1. UNCHANGED groupVars
        BY <3>2 DEF LoadForPatch, LoadForProfile
      <4>2. CASE Begin(p, [op |-> "rename", user |-> u, snap |-> users[u]])
        BY <2>6, <4>1, <4>2
      <4>3. ASSUME NEW f, NEW v,
                   Begin(p, [op |-> "patch", user |-> u, flag |-> f, value |-> v, snap |-> users[u]])
            PROVE  RolesDue'
        BY <2>6, <4>1, <4>3
      <4>4. QED
        BY <3>2, <4>2, <4>3 DEF LoadForPatch, LoadForProfile
    <3>3. QED
      BY <2>9, <3>1, <3>2
  <2>a. CASE Look(p)
    BY <2>6, <2>a DEF Look
  <2>b. ASSUME NEW l \in Login, NEW cookie \in BOOLEAN, GoogleAuthCallback(p, l, cookie)
        PROVE  RolesDue'
    <3>1. UNCHANGED groupVars
      BY <2>b DEF GoogleAuthCallback
    <3>2. CASE StateValid(p, l, cookie)
      BY <2>6, <2>b, <3>1, <3>2 DEF GoogleAuthCallback
    <3>3. CASE ~StateValid(p, l, cookie)
      BY <2>3, <2>b, <3>1, <3>3 DEF GoogleAuthCallback, TurnAway
    <3>4. QED
      BY <3>2, <3>3
  <2>10. CASE \/ \E U \in SUBSET User \ {{}} : bulk_actions(p, U)
              \/ OpenWindow(p) \/ Throttle(p) \/ ExpireHits(p)
              \/ \E l \in Login : GoogleAuthStart(p, l) \/ GoogleDeclined(p, l) \/ ExpireState(p, l)
    BY <2>3, <2>10 DEF bulk_actions, OpenWindow, Throttle, ExpireHits, GoogleAuthStart, GoogleDeclined,
                       ExpireState, accountVars, groupVars
  <2>11. QED
    BY <1>2, <2>1, <2>2, <2>7, <2>8, <2>9, <2>a, <2>b, <2>10 DEF AccountsStep
<1>3. CASE \E p \in Process : KillWorker(p)
  BY <1>3, KillKeepsRoles
<1>4. QED
  BY <1>1, <1>2, <1>3 DEF WebNext, webVars, AccountsNext

\* set_roles, unless another one overlapped it or it was killed halfway, leaves the
\* user with the roles it was asked for, and with every group that is no admin role.
THEOREM RolesAreAsAsked == WebSpec => []RolesAsAsked
<1>1. WebInit => RolesDue
  <2> SUFFICES ASSUME WebInit PROVE RolesDue
    OBVIOUS
  <2>1. \A u \in User : SettingRoles(u) = {}
    BY DEF WebInit, AccountsInit, SettingRoles, NoJob
  <2>2. \A u \in User : groups[u] = wanted[u] /\ OtherGroup \subseteq groups[u]
    BY DEF WebInit, AccountsInit
  <2>3. QED
    BY <2>1, <2>2 DEF RolesDue
<1>2. RolesDue => RolesAsAsked
  BY DEF RolesDue, RolesAsAsked
<1>3. QED
  BY <1>1, <1>2, RolesKept, WebInvHolds, PTL DEF WebSpec
--------------------------------------------------------------------------
(* Google logins.                                                          *)

\* A login that was started is in the session, or left it; and it is in the cache of
\* the process that started it, or left that.
LoginTraced == \A l \in Login : home[l] # "none" =>
    /\ session = l \/ l \in superseded
    /\ l \in cache[home[l]] \/ l \in popped

\* It stays so when the two places only lose logins into the history.
LEMMA LoginFramed ==
    ASSUME LoginTraced, UNCHANGED home,
           \A l \in Login : session = l \/ l \in superseded => session' = l \/ l \in superseded',
           \A l \in Login, p \in Process : l \in cache[p] => l \in cache'[p] \/ l \in popped',
           popped \subseteq popped', home \in [Login -> Process \cup {"none"}]
    PROVE  LoginTraced'
BY DEF LoginTraced

LEMMA LoginKept == AccountsInv /\ LoginTraced /\ [WebNext]_webVars => LoginTraced'
<1> SUFFICES ASSUME AccountsInv, LoginTraced, [WebNext]_webVars PROVE LoginTraced'
  OBVIOUS
<1> USE LoginAssumption, WorkersAssumption DEF AccountsInv, AccountsTypeOK
<1>1. CASE UNCHANGED <<session, superseded, cache, popped, home>>
  BY <1>1, LoginFramed
<1>2. ASSUME NEW p \in Process, KillWorker(p)
      PROVE  LoginTraced'
  <2>1. /\ UNCHANGED <<session, superseded, home>>
        /\ cache' = [cache EXCEPT ![p] = {}] /\ popped' = popped \cup cache[p]
    BY <1>2 DEF KillWorker, AccountsWiped
  <2>2. \A l \in Login, q \in Process : l \in cache[q] => l \in cache'[q] \/ l \in popped'
    BY <2>1
  <2>3. QED
    BY <2>1, <2>2, LoginFramed
<1>3. ASSUME NEW p \in Process, NEW l \in Login, GoogleAuthStart(p, l)
      PROVE  LoginTraced'
  <2>1. /\ home' = [home EXCEPT ![l] = p] /\ session' = l
        /\ superseded' = superseded \cup ({session} \ {"none"})
        /\ cache' = [cache EXCEPT ![p] = cache[p] \cup {l}] /\ UNCHANGED popped
    BY <1>3 DEF GoogleAuthStart
  <2> SUFFICES ASSUME NEW k \in Login, home'[k] # "none"
               PROVE  /\ session' = k \/ k \in superseded'
                      /\ k \in cache'[home'[k]] \/ k \in popped'
    BY DEF LoginTraced
  <2>2. CASE k = l
    BY <2>1, <2>2
  <2>3. CASE k # l
    <3>1. home'[k] = home[k] /\ home[k] \in Process
      BY <2>1, <2>3
    <3>2. cache[home[k]] \subseteq cache'[home[k]]
      BY <2>1, <3>1
    <3>3. /\ session = k \/ k \in superseded
          /\ k \in cache[home[k]] \/ k \in popped
      BY <3>1 DEF LoginTraced
    <3>4. QED
      BY <2>1, <3>1, <3>2, <3>3
  <2>4. QED
    BY <2>2, <2>3
<1>4. ASSUME NEW p \in Process, NEW l \in Login, PopState(p, l),
             UNCHANGED <<session, superseded, home>>
      PROVE  LoginTraced'
  <2>1. \A k \in Login, q \in Process : k \in cache[q] => k \in cache'[q] \/ k \in popped'
    BY <1>4 DEF PopState
  <2>2. popped \subseteq popped'
    BY <1>4 DEF PopState
  <2>3. QED
    BY <1>4, <2>1, <2>2, LoginFramed
<1>5. ASSUME NEW p \in Process, LogIn(p)
      PROVE  LoginTraced'
  <2>1. /\ UNCHANGED <<cache, home, popped>>
        /\ \/ session' = "none" /\ superseded' = superseded \cup ({session} \ {"none"})
           \/ UNCHANGED <<session, superseded>>
    BY <1>5 DEF LogIn
  <2>2. \A l \in Login : session = l \/ l \in superseded => session' = l \/ l \in superseded'
    BY <2>1
  <2>3. QED
    BY <2>1, <2>2, LoginFramed
<1>6. ASSUME NEW p \in Process, AccountsStep(p), ~UNCHANGED <<session, superseded, cache, popped, home>>
      PROVE  LoginTraced'
  <2>1. \/ \E l \in Login : \/ GoogleAuthStart(p, l) \/ GoogleDeclined(p, l) \/ ExpireState(p, l)
                            \/ \E cookie \in BOOLEAN : GoogleAuthCallback(p, l, cookie)
        \/ LogIn(p)
    BY <1>6 DEF AccountsStep, LoadForFlag, LoadForPatch, LoadForProfile, StartSetRoles, SaveFlag, SavePatch,
                SaveRename, bulk_actions, RemoveRoles, AddRoles, OpenWindow, Throttle, Look, Count, ExpireHits,
                GoogleFails, GetOrCreate, loginVars, accountVars
  <2>2. \A l \in Login : GoogleDeclined(p, l) \/ ExpireState(p, l)
            \/ (\E cookie \in BOOLEAN : GoogleAuthCallback(p, l, cookie))
          => PopState(p, l) /\ UNCHANGED <<session, superseded, home>>
    BY DEF GoogleDeclined, ExpireState, GoogleAuthCallback
  <2>3. QED
    BY <1>3, <1>4, <1>5, <2>1, <2>2
<1>7. QED
  BY <1>1, <1>2, <1>6 DEF WebNext, webVars, accountVars, AccountsNext

\* Only a callback that finds its state in neither place is turned away.
LEMMA TurnedAwayByCallback ==
    ASSUME [WebNext]_webVars, NEW l \in Login, NEW p \in Process, NEW cookie \in BOOLEAN,
           <<l, p, cookie>> \in turnedAway' \ turnedAway
    PROVE  home[l] # "none" /\ ~StateValid(p, l, cookie)
<1>1. turnedAway' # turnedAway
  OBVIOUS
<1>2. PICK q \in Process : AccountsStep(q)
  BY <1>1 DEF WebNext, webVars, accountVars, KillWorker, AccountsWiped, AccountsNext
<1>3. PICK k \in Login, c \in BOOLEAN : GoogleAuthCallback(q, k, c)
  BY <1>1, <1>2 DEF AccountsStep, LoadForFlag, LoadForPatch, LoadForProfile, StartSetRoles, SaveFlag, SavePatch,
              SaveRename, bulk_actions, RemoveRoles, AddRoles, OpenWindow, Throttle, Look, Count, ExpireHits,
              GoogleFails, GetOrCreate, LogIn, GoogleAuthStart, GoogleDeclined, ExpireState, loginVars, accountVars
<1>4. home[k] # "none" /\ ~StateValid(q, k, c) /\ turnedAway' = turnedAway \cup {<<k, q, c>>}
  BY <1>1, <1>3 DEF GoogleAuthCallback, TurnAway
<1>5. <<l, p, cookie>> = <<k, q, c>>
  BY <1>4
<1>6. l = k /\ p = q /\ cookie = c
  BY <1>5
<1>7. QED
  BY <1>4, <1>6

\* "Invalid or expired OAuth state" is said only of a login that left the session, or
\* came without its cookie, and that was started elsewhere or left the cache.
THEOREM LoginRefusalsAreExplained == WebSpec => LoginRefusalExplained
<1>1. WebInit => LoginTraced
  BY DEF WebInit, AccountsInit, LoginTraced
<1>2. WebInv => AccountsInv
  BY DEF WebInv
<1>3. LoginTraced /\ [WebNext]_webVars =>
        [\A l \in Login, p \in Process, cookie \in BOOLEAN :
            <<l, p, cookie>> \in turnedAway' \ turnedAway =>
                /\ cookie => l \in superseded
                /\ home[l] = p => l \in popped]_accountVars
  <2> SUFFICES ASSUME LoginTraced, [WebNext]_webVars,
                      NEW l \in Login, NEW p \in Process, NEW cookie \in BOOLEAN,
                      <<l, p, cookie>> \in turnedAway' \ turnedAway
               PROVE  (cookie => l \in superseded) /\ (home[l] = p => l \in popped)
    OBVIOUS
  <2>1. home[l] # "none" /\ ~(cookie /\ session = l) /\ l \notin cache[p]
    BY TurnedAwayByCallback DEF StateValid
  <2>2. QED
    BY <2>1 DEF LoginTraced
<1>4. QED
  BY <1>1, <1>2, <1>3, LoginKept, WebInvHolds, PTL DEF WebSpec, LoginRefusalExplained

--------------------------------------------------------------------------
(* The rate limit.                                                         *)

\* What a process has let through: the periods before the running one were full at
\* most, and the running one has what its counter says.
Within(a, w, h) == IF h > 0 THEN w > 0 /\ a + (Amount - h) <= Amount * w ELSE a <= Amount * w

RateKept == \A p \in Process : Within(admitted[p], windows[p], hits[p])

\* Opening a period, counting in it and losing the counter stay within the limit.
LEMMA WithinSteps ==
    ASSUME NEW a \in Nat, NEW w \in Nat, NEW h \in 0 .. Amount, Within(a, w, h)
    PROVE  /\ h = 0 => Within(a + 1, w + 1, 1)
           /\ h > 0 /\ h < Amount => Within(a + 1, w, h + 1)
           /\ Within(a, w, 0)
<1>1. Amount \in Nat /\ Amount >= 1
  BY AmountAssumption
<1>2. PICK n : n = Amount * w
  OBVIOUS
<1>3. n \in Nat /\ Amount * (w + 1) = n + Amount
  BY <1>1, <1>2
<1>4. IF h > 0 THEN w > 0 /\ a + (Amount - h) <= n ELSE a <= n
  BY <1>2 DEF Within
<1>5. h = 0 => Within(a + 1, w + 1, 1)
  <2>1. h = 0 => a + 1 + (Amount - 1) <= n + Amount
    BY <1>1, <1>3, <1>4
  <2>2. QED
    BY <1>3, <2>1 DEF Within
<1>6. h > 0 /\ h < Amount => Within(a + 1, w, h + 1)
  <2>1. h > 0 /\ h < Amount => h + 1 > 0 /\ w > 0 /\ a + 1 + (Amount - (h + 1)) <= n
    BY <1>1, <1>3, <1>4
  <2>2. QED
    BY <1>2, <2>1 DEF Within
<1>7. Within(a, w, 0)
  <2>1. a <= n
    BY <1>1, <1>3, <1>4
  <2>2. QED
    BY <1>2, <2>1 DEF Within
<1>8. QED
  BY <1>5, <1>6, <1>7

\* A step that changes one process's counter.
LEMMA OneCounter ==
    ASSUME AccountsInv, RateKept, NEW p \in Process, NEW a, NEW w, NEW h, Within(a, w, h),
           admitted' = [admitted EXCEPT ![p] = a], windows' = [windows EXCEPT ![p] = w],
           hits' = [hits EXCEPT ![p] = h]
    PROVE  RateKept'
<1> SUFFICES ASSUME NEW q \in Process PROVE Within(admitted'[q], windows'[q], hits'[q])
  BY DEF RateKept, Within
<1>1. CASE q = p
  <2>1. admitted'[q] = a /\ windows'[q] = w /\ hits'[q] = h
    BY <1>1 DEF AccountsInv, AccountsTypeOK
  <2>2. QED
    BY <2>1
<1>2. CASE q # p
  <2>1. admitted'[q] = admitted[q] /\ windows'[q] = windows[q] /\ hits'[q] = hits[q]
    BY <1>2 DEF AccountsInv, AccountsTypeOK
  <2>2. QED
    BY <2>1 DEF RateKept
<1>3. QED
  BY <1>1, <1>2

LEMMA RateStays == AccountsInv /\ RateKept /\ [WebNext]_webVars => RateKept'
<1> SUFFICES ASSUME AccountsInv, RateKept, [WebNext]_webVars PROVE RateKept'
  OBVIOUS
<1>1. \A p \in Process : /\ admitted[p] \in Nat /\ windows[p] \in Nat /\ hits[p] \in 0 .. Amount
                         /\ Within(admitted[p], windows[p], hits[p])
                         /\ job[p].op = "count" => hits[p] < Amount
  BY DEF AccountsInv, AccountsTypeOK, RateKept, Founded
<1>2. /\ \A p \in Process : admitted = [admitted EXCEPT ![p] = admitted[p]]
      /\ \A p \in Process : windows = [windows EXCEPT ![p] = windows[p]]
  BY DEF AccountsInv, AccountsTypeOK
<1>3. CASE UNCHANGED rateVars
  BY <1>3 DEF rateVars, RateKept, Within
<1>4. ASSUME NEW p \in Process, hits' = [hits EXCEPT ![p] = 0], UNCHANGED <<windows, admitted>>
      PROVE  RateKept'
  <2>1. Within(admitted[p], windows[p], 0)
    BY <1>1, WithinSteps
  <2>2. QED
    BY <1>2, <1>4, <2>1, OneCounter
<1>5. ASSUME NEW p \in Process, OpenWindow(p)
      PROVE  RateKept'
  <2>1. Within(admitted[p] + 1, windows[p] + 1, 1)
    BY <1>1, <1>5, WithinSteps DEF OpenWindow
  <2>2. QED
    BY <1>5, <2>1, OneCounter DEF OpenWindow
<1>6. ASSUME NEW p \in Process, Count(p), hits[p] # 0
      PROVE  RateKept'
  <2>1. hits[p] > 0 /\ hits[p] < Amount
    BY <1>1, <1>6 DEF Count
  <2>2. Within(admitted[p] + 1, windows[p], hits[p] + 1)
    BY <1>1, <2>1, WithinSteps
  <2>3. /\ hits' = [hits EXCEPT ![p] = hits[p] + 1] /\ admitted' = [admitted EXCEPT ![p] = admitted[p] + 1]
        /\ windows' = [windows EXCEPT ![p] = windows[p]]
    BY <1>2, <1>6 DEF Count
  <2>4. QED
    BY <2>2, <2>3, OneCounter
<1>7. ASSUME NEW p \in Process, KillWorker(p)
      PROVE  RateKept'
  BY <1>4, <1>7 DEF KillWorker, AccountsWiped
<1>8. ASSUME NEW p \in Process, AccountsStep(p), ~UNCHANGED rateVars
      PROVE  RateKept'
  <2>1. OpenWindow(p) \/ (Count(p) /\ hits[p] # 0) \/ ExpireHits(p)
    BY <1>8 DEF AccountsStep, LoadForFlag, LoadForPatch, LoadForProfile, StartSetRoles, SaveFlag, SavePatch,
                SaveRename, bulk_actions, RemoveRoles, AddRoles, Throttle, Look, Count, accountVars, rateVars,
                GoogleFails, GetOrCreate, LogIn, GoogleAuthStart, GoogleDeclined, ExpireState, GoogleAuthCallback
  <2>2. ExpireHits(p) => RateKept'
    BY <1>4 DEF ExpireHits
  <2>3. QED
    BY <1>5, <1>6, <2>1, <2>2
<1>9. QED
  BY <1>3, <1>7, <1>8 DEF WebNext, webVars, accountVars, rateVars, AccountsNext

\* However requests, expiries and kills interleave, a process lets no more than
\* Amount integration tests through in a period.
THEOREM RateIsBounded == WebSpec => []RateBounded
<1>1. WebInit => RateKept
  <2> SUFFICES ASSUME WebInit, NEW p \in Process PROVE Within(admitted[p], windows[p], hits[p])
    BY DEF RateKept
  <2>1. admitted[p] = 0 /\ windows[p] = 0 /\ hits[p] = 0
    BY DEF WebInit, AccountsInit
  <2>2. QED
    BY <2>1, AmountAssumption DEF Within
<1>2. WebInv => AccountsInv
  BY DEF WebInv
<1>3. ASSUME AccountsInv, RateKept PROVE RateBounded
  <2> SUFFICES ASSUME NEW p \in Process PROVE admitted[p] <= Amount * windows[p]
    BY DEF RateBounded
  <2>1. Within(admitted[p], windows[p], 0)
    BY <1>3, WithinSteps DEF AccountsInv, AccountsTypeOK, RateKept
  <2>2. QED
    BY <2>1 DEF Within
<1>4. AccountsInv /\ RateKept => RateBounded
  BY <1>3
<1>5. QED
  BY <1>1, <1>2, <1>4, RateStays, WebInvHolds, PTL DEF WebSpec
=============================================================================
