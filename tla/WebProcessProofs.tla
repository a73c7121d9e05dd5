------------------------- MODULE WebProcessProofs -------------------------
(***************************************************************************)
(* Theorems about the web processes, for every number of processes, every  *)
(* set of users, roles, flows and logins, every rate and lifetime, and all *)
(* bounds: the OAuth flow first, then the account handlers beside it.      *)
(***************************************************************************)
EXTENDS WebProcess, TLAPS

--------------------------------------------------------------------------
(* The inductive invariant.                                                *)

\* A process serves one request: of the OAuth flow or of an account.
Own == \A p \in Process :
    /\ callback[p].pc # "none" => p \in busy /\ job[p].op = "none"
    /\ job[p].op # "none" => p \in busy

\* A state is in the dictionary of the process that started its flow, and a
\* callback of the flow runs there.
AtHome ==
    /\ \A p \in Process, f \in Flow : f \in memory[p] => Initiated(f) /\ started[f].home = p
    /\ \A p \in Process : callback[p].pc # "none" =>
           Initiated(callback[p].flow) /\ started[callback[p].flow].home = p
    /\ \A f \in Flow : codes[f] > 0 => Initiated(f) /\ started[f].provider \in Supported

\* While the state is there no callback has written its row, except the one that
\* is under way and past that step.
Unused ==
    /\ \A p \in Process, f \in Flow :
          f \in memory[p] /\ (callback[p].pc # "none" => callback[p].flow # f) => made[f] = 0
    /\ \A p \in Process : callback[p].pc \in {"accepted", "granted"} => made[callback[p].flow] = 0
    /\ \A f \in Flow : ~Initiated(f) => made[f] = 0

\* Somebody was served before anything was written.
Begun == served = 0 => busy = {} /\ \A f \in Flow : made[f] = 0

FlowInv == OAuthTypeOK /\ WorkersTypeOK /\ job \in [Process -> Jobs] /\ Own /\ AtHome /\ Unused /\ Begun /\ FlowUsedOnce

\* What a running callback holds.
CallbackRec == [flow : Flow, provider : Supported, code : 1 .. MaxCodes,
                pc : {"accepted", "granted", "connected", "promoted"}, gone : BOOLEAN]

\* Nothing runs, or a callback does.
LEMMA CallbackTyped ==
    ASSUME OAuthTypeOK, NEW p \in Process
    PROVE  /\ callback[p] = NoCallback \/ callback[p] \in CallbackRec
           /\ callback[p].pc # "none" <=> callback[p] \in CallbackRec
BY DEF OAuthTypeOK, NoCallback, CallbackRec

\* At the start nothing runs.
LEMMA FlowInvInit == WebInit => FlowInv
<1> SUFFICES ASSUME WebInit PROVE FlowInv
  OBVIOUS
<1> USE DEF WebInit, WorkersInit, OAuthInit, AccountsInit
<1>1. WorkersTypeOK
  BY WorkersAssumption DEF WorkersTypeOK
<1>2. OAuthTypeOK
  BY WorkersAssumption, TimeAssumption DEF OAuthTypeOK, NotStarted, NoCallback
<1>3. job \in [Process -> Jobs] /\ Own /\ AtHome /\ Unused /\ Begun /\ FlowUsedOnce
  BY DEF Jobs, Own, AtHome, Unused, Begun, FlowUsedOnce, NoCallback, NoJob, Initiated
<1>4. QED
  BY <1>1, <1>2, <1>3 DEF FlowInv

--------------------------------------------------------------------------
(* The steps.                                                              *)

\* A flow that starts has a record of its own.
LEMMA StartedTyped ==
    ASSUME NEW v \in Provider, NEW p \in Process
    PROVE  /\ [provider |-> v, home |-> p, at |-> clock] # NotStarted
BY WorkersAssumption DEF NotStarted

\* Before a callback: the flow starts, the user consents or declines.
LEMMA StartKeepsFlowInv ==
    ASSUME FlowInv, UNCHANGED accountVars,
           \/ \E p \in Process, f \in Flow, v \in Provider : Initiate(p, f, v)
           \/ \E f \in Flow : Consent(f)
           \/ \E p \in Process, f \in Flow : Declined(p, f)
           \/ \E p \in Process, v \in Provider : ToggleProvider(p, v)
           \/ Tick
    PROVE  FlowInv'
<1> USE WorkersAssumption, TimeAssumption
    DEF FlowInv, OAuthTypeOK, WorkersTypeOK, Own, AtHome, Unused, Begun, FlowUsedOnce,
        accountVars, oauthVars, oauthHistory, workers, Serve, Free, Initiated
<1>1. ASSUME NEW p \in Process, NEW f \in Flow, NEW v \in Provider, Initiate(p, f, v)
      PROVE  FlowInv'
  <2>1. Cleaned(p) \subseteq memory[p]
    BY DEF Cleaned
  <2>2. memory' = [memory EXCEPT ![p] = Cleaned(p) \cup {f}]
    BY <1>1 DEF Initiate
  <2>3. started' = [started EXCEPT ![f] = [provider |-> v, home |-> p, at |-> clock]]
    BY <1>1 DEF Initiate
  <2>4. OAuthTypeOK' /\ WorkersTypeOK'
    BY <1>1, <2>1 DEF Initiate
  <2>5. AtHome'
    BY <1>1, <2>1, <2>2, <2>3, StartedTyped DEF Initiate
  <2>6. Own' /\ Begun' /\ FlowUsedOnce'
    BY <1>1 DEF Initiate
  <2>7. Unused'
    BY <1>1, <2>1, <2>2, <2>3, StartedTyped DEF Initiate
  <2>8. QED
    BY <2>4, <2>5, <2>6, <2>7
<1>2. ASSUME NEW f \in Flow, Consent(f)
      PROVE  FlowInv'
  BY <1>2 DEF Consent
<1>3. ASSUME NEW p \in Process, NEW f \in Flow, Declined(p, f)
      PROVE  FlowInv'
  BY <1>3 DEF Declined
<1>4. ASSUME NEW p \in Process, NEW v \in Provider, ToggleProvider(p, v)
      PROVE  FlowInv'
  BY <1>4 DEF ToggleProvider
<1>5. CASE Tick
  BY <1>5 DEF Tick
<1>6. QED
  BY <1>1, <1>2, <1>3, <1>4, <1>5

\* The browser comes back: the state is there, and free, or the callback is refused.
LEMMA ReceiveKeepsFlowInv ==
    ASSUME FlowInv, UNCHANGED accountVars,
           NEW p \in Process, NEW f \in Flow, NEW c \in 1 .. MaxCodes, Receive(p, f, c)
    PROVE  FlowInv'
<1> USE WorkersAssumption, TimeAssumption
    DEF FlowInv, OAuthTypeOK, WorkersTypeOK, Own, AtHome, Unused, Begun, FlowUsedOnce,
        accountVars, oauthVars, oauthHistory, workers, Free, Initiated
<1>1. Cleaned(p) \subseteq memory[p]
  BY DEF Cleaned
<1>2. CASE Refuse(p, f)
  BY <1>1, <1>2 DEF Refuse, Serve
<1>3. CASE f \in Cleaned(p) /\ Admit(p, f, c)
  <2> DEFINE new == [flow |-> f, provider |-> started[f].provider, code |-> c,
                     pc |-> "accepted", gone |-> FALSE]
  <2>1. /\ callback' = [callback EXCEPT ![p] = new]
        /\ memory' = [memory EXCEPT ![p] = Cleaned(p)]
        /\ p \notin busy /\ busy' = busy \cup {p} /\ served' = served + 1
    BY <1>3 DEF Admit, Accept
  <2>2. Initiated(f) /\ started[f].home = p /\ started[f].provider \in Supported
    BY <1>1, <1>3 DEF Receive
  <2>3. OAuthTypeOK' /\ WorkersTypeOK'
    BY <1>1, <1>3, <2>1, <2>2 DEF Admit, Accept
  <2>4. Own' /\ AtHome'
    BY <1>1, <1>3, <2>1, <2>2 DEF Admit, Accept
  <2>5. made[f] = 0
    BY <1>1, <1>3, <2>1
  <2>6. Unused'
    BY <1>1, <1>3, <2>1, <2>2, <2>5 DEF Admit, Accept
  <2>7. Begun' /\ FlowUsedOnce'
    BY <1>3, <2>1 DEF Admit, Accept
  <2>8. QED
    BY <2>3, <2>4, <2>6, <2>7
<1>4. QED
  BY <1>2, <1>3 DEF Receive

\* A callback ends: its state is forgotten.
LEMMA AnswerKeepsFlowInv ==
    ASSUME FlowInv, UNCHANGED accountVars,
           NEW p \in Process, callback[p].pc # "none", Answered(p),
           failed' \in {failed, failed \cup {callback[p].flow}},
           UNCHANGED <<clock, started, enabled, codes, spent, table, made, refused, lost, removed>>
    PROVE  FlowInv'
<1> USE DEF FlowInv, OAuthTypeOK, WorkersTypeOK, Own, AtHome, Unused, Begun, FlowUsedOnce,
            accountVars, workers, Initiated
<1>1. callback[p] \in CallbackRec /\ callback[p].flow \in Flow
  BY CallbackTyped DEF CallbackRec
<1>2. /\ memory' = [memory EXCEPT ![p] = @ \ {callback[p].flow}]
      /\ callback' = [callback EXCEPT ![p] = NoCallback]
      /\ ended' = ended \cup {callback[p].flow}
      /\ p \in busy /\ busy' = busy \ {p} /\ UNCHANGED <<served, kills>>
  BY DEF Answered, Forget, Release
<1>3. OAuthTypeOK' /\ WorkersTypeOK'
  BY <1>1, <1>2
<1>4. Own' /\ AtHome'
  BY <1>1, <1>2 DEF NoCallback
<1>5. Unused' /\ Begun' /\ FlowUsedOnce'
  BY <1>1, <1>2 DEF NoCallback
<1>6. QED
  BY <1>3, <1>4, <1>5

\* A callback that goes on keeps its record.
LEMMA AdvancedTyped ==
    \A r \in CallbackRec :
        /\ [r EXCEPT !.pc = "promoted"] \in CallbackRec
        /\ [r EXCEPT !.pc = "promoted"].pc = "promoted"
        /\ [r EXCEPT !.pc = "promoted"].flow = r.flow
        /\ [r EXCEPT !.pc = "promoted", !.gone = FALSE] \in CallbackRec
        /\ [r EXCEPT !.pc = "promoted", !.gone = FALSE].pc = "promoted"
        /\ [r EXCEPT !.pc = "promoted", !.gone = FALSE].flow = r.flow
BY DEF CallbackRec

\* The steps of a running callback.
LEMMA CallbackKeepsFlowInv ==
    ASSUME FlowInv, UNCHANGED accountVars,
           NEW p \in Process, NEW v \in Provider, Step(p, v)
    PROVE  FlowInv'
<1> USE DEF FlowInv, OAuthTypeOK, WorkersTypeOK, Own, AtHome, Unused, Begun, FlowUsedOnce,
            accountVars, oauthHistory, workers, Initiated
<1>1. CASE Exchange(p)
  <2>1. callback[p] \in CallbackRec
    BY <1>1, CallbackTyped DEF Exchange
  <2>2. /\ callback' = [callback EXCEPT ![p].pc = "granted"]
        /\ spent' = spent \cup {<<callback[p].flow, callback[p].code>>}
    BY <1>1 DEF Exchange, Advance
  <2>3. OAuthTypeOK' /\ WorkersTypeOK'
    BY <1>1, <2>1, <2>2 DEF Exchange, Continue, CallbackRec
  <2>4. Own' /\ AtHome' /\ Unused' /\ Begun' /\ FlowUsedOnce'
    BY <1>1, <2>1, <2>2 DEF Exchange, Continue, CallbackRec
  <2>5. QED
    BY <2>3, <2>4
<1>2. CASE ExchangeFails(p) \/ PromoteRefused(p) \/ FinishFails(p)
  BY <1>2, AnswerKeepsFlowInv DEF ExchangeFails, PromoteRefused, FinishFails, Fail
<1>3. CASE UpdateOrCreate(p)
  <2>1. callback[p] \in CallbackRec /\ made[callback[p].flow] = 0 /\ p \in busy
    BY <1>3, CallbackTyped DEF UpdateOrCreate
  <2>2. /\ callback' = [callback EXCEPT ![p].pc = "connected"]
        /\ made' = [made EXCEPT ![callback[p].flow] = 1]
        /\ UNCHANGED workers
    BY <1>3, <2>1 DEF UpdateOrCreate, Advance, Continue
  <2>3. served > 0 /\ MaxServed \in Nat /\ served <= MaxServed
    BY <2>1, WorkersAssumption
  <2>4. made' \in [Flow -> 0 .. MaxServed]
    BY <2>1, <2>2, <2>3 DEF CallbackRec
  <2>5. OAuthTypeOK' /\ WorkersTypeOK'
    BY <1>3, <2>1, <2>2, <2>4 DEF UpdateOrCreate, CallbackRec
  <2>6. Own' /\ AtHome' /\ Begun' /\ FlowUsedOnce'
    BY <1>3, <2>1, <2>2, <2>3 DEF UpdateOrCreate, CallbackRec
  <2>7. Unused'
    <3>1. \A q \in Process : callback[q].pc # "none" /\ q # p => callback[q].flow # callback[p].flow
      BY <2>1 DEF CallbackRec
    <3>2. QED
      BY <1>3, <2>1, <2>2, <3>1 DEF UpdateOrCreate, CallbackRec
  <2>8. QED
    BY <2>5, <2>6, <2>7
<1>4. CASE Promote(p)
  <2>1. callback[p] \in CallbackRec
    BY <1>4, CallbackTyped DEF Promote
  <2>2. PICK new \in CallbackRec :
           /\ new.pc = "promoted" /\ new.flow = callback[p].flow
           /\ callback' = [callback EXCEPT ![p] = new]
    <3>1. CASE HasDefaultRow
      <4>1. callback' = [callback EXCEPT ![p] = [callback[p] EXCEPT !.pc = "promoted"]]
        BY <1>4, <3>1 DEF Promote, Advance
      <4>2. QED
        BY <2>1, <4>1, AdvancedTyped
    <3>2. CASE ~HasDefaultRow
      <4>1. callback' = [callback EXCEPT ![p] = [callback[p] EXCEPT !.pc = "promoted", !.gone = FALSE]]
        BY <1>4, <3>2, ZenonT(40) DEF Promote
      <4>2. QED
        BY <2>1, <4>1, AdvancedTyped
    <3>3. QED
      BY <3>1, <3>2
  <2>3. table' \in [Provider -> {"absent", "plain", "default"}]
    BY <1>4 DEF Promote
  <2>4. OAuthTypeOK' /\ WorkersTypeOK'
    BY <1>4, <2>1, <2>2, <2>3 DEF Promote, Continue, CallbackRec
  <2>5. Own' /\ AtHome' /\ Unused' /\ Begun' /\ FlowUsedOnce'
    BY <1>4, <2>1, <2>2 DEF Promote, Continue, CallbackRec
  <2>6. QED
    BY <2>4, <2>5
<1>5. CASE Finish(p)
  BY <1>5, AnswerKeepsFlowInv DEF Finish
<1>6. QED
  BY <1>1, <1>2, <1>3, <1>4, <1>5 DEF Step

\* A deletion marks the record of a callback.
LEMMA GoneTyped ==
    \A r \in CallbackRec : /\ [r EXCEPT !.gone = TRUE] \in CallbackRec
                           /\ [r EXCEPT !.gone = TRUE].pc = r.pc
                           /\ [r EXCEPT !.gone = TRUE].flow = r.flow
BY DEF CallbackRec

\* The connection is deleted, under a callback or not.
LEMMA DeleteKeepsFlowInv ==
    ASSUME FlowInv, UNCHANGED accountVars, NEW p \in Process, NEW v \in Provider, DeleteRow(p, v)
    PROVE  FlowInv'
<1> USE DEF FlowInv, OAuthTypeOK, WorkersTypeOK, Own, AtHome, Unused, Begun, FlowUsedOnce,
            accountVars, workers, Initiated
<1> DEFINE hit == {q \in Process : callback[q].provider = v
                                   /\ callback[q].pc \in {"connected", "promoted"}}
<1>1. /\ callback' = [q \in Process |->
             IF q \in hit THEN [callback[q] EXCEPT !.gone = TRUE] ELSE callback[q]]
      /\ removed' = removed \cup {callback[q].flow : q \in hit}
  BY DEF DeleteRow
<1>2. ASSUME NEW q \in Process
      PROVE  /\ callback[q] = NoCallback => callback'[q] = NoCallback
             /\ callback[q] \in CallbackRec => callback'[q] \in CallbackRec
             /\ callback'[q].pc = callback[q].pc /\ callback'[q].flow = callback[q].flow
  <2>1. CASE q \in hit
    <3>1. callback[q] \in CallbackRec
      BY <2>1, CallbackTyped
    <3>2. callback'[q] = [callback[q] EXCEPT !.gone = TRUE]
      BY <1>1, <2>1, Zenon
    <3>3. QED
      BY <3>1, <3>2, GoneTyped DEF NoCallback, CallbackRec
  <2>2. CASE q \notin hit
    <3>1. callback'[q] = callback[q]
      BY <1>1, <2>2, Zenon
    <3>2. QED
      BY <3>1
  <2>3. QED
    BY <2>1, <2>2
<1>3. \A q \in hit : callback[q].flow \in Flow
  BY CallbackTyped DEF CallbackRec
<1>4. callback' \in [Process -> {NoCallback} \cup CallbackRec]
  BY <1>1, <1>2, CallbackTyped
<1>5. OAuthTypeOK' /\ WorkersTypeOK'
  BY <1>1, <1>3, <1>4, WorkersAssumption DEF DeleteRow, Serve, Free, CallbackRec
<1>6. /\ p \notin busy /\ served' = served + 1 /\ UNCHANGED <<busy, kills>>
      /\ UNCHANGED <<clock, memory, started, enabled, codes, spent, made>>
      /\ \A q \in Process : callback'[q].pc = callback[q].pc /\ callback'[q].flow = callback[q].flow
  BY <1>2 DEF DeleteRow, Serve, Free
<1> HIDE <1>1 DEF hit
<1>7. Own' /\ AtHome' /\ Begun' /\ FlowUsedOnce'
  BY <1>6
<1>8. Unused'
  BY <1>6, SMTT(30)
<1>9. QED
  BY <1>5, <1>7, <1>8

\* A kill wipes the dictionary and the callback.
LEMMA KillKeepsFlowInv ==
    ASSUME FlowInv, NEW p \in Process, KillWorker(p)
    PROVE  FlowInv'
<1> USE WorkersAssumption
    DEF FlowInv, OAuthTypeOK, WorkersTypeOK, Own, AtHome, Unused, Begun, FlowUsedOnce, Initiated,
        KillWorker, Kill, OAuthWiped, AccountsWiped
<1>1. /\ callback' = [callback EXCEPT ![p] = NoCallback]
      /\ memory' = [memory EXCEPT ![p] = {}]
  OBVIOUS
<1>2. OAuthTypeOK' /\ WorkersTypeOK'
  OBVIOUS
<1>3. job' = [job EXCEPT ![p] = NoJob]
  OBVIOUS
<1>4. job' \in [Process -> Jobs]
  BY <1>3 DEF Jobs
<1>5. Own' /\ AtHome' /\ Unused' /\ Begun' /\ FlowUsedOnce'
  BY <1>1, <1>3 DEF NoCallback, NoJob
<1>6. QED
  BY <1>2, <1>4, <1>5

--------------------------------------------------------------------------
(* What became of a flow.                                                  *)

\* A state that is not in its dictionary any more is late, ended or lost.
Kept == \A f \in Flow :
    Initiated(f) => f \in memory[started[f].home] \/ Late(f) \/ f \in ended \/ f \in lost

\* A flow that ended is in no dictionary and runs nowhere.
Forgotten == \A f \in ended :
    /\ Initiated(f)
    /\ \A p \in Process : f \notin memory[p] /\ (callback[p].pc # "none" => callback[p].flow # f)

\* A running callback still has its state, and its row unless that was deleted.
Holding == \A p \in Process : callback[p].pc # "none" =>
    /\ callback[p].flow \in memory[p]
    /\ callback[p].gone => callback[p].flow \in removed

TaleInv == Kept /\ Forgotten /\ Holding /\ FailureLeavesNothing

\* At the start there is nothing to tell.
LEMMA TaleInvInit == WebInit => TaleInv
BY DEF WebInit, OAuthInit, TaleInv, Kept, Forgotten, Holding, FailureLeavesNothing, Initiated, NoCallback

\* The tale depends on these variables only; growing `removed` does not spoil it.
LEMMA TaleFramed ==
    ASSUME TaleInv, removed \subseteq removed', UNCHANGED <<clock, memory, started, made, ended, failed, lost>>,
           \A p \in Process : /\ callback'[p].pc = callback[p].pc /\ callback'[p].flow = callback[p].flow
                              /\ callback'[p].gone => callback[p].gone \/ callback[p].flow \in removed'
    PROVE  TaleInv'
BY DEF TaleInv, Kept, Forgotten, Holding, FailureLeavesNothing, Initiated, Late

\* Before a callback.
LEMMA StartKeepsTale ==
    ASSUME FlowInv, TaleInv,
           \/ \E p \in Process, f \in Flow, v \in Provider : Initiate(p, f, v)
           \/ Tick
    PROVE  TaleInv'
<1> USE TimeAssumption
    DEF TaleInv, Kept, Forgotten, Holding, FailureLeavesNothing, FlowInv, OAuthTypeOK, AtHome,
        Initiated, oauthHistory, workers
<1>1. ASSUME NEW p \in Process, NEW f \in Flow, NEW v \in Provider, Initiate(p, f, v)
      PROVE  TaleInv'
  <2>1. /\ memory' = [memory EXCEPT ![p] = Cleaned(p) \cup {f}]
        /\ started' = [started EXCEPT ![f] = [provider |-> v, home |-> p, at |-> clock]]
        /\ started[f] = NotStarted /\ p \notin busy
        /\ UNCHANGED <<clock, callback, made, ended, failed, lost, removed>>
    BY <1>1 DEF Initiate, Serve, Free
  <2>2. Cleaned(p) \subseteq memory[p] /\ \A g \in memory[p] : g \in Cleaned(p) \/ Late(g)
    BY DEF Cleaned
  <2>3. \A g \in Flow : g # f => started'[g] = started[g] /\ (Late(g) => Late(g)')
    BY <2>1 DEF Late
  <2>4. Kept'
    BY <2>1, <2>2, <2>3, StartedTyped
  <2>5. Forgotten' /\ Holding' /\ FailureLeavesNothing'
    BY <2>1, <2>2, <2>3, StartedTyped DEF Own
  <2>6. QED
    BY <2>4, <2>5
<1>2. CASE Tick
  <2>1. clock' = clock + 1 /\ UNCHANGED <<memory, started, callback, made, ended, failed, lost, removed>>
    BY <1>2 DEF Tick
  <2>2. \A g \in Flow : Initiated(g) /\ Late(g) => Late(g)'
    BY <2>1 DEF Late
  <2>3. Kept'
    BY <2>1, <2>2
  <2>4. Forgotten' /\ Holding' /\ FailureLeavesNothing'
    BY <2>1
  <2>5. QED
    BY <2>3, <2>4
<1>3. QED
  BY <1>1, <1>2

\* The browser comes back.
LEMMA ReceiveKeepsTale ==
    ASSUME FlowInv, TaleInv, NEW p \in Process, NEW f \in Flow, NEW c \in 1 .. MaxCodes, Receive(p, f, c)
    PROVE  TaleInv'
<1> USE DEF TaleInv, Kept, Forgotten, Holding, FailureLeavesNothing, FlowInv, OAuthTypeOK, AtHome, Own, Initiated
<1>1. /\ memory' = [memory EXCEPT ![p] = Cleaned(p)] /\ p \notin busy
      /\ UNCHANGED <<clock, started, made, ended, failed, lost, removed>>
      /\ \/ UNCHANGED callback
         \/ f \in Cleaned(p) /\ callback' = [callback EXCEPT ![p] =
               [flow |-> f, provider |-> started[f].provider, code |-> c, pc |-> "accepted", gone |-> FALSE]]
  BY DEF Receive, Refuse, Admit, Serve, Accept, Free, oauthHistory
<1>2. Cleaned(p) \subseteq memory[p] /\ \A g \in memory[p] : g \in Cleaned(p) \/ Late(g)
  BY DEF Cleaned
<1>3. \A g \in Flow : Late(g) => Late(g)'
  BY <1>1 DEF Late
<1>4. Kept'
  BY <1>1, <1>2, <1>3
<1>5. Forgotten' /\ FailureLeavesNothing'
  BY <1>1, <1>2
<1>6. Holding'
  BY <1>1, <1>2
<1>7. QED
  BY <1>4, <1>5, <1>6

\* A callback ends well, or before it wrote the row, or after the row was deleted.
LEMMA AnswerKeepsTale ==
    ASSUME FlowInv, TaleInv, NEW p \in Process, callback[p].pc # "none", Answered(p),
           \/ UNCHANGED failed
           \/ /\ failed' = failed \cup {callback[p].flow}
              /\ made[callback[p].flow] = 0 \/ callback[p].gone,
           UNCHANGED <<clock, started, made, lost, removed>>
    PROVE  TaleInv'
<1> USE DEF TaleInv, Kept, Forgotten, Holding, FailureLeavesNothing, FlowInv, OAuthTypeOK, AtHome, Own, Initiated
<1>1. callback[p] \in CallbackRec /\ callback[p].flow \in Flow
  BY CallbackTyped DEF CallbackRec
<1>2. /\ memory' = [memory EXCEPT ![p] = @ \ {callback[p].flow}]
      /\ callback' = [callback EXCEPT ![p] = NoCallback]
      /\ ended' = ended \cup {callback[p].flow}
  BY DEF Answered, Forget
<1>3. Kept'
  BY <1>1, <1>2 DEF Late
<1>4. Forgotten'
  BY <1>1, <1>2 DEF NoCallback
<1>5. Holding'
  <2>1. \A q \in Process : q # p /\ callback[q].pc # "none" => callback[q].flow # callback[p].flow
    BY <1>1
  <2>2. QED
    BY <1>1, <1>2, <2>1 DEF NoCallback
<1>6. FailureLeavesNothing'
  BY <1>1
<1>7. QED
  BY <1>3, <1>4, <1>5, <1>6

\* The steps of a running callback.
LEMMA CallbackKeepsTale ==
    ASSUME FlowInv, TaleInv, NEW p \in Process, NEW v \in Provider, Step(p, v)
    PROVE  TaleInv'
<1>1. callback[p] \in CallbackRec
  BY CallbackTyped DEF FlowInv, Step, Exchange, ExchangeFails, UpdateOrCreate, Promote, PromoteRefused,
                       Finish, FinishFails
<1>2. callback[p].pc # "none" /\ callback[p].flow \in memory[p]
      /\ (callback[p].pc \in {"accepted", "granted"} => made[callback[p].flow] = 0)
  BY <1>1, CallbackTyped DEF FlowInv, TaleInv, Holding, Unused
<1>3. CASE Exchange(p)
  <2>1. /\ callback' = [callback EXCEPT ![p].pc = "granted"]
        /\ UNCHANGED <<clock, memory, started, made, ended, failed, lost, removed>>
    BY <1>3 DEF Exchange, Advance, oauthHistory
  <2>2. callback \in [Process -> {NoCallback} \cup CallbackRec]
    BY DEF FlowInv, OAuthTypeOK, CallbackRec
  <2>3. Holding' /\ Forgotten'
    BY <1>1, <1>2, <2>1, <2>2 DEF TaleInv, Holding, Forgotten, CallbackRec, Initiated
  <2>4. Kept' /\ FailureLeavesNothing'
    BY <2>1 DEF TaleInv, Kept, FailureLeavesNothing, Late, Initiated
  <2>5. QED
    BY <2>3, <2>4 DEF TaleInv
<1>4. CASE ExchangeFails(p)
  BY <1>2, <1>4, AnswerKeepsTale DEF ExchangeFails, Fail
<1>5. CASE UpdateOrCreate(p)
  <2>1. /\ callback' = [callback EXCEPT ![p].pc = "connected"]
        /\ made' = [made EXCEPT ![callback[p].flow] = @ + 1]
        /\ UNCHANGED <<clock, memory, started, ended, failed, lost, removed>>
    BY <1>5 DEF UpdateOrCreate, Advance
  <2>2. callback \in [Process -> {NoCallback} \cup CallbackRec] /\ made \in [Flow -> 0 .. MaxServed]
    BY DEF FlowInv, OAuthTypeOK, CallbackRec
  <2>3. Holding' /\ Forgotten'
    BY <1>1, <1>2, <2>1, <2>2 DEF TaleInv, Holding, Forgotten, CallbackRec, Initiated
  <2>4. callback[p].flow \notin failed /\ failed \subseteq Flow
    BY <1>2 DEF TaleInv, Forgotten, FlowInv, OAuthTypeOK
  <2>5. Kept' /\ FailureLeavesNothing'
    BY <2>1, <2>2, <2>4 DEF TaleInv, Kept, FailureLeavesNothing, Late, Initiated
  <2>6. QED
    BY <2>3, <2>5 DEF TaleInv
<1>6. CASE Promote(p)
  <2>1. PICK new \in CallbackRec :
           /\ callback' = [callback EXCEPT ![p] = new] /\ new.flow = callback[p].flow
           /\ new.pc = "promoted" /\ (new.gone => callback[p].gone)
    <3>1. CASE HasDefaultRow
      <4>1. callback' = [callback EXCEPT ![p] = [callback[p] EXCEPT !.pc = "promoted"]]
        BY <1>6, <3>1 DEF Promote, Advance
      <4>2. [callback[p] EXCEPT !.pc = "promoted"].gone = callback[p].gone
        BY <1>1 DEF CallbackRec
      <4>3. QED
        BY <1>1, <4>1, <4>2, AdvancedTyped
    <3>2. CASE ~HasDefaultRow
      <4>1. callback' = [callback EXCEPT ![p] = [callback[p] EXCEPT !.pc = "promoted", !.gone = FALSE]]
        BY <1>6, <3>2 DEF Promote
      <4>2. ~[callback[p] EXCEPT !.pc = "promoted", !.gone = FALSE].gone
        BY <1>1 DEF CallbackRec
      <4>3. QED
        BY <1>1, <4>1, <4>2, AdvancedTyped
    <3>3. QED
      BY <3>1, <3>2
  <2>2. UNCHANGED <<clock, memory, started, made, ended, failed, lost, removed>>
    BY <1>6 DEF Promote, oauthHistory
  <2>3. callback \in [Process -> {NoCallback} \cup CallbackRec]
    BY DEF FlowInv, OAuthTypeOK, CallbackRec
  <2>4. Holding' /\ Forgotten'
    BY <1>1, <1>2, <2>1, <2>2, <2>3 DEF TaleInv, Holding, Forgotten, Initiated
  <2>5. Kept' /\ FailureLeavesNothing'
    BY <2>2 DEF TaleInv, Kept, FailureLeavesNothing, Late, Initiated
  <2>6. QED
    BY <2>4, <2>5 DEF TaleInv
<1>7. CASE PromoteRefused(p)
  BY <1>2, <1>7, AnswerKeepsTale DEF PromoteRefused, Fail
<1>8. CASE Finish(p)
  BY <1>2, <1>8, AnswerKeepsTale DEF Finish
<1>9. CASE FinishFails(p)
  BY <1>2, <1>9, AnswerKeepsTale DEF FinishFails, LogFails, Fail
<1>10. QED
  BY <1>3, <1>4, <1>5, <1>6, <1>7, <1>8, <1>9 DEF Step

\* The connection is deleted.
LEMMA DeleteKeepsTale ==
    ASSUME FlowInv, TaleInv, NEW p \in Process, NEW v \in Provider, DeleteRow(p, v)
    PROVE  TaleInv'
<1> DEFINE hit == {q \in Process : callback[q].provider = v
                                   /\ callback[q].pc \in {"connected", "promoted"}}
<1>1. /\ callback' = [q \in Process |->
             IF q \in hit THEN [callback[q] EXCEPT !.gone = TRUE] ELSE callback[q]]
      /\ removed' = removed \cup {callback[q].flow : q \in hit}
      /\ UNCHANGED <<clock, memory, started, made, ended, failed, lost>>
  BY DEF DeleteRow
<1>2. ASSUME NEW q \in Process
      PROVE  /\ callback'[q].pc = callback[q].pc /\ callback'[q].flow = callback[q].flow
             /\ callback'[q].gone => callback[q].gone \/ callback[q].flow \in removed'
  <2>1. CASE q \in hit
    <3>1. callback[q] \in CallbackRec
      BY <2>1, CallbackTyped DEF FlowInv
    <3>2. callback'[q] = [callback[q] EXCEPT !.gone = TRUE]
      BY <1>1, <2>1, Zenon
    <3>3. callback[q].flow \in removed'
      BY <1>1, <2>1
    <3>4. QED
      BY <3>1, <3>2, <3>3, GoneTyped
  <2>2. CASE q \notin hit
    <3>1. callback'[q] = callback[q]
      BY <1>1, <2>2, Zenon
    <3>2. QED
      BY <3>1
  <2>3. QED
    BY <2>1, <2>2
<1>3. removed \subseteq removed'
  BY <1>1
<1> HIDE DEF hit
<1>4. QED
  BY <1>1, <1>2, <1>3, TaleFramed

\* A kill loses the states of its process, and says so.
LEMMA KillKeepsTale ==
    ASSUME FlowInv, TaleInv, NEW p \in Process, KillWorker(p)
    PROVE  TaleInv'
<1> USE DEF TaleInv, Kept, Forgotten, Holding, FailureLeavesNothing, FlowInv, OAuthTypeOK, Initiated
<1>1. /\ callback' = [callback EXCEPT ![p] = NoCallback]
      /\ memory' = [memory EXCEPT ![p] = {}] /\ lost' = lost \cup memory[p]
      /\ UNCHANGED <<clock, started, made, ended, failed, removed>>
  BY DEF KillWorker, OAuthWiped
<1>2. Kept'
  BY <1>1 DEF Late
<1>3. Forgotten' /\ Holding' /\ FailureLeavesNothing'
  BY <1>1 DEF NoCallback
<1>4. QED
  BY <1>2, <1>3

\* A step of the flow keeps what is told of it.
LEMMA OAuthStepKeepsTale ==
    ASSUME FlowInv, TaleInv, OAuthNext
    PROVE  TaleInv'
<1>1. ASSUME NEW p \in Process, OAuthStep(p)
      PROVE  TaleInv'
  <2>1. CASE \E f \in Flow, v \in Provider : Initiate(p, f, v)
    BY <2>1, StartKeepsTale
  <2>2. ASSUME UNCHANGED <<clock, memory, started, callback, made, ended, failed, lost, removed>>
        PROVE  TaleInv'
    BY <2>2, TaleFramed
  <2>3. CASE (\E f \in Flow : Declined(p, f)) \/ (\E v \in Provider : ToggleProvider(p, v))
    BY <2>2, <2>3 DEF Declined, ToggleProvider, oauthVars, oauthHistory
  <2>4. ASSUME NEW v, Callback(p, v)
        PROVE  TaleInv'
    <3>1. ASSUME NEW f \in Flow, NEW c \in 1 .. MaxCodes, Receive(p, f, c)
          PROVE  TaleInv'
      BY <3>1, ReceiveKeepsTale
    <3>2. CASE Step(p, v)
      <4>1. callback[p].pc # "none"
        BY <3>2 DEF Step, Exchange, ExchangeFails, UpdateOrCreate, Promote, PromoteRefused, Finish, FinishFails
      <4>2. v \in Provider
        BY <3>2, <4>1, CallbackTyped, ProviderAssumption DEF Step, FlowInv, CallbackRec
      <4>3. QED
        BY <3>2, <4>2, CallbackKeepsTale
    <3>3. QED
      BY <2>4, <3>1, <3>2 DEF Callback
  <2>5. CASE oauth_callback_google(p) \/ oauth_callback_onedrive(p) \/ oauth_callback_dropbox(p)
    BY <2>4, <2>5 DEF oauth_callback_google, oauth_callback_onedrive, oauth_callback_dropbox
  <2>6. CASE \E v \in Provider : DeleteRow(p, v)
    BY <2>6, DeleteKeepsTale
  <2>7. QED
    BY <1>1, <2>1, <2>3, <2>5, <2>6 DEF OAuthStep
<1>2. ASSUME NEW f \in Flow, Consent(f)
      PROVE  TaleInv'
  BY <1>2, TaleFramed DEF Consent, oauthHistory
<1>3. QED
  BY <1>1, <1>2, StartKeepsTale DEF OAuthNext

--------------------------------------------------------------------------
(* Rows and requests.                                                      *)

\* An account that exists has its flags.
LEMMA RowOrNone == \A row \in Flags \cup {NoRow} : row # NoRow <=> row \in Flags
<1>1. NoRow \notin Flags
  <2>1. DOMAIN NoRow = {}
    BY DEF NoRow
  <2>2. \A row \in Flags : DOMAIN row = Flag /\ "is_active" \in Flag
    BY DEF Flags, Flag
  <2>3. QED
    BY <2>1, <2>2
<1>2. QED
  BY <1>1

\* What a request carries is decided by its kind.
LEMMA JobTyped ==
    ASSUME NEW j \in Jobs
    PROVE  /\ j.op \in {"flag", "patch"} => /\ j.user \in User /\ j.flag \in Flag
                                            /\ j.value \in BOOLEAN /\ j.snap \in Flags
           /\ j.op = "rename" => j.user \in User /\ j.snap \in Flags
           /\ j.op \in {"replace", "append", "add"} => j.user \in User /\ j.roles \in SUBSET AdminRole
           /\ j.op = "login" => j.login \in Login /\ j.cookie \in BOOLEAN
           /\ j.op = "account" => j.cookie \in BOOLEAN /\ j.snap \in Flags
           /\ j # NoJob <=> j.op # "none"
BY DEF Jobs, NoJob

\* A request that sets roles goes on to its second statement.
RoleJobs == [op : {"replace", "append", "add"}, user : User, roles : SUBSET AdminRole]

LEMMA RoleJobTyped ==
    /\ RoleJobs \subseteq Jobs
    /\ \A j \in Jobs : j.op \in {"replace", "append", "add"} => j \in RoleJobs
    /\ \A j \in RoleJobs : [j EXCEPT !.op = "add"] \in RoleJobs /\ [j EXCEPT !.op = "add"].op = "add"
<1>1. RoleJobs \subseteq Jobs
  BY Zenon DEF RoleJobs, Jobs
<1>2. ASSUME NEW j \in Jobs, j.op \in {"replace", "append", "add"}
      PROVE  j \in RoleJobs
  BY <1>2 DEF Jobs, NoJob, RoleJobs
<1>3. \A j \in RoleJobs : [j EXCEPT !.op = "add"] \in RoleJobs /\ [j EXCEPT !.op = "add"].op = "add"
  BY DEF RoleJobs
<1>4. QED
  BY <1>1, <1>2, <1>3

\* A new row is a row.
LEMMA NewAccountTyped == \A v \in BOOLEAN : NewAccount(v) \in Flags
BY DEF NewAccount, Flags, Flag

\* A flag of a row is set.
LEMMA FlagTyped == \A row \in Flags, f \in Flag, v \in BOOLEAN : [row EXCEPT ![f] = v] \in Flags
BY DEF Flags

\* A request for an account is for one that exists, and the counter was below
\* the limit when it was looked at.
Founded == \A p \in Process :
    /\ job[p].op \in {"flag", "patch", "rename"} => Exists(job[p].user)
    /\ job[p].op = "account" => Exists(Google)
    /\ job[p].op = "count" => hits[p] < Amount

\* Whoever has no row was never given a flag.
SameRows == \A u \in User : users[u] = NoRow <=> want[u] = NoRow

AccountsInv == AccountsTypeOK /\ Founded /\ SameRows

\* At the start no request runs.
LEMMA AccountsInvInit == WebInit => AccountsInv
<1> SUFFICES ASSUME WebInit PROVE AccountsInv
  OBVIOUS
<1> USE DEF WebInit, AccountsInit
<1>1. users \in [User -> Flags \cup {NoRow}]
  <2>1. [f \in Flag |-> TRUE] \in Flags
    BY DEF Flags
  <2>2. QED
    BY <2>1, NewAccountTyped
<1>2. groups \in [User -> SUBSET (AdminRole \cup OtherGroup)]
  BY RoleAssumption
<1>3. AccountsTypeOK
  <2>1. NoJob \in Jobs
    BY DEF Jobs
  <2>2. want \in [User -> Flags \cup {NoRow}] /\ wanted \in [User -> SUBSET (AdminRole \cup OtherGroup)]
    BY <1>1, <1>2, Zenon
  <2>3. stale \subseteq User \X Flag /\ turnedAway \subseteq Login \X Process \X BOOLEAN
    OBVIOUS
  <2>4. /\ session \in Login \cup {"none"} /\ cache \in [Process -> SUBSET Login]
        /\ home \in [Login -> Process \cup {"none"}]
        /\ raced \subseteq User /\ superseded \subseteq Login /\ popped \subseteq Login
    OBVIOUS
  <2>5. /\ hits \in [Process -> 0 .. Amount] /\ job \in [Process -> Jobs]
        /\ windows \in [Process -> Nat] /\ admitted \in [Process -> Nat]
    BY <2>1, AmountAssumption
  <2>6. QED
    BY <1>1, <1>2, <2>2, <2>3, <2>4, <2>5 DEF AccountsTypeOK
<1>4. Founded /\ SameRows
  BY DEF Founded, SameRows, NoJob
<1>5. QED
  BY <1>3, <1>4 DEF AccountsInv

--------------------------------------------------------------------------
(* What a step of the account handlers does to the processes: it begins a  *)
(* request, goes on with one, ends one, or serves one at once.             *)

Goes(p) ==
    \/ /\ p \notin busy /\ \E j \in Jobs : j.op # "none" /\ Begin(p, j)
    \/ /\ job[p].op # "none" /\ UNCHANGED workers
       /\ \E j \in Jobs : j.op # "none" /\ job' = [job EXCEPT ![p] = j]
    \/ job[p].op # "none" /\ End(p)
    \/ Serve(p) /\ UNCHANGED job
    \/ UNCHANGED <<workers, job>>

\* A handler that reads a row begins with it.
LEMMA LoadsGo ==
    ASSUME AccountsInv, NEW p \in Process, NEW u \in User,
           LoadForFlag(p, u) \/ LoadForPatch(p, u) \/ LoadForProfile(p, u) \/ StartSetRoles(p, u)
    PROVE  /\ Goes(p)
           /\ \E j \in Jobs : /\ j.op \in {"flag", "patch", "rename", "replace", "append"}
                              /\ j.user = u /\ job' = [job EXCEPT ![p] = j]
           /\ Exists(u) /\ UNCHANGED <<users, want, stale, hits, groups>>
<1> USE DEF AccountsInv, AccountsTypeOK, userVars, groupVars, rateVars, Begin, Accept, Free
<1>1. ASSUME NEW j \in Jobs, Begin(p, j), j.op \in {"flag", "patch", "rename", "replace", "append"}
      PROVE  Goes(p)
  BY <1>1 DEF Goes
<1>2. Exists(u) => users[u] \in Flags
  BY RowOrNone DEF Exists
<1>3. CASE LoadForFlag(p, u)
  <2>1. PICK to \in FlagActions \cup PrivilegeActions :
            Begin(p, [op |-> "flag", user |-> u, flag |-> to.flag, value |-> to.value, snap |-> users[u]])
    BY <1>3 DEF LoadForFlag
  <2>2. to.flag \in Flag /\ to.value \in BOOLEAN
    <3>1. \A f \in Flag, v \in BOOLEAN : To(f, v) \in [flag : Flag, value : BOOLEAN]
      BY DEF To
    <3>2. FlagActions \cup PrivilegeActions \subseteq [flag : Flag, value : BOOLEAN]
      BY <3>1, ZenonT(40) DEF FlagActions, PrivilegeActions, Flag
    <3>3. QED
      BY <3>2
  <2>3. Exists(u) /\ UNCHANGED <<users, want, stale, hits, groups>>
    BY <1>3 DEF LoadForFlag
  <2> DEFINE j == [op |-> "flag", user |-> u, flag |-> to.flag, value |-> to.value, snap |-> users[u]]
  <2>4. j \in Jobs /\ j.op = "flag" /\ j.user = u
    BY <1>2, <2>2, <2>3 DEF Jobs
  <2>5. Begin(p, j)
    BY <2>1
  <2> HIDE DEF j
  <2>6. Goes(p)
    BY <1>1, <2>4, <2>5
  <2>7. QED
    BY <2>3, <2>4, <2>5, <2>6
<1>4. ASSUME LoadForPatch(p, u) \/ LoadForProfile(p, u)
      PROVE  /\ \E j \in Jobs : j.op \in {"patch", "rename"} /\ j.user = u /\ Begin(p, j)
             /\ Exists(u) /\ UNCHANGED <<users, want, stale, hits, groups>>
  <2>1. Exists(u) /\ UNCHANGED <<users, want, stale, hits, groups>>
    BY <1>4 DEF LoadForPatch, LoadForProfile
  <2>2. \A f \in Flag, v \in BOOLEAN :
           [op |-> "patch", user |-> u, flag |-> f, value |-> v, snap |-> users[u]] \in Jobs
    BY <1>2, <2>1 DEF Jobs
  <2>3. [op |-> "rename", user |-> u, snap |-> users[u]] \in Jobs
    BY <1>2, <2>1 DEF Jobs
  <2>4. "is_verified" \in Flag
    BY DEF Flag
  <2>5. \/ Begin(p, [op |-> "rename", user |-> u, snap |-> users[u]])
        \/ \E f \in Flag, v \in BOOLEAN :
              Begin(p, [op |-> "patch", user |-> u, flag |-> f, value |-> v, snap |-> users[u]])
    BY <1>4, <2>4 DEF LoadForPatch, LoadForProfile
  <2>6. QED
    BY <2>1, <2>2, <2>3, <2>5
<1>5. ASSUME StartSetRoles(p, u)
      PROVE  /\ \E j \in Jobs : j.op \in {"replace", "append"} /\ j.user = u /\ Begin(p, j)
             /\ Exists(u) /\ UNCHANGED <<users, want, stale, hits, groups>>
  <2>1. PICK mode \in {"replace", "append"}, roles \in Asked :
            Begin(p, [op |-> mode, user |-> u, roles |-> roles])
    BY <1>5 DEF StartSetRoles
  <2>2. [op |-> mode, user |-> u, roles |-> roles] \in Jobs
    BY RoleAssumption DEF Jobs
  <2>3. QED
    BY <1>5, <2>1, <2>2 DEF StartSetRoles
<1>6. QED
  BY <1>1, <1>3, <1>4, <1>5

LEMMA LoadsKeepAccountsInv ==
    ASSUME AccountsInv, NEW p \in Process, NEW u \in User,
           LoadForFlag(p, u) \/ LoadForPatch(p, u) \/ LoadForProfile(p, u) \/ StartSetRoles(p, u)
    PROVE  AccountsInv'
<1> USE DEF AccountsInv, AccountsTypeOK, userVars, groupVars, rateVars, loginVars
<1>1. PICK j \in Jobs : /\ j.op \in {"flag", "patch", "rename", "replace", "append"}
                        /\ j.user = u /\ job' = [job EXCEPT ![p] = j]
  BY LoadsGo
<1>2. Exists(u) /\ UNCHANGED <<users, want, stale, hits, groups>>
  BY LoadsGo
<1>3. UNCHANGED <<session, cache, home, superseded, popped, turnedAway, windows, admitted>>
  BY DEF LoadForFlag, LoadForPatch, LoadForProfile, StartSetRoles
<1>4. wanted' \in [User -> SUBSET (AdminRole \cup OtherGroup)] /\ raced' \subseteq User
  <2>1. CASE StartSetRoles(p, u)
    <3>1. PICK mode \in {"replace", "append"}, roles \in Asked :
              wanted' = [wanted EXCEPT ![u] =
                            roles \cup (IF mode = "append" THEN @ ELSE @ \ AdminRole)]
      BY <2>1 DEF StartSetRoles
    <3>2. QED
      BY <2>1, <3>1, RoleAssumption DEF StartSetRoles
  <2>2. QED
    BY <2>1 DEF LoadForFlag, LoadForPatch, LoadForProfile
<1>5. AccountsTypeOK'
  BY <1>1, <1>2, <1>3, <1>4
<1>6. Founded' /\ SameRows'
  BY <1>1, <1>2 DEF Founded, SameRows, Exists
<1>7. QED
  BY <1>5, <1>6

\* A whole row, or one flag of a row, is saved.
LEMMA SavesKeepAccountsInv ==
    ASSUME AccountsInv, NEW p \in Process, SaveFlag(p) \/ SavePatch(p) \/ SaveRename(p)
    PROVE  AccountsInv' /\ Goes(p)
<1> USE DEF AccountsInv, AccountsTypeOK, userVars, groupVars, rateVars, loginVars
<1> DEFINE j == job[p]
<1>1. /\ j.op # "none" /\ End(p) /\ job' = [job EXCEPT ![p] = NoJob]
      /\ UNCHANGED <<groupVars, loginVars, rateVars>>
      /\ j.user \in User /\ Exists(j.user)
  BY JobTyped DEF SaveFlag, SavePatch, SaveRename, End, Founded
<1>2. users[j.user] \in Flags /\ want[j.user] \in Flags
  BY <1>1, RowOrNone DEF Exists, SameRows
<1>3. \A new : Overwritten(j.user, new) \subseteq User \X Flag
  BY <1>1 DEF Overwritten
<1>4. PICK new \in Flags, given \in Flags :
          /\ users' = [users EXCEPT ![j.user] = new]
          /\ want' = [want EXCEPT ![j.user] = given]
          /\ stale' \subseteq User \X Flag
  <2>1. CASE SaveFlag(p)
    <3>1. /\ j.flag \in Flag /\ j.value \in BOOLEAN
          /\ users' = [users EXCEPT ![j.user] = [users[j.user] EXCEPT ![j.flag] = j.value]]
          /\ want' = [want EXCEPT ![j.user] = [want[j.user] EXCEPT ![j.flag] = j.value]]
          /\ stale' \subseteq stale
      BY <2>1, JobTyped DEF SaveFlag, WithFlag
    <3>2. /\ [users[j.user] EXCEPT ![j.flag] = j.value] \in Flags
          /\ [want[j.user] EXCEPT ![j.flag] = j.value] \in Flags
      BY <1>2, <3>1, FlagTyped
    <3>3. stale' \subseteq User \X Flag
      BY <3>1
    <3>4. QED
      BY <3>1, <3>2, <3>3, Zenon
  <2>2. CASE SavePatch(p)
    <3>1. /\ j.flag \in Flag /\ j.value \in BOOLEAN /\ j.snap \in Flags
          /\ users' = [users EXCEPT ![j.user] = [j.snap EXCEPT ![j.flag] = j.value]]
          /\ want' = [want EXCEPT ![j.user] = [want[j.user] EXCEPT ![j.flag] = j.value]]
      BY <2>2, JobTyped DEF SavePatch
    <3>2. stale' \subseteq stale \cup Overwritten(j.user, [j.snap EXCEPT ![j.flag] = j.value])
      BY <2>2 DEF SavePatch
    <3>3. stale' \subseteq User \X Flag
      BY <1>3, <3>2
    <3>4. /\ [j.snap EXCEPT ![j.flag] = j.value] \in Flags
          /\ [want[j.user] EXCEPT ![j.flag] = j.value] \in Flags
      BY <1>2, <3>1, FlagTyped
    <3>5. QED
      BY <3>1, <3>3, <3>4, Zenon
  <2>3. CASE SaveRename(p)
    <3>1. /\ j.snap \in Flags
          /\ users' = [users EXCEPT ![j.user] = j.snap]
          /\ want' = [want EXCEPT ![j.user] = want[j.user]]
      BY <2>3, JobTyped DEF SaveRename
    <3>2. stale' = stale \cup Overwritten(j.user, j.snap)
      BY <2>3 DEF SaveRename
    <3>3. stale' \subseteq User \X Flag
      BY <1>3, <3>2
    <3>4. QED
      BY <1>2, <3>1, <3>3
  <2>4. QED
    BY <2>1, <2>2, <2>3
<1>5. AccountsTypeOK'
  <2>1. NoJob \in Jobs
    BY DEF Jobs
  <2>2. QED
    BY <1>1, <1>4, <2>1
<1>6. ASSUME NEW u \in User
      PROVE  Exists(u) <=> Exists(u)'
  <2>1. users'[u] = IF u = j.user THEN new ELSE users[u]
    BY <1>1, <1>4
  <2>2. new # NoRow
    BY RowOrNone
  <2>3. QED
    BY <1>1, <2>1, <2>2 DEF Exists
<1>7. Founded'
  <2>1. \A q \in Process : job'[q] = IF q = p THEN NoJob ELSE job[q]
    BY <1>1
  <2>2. \A q \in Process : job[q].op \in {"flag", "patch", "rename"} => job[q].user \in User
    BY JobTyped
  <2>3. UNCHANGED hits
    BY <1>1
  <2> HIDE DEF AccountsTypeOK
  <2>4. QED
    BY <1>6, <2>1, <2>2, <2>3, AccountAssumption DEF Founded, NoJob
<1>8. SameRows'
  BY <1>1, <1>4, RowOrNone DEF SameRows
<1>9. Goes(p)
  BY <1>1 DEF Goes
<1>10. QED
  BY <1>5, <1>7, <1>8, <1>9

\* Bulk actions and the two statements of set_roles.
LEMMA RolesKeepAccountsInv ==
    ASSUME AccountsInv, NEW p \in Process,
           \/ \E U \in SUBSET User \ {{}} : bulk_actions(p, U)
           \/ RemoveRoles(p) \/ AddRoles(p)
    PROVE  AccountsInv' /\ Goes(p)
<1> USE DEF AccountsInv, AccountsTypeOK, userVars, groupVars, rateVars, loginVars
<1>1. ASSUME NEW U \in SUBSET User, bulk_actions(p, U)
      PROVE  AccountsInv' /\ Goes(p)
  <2>1. PICK f \in {"is_active", "is_staff"}, v \in BOOLEAN :
          /\ users' = [u \in User |-> IF u \in U THEN [users[u] EXCEPT ![f] = v] ELSE users[u]]
          /\ want' = [u \in User |-> IF u \in U THEN [want[u] EXCEPT ![f] = v] ELSE want[u]]
          /\ stale' = stale \ {<<u, f>> : u \in U}
    BY <1>1 DEF bulk_actions
  <2>2. /\ \A u \in U : Exists(u)
        /\ UNCHANGED <<job, groupVars, loginVars, rateVars>> /\ Serve(p)
    BY <1>1 DEF bulk_actions
  <2>3. \A u \in U : users[u] \in Flags /\ want[u] \in Flags
    BY <2>2, RowOrNone DEF Exists, SameRows
  <2>4. f \in Flag
    BY DEF Flag
  <2>5. \A u \in U : [users[u] EXCEPT ![f] = v] \in Flags /\ [want[u] EXCEPT ![f] = v] \in Flags
    BY <2>3, <2>4, FlagTyped
  <2>6. \A u \in User : /\ users'[u] \in Flags \cup {NoRow} /\ want'[u] \in Flags \cup {NoRow}
                        /\ (users'[u] = NoRow <=> users[u] = NoRow)
                        /\ (want'[u] = NoRow <=> want[u] = NoRow)
    <3>1. \A u \in User : users'[u] = IF u \in U THEN [users[u] EXCEPT ![f] = v] ELSE users[u]
      BY <2>1, Zenon
    <3>2. \A u \in User : want'[u] = IF u \in U THEN [want[u] EXCEPT ![f] = v] ELSE want[u]
      BY <2>1, Zenon
    <3>3. QED
      BY <2>3, <2>5, <3>1, <3>2, RowOrNone
  <2>7. users' \in [User -> Flags \cup {NoRow}] /\ want' \in [User -> Flags \cup {NoRow}]
    BY <2>1, <2>6
  <2>8. stale' \subseteq User \X Flag
    BY <2>1
  <2>9. AccountsTypeOK'
    BY <2>2, <2>7, <2>8
  <2>10. Founded' /\ SameRows'
    <3>1. SameRows'
      BY <2>6 DEF SameRows
    <3>2. \A q \in Process : job[q].op \in {"flag", "patch", "rename"} => job[q].user \in User
      BY JobTyped
    <3>3. UNCHANGED <<job, hits>> /\ \A u \in User : Exists(u) => Exists(u)'
      BY <2>2, <2>6 DEF Exists
    <3> HIDE DEF AccountsTypeOK
    <3>4. Founded'
      BY <3>2, <3>3, AccountAssumption DEF Founded
    <3>5. QED
      BY <3>1, <3>4
  <2>11. Goes(p)
    BY <2>2 DEF Goes
  <2>12. QED
    BY <2>9, <2>10, <2>11
<1>2. CASE RemoveRoles(p) \/ AddRoles(p)
  <2> DEFINE j == job[p]
  <2>1. j \in Jobs /\ j.op \in {"replace", "append", "add"} /\ j.user \in User /\ j.roles \in SUBSET AdminRole
    BY <1>2, JobTyped DEF RemoveRoles, AddRoles
  <2>2. PICK new \in Jobs : /\ new.op \in {"none", "add"} /\ job' = [job EXCEPT ![p] = new]
                            /\ (new.op = "none" => End(p)) /\ (new.op # "none" => UNCHANGED workers)
    <3>1. CASE RemoveRoles(p)
      <4>1. j \in RoleJobs
        BY <2>1, RoleJobTyped
      <4>2. job' = [job EXCEPT ![p] = [j EXCEPT !.op = "add"]] /\ UNCHANGED workers
        BY <3>1 DEF RemoveRoles, Continue
      <4>3. [j EXCEPT !.op = "add"] \in Jobs /\ [j EXCEPT !.op = "add"].op = "add"
        BY <4>1, RoleJobTyped
      <4>4. QED
        BY <4>2, <4>3
    <3>2. CASE AddRoles(p)
      <4>1. NoJob \in Jobs /\ NoJob.op = "none"
        BY DEF Jobs, NoJob
      <4>2. QED
        BY <3>2, <4>1 DEF AddRoles, End
    <3>3. QED
      BY <1>2, <3>1, <3>2
  <2>3. groups' \in [User -> SUBSET (AdminRole \cup OtherGroup)]
    BY <1>2, <2>1 DEF RemoveRoles, AddRoles, WithoutRoles
  <2>4. UNCHANGED <<userVars, wanted, raced, loginVars, rateVars>>
    BY <1>2 DEF RemoveRoles, AddRoles
  <2>5. AccountsTypeOK'
    BY <2>2, <2>3, <2>4
  <2>6. Founded' /\ SameRows'
    BY <2>2, <2>4 DEF Founded, SameRows, Exists
  <2>7. Goes(p)
    BY <2>1, <2>2 DEF Goes
  <2>8. QED
    BY <2>5, <2>6, <2>7
<1>3. QED
  BY <1>1, <1>2

\* The rate limit.
LEMMA RateKeepsAccountsInv ==
    ASSUME AccountsInv, NEW p \in Process,
           OpenWindow(p) \/ Throttle(p) \/ Look(p) \/ Count(p) \/ ExpireHits(p), job[p].op # "none" => p \in busy
    PROVE  AccountsInv' /\ Goes(p)
<1> USE AmountAssumption
    DEF AccountsInv, AccountsTypeOK, SameRows, Exists, userVars, groupVars, rateVars, loginVars
<1>1. CASE OpenWindow(p)
  BY <1>1 DEF OpenWindow, Goes, Serve, Free, Founded
<1>2. CASE Throttle(p)
  BY <1>2 DEF Throttle, accountVars, Goes, Founded
<1>3. CASE Look(p)
  <2>1. [op |-> "count"] \in Jobs
    BY DEF Jobs
  <2>2. job' = [job EXCEPT ![p] = [op |-> "count"]] /\ UNCHANGED <<userVars, groupVars, loginVars, rateVars>>
    BY <1>3 DEF Look, Begin
  <2>3. AccountsTypeOK'
    BY <2>1, <2>2
  <2>4. hits[p] < Amount
    BY <1>3 DEF Look, OverLimit
  <2>5. Founded' /\ SameRows'
    BY <2>2, <2>4 DEF Founded
  <2>6. Goes(p)
    BY <1>3, <2>1 DEF Goes, Look, Begin, Accept, Free
  <2>7. QED
    BY <2>3, <2>5, <2>6
<1>4. CASE Count(p)
  <2>1. NoJob \in Jobs /\ NoJob.op = "none"
    BY DEF Jobs, NoJob
  <2>2. job' = [job EXCEPT ![p] = NoJob] /\ UNCHANGED <<userVars, groupVars, loginVars>> /\ hits[p] < Amount
    BY <1>4 DEF Count, End, Founded
  <2>3. /\ hits' \in [Process -> 0 .. Amount] /\ windows' \in [Process -> Nat] /\ admitted' \in [Process -> Nat]
        /\ \A q \in Process : q # p => hits'[q] = hits[q]
    BY <1>4, <2>2 DEF Count
  <2>4. AccountsTypeOK'
    BY <2>1, <2>2, <2>3
  <2>5. Founded' /\ SameRows'
    BY <2>1, <2>2, <2>3 DEF Founded
  <2>6. Goes(p)
    BY <1>4 DEF Goes, Count
  <2>7. QED
    BY <2>4, <2>5, <2>6
<1>5. CASE ExpireHits(p)
  BY <1>5 DEF ExpireHits, Goes, Founded
<1>6. QED
  BY <1>1, <1>2, <1>3, <1>4, <1>5

\* The Google login, up to its account.
LEMMA CallbackKeepsAccountsInv ==
    ASSUME AccountsInv, NEW p \in Process, NEW l \in Login,
           \/ GoogleAuthStart(p, l) \/ GoogleDeclined(p, l) \/ ExpireState(p, l)
           \/ \E cookie \in BOOLEAN : GoogleAuthCallback(p, l, cookie)
    PROVE  AccountsInv' /\ Goes(p)
<1> USE DEF AccountsInv, AccountsTypeOK, SameRows, Exists, userVars, groupVars, rateVars, loginVars
<1>1. CASE GoogleAuthStart(p, l)
  BY <1>1 DEF GoogleAuthStart, Goes, Founded
<1>2. CASE GoogleDeclined(p, l)
  BY <1>2 DEF GoogleDeclined, PopState, Goes, Founded
<1>3. CASE ExpireState(p, l)
  BY <1>3 DEF ExpireState, PopState, Goes, Founded
<1>4. ASSUME NEW cookie \in BOOLEAN, GoogleAuthCallback(p, l, cookie)
      PROVE  AccountsInv' /\ Goes(p)
  <2> DEFINE new == [op |-> "login", login |-> l, cookie |-> cookie]
  <2>1. new \in Jobs /\ new.op = "login"
    BY DEF Jobs
  <2>2. /\ cache' = [cache EXCEPT ![p] = @ \ {l}] /\ popped' = popped \cup ({l} \cap cache[p])
        /\ UNCHANGED <<session, home, superseded, userVars, groupVars, rateVars>>
        /\ turnedAway' \subseteq turnedAway \cup {<<l, p, cookie>>}
    BY <1>4 DEF GoogleAuthCallback, PopState, TurnAway
  <2>3. \/ UNCHANGED job /\ Serve(p)
        \/ job' = [job EXCEPT ![p] = new] /\ Begin(p, new)
    BY <1>4 DEF GoogleAuthCallback, TurnAway, Begin
  <2> HIDE DEF new
  <2>4. AccountsTypeOK'
    BY <2>1, <2>2, <2>3
  <2>5. Founded' /\ SameRows'
    BY <2>1, <2>2, <2>3 DEF Founded
  <2>6. Goes(p)
    BY <2>1, <2>3 DEF Goes, Begin, Accept, Free
  <2>7. QED
    BY <2>4, <2>5, <2>6
<1>5. QED
  BY <1>1, <1>2, <1>3, <1>4

\* The login's account: it is there, or is made, and its row gains flags.
LEMMA LoginKeepsAccountsInv ==
    ASSUME AccountsInv, NEW p \in Process, GoogleFails(p) \/ GetOrCreate(p) \/ LogIn(p)
    PROVE  AccountsInv' /\ Goes(p)
<1> USE AccountAssumption
    DEF AccountsInv, AccountsTypeOK, userVars, groupVars, rateVars, loginVars
<1>1. NoJob \in Jobs /\ NoJob.op = "none"
  BY DEF Jobs, NoJob
<1>2. CASE GoogleFails(p)
  <2>1. job' = [job EXCEPT ![p] = NoJob] /\ End(p) /\ job[p].op # "none"
    BY <1>2 DEF GoogleFails, End
  <2>2. UNCHANGED <<userVars, groupVars, loginVars, rateVars>>
    BY <1>2 DEF GoogleFails
  <2>3. QED
    BY <1>1, <2>1, <2>2 DEF Founded, SameRows, Exists, Goes
<1>3. CASE GetOrCreate(p)
  <2>1. /\ job[p].op = "login" /\ job[p].cookie \in BOOLEAN /\ UNCHANGED workers
        /\ UNCHANGED <<stale, groupVars, loginVars, rateVars>>
        /\ job' = [job EXCEPT ![p] = [op |-> "account", cookie |-> job[p].cookie, snap |-> users'[Google]]]
    BY <1>3, JobTyped DEF GetOrCreate, Continue
  <2>2. /\ users' \in [User -> Flags \cup {NoRow}] /\ want' \in [User -> Flags \cup {NoRow}]
        /\ users'[Google] \in Flags /\ want'[Google] \in Flags
        /\ \A u \in User \ {Google} : users'[u] = users[u] /\ want'[u] = want[u]
    <3>1. CASE Exists(Google)
      BY <1>3, <3>1, RowOrNone DEF GetOrCreate, Exists, SameRows
    <3>2. CASE ~Exists(Google)
      <4>1. PICK verified \in BOOLEAN : /\ users' = [users EXCEPT ![Google] = NewAccount(verified)]
                                        /\ want' = [want EXCEPT ![Google] = NewAccount(verified)]
        BY <1>3, <3>2 DEF GetOrCreate
      <4>2. QED
        BY <4>1, NewAccountTyped
    <3>3. QED
      BY <3>1, <3>2
  <2> DEFINE new == [op |-> "account", cookie |-> job[p].cookie, snap |-> users'[Google]]
  <2>3. new \in Jobs /\ new.op = "account"
    BY <2>1, <2>2 DEF Jobs
  <2>4. job' = [job EXCEPT ![p] = new]
    BY <2>1
  <2> HIDE DEF new
  <2>5. AccountsTypeOK'
    BY <2>1, <2>2, <2>3, <2>4
  <2>6. SameRows' /\ Exists(Google)' /\ \A u \in User : Exists(u) => Exists(u)'
    BY <2>2, RowOrNone DEF SameRows, Exists
  <2>7. \A q \in Process : job[q].op \in {"flag", "patch", "rename"} => job[q].user \in User
    BY JobTyped
  <2>8. Founded'
    <3>1. \A q \in Process : job'[q] = IF q = p THEN new ELSE job[q]
      BY <2>4
    <3>2. UNCHANGED hits
      BY <2>1
    <3> HIDE DEF AccountsTypeOK
    <3>3. QED
      BY <2>3, <2>6, <2>7, <3>1, <3>2 DEF Founded
  <2>9. Goes(p)
    BY <2>1, <2>3, <2>4 DEF Goes
  <2>10. QED
    BY <2>5, <2>6, <2>8, <2>9
<1>4. CASE LogIn(p)
  <2>1. /\ job[p].op = "account" /\ job[p].snap \in Flags /\ End(p)
        /\ job' = [job EXCEPT ![p] = NoJob]
        /\ UNCHANGED <<cache, home, popped, turnedAway, groupVars, rateVars>>
    BY <1>4, JobTyped DEF LogIn, End
  <2>2. users[Google] \in Flags /\ want[Google] \in Flags
    BY <2>1, RowOrNone DEF Founded, SameRows, Exists
  <2>3. PICK verified \in BOOLEAN :
          /\ users' = [users EXCEPT ![Google] =
                           [f \in Flag |-> @[f] \/ f \in Changed(job[p].snap, verified)]]
          /\ want' = [want EXCEPT ![Google] =
                           [f \in Flag |-> @[f] \/ f \in Changed(job[p].snap, verified)]]
          /\ stale' = stale \ ({Google} \X Changed(job[p].snap, verified))
    BY <1>4 DEF LogIn
  <2>4. \A row \in Flags : [f \in Flag |-> row[f] \/ f \in Changed(job[p].snap, verified)] \in Flags
    BY DEF Flags
  <2>5. /\ users' \in [User -> Flags \cup {NoRow}] /\ want' \in [User -> Flags \cup {NoRow}]
        /\ users'[Google] \in Flags /\ want'[Google] \in Flags
        /\ \A u \in User \ {Google} : users'[u] = users[u] /\ want'[u] = want[u]
    BY <2>2, <2>3, <2>4
  <2>6. /\ session' \in Login \cup {"none"} /\ superseded' \subseteq Login
        /\ stale' \subseteq User \X Flag
    BY <1>4, <2>3 DEF LogIn
  <2>7. AccountsTypeOK'
    BY <1>1, <2>1, <2>5, <2>6
  <2>8. SameRows' /\ \A u \in User : Exists(u) => Exists(u)'
    BY <2>5, RowOrNone DEF SameRows, Exists
  <2>9. Founded'
    <3>1. \A q \in Process : job'[q] = IF q = p THEN NoJob ELSE job[q]
      BY <2>1
    <3>2. \A q \in Process : job[q].op \in {"flag", "patch", "rename"} => job[q].user \in User
      BY JobTyped
    <3>3. UNCHANGED hits
      BY <2>1
    <3> HIDE DEF AccountsTypeOK
    <3>4. QED
      BY <1>1, <2>8, <3>1, <3>2, <3>3 DEF Founded
  <2>10. Goes(p)
    BY <2>1 DEF Goes
  <2>11. QED
    BY <2>7, <2>8, <2>9, <2>10
<1>5. QED
  BY <1>2, <1>3, <1>4

--------------------------------------------------------------------------
(* The two parts together.                                                 *)

\* No step of an account handler disturbs the flow that other processes serve.
LEMMA GoesKeepsFlowInv ==
    ASSUME FlowInv, NEW p \in Process, Goes(p), UNCHANGED oauthVars
    PROVE  FlowInv'
<1> USE WorkersAssumption
    DEF FlowInv, WorkersTypeOK, Own, Begun, oauthVars, workers
<1>1. OAuthTypeOK' /\ AtHome' /\ Unused' /\ FlowUsedOnce'
  BY DEF OAuthTypeOK, AtHome, Unused, FlowUsedOnce, Initiated
<1>2. ASSUME NEW j \in Jobs, j.op # "none", Begin(p, j)
      PROVE  FlowInv'
  BY <1>1, <1>2 DEF Begin, Accept, Free
<1>3. ASSUME job[p].op # "none", UNCHANGED workers, NEW j \in Jobs, j.op # "none",
             job' = [job EXCEPT ![p] = j]
      PROVE  FlowInv'
  BY <1>1, <1>3
<1>4. ASSUME job[p].op # "none", End(p)
      PROVE  FlowInv'
  <2>1. NoJob \in Jobs /\ NoJob.op = "none"
    BY DEF Jobs, NoJob
  <2>2. QED
    BY <1>1, <1>4, <2>1 DEF End, Release
<1>5. ASSUME Serve(p), UNCHANGED job
      PROVE  FlowInv'
  BY <1>1, <1>5 DEF Serve, Free
<1>6. ASSUME UNCHANGED <<workers, job>>
      PROVE  FlowInv'
  BY <1>1, <1>6
<1>7. QED
  BY <1>2, <1>3, <1>4, <1>5, <1>6 DEF Goes

\* A step of an account handler keeps the invariants of both parts.
LEMMA AccountsStepKeeps ==
    ASSUME FlowInv, AccountsInv, NEW p \in Process, AccountsStep(p)
    PROVE  AccountsInv' /\ Goes(p)
<1>1. CASE \E u \in User : \/ LoadForFlag(p, u) \/ LoadForPatch(p, u) \/ LoadForProfile(p, u)
                           \/ StartSetRoles(p, u)
  BY <1>1, LoadsGo, LoadsKeepAccountsInv
<1>2. CASE SaveFlag(p) \/ SavePatch(p) \/ SaveRename(p)
  BY <1>2, SavesKeepAccountsInv
<1>3. CASE (\E U \in SUBSET User \ {{}} : bulk_actions(p, U)) \/ RemoveRoles(p) \/ AddRoles(p)
  BY <1>3, RolesKeepAccountsInv
<1>4. CASE OpenWindow(p) \/ Throttle(p) \/ Look(p) \/ Count(p) \/ ExpireHits(p)
  BY <1>4, RateKeepsAccountsInv DEF FlowInv, Own
<1>5. CASE \E l \in Login : \/ GoogleAuthStart(p, l) \/ GoogleDeclined(p, l) \/ ExpireState(p, l)
                            \/ \E cookie \in BOOLEAN : GoogleAuthCallback(p, l, cookie)
  BY <1>5, CallbackKeepsAccountsInv
<1>6. CASE GoogleFails(p) \/ GetOrCreate(p) \/ LogIn(p)
  BY <1>6, LoginKeepsAccountsInv
<1>7. QED
  BY <1>1, <1>2, <1>3, <1>4, <1>5, <1>6, Zenon DEF AccountsStep

\* A kill leaves the accounts as they are.
LEMMA KillKeepsAccountsInv ==
    ASSUME AccountsInv, NEW p \in Process, KillWorker(p)
    PROVE  AccountsInv'
<1> USE DEF AccountsInv, KillWorker, AccountsWiped, userVars
<1>1. NoJob \in Jobs /\ NoJob.op = "none"
  BY DEF Jobs, NoJob
<1>2. AccountsTypeOK'
  BY <1>1, AmountAssumption DEF AccountsTypeOK
<1>3. Founded' /\ SameRows'
  BY <1>1, AmountAssumption DEF Founded, SameRows, Exists, AccountsTypeOK
<1>4. QED
  BY <1>2, <1>3

WebInv == FlowInv /\ AccountsInv

\* A step of the flow keeps its invariant.
LEMMA OAuthStepKeeps ==
    ASSUME FlowInv, OAuthNext, UNCHANGED accountVars
    PROVE  FlowInv'
<1>1. ASSUME NEW p \in Process, OAuthStep(p)
      PROVE  FlowInv'
  <2>1. CASE \/ \E f \in Flow, v \in Provider : Initiate(p, f, v)
             \/ \E f \in Flow : Declined(p, f)
             \/ \E v \in Provider : ToggleProvider(p, v)
    BY <2>1, StartKeepsFlowInv
  <2>2. ASSUME NEW v, Callback(p, v)
        PROVE  FlowInv'
    <3>1. ASSUME NEW f \in Flow, NEW c \in 1 .. MaxCodes, Receive(p, f, c)
          PROVE  FlowInv'
      BY <3>1, ReceiveKeepsFlowInv
    <3>2. CASE Step(p, v)
      <4>1. callback[p].pc # "none"
        BY <3>2 DEF Step, Exchange, ExchangeFails, UpdateOrCreate, Promote, PromoteRefused, Finish, FinishFails
      <4>2. v \in Provider
        BY <3>2, <4>1, CallbackTyped, ProviderAssumption DEF Step, FlowInv, CallbackRec
      <4>3. QED
        BY <3>2, <4>2, CallbackKeepsFlowInv
    <3>3. QED
      BY <2>2, <3>1, <3>2 DEF Callback
  <2>3. CASE oauth_callback_google(p) \/ oauth_callback_onedrive(p) \/ oauth_callback_dropbox(p)
    BY <2>2, <2>3 DEF oauth_callback_google, oauth_callback_onedrive, oauth_callback_dropbox
  <2>4. CASE \E v \in Provider : DeleteRow(p, v)
    BY <2>4, DeleteKeepsFlowInv
  <2>5. QED
    BY <1>1, <2>1, <2>3, <2>4 DEF OAuthStep
<1>2. QED
  BY <1>1, StartKeepsFlowInv DEF OAuthNext

\* Every step keeps the invariants.
LEMMA WebInvKept == WebInv /\ [WebNext]_webVars => WebInv'
<1> SUFFICES ASSUME WebInv, [WebNext]_webVars PROVE WebInv'
  OBVIOUS
<1> USE DEF WebInv
<1>1. CASE OAuthNext /\ UNCHANGED accountVars
  <2>1. AccountsInv'
    BY <1>1 DEF accountVars, AccountsInv, AccountsTypeOK, Founded, SameRows, Exists
  <2>2. QED
    BY <1>1, <2>1, OAuthStepKeeps
<1>2. CASE AccountsNext /\ UNCHANGED oauthVars
  BY <1>2, AccountsStepKeeps, GoesKeepsFlowInv DEF AccountsNext
<1>3. CASE \E p \in Process : KillWorker(p)
  BY <1>3, KillKeepsFlowInv, KillKeepsAccountsInv
<1>4. CASE UNCHANGED webVars
  <2>1. AccountsInv'
    BY <1>4 DEF webVars, accountVars, AccountsInv, AccountsTypeOK, Founded, SameRows, Exists
  <2>2. FlowInv'
    BY <1>4 DEF webVars, accountVars, oauthVars, workers, FlowInv, OAuthTypeOK, WorkersTypeOK, Own, AtHome,
                Unused, Begun, FlowUsedOnce, Initiated
  <2>3. QED
    BY <2>1, <2>2
<1>5. QED
  BY <1>1, <1>2, <1>3, <1>4 DEF WebNext

\* Every behaviour keeps the invariants.
LEMMA WebInvHolds == WebSpec => []WebInv
<1>1. WebInit => WebInv
  BY FlowInvInit, AccountsInvInit DEF WebInv
<1>2. QED
  BY <1>1, WebInvKept, PTL DEF WebSpec

\* Every variable of the processes, of the OAuth flow and of the account handlers has its type.
THEOREM WebTypesOK == WebSpec => []WebTypeOK
<1>1. WebInv => WebTypeOK
  BY DEF WebInv, FlowInv, AccountsInv, WebTypeOK
<1>2. QED
  BY <1>1, WebInvHolds, PTL

\* However many processes serve however many repeated callbacks, one state connects a
\* drive at most once.
THEOREM FlowIsUsedOnce == WebSpec => []FlowUsedOnce
<1>1. WebInv => FlowUsedOnce
  BY DEF WebInv, FlowInv
<1>2. QED
  BY <1>1, WebInvHolds, PTL

--------------------------------------------------------------------------
(* Why a flow was refused, and what a failed one leaves.                   *)

LEMMA TaleInvHolds == WebSpec => []TaleInv
<1>1. WebInit => TaleInv
  BY TaleInvInit
<1>2. WebInv /\ TaleInv /\ [WebNext]_webVars => TaleInv'
  <2> SUFFICES ASSUME WebInv, TaleInv, [WebNext]_webVars PROVE TaleInv'
    OBVIOUS
  <2>1. CASE OAuthNext /\ UNCHANGED accountVars
    BY <2>1, OAuthStepKeepsTale DEF WebInv
  <2>2. CASE \E p \in Process : KillWorker(p)
    BY <2>2, KillKeepsTale DEF WebInv
  <2>3. CASE UNCHANGED oauthVars
    BY <2>3, TaleFramed DEF oauthVars
  <2>4. QED
    BY <2>1, <2>2, <2>3 DEF WebNext, webVars
<1>3. QED
  BY <1>1, <1>2, WebInvHolds, PTL DEF WebSpec

\* A callback that answers 500 after it has written the connection does so only
\* because the connection was deleted under it.
THEOREM FailuresLeaveNothing == WebSpec => []FailureLeavesNothing
<1>1. TaleInv => FailureLeavesNothing
  BY DEF TaleInv
<1>2. QED
  BY <1>1, TaleInvHolds, PTL

\* Only a callback that does not find its state is refused.
LEMMA RefusedByReceive ==
    ASSUME [WebNext]_webVars, NEW f \in Flow, NEW p \in Process, <<f, p>> \in refused' \ refused
    PROVE  Initiated(f) /\ f \notin Cleaned(p)
<1>1. refused' # refused
  OBVIOUS
<1>2. PICK q, v : q \in Process /\ Callback(q, v)
  <2>1. ~UNCHANGED oauthVars
    BY <1>1 DEF oauthVars
  <2>2. ~\E q \in Process : KillWorker(q)
    BY <1>1 DEF KillWorker, OAuthWiped
  <2>3. OAuthNext
    BY <2>1, <2>2 DEF WebNext, webVars
  <2>4. PICK q \in Process : OAuthStep(q)
    BY <1>1, <2>3 DEF OAuthNext, Consent, Tick, oauthHistory
  <2>5. oauth_callback_google(q) \/ oauth_callback_onedrive(q) \/ oauth_callback_dropbox(q)
    BY <1>1, <2>4 DEF OAuthStep, Initiate, Declined, DeleteRow, ToggleProvider, oauthHistory, oauthVars
  <2>6. QED
    BY <2>5 DEF oauth_callback_google, oauth_callback_onedrive, oauth_callback_dropbox
<1>3. ~Step(q, v)
  BY <1>1 DEF Step, Exchange, ExchangeFails, UpdateOrCreate, Promote, PromoteRefused, Finish, FinishFails,
              Fail, oauthHistory
<1>4. PICK g \in Flow, c \in 1 .. MaxCodes : Receive(q, g, c)
  BY <1>2, <1>3 DEF Callback
<1>5. Initiated(g) /\ g \notin Cleaned(q) /\ refused' = refused \cup {<<g, q>>}
  BY <1>1, <1>4 DEF Receive, Admit, Refuse, oauthHistory
<1>6. g = f /\ q = p
  BY <1>5
<1>7. QED
  BY <1>5, <1>6

\* "Invalid or expired state" is said only of a flow that is older than the limit,
\* that ended, that another process started, or whose process was killed.
THEOREM RefusalsAreExplained == WebSpec => RefusalExplained
<1>1. TaleInv /\ [WebNext]_webVars =>
        [\A f \in Flow, p \in Process : <<f, p>> \in refused' \ refused =>
            Late(f) \/ f \in ended \/ started[f].home # p \/ f \in lost]_oauthVars
  <2> SUFFICES ASSUME TaleInv, [WebNext]_webVars, NEW f \in Flow, NEW p \in Process,
                      <<f, p>> \in refused' \ refused, started[f].home = p
               PROVE  Late(f) \/ f \in ended \/ f \in lost
    OBVIOUS
  <2>1. Initiated(f) /\ f \notin Cleaned(p)
    BY RefusedByReceive
  <2>2. f \in memory[p] => Late(f)
    BY <2>1 DEF Cleaned
  <2>3. QED
    BY <2>1, <2>2 DEF TaleInv, Kept
<1>2. QED
  BY <1>1, TaleInvHolds, PTL DEF WebSpec, RefusalExplained
=============================================================================
