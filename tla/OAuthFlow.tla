----------------------------- MODULE OAuthFlow -----------------------------
(***************************************************************************)
(* The OAuth flow that connects a cloud drive                              *)
(* (cors/pages/cloud_storage/oauth_views.py): initiate_oauth stores a      *)
(* random state in a dictionary of its own process, the browser takes it   *)
(* to the provider and back, and the provider's callback looks it up in    *)
(* the dictionary of whichever process serves it.                          *)
(*                                                                         *)
(* A flow stands for its state token. One user connects one account of     *)
(* each provider, so a connection row is named by its provider; the tokens *)
(* it holds and the races between promotions to default are the subject of *)
(* CloudConnection. The clock counts units of which Lifetime are the 900   *)
(* seconds of _cleanup_old_states.                                         *)
(***************************************************************************)
EXTENDS Workers

CONSTANTS
    Flow,        \* state tokens
    Provider,    \* codes of cloud storage providers
    Supported,   \* those that initiate_oauth knows an authorization URL for
    Lifetime,    \* age above which a state is removed
    MaxClock,    \* bound: the clock
    MaxCodes     \* bound: consents that the user gives in one flow

ASSUME ProviderAssumption == Supported \subseteq Provider
ASSUME TimeAssumption     == Lifetime \in Nat /\ MaxClock \in Nat /\ MaxCodes \in Nat

VARIABLES
    clock,      \* the time
    memory,     \* memory[p]: _oauth_states of process p
    started,    \* started[f]: provider, process and time of the flow, once initiated
    enabled,    \* providers with is_active
    codes,      \* codes[f]: authorization codes that the provider issued
    spent,      \* those exchanged for tokens
    callback,   \* callback[p]: the callback that p serves
    table,      \* table[v]: the user's connection row at provider v
    made,       \* history: made[f], rows written by callbacks of the flow
    ended,      \* history: flows that a callback ended with 200 or with 500
    failed,     \* history: flows that a callback ended with 500
    refused,    \* history: callbacks refused for their state
    lost,       \* history: flows whose state a kill wiped
    removed     \* history: flows whose row was deleted before their callback ended

oauthHistory == <<made, ended, failed, refused, lost, removed>>
oauthVars == <<clock, memory, started, enabled, codes, spent, callback, table,
               made, ended, failed, refused, lost, removed>>

NotStarted == [provider |-> "none", home |-> "none", at |-> 0]
NoCallback == [flow |-> "none", provider |-> "none", code |-> 0, pc |-> "none", gone |-> FALSE]

Initiated(f) == started[f] # NotStarted
Late(f)      == clock - started[f].at > Lifetime

OAuthTypeOK ==
    /\ clock \in 0 .. MaxClock
    /\ memory \in [Process -> SUBSET Flow]
    /\ started \in [Flow -> {NotStarted}
                            \cup [provider : Provider, home : Process, at : 0 .. MaxClock]]
    /\ enabled \subseteq Provider
    /\ codes \in [Flow -> 0 .. MaxCodes]
    /\ spent \subseteq Flow \X (1 .. MaxCodes)
    /\ callback \in [Process -> {NoCallback} \cup
                      [flow : Flow, provider : Supported, code : 1 .. MaxCodes,
                       pc : {"accepted", "granted", "connected", "promoted"}, gone : BOOLEAN]]
    /\ table \in [Provider -> {"absent", "plain", "default"}]
    /\ made \in [Flow -> 0 .. MaxServed]
    /\ ended \subseteq Flow /\ failed \subseteq ended
    /\ refused \subseteq Flow \X Process
    /\ lost \subseteq Flow /\ removed \subseteq Flow

OAuthInit ==
    /\ clock = 0
    /\ memory = [p \in Process |-> {}]
    /\ started = [f \in Flow |-> NotStarted]
    /\ enabled = Provider
    /\ codes = [f \in Flow |-> 0] /\ spent = {}
    /\ callback = [p \in Process |-> NoCallback]
    /\ table = [v \in Provider |-> "absent"]
    /\ made = [f \in Flow |-> 0]
    /\ ended = {} /\ failed = {} /\ refused = {} /\ lost = {} /\ removed = {}

--------------------------------------------------------------------------
(* The flow is started.                                                    *)

\* Mutant: a state that is exactly at the limit is removed.
CleanedEarly(p) == {f \in memory[p] : clock - started[f].at < Lifetime}

\* _cleanup_old_states: what is left of a process's dictionary.
Cleaned(p) == {f \in memory[p] : ~Late(f)}

\* The state is stored before the provider's URL is looked for: a provider that
\* has none is answered 400 and leaves its state behind.
Initiate(p, f, v) ==
    /\ Serve(p)
    /\ ~Initiated(f) /\ v \in enabled
    /\ memory' = [memory EXCEPT ![p] = Cleaned(p) \cup {f}]
    /\ started' = [started EXCEPT ![f] = [provider |-> v, home |-> p, at |-> clock]]
    /\ UNCHANGED <<clock, enabled, codes, spent, callback, table, oauthHistory>>

\* At the provider the user consents; going back in the browser, once more.
Consent(f) ==
    /\ Initiated(f) /\ started[f].provider \in Supported
    /\ codes[f] < MaxCodes
    /\ codes' = [codes EXCEPT ![f] = @ + 1]
    /\ UNCHANGED <<workers, clock, memory, started, enabled, spent, callback, table, oauthHistory>>

--------------------------------------------------------------------------
(* The browser comes back with a code; a repeated request brings the same. *)

Refuse(p, f) ==
    /\ Serve(p)
    /\ memory' = [memory EXCEPT ![p] = Cleaned(p)]
    /\ refused' = refused \cup {<<f, p>>}
    /\ UNCHANGED <<clock, started, enabled, codes, spent, callback, table,
                   made, ended, failed, lost, removed>>

\* Mutant: the state is removed as soon as it is found.
AdmitPopping(p, f, c) ==
    /\ Accept(p)
    /\ memory' = [memory EXCEPT ![p] = Cleaned(p) \ {f}]
    /\ callback' = [callback EXCEPT ![p] =
           [flow |-> f, provider |-> started[f].provider, code |-> c,
            pc |-> "accepted", gone |-> FALSE]]
    /\ UNCHANGED <<clock, started, enabled, codes, spent, table, oauthHistory>>

Admit(p, f, c) ==
    /\ Accept(p)
    /\ memory' = [memory EXCEPT ![p] = Cleaned(p)]
    /\ callback' = [callback EXCEPT ![p] =
           [flow |-> f, provider |-> started[f].provider, code |-> c,
            pc |-> "accepted", gone |-> FALSE]]
    /\ UNCHANGED <<clock, started, enabled, codes, spent, table, oauthHistory>>

Receive(p, f, c) ==
    /\ Initiated(f) /\ c \in 1 .. codes[f]
    /\ IF f \in Cleaned(p) THEN Admit(p, f, c) ELSE Refuse(p, f)

\* The user declines: the callback answers 400 before it looks at the state.
Declined(p, f) ==
    /\ Initiated(f) /\ started[f].provider \in Supported
    /\ Serve(p)
    /\ UNCHANGED oauthVars

Advance(p, pc) == callback' = [callback EXCEPT ![p].pc = pc]

\* Mutant: the state is left to the cleanup.
ForgetLater(p) == memory

\* The answer: 200 deletes the state, 500 deletes it if it is (still) there.
Forget(p)   == [memory EXCEPT ![p] = @ \ {callback[p].flow}]
Answered(p) == /\ Release(p)
               /\ memory' = Forget(p)
               /\ callback' = [callback EXCEPT ![p] = NoCallback]
               /\ ended' = ended \cup {callback[p].flow}

\* Any exception after the state was accepted.
Fail(p) ==
    /\ Answered(p)
    /\ failed' = failed \cup {callback[p].flow}
    /\ UNCHANGED <<clock, started, enabled, codes, spent, table, made, refused, lost, removed>>

\* backend.authenticate: the provider gives tokens for a code once. A timeout, a
\* refusal or an inactive provider raises, with the code spent or not.
Exchange(p) ==
    /\ callback[p].pc = "accepted"
    /\ Continue(p)
    /\ callback[p].provider \in enabled
    /\ <<callback[p].flow, callback[p].code>> \notin spent
    /\ spent' = spent \cup {<<callback[p].flow, callback[p].code>>}
    /\ Advance(p, "granted")
    /\ UNCHANGED <<clock, memory, started, enabled, codes, table, oauthHistory>>

ExchangeFails(p) ==
    /\ callback[p].pc \in {"accepted", "granted"}
    /\ Fail(p)

\* update_or_create of the row of (user, provider, account).
UpdateOrCreate(p) ==
    /\ callback[p].pc = "granted"
    /\ Continue(p)
    /\ table' = [table EXCEPT ![callback[p].provider] = IF @ = "absent" THEN "plain" ELSE @]
    /\ made' = [made EXCEPT ![callback[p].flow] = @ + 1]
    /\ Advance(p, "connected")
    /\ UNCHANGED <<clock, memory, started, enabled, codes, spent,
                   ended, failed, refused, lost, removed>>

HasDefaultRow == \E v \in Provider : table[v] = "default"

\* The first connection becomes the default: save() writes the row again, which
\* inserts it when it has been deleted since (see the next action).
Promote(p) ==
    LET v == callback[p].provider
    IN /\ callback[p].pc = "connected"
       /\ Continue(p)
       /\ IF HasDefaultRow
          THEN Advance(p, "promoted") /\ UNCHANGED table
          ELSE /\ callback[p].gone => table[v] = "absent"
               /\ table' = [table EXCEPT ![v] = "default"]
               /\ callback' = [callback EXCEPT ![p].pc = "promoted", ![p].gone = FALSE]
       /\ UNCHANGED <<clock, memory, started, enabled, codes, spent, oauthHistory>>

\* ... unless the account was connected again meanwhile: the insert is refused.
PromoteRefused(p) ==
    /\ callback[p].pc = "connected"
    /\ ~HasDefaultRow
    /\ callback[p].gone /\ table[callback[p].provider] # "absent"
    /\ Fail(p)

\* The activity row refers to the connection row, which has to be there. Then
\* `del _oauth_states[state]` raises a KeyError when the state is not.
LogFails(p) ==
    \/ callback[p].gone
    \/ callback[p].flow \notin memory[p]

Finish(p) ==
    /\ callback[p].pc = "promoted"
    /\ ~LogFails(p)
    /\ Answered(p)
    /\ UNCHANGED <<clock, started, enabled, codes, spent, table,
                   made, failed, refused, lost, removed>>

FinishFails(p) ==
    /\ callback[p].pc = "promoted"
    /\ LogFails(p)
    /\ Fail(p)

--------------------------------------------------------------------------
(* The three callbacks: one text, with the provider each is written for.   *)

Step(p, v) ==
    /\ callback[p].provider = v
    /\ \/ Exchange(p) \/ ExchangeFails(p) \/ UpdateOrCreate(p)
       \/ Promote(p) \/ PromoteRefused(p) \/ Finish(p) \/ FinishFails(p)

Callback(p, v) ==
    \/ \E f \in Flow : started[f].provider = v /\ \E c \in 1 .. MaxCodes : Receive(p, f, c)
    \/ Step(p, v)

oauth_callback_google(p)   == Callback(p, "google_drive")
oauth_callback_onedrive(p) == Callback(p, "onedrive")
oauth_callback_dropbox(p)  == Callback(p, "dropbox")

--------------------------------------------------------------------------
(* What happens around the flow.                                           *)

\* The user deletes a connection, from another tab, say.
DeleteRow(p, v) ==
    /\ table[v] # "absent"
    /\ Serve(p)
    /\ table' = [table EXCEPT ![v] = "absent"]
    /\ LET hit == {q \in Process : callback[q].provider = v
                                   /\ callback[q].pc \in {"connected", "promoted"}}
       IN /\ callback' = [q \in Process |->
                IF q \in hit THEN [callback[q] EXCEPT !.gone = TRUE] ELSE callback[q]]
          /\ removed' = removed \cup {callback[q].flow : q \in hit}
    /\ UNCHANGED <<clock, memory, started, enabled, codes, spent,
                   made, ended, failed, refused, lost>>

\* An administrator switches a provider on or off.
ToggleProvider(p, v) ==
    /\ Serve(p)
    /\ enabled' = IF v \in enabled THEN enabled \ {v} ELSE enabled \cup {v}
    /\ UNCHANGED <<clock, memory, started, codes, spent, callback, table, oauthHistory>>

\* A killed process loses its dictionary with the request it was serving.
OAuthWiped(p) ==
    /\ memory' = [memory EXCEPT ![p] = {}]
    /\ lost' = lost \cup memory[p]
    /\ callback' = [callback EXCEPT ![p] = NoCallback]
    /\ UNCHANGED <<clock, started, enabled, codes, spent, table,
                   made, ended, failed, refused, removed>>

Tick ==
    /\ clock < MaxClock
    /\ clock' = clock + 1
    /\ UNCHANGED <<workers, memory, started, enabled, codes, spent, callback, table, oauthHistory>>

OAuthStep(p) ==
    \/ \E f \in Flow, v \in Provider : Initiate(p, f, v)
    \/ \E f \in Flow : Declined(p, f)
    \/ oauth_callback_google(p) \/ oauth_callback_onedrive(p) \/ oauth_callback_dropbox(p)
    \/ \E v \in Provider : DeleteRow(p, v) \/ ToggleProvider(p, v)

OAuthNext ==
    \/ \E p \in Process : OAuthStep(p)
    \/ \E f \in Flow : Consent(f)
    \/ Tick

OAuthSpec == /\ WorkersInit /\ OAuthInit
             /\ [][OAuthNext \/ \E p \in Process : Kill(p) /\ OAuthWiped(p)]_<<workers, oauthVars>>

--------------------------------------------------------------------------
(* Properties.                                                             *)

\* However often the browser repeats the callback and whichever process serves
\* it, with new codes too, one state connects a drive at most once.
FlowUsedOnce == \A f \in Flow : made[f] <= 1

\* "Invalid or expired state" is said only of a flow that is older than the limit,
\* that an earlier callback ended, that another process started, or whose process
\* was killed since.
RefusalExplained ==
    [][\A f \in Flow, p \in Process : <<f, p>> \in refused' \ refused =>
           Late(f) \/ f \in ended \/ started[f].home # p \/ f \in lost]_oauthVars

\* A callback that answers 500 after it has written the connection does so only
\* because the connection was deleted under it.
FailureLeavesNothing == \A f \in failed : made[f] > 0 => f \in removed
=============================================================================
