------------------------ MODULE DownloadQuotaProofs ------------------------
(* What follows from the quota alone.                                      *)
EXTENDS DownloadQuota, TLAPS

TypeOK == /\ phase \in {"new", "open", "over"}
          /\ quota \in Nat /\ tickets \in Nat /\ counted \in Nat

\* Downloads and tickets together pass the quota by Slack - 1 at most.
Overrun == phase = "open" => counted + tickets <= quota + Slack - 1

\* The tickets out at once, not the number of visitors, bound how far the quota is
\* passed.
THEOREM OverrunBounded ==
    ASSUME Slack \in Nat \ {0}
    PROVE  Spec => [](TypeOK /\ Overrun)
<1>1. Init => TypeOK /\ Overrun
  BY DEF Init, TypeOK, Overrun
<1>2. TypeOK /\ Overrun /\ [Next]_vars => (TypeOK /\ Overrun)'
  BY DEF TypeOK, Overrun, Next, Open, Issue, Redeem, Return, End, vars
<1>3. QED
  BY <1>1, <1>2, PTL DEF Spec
=============================================================================
