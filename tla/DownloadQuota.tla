--------------------------- MODULE DownloadQuota ---------------------------
(***************************************************************************)
(* What a share link with a limit promises, without rows, requests or      *)
(* processes. Whoever wants to download first takes a ticket, which is     *)
(* issued only while the count is below the quota; it is redeemed for one  *)
(* download or handed back. Nobody looks at the quota again in between, so *)
(* up to Slack tickets may be out at once, and the count may pass the      *)
(* quota by Slack - 1.                                                     *)
(***************************************************************************)
EXTENDS Integers

CONSTANT Slack   \* tickets that may be out at once

VARIABLES
    phase,    \* "new", "open", or "over": the link is gone or was changed
    quota,    \* downloads promised
    tickets,  \* tickets that are out
    counted   \* downloads so far

vars == <<phase, quota, tickets, counted>>

Init == phase = "new" /\ quota = 0 /\ tickets = 0 /\ counted = 0

Open ==
    /\ phase = "new"
    /\ phase' = "open"
    /\ quota' \in Nat
    /\ tickets' = 0 /\ counted' = 0

Issue ==
    /\ phase = "open" /\ counted < quota /\ tickets < Slack
    /\ tickets' = tickets + 1
    /\ UNCHANGED <<phase, quota, counted>>

Redeem ==
    /\ phase = "open" /\ tickets > 0
    /\ tickets' = tickets - 1 /\ counted' = counted + 1
    /\ UNCHANGED <<phase, quota>>

Return ==
    /\ phase = "open" /\ tickets > 0
    /\ tickets' = tickets - 1
    /\ UNCHANGED <<phase, quota, counted>>

End ==
    /\ phase' = "over" /\ phase \in {"new", "open"}
    /\ quota' = 0 /\ tickets' = 0 /\ counted' = 0

Next == Open \/ Issue \/ Redeem \/ Return \/ End

Spec == Init /\ [][Next]_vars
=============================================================================
