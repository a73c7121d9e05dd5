----------------------------- MODULE MCBilling -----------------------------
(* Small instances of Billing for TLC.                                     *)
EXTENDS Billing, TLC

\* Processes of a kind run the same code, so they are interchangeable.
Symmetric == Permutations(Checkout) \cup Permutations(Webhook)
=============================================================================
