------------------------- MODULE MCCloudConnection -------------------------
(* Small instances of CloudConnection for TLC.                             *)
EXTENDS CloudConnection, TLC

\* The requests run the same code, so they are interchangeable.
Symmetric == Permutations(Request)
=============================================================================
