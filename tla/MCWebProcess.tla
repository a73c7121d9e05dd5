---------------------------- MODULE MCWebProcess ---------------------------
(* A small instance of WebProcess for TLC.                                 *)
EXTENDS WebProcess, TLC

CONSTANTS p1, p2, f1, f2, l1, l2, admin, member

AskedRoles == {{}, {"support_admin"}}

\* The processes run the same code, and tokens are only compared with each other.
Symmetric == Permutations(Process) \cup Permutations(Flow) \cup Permutations(Login)
=============================================================================
