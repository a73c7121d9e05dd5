------------------------------ MODULE MCFiles ------------------------------
(* A small instance of Files for TLC.                                      *)
EXTENDS Files, TLC

CONSTANTS p1, p2, d1, d2

FolderPath == <<"AdminDoc", "Factures">>

\* The processes run the same code, and document ids are only compared.
Symmetric == Permutations(Process) \cup Permutations(Doc)
=============================================================================
