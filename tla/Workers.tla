------------------------------ MODULE Workers ------------------------------
(***************************************************************************)
(* The gunicorn sync workers of the deployment (README.md, "gunicorn ...   *)
(* --workers 3 --timeout 120"): each process serves one request at a time  *)
(* and keeps memory of its own; a process killed in the middle of a        *)
(* request is replaced by one with an empty memory. The components that    *)
(* extend this module share its processes and its bound on requests.       *)
(***************************************************************************)
EXTENDS Naturals, FiniteSets

CONSTANTS
    Process,     \* worker processes
    MaxServed,   \* bound: requests in a behaviour
    MaxKills     \* bound: processes killed in a behaviour

ASSUME ProcessesFinite   == IsFiniteSet(Process)
ASSUME WorkersAssumption == MaxServed \in Nat /\ MaxKills \in Nat /\ "none" \notin Process

VARIABLES
    busy,     \* processes in the middle of a request
    served,   \* requests accepted so far
    kills     \* processes killed so far

workers == <<busy, served, kills>>

WorkersTypeOK == busy \subseteq Process /\ served \in 0 .. MaxServed /\ kills \in 0 .. MaxKills

WorkersInit == busy = {} /\ served = 0 /\ kills = 0

Free(p) == p \notin busy /\ served < MaxServed

\* A request that takes several steps starts, goes on and ends.
Accept(p)   == Free(p) /\ busy' = busy \cup {p} /\ served' = served + 1 /\ UNCHANGED kills
Continue(p) == p \in busy /\ UNCHANGED workers
Release(p)  == p \in busy /\ busy' = busy \ {p} /\ UNCHANGED <<served, kills>>

\* A request whose effect is one step.
Serve(p) == Free(p) /\ served' = served + 1 /\ UNCHANGED <<busy, kills>>

Kill(p) == kills < MaxKills /\ busy' = busy \ {p} /\ kills' = kills + 1 /\ UNCHANGED served
=============================================================================
