---------------------------- MODULE MCSharedLink ----------------------------
(* Small instances of SharedLink for TLC.                                  *)
EXTENDS SharedLink, TLC

\* A protected link with a limit and an expiry, an open one without limits.
MCPosts ==
    LET Post(m, t, p) == [is_active |-> TRUE, max_downloads |-> m, expires_at |-> t,
                          password |-> p, download_count |-> 0]
    IN {Post(m, t, p) : m \in Limit, t \in Instant, p \in Password}
       \cup {Post(Unlimited, Never, NoPassword)}

\* The PATCH bodies: deactivate, activate, move the limit, set or clear the
\* password, rename nothing at all (the full-row save happens all the same).
MCPatches ==
    {NoPatch} \cup
    {[NoPatch EXCEPT !.is_active = a] : a \in BOOLEAN} \cup
    {[NoPatch EXCEPT !.max_downloads = m] : m \in Limit} \cup
    {[NoPatch EXCEPT !.password = p] : p \in Password \cup {NoPassword}}

\* Workers run the same code, so they are interchangeable.
Symmetric == Permutations(Worker)
=============================================================================
