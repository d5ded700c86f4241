-------------------------------- MODULE MCGates --------------------------------
(* Gates with interchangeable clients.                                          *)
EXTENDS Gates, TLC
CONSTANTS c1, c2

Symmetry == Permutations(Clients)

\* Bound: while a request is past the limiter no other has its bucket in hand, and
\* the sweeper rests.  None of them reads what another of them writes.
Apart ==
    (\E r \in Requests : pc[r] \in {"authorize", "handle"} \union Leaving)
    => sweep.at = "idle" /\ \A r \in Requests : ~Holds(r)
================================================================================
