--------------------------- MODULE MCToolApprovals ---------------------------
(* Instances of ToolApprovals for TLC: each requester has an asker, and both *)
(* ask for the same call.                                                    *)
EXTENDS ToolApprovals, TLC

CONSTANTS r1, r2, u1, u2, c1, j1, j2, d1, d2, e1

Askers == [j \in Jobs |-> IF j = j1 THEN u1 ELSE u2]
Asked == [j \in Jobs |-> c1]

\* Exchanging the requesters together with their askers changes nothing.
Exchange == j1 :> j2 @@ j2 :> j1 @@ u1 :> u2 @@ u2 :> u1
Symmetry == Permutations(Requests) \cup Permutations(Decisions) \cup {Exchange}
=============================================================================
