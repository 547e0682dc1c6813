------------------------ MODULE MCComplianceService ------------------------
(***************************************************************************)
(* Instances of ComplianceService for TLC.                                 *)
(***************************************************************************)
EXTENDS ComplianceService, TLC

CONSTANTS e1, e2, e3, r1, r2, r3, k1, n1, n2, a1

\* Every email is about case k1.
OneCase == [e \in EmailCalls |-> k1]

\* Every reply is an activity of its own.
Distinct == [r \in ReplyCalls |-> r]

Symmetry == Permutations(ReplyCalls)
=============================================================================
