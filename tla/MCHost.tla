------------------------------- MODULE MCHost -------------------------------
(* The smaller parts of the host for TLC. *)
EXTENDS Host, TLC

CONSTANTS v3, k1, k2, \* ControlRoom: an event, and the instances
          f3          \* AnalyticsLedger: a fact

\* Two events of one instance, one of another.
TheirInstance == [v \in Events |-> IF v = v3 THEN k2 ELSE k1]

\* Two facts of one day, one of the next.
TwoDays == {1, 2}
TheirDay == [f \in Facts |-> IF f = f3 THEN 2 ELSE 1]

\* The calls of the gateway and of the saver have the same names, for its sake.
Symmetry == Permutations(Calls)
=============================================================================
