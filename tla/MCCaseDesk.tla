----------------------------- MODULE MCCaseDesk -----------------------------
(***************************************************************************)
(* Instances of CaseDesk for TLC.                                          *)
(***************************************************************************)
EXTENDS CaseDesk

CONSTANTS k1, k2, a, b, c, s1, s2, s3

\* Events a and b are about case k1, c about k2.
TwoCases == [e \in Events |-> IF e = c THEN k2 ELSE k1]

\* Each delivery carries an event of its own.
Carried == [s \in Submits |-> CASE s = s1 -> a [] s = s2 -> b [] s = s3 -> c]

\* The second delivery is a redelivery of the first.
CarriedAgain == [s \in Submits |-> IF s = s3 THEN c ELSE a]
=============================================================================
