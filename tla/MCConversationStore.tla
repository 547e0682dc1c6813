------------------------ MODULE MCConversationStore ------------------------
(***************************************************************************)
(* Instances of ConversationStore for TLC.                                 *)
(***************************************************************************)
EXTENDS ConversationStore

CONSTANTS c1, c2, a1, a2

\* Three calls, two of them by one caller.
ThreeCalls == [c \in Callers |-> IF c = c1 THEN 2 ELSE 1]
=============================================================================
