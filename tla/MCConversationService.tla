------------------------ MODULE MCConversationService ------------------------
(* Instances of ConversationService for TLC: the first chat has an activity  *)
(* more than the others.                                                     *)
EXTENDS ConversationService, TLC

CONSTANTS c1, c2, a1, a2, h1, h2, h3, x1

OneChat == [a \in Activities |-> c1]
TwoChats == [a \in Activities |-> IF a = a2 THEN c2 ELSE c1]
Symmetry == Permutations(Handlers)
=============================================================================
