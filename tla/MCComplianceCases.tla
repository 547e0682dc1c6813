-------------------------- MODULE MCComplianceCases --------------------------
(* Three instances of ComplianceService for TLC, one at a time:              *)
(*  - replies: two cases in one chat, and an activity that arrives twice,    *)
(*    naming either, its text shortened; the second email comes when the     *)
(*    first case has its chat;                                               *)
(*  - emails: an email delivered twice, another email, and an index that has *)
(*    room for one case;                                                     *)
(*  - rounds: a case with two replies that runs under fairness.              *)
(* Symmetry permutes only names that do not occur in the states of rounds,   *)
(* the one instance that the liveness property and the fairness speak of.    *)
EXTENDS TLC

CONSTANTS e1, e2, r1, r2, n1, n2, a1, f1, f2, f3, m1, g1, t1, t2, i1, None

VARIABLES instance, cases, writes, clock, call, effects, heard, answered

\* Each email is a case of its own; the replies are one activity.
OwnKeys == {e1, e2}
OwnReplies == {r1, r2}
OwnCase == [e \in OwnKeys |-> e]
OneActivity == [r \in OwnReplies |-> a1]
TwoNumbers == {n1, n2}
NoCalls == {}
Failed == {"failed"}
Questions == {"questions"}
Information == {"information"}
Marker == {"marker"}
Replies == INSTANCE ComplianceService WITH
    Keys <- OwnKeys, EmailCalls <- OwnKeys, ReplyCalls <- OwnReplies,
    EmailKey <- OwnCase, Activity <- OneActivity,
    Truncated <- OwnReplies, Interruptible <- NoCalls, Numbers <- TwoNumbers,
    Verdicts <- Questions, Intents <- Information, Forms <- Marker,
    MaxCases <- 2, MaxTurns <- 1, MaxPending <- 1, MaxReceipts <- 2

\* Email f3 is a redelivery of f1.
FullKeys == {f1, f2}
FullCalls == {f1, f2, f3}
Redelivered == [e \in FullCalls |-> IF e = f3 THEN f1 ELSE e]
NoActivity == [r \in NoCalls |-> r]
Failing == {f1, f3}
OneNumber == {m1}
Emails == INSTANCE ComplianceService WITH
    Keys <- FullKeys, EmailCalls <- FullCalls, ReplyCalls <- NoCalls,
    EmailKey <- Redelivered, Activity <- NoActivity,
    Truncated <- NoCalls, Interruptible <- Failing, Numbers <- OneNumber,
    Verdicts <- Failed, Intents <- Information, Forms <- Marker,
    MaxCases <- 1, MaxTurns <- 2, MaxPending <- 1, MaxReceipts <- 1

\* Every verdict and intent, and calls that fail.
ItsKey == {g1}
ItsReplies == {t1, t2}
ItsCase == [e \in ItsKey |-> e]
TwoActivities == [r \in ItsReplies |-> r]
Anyone == {g1, t1, t2}
ItsNumber == {i1}
Every == {"ready", "questions", "blockers", "failed"}
Intended == {"information", "confirm", "chat"}
Odd == {"malformed", "resolve"}
Rounds == INSTANCE ComplianceService WITH
    Keys <- ItsKey, EmailCalls <- ItsKey, ReplyCalls <- ItsReplies,
    EmailKey <- ItsCase, Activity <- TwoActivities,
    Truncated <- NoCalls, Interruptible <- Anyone, Numbers <- ItsNumber,
    Verdicts <- Every, Intents <- Intended, Forms <- Odd,
    MaxCases <- 1, MaxTurns <- 3, MaxPending <- 2, MaxReceipts <- 2

Symmetry == Permutations(OwnReplies) \cup Permutations(TwoNumbers)

Init == \/ instance = "replies" /\ Replies!Init
        \/ instance = "emails" /\ Emails!Init
        \/ instance = "rounds" /\ Rounds!Init
Next == /\ UNCHANGED instance
        /\ \/ instance = "replies" /\ Replies!Next /\ (cases[e1].chat \/ call'[e2] = call[e2])
           \/ instance = "emails" /\ Emails!Next
           \/ instance = "rounds" /\ Rounds!Next
vars == <<instance, cases, writes, clock, call, effects, heard, answered>>

\* A call that was accepted runs on; nothing obliges mail or replies to arrive,
\* nor calls to fail.
Fairness == \A c \in Anyone : WF_vars(instance = "rounds" /\ Rounds!Drive(c) /\ UNCHANGED instance)
Spec == Init /\ [][Next]_vars /\ Fairness

\* An activity that arrives again with another case's marker is not taken twice.
ActivityOnce == instance = "replies" => Replies!ActivityOnce
\* A redelivered email does not take its case over from the call that drives it.
OwnersDrive == instance = "emails" => Emails!OwnersDrive
\* Queued material is taken up, or the case goes to a specialist.
QueueServed == \A k \in ItsKey :
    (instance = "rounds" /\ Rounds!Waits(k)) ~> (instance = "rounds" /\ Rounds!Served(k))
=============================================================================
