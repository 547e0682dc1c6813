-------------------------------- MODULE Hitl --------------------------------
(***************************************************************************)
(* hitl.HitlCoordinator and its users in web: runs ask their manager and   *)
(* wait (_call_human_tool), and the manager answers in the chat or in the  *)
(* control plane, where the request is first matched and, after awaits,    *)
(* resolved (_resolve_sdk_hitl, handle_hitl_respond).  Answers race each   *)
(* other, the request's timeout and the end of its run.                    *)
(*                                                                         *)
(* The queue per manager and the requests by id have the same members, in  *)
(* all that web calls; both are "pending".                                 *)
(***************************************************************************)
EXTENDS Integers, FiniteSets

CONSTANTS Asks,    \* ask_manager calls
          Answers, \* a manager's answers
          None

VARIABLES ask,     \* ask[r]: where the call is
          future,  \* future[r]: what its future has
          pending, \* _by_id, and _pending of its manager
          answer   \* answer[x]: where the answer is, and its request

vars == <<ask, future, pending, answer>>

Init == /\ ask = [r \in Asks |-> "idle"]
        /\ future = [r \in Asks |-> None]
        /\ pending = {}
        /\ answer = [x \in Answers |-> [pc |-> "idle", ask |-> None]]

Undone(r) == future[r] = None

Request(r) == /\ ask[r] = "idle"
              /\ pending' = pending \cup {r}
              /\ ask' = [ask EXCEPT ![r] = "notifying"]
              /\ UNCHANGED <<future, answer>>

\* The manager is told, or not: the control plane lists the request anyway.
Notify(r) == /\ ask[r] = "notifying"
             /\ ask' = [ask EXCEPT ![r] = "waiting"]
             /\ UNCHANGED <<future, pending, answer>>

\* The card could not be sent to the chat: the call fails, and the request stays.
NotifyFails(r) == /\ ask[r] = "notifying"
                  /\ ask' = [ask EXCEPT ![r] = "failed"]
                  /\ UNCHANGED <<future, pending, answer>>

\* A request that timed out can still be found.
TimeoutKept(r) == /\ r \in pending /\ Undone(r)
                  /\ future' = [future EXCEPT ![r] = "timeout"]
                  /\ UNCHANGED <<ask, pending, answer>>
\* _timeout: it comes before that of wait_for, which starts after it.
Timeout(r) == /\ r \in pending /\ Undone(r)
              /\ future' = [future EXCEPT ![r] = "timeout"]
              /\ pending' = pending \ {r}
              /\ UNCHANGED <<ask, answer>>

Continue(r) == /\ ask[r] = "waiting" /\ ~Undone(r)
               /\ ask' = [ask EXCEPT ![r] = IF future[r] = "timeout" THEN "failed" ELSE "answered"]
               /\ UNCHANGED <<future, pending, answer>>

\* The run is stopped: wait_for cancels the future, and the request stays.
StopRun(r) == /\ ask[r] \in {"notifying", "waiting"}
              /\ ask' = [ask EXCEPT ![r] = "stopped"]
              /\ future' = IF ask[r] = "waiting" /\ Undone(r) THEN [future EXCEPT ![r] = "cancelled"] ELSE future
              /\ UNCHANGED <<pending, answer>>

\* _hitl_matches: a request of this manager and tenant, of a run in progress.
Match(x) == /\ answer[x].pc = "idle"
            /\ \E r \in pending : /\ Undone(r) /\ ask[r] # "stopped"
                                  /\ answer' = [answer EXCEPT ![x] = [pc |-> "matched", ask |-> r]]
            /\ UNCHANGED <<ask, future, pending>>

Resolve(x) ==
    LET r == answer[x].ask IN
    /\ answer[x].pc = "matched"
    /\ pending' = pending \ {r}
    /\ future' = IF r \in pending /\ Undone(r) THEN [future EXCEPT ![r] = x] ELSE future
    /\ answer' = [answer EXCEPT ![x].pc = IF r \in pending THEN "recorded" ELSE "late"]
    /\ UNCHANGED ask

\* The chat is no longer in force, or the teammate was disabled.
Refuse(x) == /\ answer[x].pc = "matched"
             /\ answer' = [answer EXCEPT ![x].pc = "refused"]
             /\ UNCHANGED <<ask, future, pending>>

Next == \/ \E r \in Asks : Request(r) \/ Notify(r) \/ NotifyFails(r) \/ Timeout(r) \/ Continue(r) \/ StopRun(r)
        \/ \E x \in Answers : Match(x) \/ Resolve(x) \/ Refuse(x)

Spec == Init /\ [][Next]_vars

---------------------------------------------------------------------------

\* A manager who is told that the answer was recorded decided the request,
\* alone: the run goes on with this answer and never with another, and never
\* fails for a timeout.  Only a run that was stopped meanwhile, or could not
\* show its card, has no use for the answer.
RecordedDecides ==
    /\ \A x \in Answers : answer[x].pc = "recorded" =>
          LET r == answer[x].ask IN future[r] = x \/ (ask[r] = "stopped" /\ future[r] = "cancelled")
    /\ \A x, y \in Answers : answer[x].pc = "recorded" /\ answer[y].pc = "recorded" /\ answer[x].ask = answer[y].ask => x = y
    /\ \A r \in Asks : ask[r] = "answered" => \E x \in Answers : future[r] = x /\ answer[x].pc = "recorded"
=============================================================================
