--------------------------- MODULE ClaimedEffects ---------------------------
(***************************************************************************)
(* What the parts with effects that cannot be undone promise, each in its  *)
(* own way: compliance_service by the claims of its cases, compliance_case *)
(* by the status of its one record, tool_approvals by a decision's claim.  *)
(* An effect has a durable record; it is attempted by whoever claimed the  *)
(* record, once, and the record says no more than what is known of it.     *)
(***************************************************************************)
EXTENDS Integers

CONSTANTS Objects,      \* what the effects belong to: cases, requests
          Effects,      \* the effects each object may have
          Ready(_, _)   \* Ready(e, C): e may follow the completed effects C

VARIABLES record, \* record[o][e]: what is stored about effect e of o
          done    \* done[o][e]: how often it was attempted

claims == <<record, done>>

Init == /\ record = [o \in Objects |-> [e \in Effects |-> "none"]]
        /\ done = [o \in Objects |-> [e \in Effects |-> 0]]

Completed(o) == {e \in Effects : record[o][e] = "completed"}

\* Nothing of the object is claimed, and no outcome is uncertain.
Settled(o) == \A e \in Effects : record[o][e] \notin {"claimed", "unknown"}

\* The claim comes before the effect, and excludes every other claim.
Claim(o, e) == /\ record[o][e] = "none" /\ Settled(o) /\ Ready(e, Completed(o))
               /\ record' = [record EXCEPT ![o][e] = "claimed"]

\* The one attempt.  It may come to nothing, and nobody may ever know.
Attempt(o, e) == /\ record[o][e] = "claimed" /\ done[o][e] = 0
                 /\ done' = [done EXCEPT ![o][e] = 1]

\* The receipt is stored after the attempt.
Complete(o, e) == /\ record[o][e] = "claimed" /\ done[o][e] = 1
                  /\ record' = [record EXCEPT ![o][e] = "completed"]

\* The claim is given up for good, attempted or not.
Doubt(o, e) == /\ record[o][e] = "claimed"
               /\ record' = [record EXCEPT ![o][e] = "unknown"]

\* Effects that were not attempted are turned down, several at once.
Refuse == /\ record' \in [Objects -> [Effects -> {"none", "claimed", "completed", "unknown", "refused"}]]
          /\ \A o \in Objects, e \in Effects :
                record'[o][e] # record[o][e] =>
                    /\ record'[o][e] = "refused"
                    /\ record[o][e] \in {"none", "claimed"} /\ done[o][e] = 0

\* A step is one of the record, or one of the outside; never both at once.
Next == \/ /\ record' # record /\ UNCHANGED done
           /\ Refuse \/ \E o \in Objects, e \in Effects : Claim(o, e) \/ Complete(o, e) \/ Doubt(o, e)
        \/ /\ done' # done /\ UNCHANGED record
           /\ \E o \in Objects, e \in Effects : Attempt(o, e)

Spec == Init /\ [][Next]_claims
---------------------------------------------------------------------------
Statuses == {"none", "claimed", "completed", "unknown", "refused"}

TypeOK == /\ record \in [Objects -> [Effects -> Statuses]]
          /\ done \in [Objects -> [Effects -> 0..1]]

\* The record is true of the outside: what is not claimed yet, or refused, was
\* not attempted, and what has a receipt was.
RecordTrue == \A o \in Objects, e \in Effects :
                 /\ record[o][e] \in {"none", "refused"} => done[o][e] = 0
                 /\ record[o][e] = "completed" => done[o][e] = 1

\* One effect of an object at most is claimed or uncertain.
OneOpen == \A o \in Objects : \A e, f \in Effects :
              record[o][e] \in {"claimed", "unknown"} /\ record[o][f] \in {"claimed", "unknown"} => e = f

\* What was attempted stays on record, and an effect that is not settled stops
\* its object: no further effect of it is attempted, ever.
NothingBuiltOnDoubt ==
    [][\A o \in Objects, e \in Effects :
          /\ done[o][e] > 0 => record'[o][e] # "none" /\ done'[o][e] = done[o][e]
          /\ record[o][e] = "unknown" => UNCHANGED <<record[o][e], done[o]>>]_claims

\* Whatever is claimed, uncertain or completed follows what is completed: what an
\* effect was claimed on is never taken back.
FollowsCompleted == \A o \in Objects, e \in Effects :
                       record[o][e] \in {"claimed", "unknown", "completed"} => Ready(e, Completed(o))
=============================================================================
