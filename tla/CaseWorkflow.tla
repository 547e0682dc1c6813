----------------------------- MODULE CaseWorkflow -----------------------------
(***************************************************************************)
(* compliance_case.CaseWorkflow: the receipts of one authenticated email.  *)
(* Each of its three calls claims a stage on the case's record, performs   *)
(* the stage's external effect, and completes the record.  Notifications   *)
(* and messages are delivered again, updates of the store (atomic, see     *)
(* ConversationStore) may fail committed or not, effects may fail done or  *)
(* not, and the process may die anywhere.                                  *)
(***************************************************************************)
EXTENDS Integers

CONSTANTS Calls, MaxFaults

VARIABLES record, \* status of the case's record
          call,   \* call[i]: the stage it is for, and where it is
          done,   \* history: done[s], times the effect of stage s was attempted
          faults  \* history

vars == <<record, call, done, faults>>

Stages == {"create", "answer", "close"}
From == [create |-> "none", answer |-> "investigating", close |-> "awaiting_confirmation"]
Claimed == [create |-> "creating", answer |-> "answer_delivery_pending", close |-> "closing"]
Then == [create |-> "investigating", answer |-> "awaiting_confirmation", close |-> "closed"]

Init == /\ record = "none"
        /\ call = [i \in Calls |-> [pc |-> "idle", stage |-> "create"]]
        /\ done = [s \in Stages |-> 0]
        /\ faults = 0

At(i, pc) == call[i].pc = pc
To(i, pc) == call' = [call EXCEPT ![i].pc = pc]
Stage(i) == call[i].stage

\* receive, answer_delivered or close; the last only for an explicit confirmation.
Call(i) == /\ At(i, "idle")
           /\ \E s \in Stages : call' = [call EXCEPT ![i] = [pc |-> "claiming", stage |-> s]]
           /\ UNCHANGED <<record, done, faults>>

\* A stage whose outcome is unknown is claimed again.
FreeAgain(s) == record = From[s] \/ record = "write_outcome_unknown"
Free(s) == record = From[s]
Claim(i) == /\ At(i, "claiming")
            /\ IF Free(Stage(i)) THEN record' = Claimed[Stage(i)] /\ To(i, "acting")
               ELSE UNCHANGED record /\ To(i, "ended")
            /\ UNCHANGED <<done, faults>>

Act(i) == /\ At(i, "acting")
          /\ done' = [done EXCEPT ![Stage(i)] = @ + 1]
          /\ \E pc \in {"completing", "unsure"} : To(i, pc)
          /\ UNCHANGED <<record, faults>>

\* _mark_uncertain; a failure of it is swallowed.
Mark(i) == /\ At(i, "unsure")
           /\ record' = IF record = Claimed[Stage(i)] THEN "write_outcome_unknown" ELSE record
           /\ To(i, "ended")
           /\ UNCHANGED <<done, faults>>

Complete(i) == /\ At(i, "completing")
               /\ record' = IF record = Claimed[Stage(i)] THEN Then[Stage(i)] ELSE record
               /\ To(i, "ended")
               /\ UNCHANGED <<done, faults>>

\* The store fails, with the update made or not; or the caller is cancelled in it.
Edit(i) == CASE At(i, "claiming") -> IF Free(Stage(i)) THEN Claimed[Stage(i)] ELSE record
             [] At(i, "completing") -> IF record = Claimed[Stage(i)] THEN Then[Stage(i)] ELSE record
             [] OTHER -> IF record = Claimed[Stage(i)] THEN "write_outcome_unknown" ELSE record
StoreFails(i) == /\ call[i].pc \in {"claiming", "completing", "unsure"} /\ faults < MaxFaults
                 /\ record' \in {record, Edit(i)}
                 /\ To(i, "ended")
                 /\ faults' = faults + 1
                 /\ UNCHANGED done

Crash == /\ faults < MaxFaults
         /\ call' = [i \in Calls |-> IF At(i, "idle") THEN call[i] ELSE [call[i] EXCEPT !.pc = "ended"]]
         /\ faults' = faults + 1
         /\ UNCHANGED <<record, done>>

Next == Crash \/ \E i \in Calls : Call(i) \/ Claim(i) \/ Act(i) \/ Mark(i) \/ Complete(i) \/ StoreFails(i)

Spec == Init /\ [][Next]_vars

---------------------------------------------------------------------------

\* "A crash or ambiguous response leaves the claim in an unknown state; it is
\* never replayed blindly": each effect is attempted at most once, only after
\* the receipt of the one before it, and a receipt is of an effect that was.
EffectsOnceInOrder ==
    /\ \A s \in Stages : done[s] <= 1 /\ (record = Then[s] => done[s] = 1)
    /\ done["close"] > 0 => done["answer"] > 0
    /\ done["answer"] > 0 => done["create"] > 0
    /\ record = "none" => done["create"] = 0

\* The statuses that show that a stage was completed, and the stage before it.
After == [create |-> {"investigating", "answer_delivery_pending", "awaiting_confirmation", "closing", "closed"},
          answer |-> {"awaiting_confirmation", "closing", "closed"}, close |-> {"closed"}]
InOrder(s, C) == s # "create" => \E p \in C : Then[p] = From[s]

\* The one status is the record of all three effects; an unknown outcome is that
\* of the last effect attempted.
Known(s) == IF record = Claimed[s] THEN "claimed"
            ELSE IF record \in After[s] THEN "completed"
            ELSE IF record # "write_outcome_unknown" \/ done[s] = 0 THEN "none"
            ELSE IF \E t \in Stages : From[t] = Then[s] /\ done[t] > 0 THEN "completed" ELSE "unknown"

\* "A crash or ambiguous response leaves the claim in an unknown state; it is
\* never replayed blindly": the workflow keeps to the claim protocol.
Claims == INSTANCE ClaimedEffects WITH
    Objects <- {"case"}, Effects <- Stages, Ready <- InOrder,
    record <- [o \in {"case"} |-> [s \in Stages |-> Known(s)]], done <- [o \in {"case"} |-> done]
StagesClaimed == Claims!Spec
=============================================================================
