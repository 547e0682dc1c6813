------------------------- MODULE ToolApprovalsProofs -------------------------
(***************************************************************************)
(* Proofs about ToolApprovals: its types, that a call is made at most once *)
(* for an approval and its receipt tells the truth about it, that          *)
(* uncertain receipts are kept, and that what was cleared never runs.      *)
(***************************************************************************)
EXTENDS ToolApprovals, TLAPS

RecordType == [status : Statuses, user : Users \cup {None}, call : Calls \cup {None},
               at : Nat, claim : Decisions \cup {None}, gen : Nat]
JobType == [pc : {"idle", "guarded", "proposing"}, gen : Nat]
DecisionPcs == {"idle", "claiming", "claimed", "rejecting", "executing", "calling", "completing", "cleaning", "done"}
DecisionType == [pc : DecisionPcs, user : Users \cup {None}, request : Requests \cup {None}, approve : BOOLEAN,
                 gen : Nat, claimed : BOOLEAN, cancelling : BOOLEAN]
EndingType == {"idle", "clearing", "leaving", "leftClearing", "erasing", "done"}

\* The decisions that hold their request's claim: the claim is theirs, and it
\* is as far as they know.
Holding == {"claimed", "rejecting", "executing", "calling", "completing"}
Asked(d) == decision[d].request

Held == \A d \in Decisions :
    /\ decision[d].pc \notin {"idle", "done"} => Asked(d) \in Requests
    /\ decision[d].pc \in Holding => Is(Asked(d), "executing") /\ records[Asked(d)].claim = d
    /\ decision[d].pc \in {"claimed", "rejecting", "executing"} => ran[Asked(d)] = 0
    /\ decision[d].pc \in {"calling", "completing"} => ran[Asked(d)] = 1
    /\ decision[d].pc \in {"idle", "claiming"} => \A r \in Requests : records[r].claim # d

\* Together: the invariant that is inductive.
Inv == TypeOK /\ Held /\ CallbackOnce /\ ReceiptsTrue /\ ClearedNeverRuns

LEMMA Constants == /\ None \notin Decisions
                   /\ JobUser \in [Jobs -> Users] /\ JobCall \in [Jobs -> Calls]
BY ApprovalsAssumption

-----------------------------------------------------------------------------
(* The edits of the gate's document.                                       *)

\* Lapsing rejects requests that wait, and changes nothing else.
LEMMA LapsedFacts ==
    ASSUME TypeOK
    PROVE  /\ Lapsed \in [Requests -> RecordType]
           /\ \A r \in Requests : \/ Lapsed[r] = records[r]
                                  \/ /\ Is(r, "pending") /\ Lapsed[r].status = "rejected"
                                     /\ Lapsed[r].claim = records[r].claim
BY DEF TypeOK, Lapsed, Is, RecordType, Statuses

\* Making room removes settled receipts only.
LEMMA EvictedFacts ==
    ASSUME TypeOK, NEW E \in Evictions
    PROVE  /\ Evicted(E) \in [Requests -> RecordType]
           /\ \A r \in Requests :
                 \/ Evicted(E)[r] = Lapsed[r]
                 \/ /\ Lapsed[r].status \in {"completed", "rejected"}
                    /\ Evicted(E)[r].status = "evicted" /\ Evicted(E)[r].claim = None
<1>1. Lapsed \in [Requests -> RecordType]
  BY LapsedFacts
<1>2. \A r \in E : Lapsed[r].status \in {"completed", "rejected"}
  BY DEF Evictions, Settled
<1>3. [Absent EXCEPT !.status = "evicted"] \in RecordType
  BY DEF Absent, RecordType, Statuses
<1>4. [Absent EXCEPT !.status = "evicted"].status = "evicted" /\ [Absent EXCEPT !.status = "evicted"].claim = None
  BY DEF Absent
<1> QED BY <1>1, <1>2, <1>3, <1>4 DEF Evicted

\* How an edit may move a receipt: what waits may be rejected, a settled
\* receipt may be removed, and a new one waits unclaimed.
Moves(new) == \A r \in Requests :
    \/ new[r] = records[r]
    \/ Is(r, "pending") /\ new[r].status = "rejected" /\ new[r].claim = records[r].claim
    \/ Is(r, "completed") /\ new[r].status = "evicted" /\ new[r].claim = None
    \/ records[r].status \in {"pending", "rejected"} /\ new[r].status = "evicted" /\ new[r].claim = None
    \/ Is(r, "none") /\ new[r].status = "pending" /\ new[r].claim = None

LEMMA EvictedMoves == ASSUME TypeOK, NEW E \in Evictions PROVE Moves(Evicted(E))
BY LapsedFacts, EvictedFacts DEF Moves, Is

\* Every outcome of a proposal is such an edit.
LEMMA ProposalMoves ==
    ASSUME TypeOK, NEW j \in Jobs, ProposeAgain(j) \/ ProposeRefused(j) \/ Propose(j)
    PROVE  records' \in [Requests -> RecordType] /\ Moves(records')
<1>1. CASE records' = Lapsed
  BY <1>1, LapsedFacts DEF Moves
<1>2. ASSUME NEW E \in Evictions, records' = Evicted(E)
      PROVE  records' \in [Requests -> RecordType] /\ Moves(records')
  BY <1>2, EvictedFacts, EvictedMoves
<1>3. CASE Propose(j)
  <2>1. PICK E \in Evictions, r \in Requests :
            Is(r, "none") /\ records' = [Evicted(E) EXCEPT ![r] = Proposal(j)]
    BY <1>3 DEF Propose
  <2>2. Proposal(j) \in RecordType
    BY Constants DEF TypeOK, JobType, Proposal, RecordType, Statuses
  <2>3. Proposal(j).status = "pending" /\ Proposal(j).claim = None
    BY DEF Proposal
  <2> QED BY <2>1, <2>2, <2>3, EvictedFacts, EvictedMoves DEF Moves
<1> QED BY <1>1, <1>2, <1>3 DEF ProposeAgain, ProposeRefused

LEMMA JudgedFacts ==
    ASSUME TypeOK, Held, NEW d \in Decisions, At(d, "claiming")
    PROVE  /\ Judged(d) \in [Requests -> RecordType]
           /\ Claims(d) => /\ Is(Asked(d), "pending")
                           /\ Judged(d) = [records EXCEPT ![Asked(d)].status = "executing", ![Asked(d)].claim = d]
           /\ ~Claims(d) => Moves(Judged(d))
<1> DEFINE r == Asked(d)
<1>1. r \in Requests /\ records[r].claim # d /\ records \in [Requests -> RecordType]
  BY DEF Held, At, TypeOK, RecordType
<1>2. CASE Judged(d) = records
  BY <1>1, <1>2 DEF Claims, Moves, Asked
<1>3. CASE Is(r, "pending") /\ Judged(d) = [records EXCEPT ![r].status = "rejected"]
  <2>1. Judged(d) \in [Requests -> RecordType] /\ Judged(d)[r].claim = records[r].claim
    BY <1>1, <1>3 DEF RecordType, Statuses
  <2>2. Moves(Judged(d))
    BY <1>1, <1>3 DEF Moves, RecordType
  <2> QED BY <1>1, <2>1, <2>2 DEF Claims, Asked
<1>4. CASE Is(r, "pending") /\ Judged(d) = [records EXCEPT ![r].status = "executing", ![r].claim = d]
  <2>1. Judged(d) \in [Requests -> RecordType] /\ Judged(d)[r].claim = d
    BY <1>1, <1>4 DEF RecordType, Statuses
  <2> QED BY <1>1, <1>4, <2>1 DEF Claims, Asked
<1> QED BY <1>2, <1>3, <1>4 DEF Judged, Pending, Is, Asked

\* An outcome is given to the decision's own executing claim only.
LEMMA OutcomeFacts ==
    ASSUME TypeOK, NEW d \in Decisions, NEW status \in {"completed", "rejected", "unknown"}, Asked(d) \in Requests
    PROVE  /\ Outcome(d, status) \in [Requests -> RecordType]
           /\ \A r \in Requests :
                 \/ Outcome(d, status)[r] = records[r]
                 \/ /\ r = Asked(d) /\ Is(r, "executing") /\ records[r].claim = d
                    /\ Outcome(d, status)[r].status = status /\ Outcome(d, status)[r].claim = d
<1> DEFINE r == Asked(d)
<1>1. records \in [Requests -> RecordType] /\ status \in Statuses
  BY DEF TypeOK, RecordType, Statuses
<1>2. CASE Outcome(d, status) = records
  BY <1>1, <1>2
<1>3. CASE Is(r, "executing") /\ records[r].claim = d /\ Outcome(d, status) = [records EXCEPT ![r].status = status]
  BY <1>1, <1>3 DEF RecordType
<1> QED BY <1>2, <1>3 DEF Outcome, Asked, Is

-----------------------------------------------------------------------------
(* The types.                                                              *)

LEMMA Moved == ASSUME TypeOK, NEW d \in Decisions, decision[d].pc # "idle", NEW pc \in DecisionPcs, Move(d, pc)
               PROVE  decision' \in [Decisions -> DecisionType]
<1>1. decision \in [Decisions -> DecisionType]
  BY DEF TypeOK, DecisionType, DecisionPcs
<1>2. Over \in DecisionType
  BY DEF Over, Quiet, DecisionType, DecisionPcs
<1>3. [decision[d] EXCEPT !.pc = pc] \in DecisionType
  BY <1>1 DEF DecisionType
<1> QED BY <1>1, <1>2, <1>3 DEF Move

LEMMA TypesInit == Init => TypeOK
<1> SUFFICES ASSUME Init PROVE TypeOK
  OBVIOUS
<1>1. records \in [Requests -> RecordType]
  BY DEF Init, Absent, RecordType, Statuses
<1>2. job \in [Jobs -> JobType] /\ ending \in [Endings -> EndingType]
  BY DEF Init, Idle, JobType, EndingType
<1>3. decision \in [Decisions -> DecisionType]
  BY DEF Init, Quiet, DecisionType, DecisionPcs
<1> QED BY <1>1, <1>2, <1>3 DEF Init, TypeOK, RecordType, JobType, EndingType, DecisionType, DecisionPcs

LEMMA TypesStep == TypeOK /\ Held /\ [Next]_vars => TypeOK'
<1> SUFFICES ASSUME TypeOK, Held, [Next]_vars PROVE TypeOK'
  OBVIOUS
<1> USE DEF gate, chat
<1>0. /\ records \in [Requests -> RecordType] /\ job \in [Jobs -> JobType]
      /\ decision \in [Decisions -> DecisionType] /\ ending \in [Endings -> EndingType]
      /\ ran \in [Requests -> Nat] /\ clock \in Nat /\ generation \in Nat /\ removed \in BOOLEAN
      /\ cleared \subseteq Requests /\ faults \in Nat
  BY DEF TypeOK, RecordType, JobType, DecisionType, DecisionPcs, EndingType
<1>q. ASSUME /\ records' \in [Requests -> RecordType] /\ job' \in [Jobs -> JobType]
             /\ decision' \in [Decisions -> DecisionType] /\ ending' \in [Endings -> EndingType]
             /\ ran' \in [Requests -> Nat] /\ clock' \in Nat /\ generation' \in Nat /\ removed' \in BOOLEAN
             /\ cleared' \subseteq Requests /\ faults' \in Nat
      PROVE  TypeOK'
  BY <1>q DEF TypeOK, RecordType, JobType, DecisionType, DecisionPcs, EndingType
<1>1. CASE UNCHANGED vars
  BY <1>0, <1>1, <1>q DEF vars
<1>2. ASSUME NEW j \in Jobs, Screen(j) PROVE TypeOK'
  BY <1>0, <1>2, <1>q DEF Screen, JobType
<1>3. ASSUME NEW j \in Jobs, Offer(j) PROVE TypeOK'
  BY <1>0, <1>3, <1>q DEF Offer, JobType
<1>4. ASSUME NEW j \in Jobs, Proposed(j) PROVE TypeOK'
  <2>1. records' \in [Requests -> RecordType]
    BY <1>4, ProposalMoves DEF Proposed
  <2>2. Idle \in JobType
    BY DEF Idle, JobType
  <2> QED BY <1>0, <1>4, <1>q, <2>1, <2>2 DEF Proposed
<1>5. ASSUME NEW j \in Jobs, ProposalLost(j) PROVE TypeOK'
  <2>1. Idle \in JobType
    BY DEF Idle, JobType
  <2> QED BY <1>0, <1>5, <1>q, <2>1 DEF ProposalLost
<1>6. ASSUME NEW d \in Decisions, Command(d) PROVE TypeOK'
  <2>1. PICK u \in Users, r \in Requests, approve \in BOOLEAN : decision' = [decision EXCEPT ![d] =
            [Quiet EXCEPT !.pc = "claiming", !.user = u, !.request = r, !.approve = approve, !.gen = generation]]
    BY <1>6 DEF Command
  <2>2. [Quiet EXCEPT !.pc = "claiming", !.user = u, !.request = r, !.approve = approve, !.gen = generation]
            \in DecisionType
    BY <1>0 DEF Quiet, DecisionType, DecisionPcs
  <2> QED BY <1>0, <1>6, <1>q, <2>1, <2>2 DEF Command
<1>7. ASSUME NEW d \in Decisions, Claim(d) \/ ClaimFails(d) PROVE TypeOK'
  <2>1. Over \in DecisionType
    BY DEF Over, Quiet, DecisionType, DecisionPcs
  <2>2. \A pc \in DecisionPcs : [decision[d] EXCEPT !.claimed = TRUE, !.pc = pc] \in DecisionType
    BY <1>0 DEF DecisionType
  <2>3. decision' \in [Decisions -> DecisionType]
    BY <1>0, <1>7, <2>1, <2>2 DEF Claim, ClaimFails, DecisionPcs
  <2>4. At(d, "claiming")
    BY <1>7 DEF Claim, ClaimFails
  <2>5. Judged(d) \in [Requests -> RecordType]
    BY <2>4, JudgedFacts
  <2>6. records' \in [Requests -> RecordType]
    BY <1>0, <1>7, <2>5 DEF Claim, ClaimFails
  <2> QED BY <1>0, <1>7, <1>q, <2>3, <2>6 DEF Claim, ClaimFails
<1>8. ASSUME NEW d \in Decisions, Recheck(d) \/ Dispatch(d) \/ Refuse(d) \/ Return(d) \/ Interrupted(d) PROVE TypeOK'
  <2>1. decision[d].pc # "idle" /\ \E pc \in DecisionPcs : Move(d, pc)
    BY <1>8 DEF Recheck, Dispatch, Refuse, Return, Interrupted, AtAwait, At, DecisionPcs
  <2>2. decision' \in [Decisions -> DecisionType]
    BY <2>1, Moved
  <2>3. ran' \in [Requests -> Nat]
    BY <1>0, <1>8 DEF Recheck, Dispatch, Refuse, Return, Interrupted
  <2> QED BY <1>0, <1>8, <1>q, <2>2, <2>3 DEF Recheck, Dispatch, Refuse, Return, Interrupted
<1>9. ASSUME NEW d \in Decisions, Finish(d) \/ FinishFails(d) PROVE TypeOK'
  <2>1. decision[d].pc \in {"rejecting", "completing", "cleaning"}
    BY <1>9 DEF Finish, FinishFails, Status
  <2>2. Status[decision[d].pc] \in {"completed", "rejected", "unknown"} /\ Asked(d) \in Requests
    BY <2>1 DEF Status, Held
  <2>3. records' \in [Requests -> RecordType]
    BY <1>0, <1>9, <2>2, OutcomeFacts DEF Finish, FinishFails
  <2>4. \E pc \in DecisionPcs : Move(d, pc)
    BY <1>9 DEF Finish, FinishFails, DecisionPcs
  <2>5. decision' \in [Decisions -> DecisionType]
    BY <2>1, <2>4, Moved
  <2> QED BY <1>0, <1>9, <1>q, <2>3, <2>5 DEF Finish, FinishFails
<1>10. ASSUME NEW e \in Endings, End(e) PROVE TypeOK'
  <2>1. decision' \in [Decisions -> DecisionType]
    <3>1. \A d \in Decisions : [decision[d] EXCEPT !.cancelling = TRUE] \in DecisionType
      BY <1>0 DEF DecisionType
    <3> QED BY <1>0, <1>10, <3>1 DEF End, Cancelled
  <2> QED BY <1>0, <1>10, <1>q, <2>1 DEF End, EndingType
<1>11. ASSUME NEW e \in Endings, Clear(e) PROVE TypeOK'
  <2>1. records' \in [Requests -> RecordType] /\ cleared' \subseteq Requests
    BY <1>0, <1>11 DEF Clear, RecordType, Statuses, Pending
  <2> QED BY <1>0, <1>11, <1>q, <2>1 DEF Clear, EndingType
<1>12. ASSUME NEW e \in Endings, EndFails(e) PROVE TypeOK'
  BY <1>0, <1>12, <1>q DEF EndFails, EndingType
<1>13. ASSUME NEW e \in Endings, Erase(e) \/ Leave(e) \/ LeaveFails(e) PROVE TypeOK'
  <2>1. Stopped \in [Jobs -> JobType]
    BY <1>0 DEF Stopped, Idle, JobType
  <2>2. CASE Erase(e)
    BY <1>0, <2>2, <1>q, <2>1 DEF Erase, EndingType
  <2>3. CASE Leave(e)
    BY <1>0, <2>3, <1>q, <2>1 DEF Leave, EndingType
  <2>4. CASE LeaveFails(e)
    BY <1>0, <2>4, <1>q, <2>1 DEF LeaveFails, EndingType
  <2> QED BY <1>13, <2>2, <2>3, <2>4
<1>14. CASE Tick
  BY <1>0, <1>14, <1>q DEF Tick
<1>15. CASE Crash
  <2>1. job' \in [Jobs -> JobType] /\ decision' \in [Decisions -> DecisionType]
    BY <1>0, <1>15 DEF Crash, Idle, JobType, Quiet, Over, DecisionType, DecisionPcs
  <2> QED BY <1>0, <1>15, <1>q, <2>1 DEF Crash, EndingType
<1> QED BY <1>1, <1>2, <1>3, <1>4, <1>5, <1>6, <1>7, <1>8, <1>9, <1>10, <1>11, <1>12, <1>13, <1>14, <1>15
        DEF Next, Decide

-----------------------------------------------------------------------------
(* The invariant.                                                          *)

\* Decisions that stay where they are, end, or give their claim up.
Retreats == \A d \in Decisions :
    \/ decision'[d].pc = "done"
    \/ /\ Asked(d)' = Asked(d)
       /\ \/ decision'[d].pc = decision[d].pc
          \/ decision'[d].pc = "cleaning" /\ decision[d].pc \notin {"idle", "done"}

\* Such decisions, and the edits of proposals and clearing, keep the invariant.
LEMMA Kept ==
    ASSUME Inv, TypeOK', Moves(records'), Retreats, ran' = ran,
           \A r \in cleared' : r \in cleared \/ (Is(r, "pending") /\ records'[r].status = "rejected")
    PROVE  Inv'
<1>1. None \notin Decisions /\ cleared \subseteq Requests /\ cleared' \subseteq Requests
  BY Constants DEF Inv, TypeOK
<1>2. Held'
  BY <1>1 DEF Inv, Held, Moves, Retreats, Holding, Is, Asked
<1>3. CallbackOnce' /\ ReceiptsTrue'
  BY DEF Inv, CallbackOnce, ReceiptsTrue, Moves, Is
<1>4. ClearedNeverRuns'
  BY <1>1 DEF Inv, ClearedNeverRuns, ReceiptsTrue, Moves, Is
<1> QED BY <1>2, <1>3, <1>4 DEF Inv

LEMMA SameMoves == Moves(records)
BY DEF Moves

\* A decision that moves, and what it leaves alone.
LEMMA MoveFacts ==
    ASSUME TypeOK, NEW d \in Decisions, NEW pc \in DecisionPcs \ {"done"}, Move(d, pc)
    PROVE  /\ decision'[d].pc = pc /\ Asked(d)' = Asked(d)
           /\ \A e \in Decisions \ {d} : decision'[e] = decision[e]
BY DEF TypeOK, DecisionPcs, Move, Asked

LEMMA MoveDone ==
    ASSUME TypeOK, NEW d \in Decisions, Move(d, "done")
    PROVE  /\ decision'[d].pc = "done"
           /\ \A e \in Decisions \ {d} : decision'[e] = decision[e]
BY DEF TypeOK, Move, Over, Quiet

LEMMA MoveRetreats ==
    ASSUME TypeOK, NEW d \in Decisions, decision[d].pc # "idle", decision[d].pc # "done",
           Move(d, "cleaning") \/ Move(d, "done")
    PROVE  Retreats
BY MoveFacts, MoveDone DEF Retreats, DecisionPcs, Asked

LEMMA ClaimKept ==
    ASSUME Inv, TypeOK', NEW d \in Decisions, Claim(d) \/ ClaimFails(d)
    PROVE  Inv'
<1>1. At(d, "claiming") /\ ran' = ran /\ cleared' = cleared /\ TypeOK /\ Held
  BY DEF Claim, ClaimFails, gate, chat, Inv
<1>2. /\ Claims(d) => /\ Is(Asked(d), "pending")
                      /\ Judged(d) = [records EXCEPT ![Asked(d)].status = "executing", ![Asked(d)].claim = d]
      /\ ~Claims(d) => Moves(Judged(d))
  BY <1>1, JudgedFacts
<1>3. Asked(d) \in Requests /\ records \in [Requests -> RecordType] /\ decision \in [Decisions -> DecisionType]
  BY <1>1 DEF Held, At, TypeOK, RecordType, DecisionType, DecisionPcs
<1>4. CASE ~Claims(d)
  <2>1. Moves(records')
    BY <1>2, <1>4, SameMoves DEF Claim, ClaimFails
  <2>2. Retreats
    BY <1>3, <1>4 DEF Claim, ClaimFails, Retreats, Over, Quiet, Asked
  <2> QED BY <1>1, <2>1, <2>2, Kept
<1>5. CASE Claims(d) /\ records' = records
  <2>1. decision'[d].pc = "cleaning" /\ Asked(d)' = Asked(d) /\ \A e \in Decisions \ {d} : decision'[e] = decision[e]
    <3>1. CASE ClaimFails(d)
      BY <1>3, <1>5, <3>1 DEF ClaimFails, DecisionType, Asked
    <3>2. CASE Claim(d)
      BY <1>2, <1>3, <1>5, <3>2 DEF Claim, RecordType, Is
    <3> QED BY <3>1, <3>2
  <2>2. Retreats
    BY <1>1, <2>1 DEF Retreats, At, Asked
  <2>3. Moves(records')
    BY <1>5, SameMoves
  <2> QED BY <1>1, <2>2, <2>3, Kept
<1>6. CASE Claims(d) /\ records' = Judged(d)
  <2>1. /\ decision'[d].pc \in {"cleaning", "claimed"} /\ Asked(d)' = Asked(d)
        /\ \A e \in Decisions \ {d} : decision'[e] = decision[e]
    <3>1. decision' = [decision EXCEPT ![d] = [decision[d] EXCEPT !.claimed = TRUE, !.pc = "cleaning"]]
          \/ decision' = [decision EXCEPT ![d] = [decision[d] EXCEPT !.claimed = TRUE, !.pc = "claimed"]]
      BY <1>6 DEF Claim, ClaimFails
    <3>2. ASSUME NEW pc \in {"cleaning", "claimed"},
                 decision' = [decision EXCEPT ![d] = [decision[d] EXCEPT !.claimed = TRUE, !.pc = pc]]
          PROVE  /\ decision'[d].pc = pc /\ decision'[d].request = decision[d].request
                 /\ \A e \in Decisions \ {d} : decision'[e] = decision[e]
      BY <1>3, <3>2 DEF DecisionType
    <3> QED BY <3>1, <3>2 DEF Asked
  <2>2. /\ records'[Asked(d)].status = "executing" /\ records'[Asked(d)].claim = d
        /\ \A r \in Requests \ {Asked(d)} : records'[r] = records[r]
    BY <1>2, <1>3, <1>6 DEF RecordType
  <2>3. Is(Asked(d), "pending") /\ ran[Asked(d)] = 0
    BY <1>2, <1>3, <1>6 DEF Inv, ReceiptsTrue, Is
  <2>4. Held'
    BY <1>1, <1>3, <2>1, <2>2, <2>3 DEF Held, Holding, Is, Asked
  <2>5. CallbackOnce' /\ ReceiptsTrue' /\ ClearedNeverRuns'
    <3>1. cleared \subseteq Requests
      BY <1>1 DEF TypeOK
    <3>2. Asked(d) \notin cleared
      BY <2>3 DEF Inv, ClearedNeverRuns, Is
    <3> QED BY <1>1, <1>3, <2>2, <2>3, <3>1, <3>2 DEF Inv, CallbackOnce, ReceiptsTrue, ClearedNeverRuns, Is
  <2> QED BY <2>4, <2>5 DEF Inv
<1> QED BY <1>4, <1>5, <1>6 DEF Claim, ClaimFails

\* A decision that goes on, with nothing edited.
LEMMA AdvanceKept ==
    ASSUME Inv, TypeOK', NEW d \in Decisions, Recheck(d) \/ Return(d) \/ Refuse(d) \/ Interrupted(d)
    PROVE  Inv'
<1>1. records' = records /\ ran' = ran /\ cleared' = cleared /\ TypeOK /\ Held
  BY DEF Recheck, Return, Refuse, Interrupted, gate, chat, Inv
<1>2. decision[d].pc # "idle" /\ decision[d].pc # "done"
  BY DEF Recheck, Return, Refuse, Interrupted, AtAwait, At
<1>3. CASE Move(d, "cleaning")
  BY <1>1, <1>2, <1>3, MoveRetreats, SameMoves, Kept
<1>4. CASE \/ decision[d].pc = "claimed" /\ (Move(d, "rejecting") \/ Move(d, "executing"))
           \/ decision[d].pc = "calling" /\ Move(d, "completing")
  <2>1. PICK pc \in {"rejecting", "executing", "completing"} :
            /\ decision'[d].pc = pc /\ Asked(d)' = Asked(d)
            /\ \A e \in Decisions \ {d} : decision'[e] = decision[e]
            /\ pc = "completing" => decision[d].pc = "calling"
            /\ pc # "completing" => decision[d].pc = "claimed"
    BY <1>1, <1>4, MoveFacts DEF DecisionPcs
  <2>2. Held'
    BY <1>1, <2>1 DEF Held, Holding, Is, Asked
  <2> QED BY <1>1, <2>2 DEF Inv, CallbackOnce, ReceiptsTrue, ClearedNeverRuns, Is
<1>5. CASE Recheck(d)
  <2>1. decision[d].pc = "claimed"
    BY <1>5 DEF Recheck, At
  <2>2. Move(d, "cleaning") \/ Move(d, "rejecting") \/ Move(d, "executing")
    <3>1. CASE decision[d].cancelling
      BY <1>5, <3>1 DEF Recheck
    <3>2. CASE ~decision[d].cancelling /\ Expired(decision[d].request)
      BY <1>5, <3>2 DEF Recheck
    <3>3. CASE ~decision[d].cancelling /\ ~Expired(decision[d].request)
      BY <1>5, <3>3 DEF Recheck
    <3> QED BY <3>1, <3>2, <3>3
  <2> QED BY <1>3, <1>4, <2>1, <2>2
<1>6. CASE Return(d)
  <2>1. decision[d].pc = "calling"
    BY <1>6 DEF Return, At
  <2>2. PICK ok \in BOOLEAN : Move(d, IF ok /\ InScope(d) /\ ~decision[d].cancelling THEN "completing" ELSE "cleaning")
    BY <1>6 DEF Return
  <2>3. CASE ok /\ InScope(d) /\ ~decision[d].cancelling
    BY <1>4, <2>1, <2>2, <2>3
  <2>4. CASE ~(ok /\ InScope(d) /\ ~decision[d].cancelling)
    BY <1>3, <2>2, <2>4
  <2> QED BY <2>3, <2>4
<1>7. CASE Refuse(d) \/ Interrupted(d)
  BY <1>3, <1>7 DEF Refuse, Interrupted
<1> QED BY <1>5, <1>6, <1>7

LEMMA DispatchKept == ASSUME Inv, TypeOK', NEW d \in Decisions, Dispatch(d) PROVE Inv'
<1> DEFINE r == Asked(d)
<1>1. /\ records' = records /\ cleared' = cleared /\ TypeOK /\ Held /\ ran \in [Requests -> Nat]
      /\ decision[d].pc = "executing" /\ Move(d, "calling")
  BY DEF Dispatch, chat, Inv, TypeOK, At
<1>2. decision'[d].pc = "calling" /\ Asked(d)' = r /\ \A e \in Decisions \ {d} : decision'[e] = decision[e]
  BY <1>1, MoveFacts DEF DecisionPcs
<1>3. r \in Requests /\ Is(r, "executing") /\ records[r].claim = d /\ ran[r] = 0
  BY <1>1 DEF Held, Holding
<1>4. ran'[r] = 1 /\ \A s \in Requests \ {r} : ran'[s] = ran[s]
  BY <1>1, <1>3 DEF Dispatch, Asked
<1>5. Held'
  BY <1>1, <1>2, <1>3, <1>4 DEF Held, Holding, Is, Asked
<1>6. CallbackOnce' /\ ReceiptsTrue' /\ ClearedNeverRuns'
  <2>1. cleared \subseteq Requests
    BY <1>1 DEF TypeOK
  <2>2. r \notin cleared
    BY <1>3 DEF Inv, ClearedNeverRuns, Is
  <2> QED BY <1>1, <1>3, <1>4, <2>1, <2>2 DEF Inv, CallbackOnce, ReceiptsTrue, ClearedNeverRuns, Is
<1> QED BY <1>5, <1>6 DEF Inv

LEMMA FinishKept == ASSUME Inv, TypeOK', NEW d \in Decisions, Finish(d) \/ FinishFails(d) PROVE Inv'
<1> DEFINE r == Asked(d)
           status == Status[decision[d].pc]
<1>1. ran' = ran /\ cleared' = cleared /\ TypeOK /\ Held
  BY DEF Finish, FinishFails, chat, Inv
<1>2. /\ decision[d].pc \in {"rejecting", "completing", "cleaning"} /\ r \in Requests
      /\ status = IF decision[d].pc = "rejecting" THEN "rejected"
                  ELSE IF decision[d].pc = "completing" THEN "completed" ELSE "unknown"
  BY <1>1 DEF Finish, FinishFails, Status, Held
<1>3. \A s \in Requests : \/ records'[s] = records[s]
                          \/ /\ s = r /\ Is(r, "executing") /\ records[r].claim = d
                             /\ records'[r].status = status /\ records'[r].claim = d
  <2>1. status \in {"completed", "rejected", "unknown"}
    BY <1>2
  <2>2. \A s \in Requests : \/ Outcome(d, status)[s] = records[s]
                            \/ /\ s = r /\ Is(r, "executing") /\ records[r].claim = d
                               /\ Outcome(d, status)[r].status = status /\ Outcome(d, status)[r].claim = d
    BY <1>1, <1>2, <2>1, OutcomeFacts
  <2> QED BY <2>2 DEF Finish, FinishFails
<1>4. /\ \A e \in Decisions \ {d} : decision'[e] = decision[e]
      /\ \/ decision'[d].pc = "done"
         \/ decision'[d].pc = "cleaning" /\ Asked(d)' = r
  BY <1>1, MoveFacts, MoveDone DEF Finish, FinishFails, DecisionPcs
<1>5. /\ status = "rejected" => ran[r] = 0
      /\ status = "completed" => ran[r] = 1
  BY <1>1, <1>2 DEF Held
<1> HIDE DEF status
<1>6. Held'
  BY <1>1, <1>2, <1>3, <1>4 DEF Held, Holding, Is, Asked
<1>7. CallbackOnce' /\ ReceiptsTrue'
  BY <1>1, <1>2, <1>3, <1>5 DEF Inv, CallbackOnce, ReceiptsTrue, Is
<1>8. ClearedNeverRuns'
  <2>1. cleared \subseteq Requests
    BY <1>1 DEF TypeOK
  <2> QED BY <1>1, <1>2, <1>3, <2>1 DEF Inv, ClearedNeverRuns, Is
<1> QED BY <1>6, <1>7, <1>8 DEF Inv

LEMMA CommandKept == ASSUME Inv, TypeOK', NEW d \in Decisions, Command(d) PROVE Inv'
<1>1. records' = records /\ ran' = ran /\ cleared' = cleared /\ TypeOK /\ Held /\ decision[d].pc = "idle"
  BY DEF Command, gate, chat, Inv, At
<1>2. /\ decision'[d].pc = "claiming" /\ Asked(d)' \in Requests
      /\ \A e \in Decisions \ {d} : decision'[e] = decision[e]
  BY <1>1 DEF Command, Quiet, TypeOK, Asked
<1>3. Held'
  BY <1>1, <1>2 DEF Held, Holding, Is, Asked
<1> QED BY <1>1, <1>3 DEF Inv, CallbackOnce, ReceiptsTrue, ClearedNeverRuns, Is

LEMMA InvStep == Inv /\ [Next]_vars => Inv'
<1> SUFFICES ASSUME Inv, [Next]_vars PROVE Inv'
  OBVIOUS
<1>1. TypeOK'
  BY TypesStep DEF Inv
<1>2. \A d \in Decisions : decision[d].pc \in DecisionPcs
  BY DEF Inv, TypeOK, DecisionPcs
<1>3. ASSUME decision' = decision, ran' = ran, cleared' = cleared, Moves(records') PROVE Inv'
  <2>1. Retreats
    BY <1>3 DEF Retreats, Asked
  <2> QED BY <1>1, <1>3, <2>1, Kept
<1>4. CASE UNCHANGED vars
  BY <1>3, <1>4, SameMoves DEF vars
<1>5. ASSUME NEW j \in Jobs, Screen(j) \/ Offer(j) \/ ProposalLost(j) PROVE Inv'
  BY <1>3, <1>5, SameMoves DEF Screen, Offer, ProposalLost, gate, chat
<1>6. ASSUME NEW j \in Jobs, Proposed(j) PROVE Inv'
  BY <1>3, <1>6, ProposalMoves DEF Proposed, chat, Inv
<1>7. ASSUME NEW d \in Decisions, Command(d) \/ Decide(d) PROVE Inv'
  BY <1>1, <1>7, ClaimKept, AdvanceKept, DispatchKept, FinishKept, CommandKept DEF Decide
<1>8. ASSUME NEW e \in Endings, End(e) PROVE Inv'
  <2>1. Retreats
    <3>1. decision \in [Decisions -> DecisionType]
      BY DEF Inv, TypeOK, DecisionType, DecisionPcs
    <3>2. ASSUME NEW d \in Decisions
          PROVE  /\ [decision[d] EXCEPT !.cancelling = TRUE].pc = decision[d].pc
                 /\ [decision[d] EXCEPT !.cancelling = TRUE].request = decision[d].request
      BY <3>1 DEF DecisionType
    <3>3. \A d \in Decisions : decision'[d] = decision[d] \/ decision'[d] = [decision[d] EXCEPT !.cancelling = TRUE]
      BY <1>8 DEF End, Cancelled
    <3>4. \A d \in Decisions : decision'[d].pc = decision[d].pc /\ decision'[d].request = decision[d].request
      BY <3>2, <3>3
    <3> QED BY <3>4 DEF Retreats, Asked
  <2> QED BY <1>1, <1>8, <2>1, SameMoves, Kept DEF End, gate
<1>9. ASSUME NEW e \in Endings, Clear(e) PROVE Inv'
  <2>1. \A r \in Requests : records'[r] = IF Is(r, "pending") THEN [records[r] EXCEPT !.status = "rejected"]
                                          ELSE records[r]
    BY <1>9 DEF Clear
  <2>2. \A r \in Pending : records'[r].status = "rejected" /\ records'[r].claim = records[r].claim
    BY <2>1 DEF Pending, Is, Inv, TypeOK
  <2>3. Moves(records')
    BY <2>1, <2>2 DEF Moves, Pending
  <2>4. Retreats
    BY <1>9 DEF Clear, Retreats, Asked
  <2>5. \A r \in cleared' : r \in cleared \/ (Is(r, "pending") /\ records'[r].status = "rejected")
    BY <1>9, <2>2 DEF Clear, Pending
  <2> QED BY <1>1, <1>9, <2>3, <2>4, <2>5, Kept DEF Clear
<1>10. ASSUME NEW e \in Endings, EndFails(e) \/ Erase(e) \/ Leave(e) \/ LeaveFails(e) PROVE Inv'
  BY <1>3, <1>10, SameMoves DEF EndFails, Erase, Leave, LeaveFails, gate
<1>11. CASE Tick
  BY <1>3, <1>11, SameMoves DEF Tick, gate, chat
<1>12. CASE Crash
  <2>1. Retreats
    BY <1>12 DEF Crash, Retreats, Quiet, Over, At, Asked, Inv, Held
  <2> QED BY <1>1, <1>12, <2>1, SameMoves, Kept DEF Crash, gate
<1> QED BY <1>4, <1>5, <1>6, <1>7, <1>8, <1>9, <1>10, <1>11, <1>12 DEF Next

LEMMA InvInit == Init => Inv
<1>1. Init => Held
  BY Constants DEF Init, Held, Holding, Quiet, Absent
<1>2. Init => CallbackOnce /\ ReceiptsTrue /\ ClearedNeverRuns
  BY DEF Init, Absent, CallbackOnce, ReceiptsTrue, ClearedNeverRuns, Is
<1> QED BY <1>1, <1>2, TypesInit DEF Inv

LEMMA InvAlways == Spec => []Inv
BY InvInit, InvStep, PTL DEF Spec

-----------------------------------------------------------------------------
(* What is executing is attended.                                          *)

Attended(r, d) == Active(d) /\ decision[d].claimed /\ Asked(d) = r /\ records[r].claim = d

\* It is enough that no step without a fault leaves a request executing whose
\* decision ends.
LEMMA SettlesStep ==
    ASSUME TypeOK, OutcomesSettle, faults' = faults,
           \A r \in Requests : records'[r].status = "executing" =>
               \/ \E d \in Decisions : Attended(r, d)'
               \/ Is(r, "executing") /\ \A d \in Decisions : Attended(r, d) => Attended(r, d)'
    PROVE  OutcomesSettle'
BY DEF OutcomesSettle, Attended, Asked, Is, Active

LEMMA MoveAttended ==
    ASSUME TypeOK, NEW d \in Decisions, NEW pc \in DecisionPcs \ {"idle", "done"}, Move(d, pc),
           NEW r \in Requests, NEW e \in Decisions, Attended(r, e), records'[r].claim = records[r].claim
    PROVE  Attended(r, e)'
<1>1. decision \in [Decisions -> DecisionType] /\ decision' = [decision EXCEPT ![d] = [decision[d] EXCEPT !.pc = pc]]
  BY DEF TypeOK, DecisionType, DecisionPcs, Move
<1>2. /\ decision'[e].claimed = decision[e].claimed /\ decision'[e].request = decision[e].request
      /\ decision'[e].pc \in {pc, decision[e].pc}
  BY <1>1 DEF DecisionType
<1> QED BY <1>2 DEF Attended, Asked, Active

LEMMA OutcomesStep == Inv /\ OutcomesSettle /\ [Next]_vars => OutcomesSettle'
<1> SUFFICES ASSUME Inv, OutcomesSettle, [Next]_vars PROVE OutcomesSettle'
  OBVIOUS
<1>0. /\ TypeOK /\ Held /\ faults \in Nat /\ records \in [Requests -> RecordType]
      /\ decision \in [Decisions -> DecisionType]
  BY DEF Inv, TypeOK, RecordType, DecisionType, DecisionPcs
<1>1. CASE faults' = faults + 1
  BY <1>0, <1>1 DEF OutcomesSettle
<1>2. CASE faults' = faults /\ decision' = decision /\ Moves(records')
  <2>1. \A r \in Requests : records'[r].status = "executing" => records'[r] = records[r]
    BY <1>2 DEF Moves
  <2> QED BY <1>0, <1>2, <2>1, SettlesStep DEF Attended, Asked, Active, Is
<1>3. ASSUME NEW d \in Decisions, Command(d) PROVE OutcomesSettle'
  <2>1. records' = records /\ faults' = faults /\ ~Active(d) /\ \A e \in Decisions \ {d} : decision'[e] = decision[e]
    BY <1>0, <1>3 DEF Command, gate, At, Active
  <2> QED BY <1>0, <2>1, SettlesStep DEF Attended, Asked, Active, Is
<1>4. ASSUME NEW d \in Decisions, Claim(d) PROVE OutcomesSettle'
  <2>1. At(d, "claiming") /\ faults' = faults /\ records' = Judged(d)
    BY <1>4 DEF Claim
  <2>2. /\ Claims(d) => /\ Is(Asked(d), "pending")
                        /\ Judged(d) = [records EXCEPT ![Asked(d)].status = "executing", ![Asked(d)].claim = d]
        /\ ~Claims(d) => Moves(Judged(d))
    BY <1>0, <2>1, JudgedFacts
  <2>3. Asked(d) \in Requests /\ \A r \in Requests : ~Attended(r, d)
    BY <1>0, <2>1 DEF Held, At, Attended, Asked
  <2>4. \A e \in Decisions \ {d} : decision'[e] = decision[e]
    BY <1>0, <1>4 DEF Claim
  <2>5. CASE ~Claims(d)
    <3>1. \A r \in Requests : records'[r].status = "executing" => records'[r] = records[r]
      BY <2>1, <2>2, <2>5 DEF Moves
    <3> QED BY <1>0, <2>1, <2>3, <2>4, <3>1, SettlesStep DEF Attended, Asked, Active, Is
  <2>6. CASE Claims(d)
    <3>1. /\ records'[Asked(d)].claim = d
          /\ \A r \in Requests \ {Asked(d)} : records'[r] = records[r]
      BY <1>0, <2>1, <2>2, <2>3, <2>6 DEF RecordType
    <3>2. ASSUME NEW r \in Requests, r = Asked(d) PROVE \E e \in Decisions : Attended(r, e)'
      <4>1. \E pc \in {"cleaning", "claimed"} :
               decision' = [decision EXCEPT ![d] = [decision[d] EXCEPT !.claimed = TRUE, !.pc = pc]]
        BY <1>4, <2>6 DEF Claim
      <4>2. decision'[d].claimed /\ decision'[d].request = r /\ decision'[d].pc \in {"cleaning", "claimed"}
        BY <1>0, <3>2, <4>1 DEF DecisionType, Asked
      <4>3. Attended(r, d)'
        BY <3>1, <3>2, <4>2 DEF Attended, Asked, Active
      <4> QED BY <4>3
    <3>3. ASSUME NEW r \in Requests, records'[r].status = "executing", r # Asked(d)
          PROVE  Is(r, "executing") /\ \A e \in Decisions : Attended(r, e) => Attended(r, e)'
      BY <2>3, <2>4, <3>1, <3>3 DEF Attended, Asked, Active, Is
    <3>4. \A r \in Requests : records'[r].status = "executing" =>
             \/ \E e \in Decisions : Attended(r, e)'
             \/ Is(r, "executing") /\ \A e \in Decisions : Attended(r, e) => Attended(r, e)'
      BY <3>2, <3>3
    <3> QED BY <1>0, <2>1, <3>4, SettlesStep
  <2> QED BY <2>5, <2>6
<1>5. ASSUME NEW d \in Decisions, Recheck(d) \/ Dispatch(d) \/ Refuse(d) \/ Return(d) \/ Interrupted(d)
      PROVE  OutcomesSettle'
  <2>1. records' = records /\ faults' = faults
    BY <1>5 DEF Recheck, Dispatch, Refuse, Return, Interrupted, gate
  <2>2. \E pc \in DecisionPcs \ {"idle", "done"} : Move(d, pc)
    BY <1>5 DEF Recheck, Dispatch, Refuse, Return, Interrupted, DecisionPcs
  <2>3. \A r \in Requests, e \in Decisions : Attended(r, e) => Attended(r, e)'
    BY <1>0, <2>1, <2>2, MoveAttended
  <2> QED BY <1>0, <2>1, <2>3, SettlesStep DEF Is
<1>6. ASSUME NEW d \in Decisions, Finish(d) PROVE OutcomesSettle'
  <2> DEFINE status == Status[decision[d].pc]
  <2>1. /\ decision[d].pc \in {"rejecting", "completing", "cleaning"} /\ Asked(d) \in Requests /\ faults' = faults
        /\ records' = Outcome(d, status)
    BY <1>0, <1>6 DEF Finish, Status, Held
  <2>2. status \in {"completed", "rejected", "unknown"}
    BY <2>1 DEF Status
  <2> HIDE DEF status
  <2>3. \A r \in Requests : records'[r] = records[r] \/ records'[r].status = status
    BY <1>0, <2>1, <2>2, OutcomeFacts
  <2>4. \A r \in Requests : records'[r].status = "executing" => records'[r] = records[r]
    BY <2>2, <2>3
  <2>5. ASSUME NEW r \in Requests, records'[r].status = "executing" PROVE ~Attended(r, d)
    <3>1. SUFFICES ASSUME Attended(r, d) PROVE FALSE
      OBVIOUS
    <3>2. Is(r, "executing") /\ records[r].claim = d /\ r = Asked(d)
      BY <2>4, <2>5, <3>1 DEF Attended, Is
    <3>3. Outcome(d, status) = [records EXCEPT ![r].status = status]
      BY <3>2 DEF Outcome, Asked
    <3> QED BY <1>0, <2>1, <2>2, <2>5, <3>3 DEF RecordType
  <2>6. \A e \in Decisions \ {d} : decision'[e] = decision[e]
    BY <1>0, <1>6, MoveFacts, MoveDone DEF Finish, DecisionPcs
  <2>7. ASSUME NEW r \in Requests, records'[r].status = "executing", NEW e \in Decisions, Attended(r, e)
        PROVE  Attended(r, e)'
    BY <2>4, <2>5, <2>6, <2>7 DEF Attended, Asked, Active
  <2> QED BY <1>0, <2>1, <2>4, <2>7, SettlesStep DEF Is
<1>7. ASSUME NEW e \in Endings, End(e) PROVE OutcomesSettle'
  <2>1. records' = records /\ faults' = faults
    BY <1>7 DEF End, gate
  <2>2. \A d \in Decisions : decision'[d] = decision[d] \/ decision'[d] = [decision[d] EXCEPT !.cancelling = TRUE]
    BY <1>7 DEF End, Cancelled
  <2>3. \A d \in Decisions : /\ decision'[d].pc = decision[d].pc /\ decision'[d].request = decision[d].request
                             /\ decision'[d].claimed = decision[d].claimed
    BY <1>0, <2>2 DEF DecisionType
  <2> QED BY <1>0, <2>1, <2>3, SettlesStep DEF Attended, Asked, Active, Is
<1>8. ASSUME NEW e \in Endings, Clear(e) PROVE OutcomesSettle'
  <2>1. decision' = decision /\ faults' = faults
    BY <1>8 DEF Clear
  <2>2. \A r \in Requests : records'[r].status = "executing" => records'[r] = records[r]
    BY <1>0, <1>8 DEF Clear, RecordType
  <2> QED BY <1>0, <2>1, <2>2, SettlesStep DEF Attended, Asked, Active, Is
<1>9. ASSUME NEW j \in Jobs, Screen(j) \/ Offer(j) \/ Proposed(j) PROVE OutcomesSettle'
  BY <1>0, <1>2, <1>9, SameMoves, ProposalMoves DEF Screen, Offer, Proposed, gate
<1>10. ASSUME NEW e \in Endings, Erase(e) \/ Leave(e) PROVE OutcomesSettle'
  BY <1>2, <1>10, SameMoves DEF Erase, Leave, gate
<1>11. CASE Tick
  BY <1>2, <1>11, SameMoves DEF Tick, gate
<1>12. CASE UNCHANGED vars
  BY <1>2, <1>12, SameMoves DEF vars
<1> QED BY <1>1, <1>3, <1>4, <1>5, <1>6, <1>7, <1>8, <1>9, <1>10, <1>11, <1>12
        DEF Next, Decide, ProposalLost, ClaimFails, FinishFails, EndFails, LeaveFails, Crash

-----------------------------------------------------------------------------
(* The theorems.                                                           *)

\* The gate's records and the calls in progress have the shape the code gives them.
THEOREM TypesAlways == Spec => []TypeOK
<1>1. Inv => TypeOK
  BY DEF Inv
<1> QED BY <1>1, InvAlways, PTL

\* Whatever is approved, cancelled, retried or lost, and however many messages
\* approve it, the call of a request is made at most once: only the decision
\* whose claim is committed makes it, and it never returns to where it would.
THEOREM CallbacksOnce == Spec => []CallbackOnce
<1>1. Inv => CallbackOnce
  BY DEF Inv
<1> QED BY <1>1, InvAlways, PTL

\* A receipt never says that nothing was run for a call that was made, and
\* never that a call completed that was not made.
THEOREM ReceiptsAreTrue == Spec => []ReceiptsTrue
<1>1. Inv => ReceiptsTrue
  BY DEF Inv
<1> QED BY <1>1, InvAlways, PTL

\* What a forget or a removal found pending stays rejected, whatever decisions
\* were under way.
THEOREM ClearedStayRejected == Spec => []ClearedNeverRuns
<1>1. Inv => ClearedNeverRuns
  BY DEF Inv
<1> QED BY <1>1, InvAlways, PTL

\* While no store call fails and the process lives, an executing request has a
\* decision that will give it an outcome: no cancellation loses it.
THEOREM OutcomesAlwaysSettle == Spec => []OutcomesSettle
<1>1. Init => OutcomesSettle
  BY DEF Init, Absent, OutcomesSettle, Is
<1>2. Inv /\ OutcomesSettle /\ [Next]_vars => OutcomesSettle'
  BY OutcomesStep
<1> QED BY <1>1, <1>2, InvAlways, PTL DEF Spec

\* An attempt whose outcome is not known is never offered again and never evicted.
THEOREM UncertainReceiptsKept == Spec => UncertainKept
<1> DEFINE Keep == \A r \in Requests :
        /\ Is(r, "executing") => records'[r].status \in {"executing", "completed", "rejected", "unknown"}
        /\ Is(r, "unknown") => records'[r] = records[r]
<1>1. ASSUME Inv, [Next]_vars PROVE Keep
  <2> DEFINE Same(new) == \A r \in Requests : records[r].status \in {"executing", "unknown"} => new[r] = records[r]
  <2>0. \A new : Moves(new) => Same(new)
    BY DEF Moves, Is
  <2>1. ASSUME NEW j \in Jobs, Proposed(j) PROVE Same(records')
    BY <1>1, <2>0, <2>1, ProposalMoves DEF Proposed, Inv
  <2>2. ASSUME NEW d \in Decisions, Claim(d) \/ ClaimFails(d) PROVE Same(records')
    <3>1. records \in [Requests -> RecordType]
      BY <1>1 DEF Inv, TypeOK, RecordType
    <3>2. Same(Judged(d))
      BY <3>1 DEF Judged, Pending, Is
    <3> QED BY <2>2, <3>2 DEF Claim, ClaimFails
  <2>3. ASSUME NEW d \in Decisions, Finish(d) \/ FinishFails(d) PROVE Keep
    <3>1. decision[d].pc \in DOMAIN Status /\ Asked(d) \in Requests
      BY <1>1, <2>3 DEF Finish, FinishFails, Status, Inv, Held
    <3>2. Status[decision[d].pc] \in {"completed", "rejected", "unknown"}
      BY <3>1 DEF Status
    <3>3. \A s \in Requests :
             LET new == Outcome(d, Status[decision[d].pc])
             IN  \/ new[s] = records[s]
                 \/ Is(s, "executing") /\ new[s].status = Status[decision[d].pc]
      BY <1>1, <3>1, <3>2, OutcomeFacts DEF Inv
    <3>4. \A s \in Requests : \/ records'[s] = records[s]
                              \/ Is(s, "executing") /\ records'[s].status = Status[decision[d].pc]
      BY <2>3, <3>3 DEF Finish, FinishFails
    <3> QED BY <3>2, <3>4 DEF Is
  <2>4. ASSUME NEW e \in Endings, Clear(e) PROVE Same(records')
    BY <2>4 DEF Clear, Is
  <2>5. CASE records' = records
    BY <2>5 DEF Is
  <2>6. Same(records') => Keep
    BY DEF Is
  <2> HIDE DEF Keep, Same
  <2> QED BY <1>1, <2>1, <2>2, <2>3, <2>4, <2>5, <2>6
          DEF Next, Decide, Screen, Offer, ProposalLost, Command, Recheck, Dispatch, Refuse, Return, Interrupted,
              End, EndFails, Erase, Leave, LeaveFails, Tick, Crash, vars, gate
<1>2. Inv /\ [Next]_vars => [Keep]_vars
  BY <1>1
<1> QED BY <1>2, InvAlways, PTL DEF Spec, UncertainKept

-----------------------------------------------------------------------------
(* The gate keeps to the claim protocol.                                   *)

\* The receipts, as the claim protocol sees them.
Receipts == [r \in Requests |-> [e \in {"call"} |-> Receipt(r)]]

\* Rejecting what waits, removing what is settled and asking anew turn effects
\* down that were not attempted, or change nothing that the protocol sees.
LEMMA MovesRefuse ==
    ASSUME Inv, TypeOK', Moves(records'), UNCHANGED ran
    PROVE  \A r \in Requests : \/ Receipt(r)' = Receipt(r)
                               \/ Receipt(r)' = "refused" /\ Receipt(r) = "none" /\ ran[r] = 0
<1> SUFFICES ASSUME NEW r \in Requests
             PROVE  \/ Receipt(r)' = Receipt(r)
                    \/ Receipt(r)' = "refused" /\ Receipt(r) = "none" /\ ran[r] = 0
  OBVIOUS
<1>1. /\ records[r].status \in {"none", "pending", "rejected"} => ran[r] = 0
      /\ Is(r, "completed") => ran[r] = 1
      /\ ran'[r] = ran[r] /\ ran[r] \in Nat
  BY DEF Inv, ReceiptsTrue, TypeOK
<1>2. CASE records'[r] = records[r]
  BY <1>1, <1>2 DEF Receipt, Is
<1>3. CASE Is(r, "pending") /\ records'[r].status = "rejected"
  BY <1>1, <1>3 DEF Receipt, Is
<1>4. CASE Is(r, "completed") /\ records'[r].status = "evicted"
  BY <1>1, <1>4 DEF Receipt, Is
<1>5. CASE records[r].status \in {"pending", "rejected"} /\ records'[r].status = "evicted"
  BY <1>1, <1>5 DEF Receipt, Is
<1>6. CASE Is(r, "none") /\ records'[r].status = "pending"
  BY <1>1, <1>6 DEF Receipt, Is
<1> QED BY <1>2, <1>3, <1>4, <1>5, <1>6 DEF Moves

\* A receipt is one that the protocol knows.
LEMMA ReceiptTyped == ASSUME TypeOK, NEW r \in Requests PROVE Receipt(r) \in Claimed!Statuses
BY DEF TypeOK, Statuses, Receipt, Is, Claimed!Statuses

\* Steps that turn down what was not attempted.
LEMMA Refusals ==
    ASSUME TypeOK, TypeOK', UNCHANGED ran,
           \A r \in Requests : \/ Receipt(r)' = Receipt(r)
                               \/ Receipt(r)' = "refused" /\ Receipt(r) \in {"none", "claimed"} /\ ran[r] = 0
    PROVE  [Claimed!Next]_(Claimed!claims)
<1>1. CASE \A r \in Requests : Receipt(r)' = Receipt(r)
  BY <1>1 DEF Claimed!claims
<1>2. CASE \E r \in Requests : Receipt(r)' # Receipt(r)
  <2>1. Receipts' # Receipts
    BY <1>2 DEF Receipts
  <2>2. \A r \in Requests : Receipt(r)' \in Claimed!Statuses
    <3>1. \A r \in Requests : Receipt(r) \in Claimed!Statuses
      BY ReceiptTyped
    <3> QED BY <3>1 DEF Claimed!Statuses
  <2>3. Receipts' \in [Requests -> [{"call"} -> Claimed!Statuses]]
    BY <2>2 DEF Receipts
  <2>4. Claimed!Refuse
    BY <2>3 DEF Claimed!Refuse, Claimed!Statuses, Receipts
  <2> QED BY <2>1, <2>4 DEF Claimed!Next, Receipts
<1> QED BY <1>1, <1>2

\* Steps that change one receipt.
LEMMA OneReceipt ==
    ASSUME NEW r \in Requests, NEW x, Receipt(r)' = x, Receipt(r) # x,
           \A s \in Requests \ {r} : Receipt(s)' = Receipt(s)
    PROVE  Receipts' = [Receipts EXCEPT ![r]["call"] = x] /\ Receipts' # Receipts
<1>1. PICK f, g : f = [s \in Requests |-> Receipt(s)] /\ g = [s \in Requests |-> Receipt(s)']
  OBVIOUS
<1>2. g[r] = x /\ f[r] # x /\ \A s \in Requests \ {r} : g[s] = f[s]
  BY <1>1
<1>3. Receipts = [s \in Requests |-> [e \in {"call"} |-> f[s]]] /\ Receipts' = [s \in Requests |-> [e \in {"call"} |-> g[s]]]
  BY <1>1 DEF Receipts
<1>4. Receipts'[r] = [Receipts[r] EXCEPT !["call"] = x] /\ Receipts'[r]["call"] = x /\ Receipts[r]["call"] = f[r]
  BY <1>2, <1>3
<1>5. \A s \in Requests \ {r} : Receipts'[s] = Receipts[s]
  BY <1>2, <1>3
<1>6. Receipts = [s \in Requests |-> Receipts[s]] /\ Receipts' = [s \in Requests |-> Receipts'[s]]
  BY <1>3
<1>7. Receipts' = [Receipts EXCEPT ![r] = [Receipts[r] EXCEPT !["call"] = x]]
  BY <1>4, <1>5, <1>6
<1> QED BY <1>2, <1>4, <1>7

\* A committed claim: nothing else of the request was claimed, for it has one effect.
LEMMA ClaimProtocol ==
    ASSUME Inv, TypeOK', NEW d \in Decisions, Claim(d) \/ ClaimFails(d)
    PROVE  [Claimed!Next]_(Claimed!claims)
<1>1. At(d, "claiming") /\ ran' = ran /\ TypeOK /\ Held
  BY DEF Claim, ClaimFails, Inv
<1>2. /\ Claims(d) => /\ Is(Asked(d), "pending")
                      /\ Judged(d) = [records EXCEPT ![Asked(d)].status = "executing", ![Asked(d)].claim = d]
      /\ ~Claims(d) => Moves(Judged(d))
  BY <1>1, JudgedFacts
<1>3. CASE Moves(records')
  BY <1>1, <1>3, MovesRefuse, Refusals
<1>4. CASE Claims(d) /\ records' = Judged(d)
  <2>1. PICK r \in Requests : r = Asked(d)
    BY <1>1 DEF Held, At
  <2>2. records \in [Requests -> RecordType]
    BY <1>1 DEF TypeOK, RecordType
  <2>3. /\ records[r].status = "pending" /\ records'[r].status = "executing"
        /\ \A s \in Requests \ {r} : records'[s] = records[s]
    BY <1>2, <1>4, <2>1, <2>2 DEF Is, RecordType
  <2>4. Receipt(r) = "none" /\ Receipt(r)' = "claimed" /\ \A s \in Requests \ {r} : Receipt(s)' = Receipt(s)
    BY <1>1, <2>3 DEF Receipt, Is
  <2>5. Receipts' = [Receipts EXCEPT ![r]["call"] = "claimed"] /\ Receipts' # Receipts
    BY <2>4, OneReceipt
  <2>6. Receipts[r]["call"] = "none"
    BY <2>4 DEF Receipts
  <2>7. Claimed!Claim(r, "call")
    BY <2>5, <2>6 DEF Claimed!Claim, Claimed!Settled, Claimed!Completed, Anytime, Receipts
  <2> QED BY <1>1, <2>5, <2>7 DEF Claimed!Next, Receipts
<1> QED BY <1>2, <1>3, <1>4, SameMoves DEF Claim, ClaimFails

\* The one attempt.
LEMMA DispatchProtocol == ASSUME Inv, NEW d \in Decisions, Dispatch(d) PROVE Claimed!Next
<1>1. PICK r \in Requests : r = Asked(d) /\ Is(r, "executing") /\ ran[r] = 0
  BY DEF Dispatch, At, Inv, Held, Holding
<1>2. ran \in [Requests -> Nat] /\ records' = records /\ ran' = [ran EXCEPT ![r] = 1]
  BY <1>1 DEF Dispatch, Inv, TypeOK, Asked
<1>3. Receipt(r) = "claimed" /\ \A s \in Requests : Receipt(s)' = Receipt(s)
  BY <1>1, <1>2 DEF Receipt, Is
<1>4. Receipts' = Receipts /\ Receipts[r]["call"] = "claimed"
  BY <1>3 DEF Receipts
<1> DEFINE C(x) == [s \in Requests |-> [e \in {"call"} |-> x[s]]]
<1>5. C(ran') = [C(ran) EXCEPT ![r]["call"] = 1] /\ C(ran)[r]["call"] = 0
  BY <1>1, <1>2
<1>6. C(ran') # C(ran)
  BY <1>5
<1>7. Claimed!Attempt(r, "call")
  BY <1>4, <1>5 DEF Claimed!Attempt, Receipts
<1> QED BY <1>4, <1>6, <1>7 DEF Claimed!Next, Receipts

\* An outcome: the receipt of an attempt, its doubt, or the refusal of a claim that
\* was never acted on.
LEMMA FinishProtocol ==
    ASSUME Inv, TypeOK', NEW d \in Decisions, Finish(d) \/ FinishFails(d)
    PROVE  [Claimed!Next]_(Claimed!claims)
<1>1. ran' = ran /\ TypeOK /\ Held
  BY DEF Finish, FinishFails, Inv
<1>2. PICK r \in Requests : r = Asked(d)
  BY <1>1 DEF Finish, FinishFails, Status, Held
<1>3. PICK status : status = Status[decision[d].pc]
  OBVIOUS
<1>4. /\ decision[d].pc \in {"rejecting", "completing", "cleaning"}
      /\ status = IF decision[d].pc = "rejecting" THEN "rejected"
                  ELSE IF decision[d].pc = "completing" THEN "completed" ELSE "unknown"
  BY <1>3 DEF Finish, FinishFails, Status
<1>5. \/ records' = records
      \/ /\ Is(r, "executing") /\ records'[r].status = status
         /\ \A s \in Requests \ {r} : records'[s] = records[s]
  <2>1. status \in {"completed", "rejected", "unknown"}
    BY <1>4
  <2>2. Outcome(d, status) = records \/ (Is(r, "executing") /\ Outcome(d, status) = [records EXCEPT ![r].status = status])
    BY <1>2 DEF Outcome, Asked
  <2>3. records \in [Requests -> RecordType]
    BY <1>1 DEF TypeOK, RecordType
  <2>4. CASE records' = records
    BY <2>4
  <2>5. CASE Is(r, "executing") /\ records' = [records EXCEPT ![r].status = status]
    BY <2>3, <2>5 DEF RecordType
  <2>6. records' = records \/ records' = Outcome(d, status)
    BY <1>3 DEF Finish, FinishFails
  <2> QED BY <2>2, <2>4, <2>5, <2>6
<1>6. /\ status = "rejected" => ran[r] = 0
      /\ status = "completed" => ran[r] = 1
  BY <1>1, <1>2, <1>4 DEF Held, Asked
<1>7. CASE records' = records
  BY <1>1, <1>7, SameMoves, MovesRefuse, Refusals
<1>8. CASE /\ Is(r, "executing") /\ records'[r].status = status
           /\ \A s \in Requests \ {r} : records'[s] = records[s]
  <2>1. /\ Receipt(r) = "claimed" /\ \A s \in Requests \ {r} : Receipt(s)' = Receipt(s)
        /\ Receipt(r)' = IF status = "rejected" THEN "refused" ELSE status
    BY <1>1, <1>4, <1>8 DEF Receipt, Is
  <2>2. CASE status = "rejected"
    BY <1>1, <1>6, <2>1, <2>2, Refusals
  <2>3. CASE status # "rejected"
    <3>1. Receipts' = [Receipts EXCEPT ![r]["call"] = status] /\ Receipts' # Receipts /\ status \in {"completed", "unknown"}
      BY <1>4, <2>1, <2>3, OneReceipt
    <3>2. Receipts[r]["call"] = "claimed" /\ [s \in Requests |-> [e \in {"call"} |-> ran[s]]][r]["call"] = ran[r]
      BY <2>1 DEF Receipts
    <3>3. Claimed!Complete(r, "call") \/ Claimed!Doubt(r, "call")
      BY <1>6, <3>1, <3>2 DEF Claimed!Complete, Claimed!Doubt, Receipts
    <3> QED BY <1>1, <3>1, <3>3 DEF Claimed!Next, Receipts
  <2> QED BY <2>2, <2>3
<1> QED BY <1>5, <1>7, <1>8

\* The gate implements the claim protocol: whatever is approved, cancelled, retried,
\* cleared, evicted or lost, a request's call is claimed before it is attempted, is
\* attempted once, and its receipt says no more than what is known of it.
THEOREM CallbacksKeepClaims == Spec => CallbacksClaimed
<1>1. Init => Claimed!Init
  <2> SUFFICES ASSUME Init PROVE Claimed!Init
    OBVIOUS
  <2>1. \A r \in Requests : Receipt(r) = "none" /\ ran[r] = 0
    BY DEF Init, Absent, Receipt, Is
  <2> QED BY <2>1 DEF Claimed!Init
<1>2. Inv /\ [Next]_vars => [Claimed!Next]_(Claimed!claims)
  <2> SUFFICES ASSUME Inv, [Next]_vars PROVE [Claimed!Next]_(Claimed!claims)
    OBVIOUS
  <2>1. TypeOK'
    BY TypesStep DEF Inv
  <2>2. ASSUME Moves(records'), UNCHANGED ran PROVE [Claimed!Next]_(Claimed!claims)
    BY <2>1, <2>2, MovesRefuse, Refusals DEF Inv
  <2>3. CASE UNCHANGED gate
    BY <2>2, <2>3, SameMoves DEF gate
  <2>4. ASSUME NEW j \in Jobs, Proposed(j) PROVE [Claimed!Next]_(Claimed!claims)
    BY <2>2, <2>4, ProposalMoves DEF Proposed, Inv
  <2>5. ASSUME NEW d \in Decisions, Decide(d) PROVE [Claimed!Next]_(Claimed!claims)
    <3>1. CASE Recheck(d) \/ Refuse(d) \/ Return(d) \/ Interrupted(d)
      BY <2>3, <3>1 DEF Recheck, Refuse, Return, Interrupted
    <3>2. CASE ~(Recheck(d) \/ Refuse(d) \/ Return(d) \/ Interrupted(d))
      BY <2>1, <2>5, <3>2, ClaimProtocol, DispatchProtocol, FinishProtocol DEF Decide
    <3> QED BY <3>1, <3>2
  <2>6. ASSUME NEW e \in Endings, Clear(e) PROVE [Claimed!Next]_(Claimed!claims)
    <3>1. \A r \in Requests : records'[r] = IF Is(r, "pending") THEN [records[r] EXCEPT !.status = "rejected"]
                                            ELSE records[r]
      BY <2>6 DEF Clear
    <3>2. \A r \in Requests : Is(r, "pending") => records'[r].status = "rejected" /\ records'[r].claim = records[r].claim
      BY <3>1 DEF Is, Inv, TypeOK
    <3>3. Moves(records')
      BY <3>1, <3>2 DEF Moves
    <3> QED BY <2>2, <2>6, <3>3 DEF Clear
  <2> QED BY <2>3, <2>4, <2>5, <2>6
          DEF Next, Screen, Offer, ProposalLost, Command, End, EndFails, Erase, Leave, LeaveFails, Tick, Crash, vars, gate
<1> QED BY <1>1, <1>2, InvAlways, PTL DEF Spec, CallbacksClaimed, Claimed!Spec
=============================================================================
