---------------------------- MODULE ToolApprovals ----------------------------
(***************************************************************************)
(* tool_approvals.ToolApprovalGate in the runtime that uses it             *)
(* (autopilot_runtime.AutopilotRuntime, web._call_tool_safe): jobs propose *)
(* consequential tool calls, requesters decide on them in chat messages,   *)
(* and a chat is forgotten or left while both go on.                       *)
(*                                                                         *)
(* One chat.  The gate's records are one document of the conversation      *)
(* store; each edit is one atomic step (ConversationStore shows it is one) *)
(* whose caller, when it is cancelled, still waits for it.  Arguments,     *)
(* digests and message texts are left out: a call is a member of Calls.    *)
(***************************************************************************)
EXTENDS Integers, FiniteSets

CONSTANTS Requests,    \* request ids; one is drawn at most once
          Users,       \* requesters
          Calls,       \* digests of server, tool and arguments
          Jobs,        \* the chat's askers: jobs, one after the other, that propose one call
          Decisions,   \* messages that carry an approve or reject command
          Endings,     \* messages that forget the chat, or report that the agent was removed
          JobUser,     \* JobUser[j]: the requester j works for
          JobCall,     \* JobCall[j]: the call j proposes
          MaxPending,  \* MAX_PENDING
          MaxRecords,  \* MAX_RECORDS
          Ttl,         \* APPROVAL_TTL_SECONDS, in ticks of the clock
          MaxTime,     \* bound: ticks of the clock
          MaxFaults,   \* bound: store errors and crashes
          None

ASSUME ApprovalsAssumption ==
    /\ JobUser \in [Jobs -> Users] /\ JobCall \in [Jobs -> Calls]
    /\ MaxPending \in Nat /\ MaxRecords \in Nat \ {0} /\ Ttl \in Nat /\ MaxTime \in Nat /\ MaxFaults \in Nat
    /\ None \notin Decisions /\ None \notin Users /\ None \notin Calls

VARIABLES records,    \* records[r]: the stored request r
          clock,      \* the gate's clock
          generation, \* _generations of the chat
          removed,    \* the chat's stored tombstone
          job,        \* job[j]: where job j is
          decision,   \* decision[d]: where the handling of message d is, and its locals
          ending,     \* ending[e]: where a forget or a removal is
          ran,        \* history: ran[r], times the effect of r was invoked
          cleared,    \* history: requests that a forget or a removal found pending
          faults      \* history: store errors and crashes so far

vars == <<records, clock, generation, removed, job, decision, ending, ran, cleared, faults>>

Absent == [status |-> "none", user |-> None, call |-> None, at |-> 0, claim |-> None, gen |-> 0]
Quiet == [pc |-> "idle", user |-> None, request |-> None, approve |-> FALSE, gen |-> 0,
          claimed |-> FALSE, cancelling |-> FALSE]
Over == [Quiet EXCEPT !.pc = "done"]

Idle == [pc |-> "idle", gen |-> 0]

Init == /\ records = [r \in Requests |-> Absent]
        /\ clock = 0 /\ generation = 0 /\ removed = FALSE
        /\ job = [j \in Jobs |-> Idle]
        /\ decision = [d \in Decisions |-> Quiet]
        /\ ending = [e \in Endings |-> "idle"]
        /\ ran = [r \in Requests |-> 0]
        /\ cleared = {} /\ faults = 0

Is(r, status) == records[r].status = status
Stored == {r \in Requests : records[r].status \notin {"none", "evicted"}}
Pending == {r \in Requests : Is(r, "pending")}
Expired(r) == clock >= records[r].at + Ttl

\* The parts of the state that each kind of step leaves alone.
chat == <<generation, removed, ending, cleared>>
gate == <<records, ran>>

---------------------------------------------------------------------------
(* Jobs: _call_tool_safe up to the proposal of a call that needs a person. *)

\* ensure_effect_scope lets the call through, and its guardrails are awaited.
Screen(j) ==
    /\ job[j] = Idle /\ ~removed
    /\ job' = [job EXCEPT ![j] = [pc |-> "guarded", gen |-> generation]]
    /\ UNCHANGED <<gate, chat, decision, clock, faults>>

\* The proposal's write begins: a later cancellation waits for it.
Offer(j) ==
    /\ job[j].pc = "guarded"
    /\ job' = [job EXCEPT ![j].pc = "proposing"]
    /\ UNCHANGED <<gate, chat, decision, clock, faults>>

\* Requests past their time are rejected first.
Lapsed == [r \in Requests |-> IF Is(r, "pending") /\ Expired(r)
                              THEN [records[r] EXCEPT !.status = "rejected"] ELSE records[r]]

Duplicates(j) == {r \in Requests : /\ Lapsed[r].status = "pending"
                                   /\ Lapsed[r].user = JobUser[j] /\ Lapsed[r].call = JobCall[j]}

\* An unknown outcome counts as settled.
SettledOrUncertain == {r \in Requests : Lapsed[r].status \in {"completed", "rejected", "unknown"}}
\* The receipts that make room: the oldest of the settled ones, and never an
\* executing or unknown one.
Settled == {r \in Requests : Lapsed[r].status \in {"completed", "rejected"}}
Excess == Cardinality(Stored) - MaxRecords + 1
Evictions ==
    {E \in SUBSET Settled :
        /\ \A r \in E, s \in Settled \ E : records[r].at <= records[s].at
        /\ \/ Cardinality(E) = (IF Excess > 0 THEN Excess ELSE 0)
           \/ E = Settled /\ Cardinality(E) < Excess}
Room(E) == Cardinality(Stored \ E) < MaxRecords
Evicted(E) == [r \in Requests |-> IF r \in E THEN [Absent EXCEPT !.status = "evicted"] ELSE Lapsed[r]]

Proposal(j) == [status |-> "pending", user |-> JobUser[j], call |-> JobCall[j],
                at |-> clock, claim |-> None, gen |-> job[j].gen]

\* The same call by the same requester is not asked twice.
ProposeAgain(j) == /\ Duplicates(j) # {}
                   /\ records' = Lapsed

ProposeRefused(j) ==
    /\ Duplicates(j) = {}
    /\ \/ /\ Cardinality({r \in Requests : Lapsed[r].status = "pending"}) >= MaxPending
          /\ records' = Lapsed
       \/ /\ Cardinality({r \in Requests : Lapsed[r].status = "pending"}) < MaxPending
          /\ \E E \in Evictions : /\ ~Room(E)
                                  /\ records' = Evicted(E)

Propose(j) ==
    /\ Duplicates(j) = {}
    /\ Cardinality({r \in Requests : Lapsed[r].status = "pending"}) < MaxPending
    /\ \E E \in Evictions, r \in Requests :
          /\ Is(r, "none") /\ Room(E)
          /\ records' = [Evicted(E) EXCEPT ![r] = Proposal(j)]

\* One committed edit, of a job that may have been cancelled meanwhile.
Proposed(j) ==
    /\ job[j].pc = "proposing"
    /\ ProposeAgain(j) \/ ProposeRefused(j) \/ Propose(j)
    /\ job' = [job EXCEPT ![j] = Idle]
    /\ UNCHANGED <<ran, chat, decision, clock, faults>>

\* The edit fails, and the answer is that nothing was saved.
ProposalLost(j) ==
    /\ job[j].pc = "proposing" /\ faults < MaxFaults
    /\ job' = [job EXCEPT ![j] = Idle]
    /\ faults' = faults + 1
    /\ UNCHANGED <<gate, chat, decision, clock>>

---------------------------------------------------------------------------
(* Decisions: handle_message, decide of the runtime and decide of the gate. *)

Active(d) == decision[d].pc \notin {"idle", "done"}
At(d, pc) == decision[d].pc = pc
InScope(d) == decision[d].gen = generation /\ ~removed
Move(d, pc) == decision' = [decision EXCEPT ![d] = IF pc = "done" THEN Over ELSE [decision[d] EXCEPT !.pc = pc]]

\* A requester's message names a request: typed, or by "yes" when one waits.
\* The context of its handling keeps the generation; ensure_effect_scope
\* checks it, and would end the handling had it changed.
Command(d) ==
    /\ At(d, "idle") /\ ~removed
    /\ \E u \in Users, r \in Requests, approve \in BOOLEAN :
          /\ r \in Stored
          /\ decision' = [decision EXCEPT ![d] =
                [Quiet EXCEPT !.pc = "claiming", !.user = u, !.request = r, !.approve = approve, !.gen = generation]]
    /\ UNCHANGED <<gate, chat, job, clock, faults>>

Mine(d) == records[decision[d].request].user = decision[d].user
\* A request whose outcome is unknown is tried again.
JudgedAgain(d) ==
    LET r == decision[d].request
    IN  IF ~((r \in Pending \/ Is(r, "unknown")) /\ Mine(d)) THEN records
        ELSE IF Expired(r) \/ ~decision[d].approve THEN [records EXCEPT ![r].status = "rejected"]
        ELSE [records EXCEPT ![r].status = "executing", ![r].claim = d]
\* The transform of decide: what it makes of the request it was given.
Judged(d) ==
    LET r == decision[d].request
    IN  IF ~(r \in Pending /\ Mine(d)) THEN records
        ELSE IF Expired(r) \/ ~decision[d].approve THEN [records EXCEPT ![r].status = "rejected"]
        ELSE [records EXCEPT ![r].status = "executing", ![r].claim = d]
Claims(d) == Judged(d)[decision[d].request].claim = d

\* The edit commits.  A caller cancelled meanwhile raises after it.
Claim(d) ==
    /\ At(d, "claiming")
    /\ records' = Judged(d)
    /\ decision' = [decision EXCEPT ![d] =
          IF ~Claims(d) THEN Over
          ELSE [decision[d] EXCEPT !.claimed = TRUE, !.pc = IF decision[d].cancelling THEN "cleaning" ELSE "claimed"]]
    /\ UNCHANGED <<ran, chat, job, clock, faults>>

\* The edit fails, committed or not: nothing is run on it.
ClaimFails(d) ==
    /\ At(d, "claiming") /\ faults < MaxFaults
    /\ records' \in {records, Judged(d)}
    /\ decision' = [decision EXCEPT ![d] =
          IF Claims(d) THEN [decision[d] EXCEPT !.claimed = TRUE, !.pc = "cleaning"] ELSE Over]
    /\ faults' = faults + 1
    /\ UNCHANGED <<ran, chat, job, clock>>

\* Once more after the await: the request may have expired meanwhile.
Recheck(d) ==
    /\ At(d, "claimed")
    /\ Move(d, IF decision[d].cancelling THEN "cleaning"
               ELSE IF Expired(decision[d].request) THEN "rejecting" ELSE "executing")
    /\ UNCHANGED <<gate, chat, job, clock, faults>>

\* _execute_approved and _call_tool_safe: the policies and the chat are asked
\* again, the last time right before the call.  One attempt.
Dispatch(d) ==
    /\ At(d, "executing") /\ ~decision[d].cancelling /\ InScope(d)
    /\ ran' = [ran EXCEPT ![decision[d].request] = @ + 1]
    /\ Move(d, "calling")
    /\ UNCHANGED <<records, chat, job, clock, faults>>

Refuse(d) ==
    /\ At(d, "executing")
    /\ Move(d, "cleaning")
    /\ UNCHANGED <<gate, chat, job, clock, faults>>

\* The call returns, or fails; a cancelled caller treats a result as a failure.
Return(d) ==
    /\ At(d, "calling")
    /\ \E ok \in BOOLEAN :
          Move(d, IF ok /\ InScope(d) /\ ~decision[d].cancelling THEN "completing" ELSE "cleaning")
    /\ UNCHANGED <<gate, chat, job, clock, faults>>

\* _finish: only this invocation's own executing claim is given an outcome.
Outcome(d, status) ==
    LET r == decision[d].request
    IN  IF Is(r, "executing") /\ records[r].claim = d THEN [records EXCEPT ![r].status = status] ELSE records

\* A failed attempt is reported as one that did not run.
StatusFailed == [rejecting |-> "rejected", completing |-> "completed", cleaning |-> "rejected"]
Status == [rejecting |-> "rejected", completing |-> "completed", cleaning |-> "unknown"]

\* The outcome is saved; a caller cancelled meanwhile raises after it, and
\* finds nothing left to mark.
Finish(d) ==
    /\ decision[d].pc \in DOMAIN Status
    /\ records' = Outcome(d, Status[decision[d].pc])
    /\ Move(d, IF At(d, "cleaning") \/ ~decision[d].cancelling THEN "done" ELSE "cleaning")
    /\ UNCHANGED <<ran, chat, job, clock, faults>>

\* The edit fails: the outcome of an attempt becomes unknown, if that can be saved.
FinishFails(d) ==
    /\ decision[d].pc \in DOMAIN Status /\ faults < MaxFaults
    /\ records' \in {records, Outcome(d, Status[decision[d].pc])}
    /\ Move(d, IF At(d, "cleaning") THEN "done" ELSE "cleaning")
    /\ faults' = faults + 1
    /\ UNCHANGED <<ran, chat, job, clock>>

\* A cancelled decision raises at its next await.
AtAwait(d) == decision[d].pc \in {"executing", "calling"}
\* The claim is left as it is.
InterruptedLost(d) ==
    /\ AtAwait(d) /\ decision[d].cancelling
    /\ Move(d, "done")
    /\ UNCHANGED <<gate, chat, job, clock, faults>>
Interrupted(d) ==
    /\ AtAwait(d) /\ decision[d].cancelling
    /\ Move(d, "cleaning")
    /\ UNCHANGED <<gate, chat, job, clock, faults>>

---------------------------------------------------------------------------
(* Forgetting and leaving the chat. *)

\* _cancel_decisions
Cancelled == [d \in Decisions |-> IF Active(d) THEN [decision[d] EXCEPT !.cancelling = TRUE] ELSE decision[d]]

\* Later work is of another generation, and the decisions under way are cancelled.
End(e) ==
    /\ ending[e] = "idle" /\ ~removed
    /\ generation' = generation + 1
    /\ decision' = Cancelled
    /\ \E pc \in {"clearing", "leaving"} :
          ending' = [ending EXCEPT ![e] = pc]
    /\ UNCHANGED <<gate, removed, job, clock, cleared, faults>>

\* The requests are left to expire.
ClearLazily(e) ==
    /\ ending[e] \in {"clearing", "leftClearing"}
    /\ cleared' = cleared \cup Pending
    /\ ending' = [ending EXCEPT ![e] = IF @ = "clearing" THEN "erasing" ELSE "done"]
    /\ UNCHANGED <<gate, generation, removed, job, decision, clock, faults>>
\* gate.clear
Clear(e) ==
    /\ ending[e] \in {"clearing", "leftClearing"}
    /\ records' = [r \in Requests |-> IF Is(r, "pending") THEN [records[r] EXCEPT !.status = "rejected"]
                                      ELSE records[r]]
    /\ cleared' = cleared \cup Pending
    /\ ending' = [ending EXCEPT ![e] = IF @ = "clearing" THEN "erasing" ELSE "done"]
    /\ UNCHANGED <<generation, removed, job, decision, clock, ran, faults>>

\* The gate's edit, or the service's, fails: the rest is not done.
EndFails(e) ==
    /\ ending[e] \in {"clearing", "leftClearing", "erasing"} /\ faults < MaxFaults
    /\ ending' = [ending EXCEPT ![e] = "done"]
    /\ faults' = faults + 1
    /\ UNCHANGED <<gate, generation, removed, job, decision, clock, cleared>>

\* ConversationService cancels the chat's jobs: one that is writing its
\* proposal waits for the write.
Stopped == [j \in Jobs |-> IF job[j].pc = "guarded" THEN Idle ELSE job[j]]

\* The service forgets the chat, and the forget returns.
Erase(e) ==
    /\ ending[e] = "erasing"
    /\ job' = Stopped
    /\ ending' = [ending EXCEPT ![e] = "done"]
    /\ UNCHANGED <<gate, generation, removed, decision, clock, cleared, faults>>

\* The service leaves the chat, before its approvals are cleared.
Leave(e) ==
    /\ ending[e] = "leaving"
    /\ job' = Stopped
    /\ removed' = TRUE
    /\ ending' = [ending EXCEPT ![e] = "leftClearing"]
    /\ UNCHANGED <<gate, generation, decision, clock, cleared, faults>>

\* The tombstone is not saved; the approvals are cleared all the same.
LeaveFails(e) ==
    /\ ending[e] = "leaving" /\ faults < MaxFaults
    /\ job' = Stopped
    /\ ending' = [ending EXCEPT ![e] = "leftClearing"]
    /\ faults' = faults + 1
    /\ UNCHANGED <<gate, generation, removed, decision, clock, cleared>>

---------------------------------------------------------------------------

Tick == /\ clock < MaxTime
        /\ clock' = clock + 1
        /\ UNCHANGED <<gate, chat, job, decision, faults>>

\* The process dies: what is in memory is lost, and nothing is recovered.
Crash ==
    /\ faults < MaxFaults
    /\ generation' = 0
    /\ job' = [j \in Jobs |-> Idle]
    /\ decision' = [d \in Decisions |-> IF At(d, "idle") THEN decision[d] ELSE Over]
    /\ ending' = [e \in Endings |-> IF ending[e] = "idle" THEN "idle" ELSE "done"]
    /\ faults' = faults + 1
    /\ UNCHANGED <<gate, removed, clock, cleared>>

Decide(d) == \/ Claim(d) \/ ClaimFails(d) \/ Recheck(d) \/ Dispatch(d) \/ Refuse(d) \/ Return(d)
             \/ Finish(d) \/ FinishFails(d) \/ Interrupted(d)

Next == \/ \E j \in Jobs : Screen(j) \/ Offer(j) \/ Proposed(j) \/ ProposalLost(j)
        \/ \E d \in Decisions : Command(d) \/ Decide(d)
        \/ \E e \in Endings : End(e) \/ Clear(e) \/ EndFails(e) \/ Erase(e) \/ Leave(e) \/ LeaveFails(e)
        \/ Tick \/ Crash

Spec == Init /\ [][Next]_vars

---------------------------------------------------------------------------
(* Properties. *)

Statuses == {"none", "pending", "executing", "completed", "rejected", "unknown", "evicted"}

\* The shape of the gate's records and of the calls in progress.
TypeOK ==
    /\ records \in [Requests -> [status : Statuses, user : Users \cup {None}, call : Calls \cup {None},
                                 at : Nat, claim : Decisions \cup {None}, gen : Nat]]
    /\ clock \in Nat /\ generation \in Nat /\ removed \in BOOLEAN
    /\ job \in [Jobs -> [pc : {"idle", "guarded", "proposing"}, gen : Nat]]
    /\ decision \in [Decisions ->
          [pc : {"idle", "claiming", "claimed", "rejecting", "executing", "calling",
                 "completing", "cleaning", "done"},
           user : Users \cup {None}, request : Requests \cup {None}, approve : BOOLEAN, gen : Nat,
           claimed : BOOLEAN, cancelling : BOOLEAN]]
    /\ ending \in [Endings -> {"idle", "clearing", "leaving", "leftClearing", "erasing", "done"}]
    /\ ran \in [Requests -> Nat]
    /\ cleared \subseteq Requests /\ faults \in Nat

\* "CAS guarantees at most one callback attempt per retained request": whoever
\* approves it, in how many messages, and whatever fails or is cancelled.
CallbackOnce == \A r \in Requests : ran[r] <= 1

\* A request's receipt, as the record of its one effect.
Receipt(r) == CASE records[r].status \in {"none", "pending"} -> "none"
                [] Is(r, "executing") -> "claimed"
                [] Is(r, "rejected") \/ (Is(r, "evicted") /\ ran[r] = 0) -> "refused"
                [] Is(r, "evicted") /\ ran[r] > 0 -> "completed"
                [] OTHER -> records[r].status

\* The same as a protocol, for every step of the gate: the effect is claimed, then
\* attempted once, and settled, or uncertain for good.
Anytime(e, C) == TRUE
Claimed == INSTANCE ClaimedEffects WITH
    Objects <- Requests, Effects <- {"call"}, Ready <- Anytime,
    record <- [r \in Requests |-> [e \in {"call"} |-> Receipt(r)]],
    done <- [r \in Requests |-> [e \in {"call"} |-> ran[r]]]
CallbacksClaimed == Claimed!Spec

\* What a receipt tells the requester is true: nothing was run for a request
\* that waits or was rejected or has expired, and the call was made for one
\* that completed, however its decision was interrupted.
ReceiptsTrue == \A r \in Requests : /\ records[r].status \in {"none", "pending", "rejected"} => ran[r] = 0
                                    /\ Is(r, "completed") => ran[r] = 1

\* Unless a store call failed or the process died, a request is executing only
\* while the decision that claimed it is handled: cancelling the decision at
\* any await leaves an outcome.
OutcomesSettle == \A r \in Requests : Is(r, "executing") /\ faults = 0 =>
    \E d \in Decisions : Active(d) /\ decision[d].claimed /\ decision[d].request = r /\ records[r].claim = d

\* An attempt that may have had its effect is never offered again, and its
\* receipt is never evicted to make room while its outcome is uncertain.
UncertainKept ==
    [][\A r \in Requests : /\ Is(r, "executing") => records'[r].status \in {"executing", "completed", "rejected", "unknown"}
                           /\ Is(r, "unknown") => records'[r] = records[r]]_vars

\* What was pending when the chat was forgotten or left never runs.
ClearedNeverRuns == \A r \in cleared : ran[r] = 0 /\ records[r].status \in {"rejected", "evicted"}

\* "clear() is a trusted host operation for forget: it rejects pending
\* approvals": once no forget and no removal is under way, an approval that
\* waits was asked for in the chat as it is now, and not in the forgotten one.
ForgetRejects == (\A e \in Endings : ending[e] \in {"idle", "done"}) /\ faults = 0 =>
    \A r \in Pending : records[r].gen = generation
=============================================================================
