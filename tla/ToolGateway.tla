----------------------------- MODULE ToolGateway -----------------------------
(***************************************************************************)
(* web._call_tool_safe: the calls of MCP tools that the model of one run   *)
(* makes, some of them at once (copilot_harness starts a task for each),   *)
(* while operators disable the teammate, approve other servers for it,     *)
(* deny the tool or change the guardrail policy, and people forget or      *)
(* leave the chat.                                                         *)
(*                                                                         *)
(* A call is checked, judged by the policy, given an authority if it       *)
(* changes anything (an approval, a grant of the run's skill or the        *)
(* requester's delegation), checked again, all but the approved servers,   *)
(* and sent.  Arguments are as the model gave them or as the policy        *)
(* rewrote them; tools are told apart by whether they read, write, or      *)
(* write something sensitive.                                              *)
(***************************************************************************)
EXTENDS Integers, FiniteSets

CONSTANTS Calls,
          Budget,     \* the skill's autonomy-budget
          Delegated,  \* DELEGATED_WRITE_LIMIT
          Attempts,   \* attempts of a read: 3
          MaxChanges  \* bound: changes of the controls

VARIABLES controls, \* what operators and people have set
          run,      \* what is left of the run's authority, and whether its skill has an autonomy-check
          call      \* call[i]: the call and its locals

vars == <<controls, run, call>>

Sorts == {"read", "write", "sensitive"}
Verdicts == {"allow", "transform", "escalate", "deny"}
NoCall == [pc |-> "idle", sort |-> "read", approved |-> FALSE, escalated |-> FALSE, rewritten |-> FALSE,
           authority |-> "none", sent |-> 0, tries |-> 0]

Init == /\ controls = [enabled |-> TRUE, served |-> TRUE, denied |-> FALSE, live |-> TRUE, verdict |-> "allow", changes |-> 0]
        /\ run \in [remaining : {Budget}, delegated : {0, Delegated}, scripted : BOOLEAN]
        /\ call = [i \in Calls |-> NoCall]

At(i, pc) == call[i].pc = pc
Move(i, c) == call' = [call EXCEPT ![i] = c]
To(i, pc) == Move(i, [call[i] EXCEPT !.pc = pc])

---------------------------------------------------------------------------

Change(new) == /\ controls.changes < MaxChanges
               /\ controls' = [new EXCEPT !.changes = @ + 1]
               /\ UNCHANGED <<run, call>>
SwitchInstance == Change([controls EXCEPT !.enabled = ~@])
\* PolicyBook.set, with or without the tool's server
ApproveServers == Change([controls EXCEPT !.served = ~@])
DenyTool == Change([controls EXCEPT !.denied = ~@])
Invalidate == controls.live /\ Change([controls EXCEPT !.live = FALSE])
Guardrails == \E v \in Verdicts \ {controls.verdict} : Change([controls EXCEPT !.verdict = v])

\* The model calls a tool; or the host does, for a person who approved exactly this call.
Ask(i) == /\ At(i, "idle")
          /\ \E sort \in Sorts, approved \in BOOLEAN :
                Move(i, [NoCall EXCEPT !.pc = "asked", !.sort = sort, !.approved = approved])
          /\ UNCHANGED <<controls, run>>

\* ensure_effect_scope, the kill switch and the deny-list, of which a call
\* takes two looks; at the approved servers, only the first.
InForce == controls.live /\ controls.enabled /\ ~controls.denied
Check(i) == /\ At(i, "asked")
            /\ To(i, IF InForce /\ controls.served THEN "judged" ELSE "refused")
            /\ UNCHANGED <<controls, run>>

\* What a call that changes something is given, once its policy verdict is known.
Reads(c) == c.sort = "read"
NeedsPerson(c) == (~Reads(c) \/ c.escalated) /\ ~c.approved
Granted(c) == c.sort = "write" /\ ~c.approved /\ ~c.escalated /\ run.remaining > 0
MayDelegate(c) == c.sort = "write" /\ ~c.approved /\ ~c.escalated /\ run.delegated > 0

Spend(i, c) == /\ run' = [run EXCEPT !.remaining = @ - 1]
               /\ Move(i, [c EXCEPT !.pc = "sending", !.authority = "grant"])
Delegate(i, c) == /\ run' = [run EXCEPT !.delegated = @ - 1]
                  /\ Move(i, [c EXCEPT !.pc = "sending", !.authority = "delegation"])
Settle(i, c) ==
    \/ NeedsPerson(c) /\ Move(i, [c EXCEPT !.pc = "refused"]) /\ UNCHANGED run  \* a sub-agent, or a dry run
    \/ Granted(c) /\ run.scripted /\ Move(i, [c EXCEPT !.pc = "checking"]) /\ UNCHANGED run
    \/ Granted(c) /\ ~run.scripted /\ Spend(i, c)
    \/ ~Granted(c) /\ MayDelegate(c) /\ Delegate(i, c)
    \/ ~Granted(c) /\ ~MayDelegate(c) /\ NeedsPerson(c) /\ Move(i, [c EXCEPT !.pc = "proposing"]) /\ UNCHANGED run
    \/ /\ ~Granted(c) /\ ~NeedsPerson(c)
       /\ Move(i, [c EXCEPT !.pc = "sending", !.authority = IF c.approved THEN "approval" ELSE "none"])
       /\ UNCHANGED run

\* The policy denies, or rewrites what a person has approved.
Refuses(i) == controls.verdict = "deny" \/ (controls.verdict = "transform" /\ call[i].approved)
\* The verdict of pre_tool_call, and what follows it before the next await.
Judge(i) == /\ At(i, "judged")
            /\ \/ Refuses(i) /\ To(i, "refused") /\ UNCHANGED run
               \/ ~Refuses(i) /\ Settle(i, [call[i] EXCEPT !.escalated = (controls.verdict = "escalate"),
                                                           !.rewritten = (controls.verdict = "transform")])
            /\ UNCHANGED controls

\* check_autonomy has run the skill's script; one that fails declines.
Autonomy(i) == /\ At(i, "checking")
               /\ \/ Spend(i, call[i])
                  \/ To(i, "proposing") /\ UNCHANGED run
               /\ UNCHANGED controls

\* gate.propose: ToolApprovals
Propose(i) == /\ At(i, "proposing")
              /\ \E pc \in {"proposed", "refused"} : To(i, pc)
              /\ UNCHANGED <<controls, run>>

\* InForce once more, and the call.
Send(i) == /\ At(i, "sending")
           /\ IF InForce THEN Move(i, [call[i] EXCEPT !.pc = "sent", !.sent = @ + 1, !.tries = @ + 1])
              ELSE To(i, "refused")
           /\ UNCHANGED <<controls, run>>

\* The server answers, within a scope that still holds or not; a lost session or
\* token is renewed, and a read sent again; of a write nothing is known.
ReturnRetrying(i) == /\ At(i, "sent")
                     /\ \E pc \in {"done", "refused"} \cup (IF call[i].tries < Attempts THEN {"sending"} ELSE {}) : To(i, pc)
                     /\ UNCHANGED <<controls, run>>
Return(i) == /\ At(i, "sent")
             /\ \E pc \in {"done", "refused"} \cup
                          (IF Reads(call[i]) /\ call[i].tries < Attempts THEN {"sending"} ELSE {}) :
                   (pc = "done" => controls.live) /\ To(i, pc)
             /\ UNCHANGED <<controls, run>>

Next == \/ SwitchInstance \/ ApproveServers \/ DenyTool \/ Invalidate \/ Guardrails
        \/ \E i \in Calls : Ask(i) \/ Check(i) \/ Judge(i) \/ Autonomy(i) \/ Propose(i) \/ Send(i) \/ Return(i)

Spec == Init /\ [][Next]_vars

---------------------------------------------------------------------------

\* "holds the skills and MCP servers an operator approved for that instance so
\* the host can enforce them" (control_room.py:5): no call goes to a server
\* that is not approved any more, however long it waited for a policy, a
\* script or a session.
SentApproved == [][\A i \in Calls : call'[i].sent # call[i].sent => controls.served]_vars

By(authority) == {i \in Calls : call[i].authority = authority}
\* A write is sent at most once, by an authority of its own: exactly what a
\* person approved, or within what the requester delegated.  What the policy
\* sends to a person is never sent by a grant or by delegation.
WritesAuthorised ==
    /\ \A i \in Calls : call[i].sent > 0 /\ ~Reads(call[i]) =>
          /\ call[i].sent = 1
          /\ call[i].authority # "none"
          /\ call[i].authority = "approval" => call[i].approved /\ ~call[i].rewritten
          /\ call[i].sort = "sensitive" \/ call[i].escalated => call[i].authority = "approval"
    /\ Cardinality(By("delegation")) <= Delegated
    /\ ~run.scripted => Cardinality(By("grant")) <= Budget

\* "up to {budget} in total ... anything over budget goes to a person": also
\* when calls of one run are checked by the skill's script at the same time.
BudgetKept == Cardinality(By("grant")) <= Budget
=============================================================================
