------------------------------ MODULE HostProofs ------------------------------
(* Proofs about the parts of Host, a section for each. A part has an inductive *)
(* invariant of its own, over its own actions; that the others rest while it   *)
(* runs is all that the composition adds.                                      *)
EXTENDS Host, Sequences, FiniteSetTheorems, TLAPS

\* A step of the host is one of the part that runs.
LEMMA OnePart == [HostNext]_hostVars =>
    /\ part' = part
    /\ part = "gateway" => [Gateway!Next]_(Gateway!vars)
    /\ part = "document" => [Saver!Next]_(Saver!vars)
    /\ part = "feeds" => [Feeds!Next]_(Feeds!vars)
    /\ part = "workflow" => [Workflow!Next]_(Workflow!vars)
    /\ part = "manager" => [Manager!Next]_(Manager!vars)
  BY DEF HostNext, hostVars, gateway, document, feeds, workflow, manager,
         Gateway!vars, Saver!vars, Feeds!vars, Workflow!vars, Manager!vars

-------------------------------------------------------------------------------
(* CaseWorkflow *)

Statuses == {"none", "creating", "investigating", "answer_delivery_pending", "awaiting_confirmation",
             "closing", "closed", "write_outcome_unknown"}

\* A call between its claim and the end of its stage.
Active(i) == stage[i].pc \in {"acting", "completing", "unsure"}

WorkflowTypes ==
    /\ record \in Statuses
    /\ stage \in [CaseCalls -> [pc : {"idle", "claiming", "acting", "completing", "unsure", "ended"},
                                stage : {"create", "answer", "close"}]]
    /\ done \in [{"create", "answer", "close"} -> Nat]

\* What has been attempted, by the status of the record.
Attempted ==
    /\ record = "none" => done["create"] = 0
    /\ record \in {"none", "creating", "investigating"} => done["answer"] = 0
    /\ record \in {"none", "creating", "investigating", "answer_delivery_pending", "awaiting_confirmation"} => done["close"] = 0
    /\ record \in {"investigating", "answer_delivery_pending"} => done["create"] = 1
    /\ record \in {"awaiting_confirmation", "closing"} => done["create"] = 1 /\ done["answer"] = 1
    /\ record = "closed" => done["create"] = 1 /\ done["answer"] = 1 /\ done["close"] = 1
    /\ \A s \in {"create", "answer", "close"} : done[s] <= 1
    /\ done["close"] > 0 => done["answer"] > 0
    /\ done["answer"] > 0 => done["create"] > 0

\* One call at most has the claim that the record shows, and its effect is
\* attempted when it has acted, not before.
Claims ==
    \A i \in CaseCalls : Active(i) =>
        /\ record = Workflow!Claimed[stage[i].stage]
        /\ done[stage[i].stage] = IF stage[i].pc = "acting" THEN 0 ELSE 1
        /\ \A j \in CaseCalls : Active(j) => j = i

WorkflowInv == WorkflowTypes /\ Attempted /\ Claims

LEMMA WorkflowInit == Workflow!Init => WorkflowInv
  BY DEF Workflow!Init, WorkflowInv, WorkflowTypes, Statuses, Attempted, Claims, Active, Workflow!Stages

LEMMA WorkflowStep == WorkflowInv /\ [Workflow!Next]_(Workflow!vars) => WorkflowInv'
  <1>. SUFFICES ASSUME WorkflowInv, [Workflow!Next]_(Workflow!vars) PROVE WorkflowInv'
    OBVIOUS
  <1>. USE DEF WorkflowInv, WorkflowTypes, Statuses, Attempted, Claims, Active, Workflow!At, Workflow!To, Workflow!Stage,
               Workflow!Claimed
  <1>1. CASE UNCHANGED Workflow!vars
    BY <1>1 DEF Workflow!vars
  <1>2. ASSUME NEW i \in CaseCalls, Workflow!Call(i) PROVE WorkflowInv'
    BY <1>2 DEF Workflow!Call, Workflow!Stages
  <1>3. ASSUME NEW i \in CaseCalls, Workflow!Claim(i) PROVE WorkflowInv'
    BY <1>3 DEF Workflow!Claim, Workflow!Free, Workflow!From
  <1>4. ASSUME NEW i \in CaseCalls, Workflow!Act(i) PROVE WorkflowInv'
    BY <1>4 DEF Workflow!Act
  <1>5. ASSUME NEW i \in CaseCalls, Workflow!Mark(i) PROVE WorkflowInv'
    BY <1>5 DEF Workflow!Mark
  <1>6. ASSUME NEW i \in CaseCalls, Workflow!Complete(i) PROVE WorkflowInv'
    BY <1>6 DEF Workflow!Complete, Workflow!Then
  <1>7. ASSUME NEW i \in CaseCalls, Workflow!StoreFails(i) PROVE WorkflowInv'
    BY <1>7 DEF Workflow!StoreFails, Workflow!Edit, Workflow!Free, Workflow!From, Workflow!Then
  <1>8. CASE Workflow!Crash
    BY <1>8 DEF Workflow!Crash
  <1>. QED BY <1>1, <1>2, <1>3, <1>4, <1>5, <1>6, <1>7, <1>8 DEF Workflow!Next

LEMMA WorkflowOrder == WorkflowInv => Workflow!EffectsOnceInOrder
  BY DEF WorkflowInv, WorkflowTypes, Statuses, Attempted, Workflow!EffectsOnceInOrder, Workflow!Stages, Workflow!Then

\* However many calls race for the stages of a case, and whatever fails, each of
\* its effects is attempted at most once and after the receipt of the one before.
THEOREM EffectsHold == HostSpec => []EffectsOnceInOrder
  <1>1. HostInit => (part = "workflow" => WorkflowInv)
    BY WorkflowInit DEF HostInit
  <1>2. (part = "workflow" => WorkflowInv) /\ [HostNext]_hostVars => (part = "workflow" => WorkflowInv)'
    BY WorkflowStep, OnePart
  <1>3. (part = "workflow" => WorkflowInv) => EffectsOnceInOrder
    BY WorkflowOrder DEF EffectsOnceInOrder
  <1>. QED BY <1>1, <1>2, <1>3, PTL DEF HostSpec

\* The three effects, as the claim protocol sees them.
Cases == {"case"}
Effects == {"create", "answer", "close"}
KnownOf == [o \in Cases |-> [s \in Effects |-> Workflow!Known(s)]]

\* A claim, a receipt and a doubt are each a step of one effect.
LEMMA KnownMoves ==
    ASSUME WorkflowInv, NEW s \in Effects, UNCHANGED done, NEW x, NEW y,
           \/ record = Workflow!From[s] /\ record' = Workflow!Claimed[s] /\ x = "none" /\ y = "claimed"
           \/ /\ record = Workflow!Claimed[s] /\ done[s] = 1 /\ x = "claimed"
              /\ \/ record' = Workflow!Then[s] /\ y = "completed"
                 \/ record' = "write_outcome_unknown" /\ y = "unknown"
    PROVE  /\ Workflow!Known(s) = x /\ Workflow!Known(s)' = y
           /\ \A t \in Effects \ {s} : Workflow!Known(t)' = Workflow!Known(t)
  <1>. USE DEF WorkflowInv, WorkflowTypes, Attempted, Effects, Workflow!Known, Workflow!Stages,
               Workflow!From, Workflow!Claimed, Workflow!Then, Workflow!After
  <1>1. CASE s = "create"
    BY <1>1
  <1>2. CASE s = "answer"
    BY <1>2
  <1>3. CASE s = "close"
    BY <1>3
  <1>. QED BY <1>1, <1>2, <1>3

\* What a claim of a stage stands on.
LEMMA StageFree ==
    ASSUME WorkflowInv, NEW s \in Effects, record = Workflow!From[s]
    PROVE  /\ \A t \in Effects : Workflow!Known(t) \notin {"claimed", "unknown"}
           /\ s # "create" => \E p \in Effects : Workflow!Known(p) = "completed" /\ Workflow!Then[p] = Workflow!From[s]
  BY DEF WorkflowInv, WorkflowTypes, Attempted, Effects, Workflow!Known, Workflow!Stages,
         Workflow!From, Workflow!Claimed, Workflow!Then, Workflow!After

\* A step that changes what is known of one effect.
LEMMA OneKnown ==
    ASSUME NEW s \in Effects, NEW y, Workflow!Known(s)' = y, Workflow!Known(s) # y,
           \A t \in Effects \ {s} : Workflow!Known(t)' = Workflow!Known(t)
    PROVE  KnownOf' = [KnownOf EXCEPT !["case"][s] = y] /\ KnownOf' # KnownOf
  <1>1. PICK f, g : f = [t \in Effects |-> Workflow!Known(t)] /\ g = [t \in Effects |-> Workflow!Known(t)']
    OBVIOUS
  <1>2. /\ f = [t \in Effects |-> f[t]] /\ g = [t \in Effects |-> g[t]]
        /\ g[s] = y /\ f[s] # y /\ \A t \in Effects \ {s} : g[t] = f[t]
    BY <1>1
  <1>3. KnownOf = [o \in Cases |-> f] /\ KnownOf' = [o \in Cases |-> g]
    BY <1>1 DEF KnownOf
  <1>4. g = [f EXCEPT ![s] = y] /\ g[s] # f[s]
    BY <1>2
  <1>. QED BY <1>3, <1>4 DEF Cases

\* Every step of the workflow keeps to the claim protocol.
LEMMA StageKeeps ==
    ASSUME WorkflowInv, [Workflow!Next]_(Workflow!vars)
    PROVE  Workflow!Claims!Next \/ (KnownOf' = KnownOf /\ done' = done)
  <1>0. record \in Statuses /\ done \in [Effects -> Nat]
    BY DEF WorkflowInv, WorkflowTypes, Effects
  <1>1. CASE UNCHANGED <<record, done>>
    BY <1>1 DEF KnownOf, Workflow!Known
  <1>2. ASSUME NEW s \in Effects, record = Workflow!From[s], record' = Workflow!Claimed[s], UNCHANGED done
        PROVE  Workflow!Claims!Next
    <2>1. /\ Workflow!Known(s) = "none" /\ Workflow!Known(s)' = "claimed"
          /\ \A t \in Effects \ {s} : Workflow!Known(t)' = Workflow!Known(t)
      BY <1>2, KnownMoves
    <2>2. KnownOf' = [KnownOf EXCEPT !["case"][s] = "claimed"] /\ KnownOf' # KnownOf
      BY <2>1, OneKnown
    <2>3. /\ \A t \in Effects : KnownOf["case"][t] \notin {"claimed", "unknown"}
          /\ KnownOf["case"][s] = "none"
          /\ Workflow!InOrder(s, {t \in Effects : KnownOf["case"][t] = "completed"})
      BY <1>2, <2>1, StageFree DEF KnownOf, Cases, Workflow!InOrder
    <2>4. Workflow!Claims!Claim("case", s)
      BY <2>2, <2>3 DEF Workflow!Claims!Claim, Workflow!Claims!Settled, Workflow!Claims!Completed, KnownOf, Cases, Effects, Workflow!Stages
    <2>. QED BY <1>2, <2>2, <2>4 DEF Workflow!Claims!Next, KnownOf, Cases, Effects, Workflow!Stages
  <1>3. ASSUME NEW s \in Effects, record = Workflow!Claimed[s], done[s] = 1, UNCHANGED done,
               record' \in {Workflow!Then[s], "write_outcome_unknown"}
        PROVE  Workflow!Claims!Next
    <2>1. PICK y \in {"completed", "unknown"} :
             /\ Workflow!Known(s) = "claimed" /\ Workflow!Known(s)' = y
             /\ \A t \in Effects \ {s} : Workflow!Known(t)' = Workflow!Known(t)
      BY <1>3, KnownMoves
    <2>2. KnownOf' = [KnownOf EXCEPT !["case"][s] = y] /\ KnownOf' # KnownOf
      BY <2>1, OneKnown
    <2>3. KnownOf["case"][s] = "claimed" /\ [o \in Cases |-> done]["case"][s] = 1
      BY <1>3, <2>1 DEF KnownOf, Cases
    <2>4. Workflow!Claims!Complete("case", s) \/ Workflow!Claims!Doubt("case", s)
      BY <2>1, <2>2, <2>3 DEF Workflow!Claims!Complete, Workflow!Claims!Doubt, KnownOf, Cases, Effects, Workflow!Stages
    <2>. QED BY <1>3, <2>2, <2>4 DEF Workflow!Claims!Next, KnownOf, Cases, Effects, Workflow!Stages
  <1>4. ASSUME NEW s \in Effects, record = Workflow!Claimed[s], done[s] = 0, done' = [done EXCEPT ![s] = 1], UNCHANGED record
        PROVE  Workflow!Claims!Next
    <2>1. record # "write_outcome_unknown"
      BY <1>4 DEF Effects, Workflow!Claimed
    <2>2. \A t \in Effects : Workflow!Known(t)' = Workflow!Known(t)
      BY <1>4, <2>1 DEF Workflow!Known
    <2>3. KnownOf' = KnownOf
      BY <2>2 DEF KnownOf
    <2>4. KnownOf["case"][s] = "claimed"
      BY <1>4 DEF KnownOf, Cases, Workflow!Known
    <2>5. [o \in Cases |-> done'] = [[o \in Cases |-> done] EXCEPT !["case"][s] = 1] /\ [o \in Cases |-> done]["case"][s] = 0
      BY <1>4 DEF Cases
    <2>6. [o \in Cases |-> done'] # [o \in Cases |-> done]
      BY <1>0, <1>4 DEF Cases
    <2>7. Workflow!Claims!Attempt("case", s)
      BY <2>4, <2>5 DEF Workflow!Claims!Attempt, KnownOf, Cases, Effects, Workflow!Stages
    <2>. QED BY <2>3, <2>6, <2>7 DEF Workflow!Claims!Next, KnownOf, Cases, Effects, Workflow!Stages
  <1>5. CASE UNCHANGED Workflow!vars
    BY <1>1, <1>5 DEF Workflow!vars
  <1>6. CASE Workflow!Crash
    BY <1>1, <1>6 DEF Workflow!Crash
  <1>7. ASSUME NEW i \in CaseCalls, Workflow!Call(i) \/ Workflow!Claim(i) \/ Workflow!Act(i) \/ Workflow!Mark(i)
                                    \/ Workflow!Complete(i) \/ Workflow!StoreFails(i)
        PROVE  \/ UNCHANGED <<record, done>>
               \/ \E s \in Effects :
                    \/ record = Workflow!From[s] /\ record' = Workflow!Claimed[s] /\ UNCHANGED done
                    \/ /\ record = Workflow!Claimed[s] /\ done[s] = 1 /\ UNCHANGED done
                       /\ record' \in {Workflow!Then[s], "write_outcome_unknown"}
                    \/ /\ record = Workflow!Claimed[s] /\ done[s] = 0 /\ done' = [done EXCEPT ![s] = 1]
                       /\ UNCHANGED record
    <2>. DEFINE s == stage[i].stage
    <2>1. s \in Effects
      BY DEF WorkflowInv, WorkflowTypes, Effects
    <2>2. Active(i) => record = Workflow!Claimed[s] /\ done[s] = IF stage[i].pc = "acting" THEN 0 ELSE 1
      BY DEF WorkflowInv, Claims
    <2>3. CASE Workflow!Call(i)
      BY <2>3 DEF Workflow!Call
    <2>4. CASE Workflow!Claim(i)
      BY <2>1, <2>4 DEF Workflow!Claim, Workflow!Free, Workflow!Stage
    <2>5. CASE Workflow!Act(i)
      <3>1. record = Workflow!Claimed[s] /\ done[s] = 0
        BY <2>2, <2>5 DEF Workflow!Act, Workflow!At, Active
      <3>2. done' = [done EXCEPT ![s] = 1] /\ UNCHANGED record
        BY <1>0, <2>1, <2>5, <3>1 DEF Workflow!Act, Workflow!Stage
      <3>. QED BY <2>1, <3>1, <3>2
    <2>6. CASE Workflow!Mark(i) \/ Workflow!Complete(i)
      BY <2>1, <2>2, <2>6 DEF Workflow!Mark, Workflow!Complete, Workflow!At, Workflow!Stage, Active
    <2>7. CASE Workflow!StoreFails(i)
      BY <2>1, <2>2, <2>7 DEF Workflow!StoreFails, Workflow!Edit, Workflow!Free, Workflow!At, Workflow!Stage, Active
    <2>. QED BY <1>7, <2>3, <2>4, <2>5, <2>6, <2>7
  <1>8. ASSUME NEW i \in CaseCalls, Workflow!Call(i) \/ Workflow!Claim(i) \/ Workflow!Act(i) \/ Workflow!Mark(i)
                                    \/ Workflow!Complete(i) \/ Workflow!StoreFails(i)
        PROVE  Workflow!Claims!Next \/ (KnownOf' = KnownOf /\ done' = done)
    <2>1. CASE UNCHANGED <<record, done>>
      BY <1>1, <2>1
    <2>2. CASE ~UNCHANGED <<record, done>>
      BY <1>2, <1>3, <1>4, <1>7, <1>8, <2>2
    <2>. QED BY <2>1, <2>2
  <1>. QED BY <1>5, <1>6, <1>8 DEF Workflow!Next

\* The workflow of a case implements the claim protocol: its one status is a true
\* record of all three effects, whatever calls race, fail or die.
THEOREM StagesKeepClaims == HostSpec => StagesClaimed
  <1>1. HostInit => Workflow!Claims!Init /\ (part = "workflow" => WorkflowInv)
    <2>1. HostInit => record = "none" /\ done = [s \in Effects |-> 0]
      BY DEF HostInit, Workflow!Init, Workflow!Stages, Effects
    <2>2. HostInit => (part = "workflow" => WorkflowInv)
      BY WorkflowInit DEF HostInit
    <2>3. record = "none" /\ done = [s \in Effects |-> 0] => Workflow!Claims!Init
      <3>1. record = "none" => \A s \in Effects : Workflow!Known(s) = "none"
        BY DEF Effects, Workflow!Known, Workflow!Claimed, Workflow!After
      <3>. QED BY <3>1 DEF Workflow!Claims!Init, Effects, Workflow!Stages
    <2>. QED BY <2>1, <2>2, <2>3
  <1>2. (part = "workflow" => WorkflowInv) /\ [HostNext]_hostVars => (part = "workflow" => WorkflowInv)'
    BY WorkflowStep, OnePart
  <1>3. (part = "workflow" => WorkflowInv) /\ [HostNext]_hostVars => [Workflow!Claims!Next]_(Workflow!Claims!claims)
    <2>1. Workflow!Claims!Next \/ (KnownOf' = KnownOf /\ done' = done) => [Workflow!Claims!Next]_(Workflow!Claims!claims)
      BY DEF Workflow!Claims!claims, KnownOf, Cases, Effects, Workflow!Stages
    <2>2. CASE part = "workflow"
      BY <2>1, <2>2, StageKeeps, OnePart
    <2>3. CASE part # "workflow"
      <3>1. [HostNext]_hostVars => record' = record /\ done' = done
        BY <2>3 DEF HostNext, hostVars, workflow
      <3>2. record' = record /\ done' = done => KnownOf' = KnownOf
        BY DEF KnownOf, Workflow!Known
      <3>. QED BY <2>1, <3>1, <3>2
    <2>. QED BY <2>2, <2>3
  <1>. QED BY <1>1, <1>2, <1>3, PTL DEF HostSpec, StagesClaimed, Workflow!StagesClaimed, Workflow!Claims!Spec

\* The protocol's own theorems, about the stages.
Protocol == INSTANCE ClaimedEffectsProofs WITH
    Objects <- {"case"}, Effects <- Workflow!Stages, Ready <- Workflow!InOrder,
    record <- [o \in {"case"} |-> [s \in Workflow!Stages |-> Workflow!Known(s)]], done <- [o \in {"case"} |-> done]

LEMMA StageProtocol == Workflow!Claims!Spec => Protocol!Spec
  <1>1. Workflow!Claims!Init => Protocol!Init
    BY DEF Workflow!Claims!Init, Protocol!Init
  <1>2. [Workflow!Claims!Next]_(Workflow!Claims!claims) => [Protocol!Next]_(Protocol!claims)
    BY DEF Workflow!Claims!Next, Protocol!Next, Workflow!Claims!claims, Protocol!claims, Workflow!Claims!Claim, Protocol!Claim,
           Workflow!Claims!Attempt, Protocol!Attempt, Workflow!Claims!Complete, Protocol!Complete, Workflow!Claims!Doubt,
           Protocol!Doubt, Workflow!Claims!Refuse, Protocol!Refuse, Workflow!Claims!Settled, Protocol!Settled,
           Workflow!Claims!Completed, Protocol!Completed
  <1>. QED BY <1>1, <1>2, PTL DEF Workflow!Claims!Spec, Protocol!Spec

\* An outcome that is not known stops the workflow of its case: no other effect is
\* attempted ever again, whoever calls.
THEOREM DoubtStopsWorkflow == HostSpec => Workflow!Claims!NothingBuiltOnDoubt
  <1>1. Protocol!NothingBuiltOnDoubt => Workflow!Claims!NothingBuiltOnDoubt
    BY PTL DEF Protocol!NothingBuiltOnDoubt, Workflow!Claims!NothingBuiltOnDoubt, Protocol!claims, Workflow!Claims!claims
  <1>. QED BY <1>1, StageProtocol, StagesKeepClaims, Protocol!DoubtStops, PTL DEF StagesClaimed, Workflow!StagesClaimed

-------------------------------------------------------------------------------
(* Hitl *)

ManagerTypes ==
    /\ ask \in [Asks -> {"idle", "notifying", "waiting", "failed", "answered", "stopped"}]
    /\ future \in [Asks -> Answers \cup {None, "timeout", "cancelled"}]
    /\ pending \subseteq Asks
    /\ answer \in [Answers -> [pc : {"idle", "matched", "recorded", "late", "refused"}, ask : Asks \cup {None}]]
    /\ \A x \in Answers : answer[x].pc # "idle" => answer[x].ask \in Asks

\* Requests are pending from their start until they are decided, and once.
Asked ==
    /\ \A r \in Asks : ask[r] = "idle" => r \notin pending /\ future[r] = None
    /\ \A x \in Answers : answer[x].pc # "idle" => ask[answer[x].ask] # "idle"
    /\ \A r \in Asks : future[r] = "cancelled" => ask[r] = "stopped"
    /\ \A r \in pending : future[r] \in {None, "cancelled"}
    /\ \A r \in Asks : ask[r] = "answered" => future[r] \in Answers

\* An answer in a future is the one that was recorded for its request.
Decided ==
    /\ \A r \in Asks : future[r] \in Answers => answer[future[r]] = [pc |-> "recorded", ask |-> r]
    /\ \A x \in Answers : answer[x].pc = "recorded" =>
          /\ answer[x].ask \notin pending
          /\ future[answer[x].ask] \in {x, "cancelled"}
    /\ \A x, y \in Answers : answer[x].pc = "recorded" /\ answer[y].pc = "recorded" /\ answer[x].ask = answer[y].ask => x = y

ManagerInv == ManagerTypes /\ Asked /\ Decided

LEMMA ManagerInit == Manager!Init => ManagerInv
  BY HostAssumption DEF Manager!Init, ManagerInv, ManagerTypes, Asked, Decided

LEMMA ManagerStep == ManagerInv /\ [Manager!Next]_(Manager!vars) => ManagerInv'
  <1>. SUFFICES ASSUME ManagerInv, [Manager!Next]_(Manager!vars) PROVE ManagerInv'
    OBVIOUS
  <1>. USE HostAssumption DEF ManagerInv, ManagerTypes, Asked, Decided, Manager!Undone
  <1>1. CASE UNCHANGED Manager!vars
    BY <1>1 DEF Manager!vars
  <1>2. ASSUME NEW r \in Asks, Manager!Request(r) PROVE ManagerInv'
    BY <1>2 DEF Manager!Request
  <1>3. ASSUME NEW r \in Asks, Manager!Notify(r) PROVE ManagerInv'
    BY <1>3 DEF Manager!Notify
  <1>4. ASSUME NEW r \in Asks, Manager!NotifyFails(r) PROVE ManagerInv'
    BY <1>4 DEF Manager!NotifyFails
  <1>5. ASSUME NEW r \in Asks, Manager!Timeout(r) PROVE ManagerInv'
    BY <1>5 DEF Manager!Timeout
  <1>6. ASSUME NEW r \in Asks, Manager!Continue(r) PROVE ManagerInv'
    BY <1>6 DEF Manager!Continue
  <1>7. ASSUME NEW r \in Asks, Manager!StopRun(r) PROVE ManagerInv'
    BY <1>7 DEF Manager!StopRun
  <1>8. ASSUME NEW x \in Answers, Manager!Match(x) PROVE ManagerInv'
    BY <1>8 DEF Manager!Match
  <1>9. ASSUME NEW x \in Answers, Manager!Resolve(x) PROVE ManagerInv'
    BY <1>9 DEF Manager!Resolve
  <1>10. ASSUME NEW x \in Answers, Manager!Refuse(x) PROVE ManagerInv'
    BY <1>10 DEF Manager!Refuse
  <1>. QED BY <1>1, <1>2, <1>3, <1>4, <1>5, <1>6, <1>7, <1>8, <1>9, <1>10 DEF Manager!Next

LEMMA ManagerDecides == ManagerInv => Manager!RecordedDecides
  BY DEF ManagerInv, ManagerTypes, Asked, Decided, Manager!RecordedDecides

\* Whatever races it, an answer that is reported as recorded is the one the run
\* goes on with, and the only one.
THEOREM AnswersDecide == HostSpec => []RecordedDecides
  <1>1. HostInit => (part = "manager" => ManagerInv)
    BY ManagerInit DEF HostInit
  <1>2. (part = "manager" => ManagerInv) /\ [HostNext]_hostVars => (part = "manager" => ManagerInv)'
    BY ManagerStep, OnePart
  <1>3. (part = "manager" => ManagerInv) => RecordedDecides
    BY ManagerDecides DEF RecordedDecides
  <1>. QED BY <1>1, <1>2, <1>3, PTL DEF HostSpec

-------------------------------------------------------------------------------
(* ControlRoom *)

Flushing == {"reading", "writing", "indexing"}

FeedTypes ==
    /\ room \in {"starting", "loading", "running", "closing", "final", "stopped"}
    /\ feed \in [Feeds!Keys -> SUBSET Events] /\ saved \in [Feeds!Keys -> SUBSET Events]
    /\ changed \subseteq Feeds!Keys /\ loading \subseteq Feeds!Keys /\ listed \subseteq Feeds!Keys
    /\ write.pc \in {"none"} \cup Flushing
    /\ write = [pc |-> write.pc, taken |-> write.taken, events |-> write.events, key |-> write.key, keys |-> write.keys]
    /\ write.taken \subseteq Feeds!Keys /\ write.keys \subseteq Feeds!Keys
    /\ write.pc = "writing" => write.key \in write.taken /\ write.events \subseteq Events

\* Nothing is flushed before the feeds are loaded, and what is loaded is stored;
\* nothing is late, or left dirty, before the final flush.
Loads ==
    /\ write.pc # "none" => room \in {"running", "final"}
    /\ write.pc \in {"none", "indexing"} => write.taken = {}
    /\ room = "loading" => loading \subseteq listed
    /\ room \in {"starting", "loading"} => \A k \in Feeds!Keys : feed[k] # {} => k \in listed \/ k \in changed
    /\ late # {} => Feeds!Ended

\* The feed is to be flushed again.
Again(k) == k \in changed /\ Feeds!Flushed
\* What a flush has in hand is the whole feed, unless it changed since.
Snapshots ==
    /\ write.pc = "writing" => feed[write.key] \ late \subseteq write.events \/ Again(write.key)
    /\ write.pc = "indexing" => \A k \in Feeds!Keys : feed[k] \ late # {} => k \in write.keys \/ Again(k)

\* FeedKept, also while the feeds are loaded.
Kept == room \in {"starting", "loading"} \/
    \A k \in Feeds!Keys \ excused :
        /\ feed[k] \ late \subseteq saved[k] \/ Feeds!Pending(k)
        /\ feed[k] \ late # {} => k \in listed \/ Feeds!Pending(k) \/ Feeds!Indexing(k)
Loading == room \in {"starting", "loading"} => \A k \in Feeds!Keys : feed[k] \subseteq saved[k] \/ k \in changed

FeedInv == FeedTypes /\ Loads /\ Snapshots /\ Loading /\ Kept

LEMMA FeedInit == Feeds!Init => FeedInv
  BY DEF Feeds!Init, FeedInv, FeedTypes, Flushing, Loads, Snapshots, Loading, Kept, Feeds!NoFlush

LEMMA FeedStep == FeedInv /\ [Feeds!Next]_(Feeds!vars) => FeedInv'
  <1>. SUFFICES ASSUME FeedInv, [Feeds!Next]_(Feeds!vars) PROVE FeedInv'
    OBVIOUS
  <1>. USE DEF FeedInv, FeedTypes, Flushing, Loads, Snapshots, Loading, Kept, Again, Feeds!Pending, Feeds!Indexing,
             Feeds!Flushed, Feeds!Ended, Feeds!NoFlush
  <1>1. CASE UNCHANGED Feeds!vars
    BY <1>1 DEF Feeds!vars
  <1>2. ASSUME NEW e \in Events, Feeds!Record(e) PROVE FeedInv'
    <2>1. KeyOf[e] \in Feeds!Keys
      BY DEF Feeds!Keys
    <2>. QED BY <1>2, <2>1 DEF Feeds!Record
  <1>3. CASE Feeds!LoadIndex
    BY <1>3 DEF Feeds!LoadIndex
  <1>4. CASE Feeds!Loaded
    BY <1>4 DEF Feeds!Loaded
  <1>5. CASE Feeds!LoadFails
    BY <1>5 DEF Feeds!LoadFails
  <1>6. ASSUME NEW k \in Feeds!Keys, Feeds!Restore(k) PROVE FeedInv'
    BY <1>6 DEF Feeds!Restore
  <1>7. ASSUME NEW k \in Feeds!Keys, Feeds!Snapshot(k) PROVE FeedInv'
    BY <1>7 DEF Feeds!Snapshot
  <1>8. CASE Feeds!Take
    BY <1>8 DEF Feeds!Take
  <1>9. CASE Feeds!Write
    BY <1>9 DEF Feeds!Write
  <1>10. CASE Feeds!Names
    BY <1>10 DEF Feeds!Names, Feeds!InMemory
  <1>11. CASE Feeds!Index
    BY <1>11 DEF Feeds!Index
  <1>12. CASE Feeds!Fails
    <2>0. /\ room \in {"running", "final"} /\ write.pc \in {"writing", "indexing"} /\ write' = Feeds!NoFlush
          /\ changed' = changed \cup write.taken /\ excused' = excused \cup Feeds!Missed
          /\ UNCHANGED <<room, feed, loading, recorded, late>> /\ Feeds!Landed
      BY <1>12 DEF Feeds!Fails
    <2>1. FeedTypes' /\ Loads' /\ Snapshots' /\ Loading'
      BY <2>0 DEF Feeds!Landed
    <2>2. CASE room = "running"
      <3>1. CASE write.pc = "writing"
        BY <2>0, <2>1, <2>2, <3>1 DEF Feeds!Landed, Feeds!Missed
      <3>2. CASE write.pc = "indexing" /\ UNCHANGED listed
        BY <2>0, <2>1, <2>2, <3>2 DEF Feeds!Landed, Feeds!Missed
      <3>3. CASE write.pc = "indexing" /\ listed' = write.keys
        BY <2>0, <2>1, <2>2, <3>3 DEF Feeds!Landed, Feeds!Missed
      <3>. QED BY <2>0, <3>1, <3>2, <3>3 DEF Feeds!Landed
    <2>3. CASE room = "final"
      <3>. SUFFICES ASSUME NEW k \in Feeds!Keys \ excused'
                    PROVE  feed[k] \ late \subseteq saved'[k] /\ (feed[k] \ late # {} => k \in listed')
        BY <2>0, <2>1, <2>3
      <3>1. k \notin excused /\ k \notin write.taken /\ (feed[k] # {} => k \in listed)
        BY <2>0, <2>3 DEF Feeds!Missed, Feeds!Abandoned, Feeds!InMemory
      <3>2. feed[k] \ late \subseteq saved[k] /\ saved'[k] = saved[k]
        BY <2>0, <2>3, <3>1 DEF Feeds!Landed
      <3>3. listed' = listed \/ (feed[k] \ late # {} => k \in listed')
        BY <2>0, <2>3 DEF Feeds!Landed
      <3>. QED BY <3>1, <3>2, <3>3
    <2>. QED BY <2>0, <2>2, <2>3
  <1>13. CASE Feeds!Stop
    <2>0. /\ room = "running" /\ room' = "closing" /\ late = {} /\ write' = Feeds!NoFlush /\ Feeds!Landed
          /\ excused' = (IF write.pc = "none" THEN excused ELSE excused \cup Feeds!Abandoned)
          /\ UNCHANGED <<feed, changed, loading, recorded, late>>
      BY <1>13 DEF Feeds!Stop
    <2>1. FeedTypes' /\ Loads' /\ Snapshots' /\ Loading'
      BY <2>0 DEF Feeds!Landed
    <2>2. CASE write.pc = "none"
      BY <2>0, <2>1, <2>2 DEF Feeds!Landed
    <2>3. CASE write.pc # "none"
      <3>. SUFFICES ASSUME NEW k \in Feeds!Keys \ excused'
                    PROVE  /\ feed[k] \subseteq saved'[k] \/ k \in changed
                           /\ feed[k] # {} => k \in listed' \/ k \in changed
        BY <2>0, <2>1
      <3>1. k \notin excused /\ k \notin write.taken /\ (feed[k] # {} => k \in listed)
        BY <2>0, <2>3 DEF Feeds!Abandoned, Feeds!InMemory
      <3>2. (feed[k] \subseteq saved[k] \/ k \in changed) /\ saved'[k] = saved[k]
        BY <2>0, <2>3, <3>1 DEF Feeds!Landed
      <3>3. listed' = listed \/ (feed[k] # {} => k \in listed' \/ k \in changed)
        BY <2>0, <2>3 DEF Feeds!Landed
      <3>. QED BY <3>1, <3>2, <3>3
    <2>. QED BY <2>2, <2>3
  <1>14. CASE Feeds!Stopped
    BY <1>14 DEF Feeds!Stopped
  <1>15. CASE Feeds!Restart
    BY <1>15 DEF Feeds!Restart
  <1>. QED BY <1>1, <1>2, <1>3, <1>4, <1>5, <1>6, <1>7, <1>8, <1>9, <1>10, <1>11, <1>12, <1>13, <1>14, <1>15 DEF Feeds!Next

\* Whatever is recorded while feeds are loaded, written or listed, and whatever
\* fails: an event that is not stored is in a feed that will be flushed.
THEOREM FeedsHold == HostSpec => []FeedKept
  <1>1. HostInit => (part = "feeds" => FeedInv)
    BY FeedInit DEF HostInit
  <1>2. (part = "feeds" => FeedInv) /\ [HostNext]_hostVars => (part = "feeds" => FeedInv)'
    BY FeedStep, OnePart
  <1>3. (part = "feeds" => FeedInv) => FeedKept
    BY DEF FeedKept, Feeds!FeedKept, FeedInv, Kept
  <1>. QED BY <1>1, <1>2, <1>3, PTL DEF HostSpec

-------------------------------------------------------------------------------
(* ToolGateway *)

ToolCalls ==
    [pc : {"idle", "asked", "judged", "checking", "proposing", "proposed", "sending", "sent", "done", "refused"},
     sort : Gateway!Sorts, approved : BOOLEAN, escalated : BOOLEAN, rewritten : BOOLEAN,
     authority : {"none", "grant", "delegation", "approval"}, sent : Nat, tries : Nat]

Controls == [enabled : BOOLEAN, served : BOOLEAN, denied : BOOLEAN, live : BOOLEAN, verdict : Gateway!Verdicts, changes : Nat]

GatewayTypes ==
    /\ controls \in Controls
    /\ run \in [remaining : Int, delegated : Nat, scripted : BOOLEAN]
    /\ toolCall \in [Calls -> ToolCalls]

\* A call has no authority before its verdict, and one that fits it afterwards;
\* only a read is sent without, or a second time.
Authorised(c) ==
    /\ c.pc \in {"idle", "asked", "judged", "checking", "proposing", "proposed"} => c.authority = "none" /\ c.sent = 0
    /\ c.pc = "checking" => c.sort = "write" /\ ~c.approved /\ ~c.escalated /\ run.scripted
    /\ c.authority = "none" => c.sort = "read" \/ c.sent = 0
    /\ c.pc = "sending" /\ c.sort # "read" => c.authority # "none" /\ c.sent = 0
    /\ c.sort # "read" => c.sent <= 1
    /\ c.authority \in {"grant", "delegation"} => c.sort = "write" /\ ~c.approved /\ ~c.escalated
    /\ c.authority = "approval" => c.approved /\ ~c.rewritten

\* What was given and what is left are what the run began with.
Spent ==
    /\ run.delegated + Cardinality(Gateway!By("delegation")) <= Delegated
    /\ ~run.scripted => run.remaining >= 0 /\ run.remaining + Cardinality(Gateway!By("grant")) <= Budget

GatewayInv == GatewayTypes /\ (\A i \in Calls : Authorised(toolCall[i])) /\ Spent

\* The instance has a Cardinality of its own.
LEMMA SameCardinality == \A S : Gateway!Cardinality(S) = Cardinality(S)
  BY DEF Gateway!Cardinality, Cardinality

LEMMA GivenFinite == \A a : IsFiniteSet(Gateway!By(a)) /\ Cardinality(Gateway!By(a)) \in Nat
  BY HostAssumption, FS_Subset, FS_CardinalityType DEF Gateway!By

LEMMA GatewayInit == Gateway!Init => GatewayInv
  <1>. SUFFICES ASSUME Gateway!Init PROVE GatewayInv
    OBVIOUS
  <1>1. Gateway!By("delegation") = {} /\ Gateway!By("grant") = {}
    BY DEF Gateway!Init, Gateway!By, Gateway!NoCall
  <1>2. Spent
    <2>1. Cardinality(Gateway!By("delegation")) = 0 /\ Cardinality(Gateway!By("grant")) = 0
      BY <1>1, FS_EmptySet
    <2>2. run.remaining = Budget /\ run.delegated \in {0, Delegated}
      BY DEF Gateway!Init
    <2>. QED BY <2>1, <2>2, HostAssumption DEF Spent
  <1>3. GatewayTypes
    <2>1. run \in [remaining : Int, delegated : Nat, scripted : BOOLEAN]
      BY HostAssumption DEF Gateway!Init
    <2>. QED BY <2>1 DEF Gateway!Init, GatewayTypes, ToolCalls, Controls, Gateway!NoCall, Gateway!Verdicts, Gateway!Sorts
  <1>. QED BY <1>2, <1>3 DEF Gateway!Init, GatewayInv, Authorised, Gateway!NoCall

\* A call that goes on leaves the authority that others have; one that is given an
\* authority is counted with them.
LEMMA Moves ==
    ASSUME GatewayInv, NEW i \in Calls, NEW c, Gateway!Move(i, c), c.authority = toolCall[i].authority
    PROVE  \A a : Gateway!By(a)' = Gateway!By(a)
  <1>1. toolCall' = [toolCall EXCEPT ![i] = c]
    BY DEF Gateway!Move
  <1>2. \A j \in Calls : toolCall'[j].authority = toolCall[j].authority
    BY <1>1 DEF GatewayInv, GatewayTypes
  <1>. QED BY <1>2 DEF Gateway!By

LEMMA Given ==
    ASSUME GatewayInv, NEW i \in Calls, NEW c, NEW a, Gateway!Move(i, c), toolCall[i].authority = "none",
           c.authority = a, a # "none"
    PROVE  /\ Cardinality(Gateway!By(a)') = Cardinality(Gateway!By(a)) + 1
           /\ \A b \in {"grant", "delegation", "approval"} \ {a} : Gateway!By(b)' = Gateway!By(b)
  <1>1. toolCall' = [toolCall EXCEPT ![i] = c]
    BY DEF Gateway!Move
  <1>2. toolCall'[i].authority = a /\ \A j \in Calls \ {i} : toolCall'[j].authority = toolCall[j].authority
    BY <1>1 DEF GatewayInv, GatewayTypes
  <1>3. Gateway!By(a)' = Gateway!By(a) \cup {i} /\ i \notin Gateway!By(a)
    BY <1>2 DEF Gateway!By
  <1>4. \A b \in {"grant", "delegation", "approval"} \ {a} : Gateway!By(b)' = Gateway!By(b)
    BY <1>2 DEF Gateway!By
  <1>. QED BY <1>3, <1>4, GivenFinite, FS_AddElement

\* A move that gives no authority keeps the invariant if the call is in order.
LEMMA Moved ==
    ASSUME GatewayInv, NEW i \in Calls, NEW c \in ToolCalls, Gateway!Move(i, c),
           c.authority = toolCall[i].authority, Authorised(c), UNCHANGED <<controls, run>>
    PROVE  GatewayInv'
  <1>1. toolCall' = [toolCall EXCEPT ![i] = c]
    BY DEF Gateway!Move
  <1>2. GatewayTypes'
    BY <1>1 DEF GatewayInv, GatewayTypes
  <1>3. Spent'
    BY Moves DEF GatewayInv, Spent
  <1>4. \A j \in Calls : toolCall'[j] = c \/ toolCall'[j] = toolCall[j]
    BY <1>1 DEF GatewayInv, GatewayTypes
  <1>5. (\A j \in Calls : Authorised(toolCall[j]))'
    BY <1>4 DEF GatewayInv, Authorised
  <1>. QED BY <1>2, <1>3, <1>5 DEF GatewayInv

\* A grant is spent, or the call sent as one of the requester's own.
LEMMA Authorises ==
    ASSUME GatewayInv, NEW i \in Calls, NEW c \in ToolCalls, c.authority = "none", c.sent = 0, c.sort = "write",
           ~c.approved, ~c.escalated, toolCall[i].authority = "none", UNCHANGED controls,
           \/ Gateway!Spend(i, c) /\ (run.scripted \/ run.remaining > 0)
           \/ Gateway!Delegate(i, c) /\ run.delegated > 0
    PROVE  GatewayInv'
  <1>1. PICK a \in {"grant", "delegation"} :
            /\ Gateway!Move(i, [c EXCEPT !.pc = "sending", !.authority = a])
            /\ a = "grant" => run' = [run EXCEPT !.remaining = @ - 1] /\ (run.scripted \/ run.remaining > 0)
            /\ a = "delegation" => run' = [run EXCEPT !.delegated = @ - 1] /\ run.delegated > 0
    <2>1. CASE Gateway!Spend(i, c) /\ (run.scripted \/ run.remaining > 0)
      <3>. WITNESS "grant" \in {"grant", "delegation"}
      <3>. QED BY <2>1 DEF Gateway!Spend
    <2>2. CASE Gateway!Delegate(i, c) /\ run.delegated > 0
      <3>. WITNESS "delegation" \in {"grant", "delegation"}
      <3>. QED BY <2>2 DEF Gateway!Delegate
    <2>. QED BY <2>1, <2>2
  <1>2. PICK d : d = [c EXCEPT !.pc = "sending", !.authority = a]
    OBVIOUS
  <1>3. d \in ToolCalls /\ d.authority = a /\ d.sent = 0 /\ d.pc = "sending" /\ d.sort = "write"
        /\ ~d.approved /\ ~d.escalated
    BY <1>2 DEF ToolCalls
  <1>4. toolCall' = [toolCall EXCEPT ![i] = d]
    BY <1>1, <1>2 DEF Gateway!Move
  <1>5. /\ run' \in [remaining : Int, delegated : Nat, scripted : BOOLEAN]
        /\ run'.scripted = run.scripted
        /\ a = "grant" => run'.remaining = run.remaining - 1 /\ run'.delegated = run.delegated
        /\ a = "delegation" => run'.remaining = run.remaining /\ run'.delegated = run.delegated - 1
    BY <1>1 DEF GatewayInv, GatewayTypes
  <1>6. GatewayTypes'
    BY <1>3, <1>4, <1>5 DEF GatewayInv, GatewayTypes
  <1>7. /\ Cardinality(Gateway!By(a)') = Cardinality(Gateway!By(a)) + 1
        /\ \A b \in {"grant", "delegation", "approval"} \ {a} : Gateway!By(b)' = Gateway!By(b)
    <2>1. Gateway!Move(i, d) /\ d.authority = a /\ a # "none" /\ a \in {"grant", "delegation"}
      BY <1>1, <1>2, <1>3
    <2>. QED BY <2>1, Given
  <1>8. Spent'
    <2>1. CASE a = "grant"
      <3>1. Gateway!By("delegation")' = Gateway!By("delegation")
        BY <2>1, <1>7
      <3>2. Cardinality(Gateway!By("grant")') = Cardinality(Gateway!By("grant")) + 1
        BY <2>1, <1>7
      <3>3. run'.delegated + Cardinality(Gateway!By("delegation")') <= Delegated
        BY <2>1, <1>5, <3>1 DEF GatewayInv, Spent
      <3>4. ASSUME ~run'.scripted
            PROVE  run'.remaining >= 0 /\ run'.remaining + Cardinality(Gateway!By("grant")') <= Budget
        <4>1. run.remaining > 0 /\ run.remaining \in Int /\ run.remaining + Cardinality(Gateway!By("grant")) <= Budget
          BY <2>1, <1>1, <1>5, <3>4 DEF GatewayInv, GatewayTypes, Spent
        <4>. QED BY <2>1, <1>5, <3>2, <4>1, GivenFinite, HostAssumption
      <3>. QED BY <3>3, <3>4 DEF Spent
    <2>2. CASE a = "delegation"
      <3>1. Gateway!By("grant")' = Gateway!By("grant")
        BY <2>2, <1>7
      <3>2. Cardinality(Gateway!By("delegation")') = Cardinality(Gateway!By("delegation")) + 1
        BY <2>2, <1>7
      <3>3. run'.delegated + Cardinality(Gateway!By("delegation")') <= Delegated
        <4>1. run.delegated \in Nat /\ run.delegated + Cardinality(Gateway!By("delegation")) <= Delegated
          BY DEF GatewayInv, GatewayTypes, Spent
        <4>. QED BY <2>2, <1>5, <3>2, <4>1, GivenFinite, HostAssumption
      <3>4. ~run'.scripted => run'.remaining >= 0 /\ run'.remaining + Cardinality(Gateway!By("grant")') <= Budget
        BY <2>2, <1>5, <3>1 DEF GatewayInv, Spent
      <3>. QED BY <3>3, <3>4 DEF Spent
    <2>. QED BY <2>1, <2>2
  <1>9. (\A j \in Calls : Authorised(toolCall[j]))'
    <2>1. \A j \in Calls : toolCall'[j] = d \/ toolCall'[j] = toolCall[j]
      BY <1>4 DEF GatewayInv, GatewayTypes
    <2>2. Authorised(d)'
      BY <1>3 DEF Authorised
    <2>. QED BY <2>1, <2>2, <1>5 DEF GatewayInv, Authorised
  <1>. QED BY <1>6, <1>8, <1>9 DEF GatewayInv

LEMMA GatewayStep == GatewayInv /\ [Gateway!Next]_(Gateway!vars) => GatewayInv'
  <1>. SUFFICES ASSUME GatewayInv, [Gateway!Next]_(Gateway!vars) PROVE GatewayInv'
    OBVIOUS
  <1>. USE DEF Gateway!At, Gateway!To
  <1>0. \A i \in Calls : toolCall[i] \in ToolCalls /\ Authorised(toolCall[i])
    BY DEF GatewayInv, GatewayTypes
  <1>R. ASSUME UNCHANGED <<run, toolCall>>, controls' \in Controls PROVE GatewayInv'
    <2>1. \A a : Gateway!By(a)' = Gateway!By(a)
      BY <1>R DEF Gateway!By
    <2>2. Spent'
      BY <1>R, <2>1 DEF GatewayInv, Spent
    <2>. QED BY <1>R, <2>2 DEF GatewayInv, GatewayTypes, Authorised
  <1>1. CASE UNCHANGED Gateway!vars
    BY <1>1, <1>R DEF Gateway!vars, GatewayInv, GatewayTypes
  <1>2. CASE Gateway!SwitchInstance \/ Gateway!ApproveServers \/ Gateway!DenyTool \/ Gateway!Invalidate \/ Gateway!Guardrails
    <2>1. PICK new \in Controls : Gateway!Change(new)
      BY <1>2 DEF Gateway!SwitchInstance, Gateway!ApproveServers, Gateway!DenyTool, Gateway!Invalidate, Gateway!Guardrails,
                  GatewayInv, GatewayTypes, Controls
    <2>2. controls' \in Controls /\ UNCHANGED <<run, toolCall>>
      BY <2>1 DEF Gateway!Change, Controls
    <2>. QED BY <2>2, <1>R
  <1>3. ASSUME NEW i \in Calls, Gateway!Ask(i) PROVE GatewayInv'
    <2>1. PICK sort \in Gateway!Sorts, approved \in BOOLEAN :
              Gateway!Move(i, [Gateway!NoCall EXCEPT !.pc = "asked", !.sort = sort, !.approved = approved])
      BY <1>3 DEF Gateway!Ask
    <2>. DEFINE c == [Gateway!NoCall EXCEPT !.pc = "asked", !.sort = sort, !.approved = approved]
    <2>2. c \in ToolCalls /\ c.authority = "none" /\ c.sent = 0 /\ c.pc = "asked"
      BY DEF ToolCalls, Gateway!NoCall
    <2>4. Authorised(c)
      BY <2>2 DEF Authorised
    <2>3. toolCall[i].authority = "none"
      BY <1>0, <1>3 DEF Gateway!Ask, Authorised
    <2>. QED BY <1>3, <2>1, <2>2, <2>3, <2>4, Moved DEF Gateway!Ask
  <1>4. ASSUME NEW i \in Calls, Gateway!Check(i) PROVE GatewayInv'
    <2>. DEFINE c == [toolCall[i] EXCEPT !.pc = IF Gateway!InForce /\ controls.served THEN "judged" ELSE "refused"]
    <2>1. c \in ToolCalls /\ c.authority = toolCall[i].authority /\ Authorised(c)
      BY <1>0, <1>4 DEF Gateway!Check, ToolCalls, Authorised
    <2>. QED BY <1>4, <2>1, Moved DEF Gateway!Check
  <1>5. ASSUME NEW i \in Calls, Gateway!Judge(i) PROVE GatewayInv'
    <2>. DEFINE e == [toolCall[i] EXCEPT !.escalated = (controls.verdict = "escalate"),
                                        !.rewritten = (controls.verdict = "transform")]
    <2>0. /\ toolCall[i].pc = "judged" /\ UNCHANGED controls /\ toolCall[i].authority = "none" /\ toolCall[i].sent = 0
          /\ e \in ToolCalls /\ e.authority = "none" /\ e.sent = 0 /\ e.pc = "judged" /\ e.approved = toolCall[i].approved
          /\ e.sort = toolCall[i].sort /\ (e.rewritten <=> controls.verdict = "transform")
      BY <1>0, <1>5 DEF Gateway!Judge, Authorised, ToolCalls
    <2>1. CASE Gateway!Refuses(i) /\ Gateway!To(i, "refused") /\ UNCHANGED run
      <3>1. [toolCall[i] EXCEPT !.pc = "refused"] \in ToolCalls /\ Authorised([toolCall[i] EXCEPT !.pc = "refused"])
        BY <1>0, <2>0 DEF ToolCalls, Authorised
      <3>. QED BY <2>0, <2>1, <3>1, <1>0, Moved DEF ToolCalls
    <2>2. CASE ~Gateway!Refuses(i) /\ Gateway!Settle(i, e)
      <3>. HIDE DEF e
      <3>1. ASSUME NEW pc \in {"refused", "checking", "proposing"}, UNCHANGED run, Gateway!Move(i, [e EXCEPT !.pc = pc]),
                   pc = "checking" => Gateway!Granted(e) /\ run.scripted
            PROVE  GatewayInv'
        <4>1. [e EXCEPT !.pc = pc] \in ToolCalls /\ [e EXCEPT !.pc = pc].authority = "none"
          BY <2>0 DEF ToolCalls
        <4>2. Authorised([e EXCEPT !.pc = pc])
          BY <2>0, <3>1 DEF ToolCalls, Authorised, Gateway!Granted
        <4>. QED BY <2>0, <3>1, <4>1, <4>2, Moved
      <3>2. CASE Gateway!Granted(e) /\ ~run.scripted /\ Gateway!Spend(i, e)
        BY <2>0, <3>2, Authorises DEF Gateway!Granted
      <3>3. CASE Gateway!MayDelegate(e) /\ Gateway!Delegate(i, e)
        BY <2>0, <3>3, Authorises DEF Gateway!MayDelegate
      <3>4. CASE /\ ~Gateway!NeedsPerson(e) /\ UNCHANGED run
                 /\ Gateway!Move(i, [e EXCEPT !.pc = "sending", !.authority = IF e.approved THEN "approval" ELSE "none"])
        <4>. DEFINE c == [e EXCEPT !.pc = "sending", !.authority = IF e.approved THEN "approval" ELSE "none"]
        <4>0. /\ c \in ToolCalls /\ c.pc = "sending" /\ c.sent = 0 /\ c.sort = e.sort /\ c.approved = e.approved
              /\ c.rewritten = e.rewritten /\ c.authority = IF e.approved THEN "approval" ELSE "none"
          BY <2>0 DEF ToolCalls
        <4>S. ~e.approved => e.sort = "read"
          BY <3>4 DEF Gateway!NeedsPerson, Gateway!Reads
        <4>A. e.approved => ~e.rewritten
          BY <2>0, <2>2 DEF Gateway!Refuses
        <4>1. c \in ToolCalls /\ Authorised(c)
          BY <4>0, <4>S, <4>A DEF Authorised
        <4>2. toolCall' = [toolCall EXCEPT ![i] = c]
          BY <3>4 DEF Gateway!Move
        <4>3. CASE e.approved
          <5>1. Gateway!By("grant")' = Gateway!By("grant") /\ Gateway!By("delegation")' = Gateway!By("delegation")
            <6>1. Gateway!Move(i, c) /\ c.authority = "approval"
              BY <3>4, <4>0, <4>3
            <6>. HIDE DEF c
            <6>. QED BY <2>0, <6>1, Given
          <5>2. Spent'
            BY <3>4, <5>1 DEF GatewayInv, Spent
          <5>3. (\A j \in Calls : Authorised(toolCall[j]))'
            BY <3>4, <4>1, <4>2, <1>0 DEF Authorised, GatewayInv, GatewayTypes
          <5>4. GatewayTypes'
            BY <2>0, <3>4, <4>1, <4>2 DEF GatewayInv, GatewayTypes
          <5>. QED BY <5>2, <5>3, <5>4 DEF GatewayInv
        <4>4. CASE ~e.approved
          BY <2>0, <3>4, <4>1, <4>4, Moved DEF ToolCalls
        <4>. QED BY <4>3, <4>4
      <3>. QED BY <2>2, <3>1, <3>2, <3>3, <3>4 DEF Gateway!Settle
    <2>. QED BY <1>5, <2>1, <2>2 DEF Gateway!Judge
  <1>6. ASSUME NEW i \in Calls, Gateway!Autonomy(i) PROVE GatewayInv'
    <2>0. /\ toolCall[i].pc = "checking" /\ toolCall[i].authority = "none" /\ toolCall[i].sent = 0 /\ run.scripted
          /\ toolCall[i].sort = "write" /\ ~toolCall[i].approved /\ ~toolCall[i].escalated
      BY <1>0, <1>6 DEF Gateway!Autonomy, Authorised
    <2>1. CASE Gateway!Spend(i, toolCall[i])
      BY <1>0, <1>6, <2>0, <2>1, Authorises DEF Gateway!Autonomy
    <2>2. CASE Gateway!To(i, "proposing") /\ UNCHANGED run
      <3>1. [toolCall[i] EXCEPT !.pc = "proposing"] \in ToolCalls /\ Authorised([toolCall[i] EXCEPT !.pc = "proposing"])
        BY <1>0, <2>0 DEF ToolCalls, Authorised
      <3>. QED BY <1>6, <2>0, <2>2, <3>1, <1>0, Moved DEF ToolCalls, Gateway!Autonomy
    <2>. QED BY <1>6, <2>1, <2>2 DEF Gateway!Autonomy
  <1>7. ASSUME NEW i \in Calls, Gateway!Propose(i) PROVE GatewayInv'
    <2>1. PICK pc \in {"proposed", "refused"} : Gateway!To(i, pc)
      BY <1>7 DEF Gateway!Propose
    <2>2. [toolCall[i] EXCEPT !.pc = pc] \in ToolCalls /\ Authorised([toolCall[i] EXCEPT !.pc = pc])
          /\ [toolCall[i] EXCEPT !.pc = pc].authority = toolCall[i].authority
      BY <1>0, <1>7 DEF Gateway!Propose, ToolCalls, Authorised
    <2>. QED BY <1>7, <2>1, <2>2, Moved DEF Gateway!Propose
  <1>8. ASSUME NEW i \in Calls, Gateway!Send(i) PROVE GatewayInv'
    <2>. DEFINE c == [toolCall[i] EXCEPT !.pc = "sent", !.sent = @ + 1, !.tries = @ + 1]
    <2>1. c \in ToolCalls /\ c.authority = toolCall[i].authority /\ Authorised(c)
      <3>0. toolCall[i] \in ToolCalls /\ Authorised(toolCall[i]) /\ toolCall[i].pc = "sending"
        BY <1>0, <1>8 DEF Gateway!Send
      <3>1. /\ c \in ToolCalls /\ c.authority = toolCall[i].authority /\ c.pc = "sent" /\ c.sent = toolCall[i].sent + 1
            /\ c.sort = toolCall[i].sort /\ c.approved = toolCall[i].approved /\ c.escalated = toolCall[i].escalated
            /\ c.rewritten = toolCall[i].rewritten
        <4>1. toolCall[i].sent + 1 \in Nat /\ toolCall[i].tries + 1 \in Nat
          BY <3>0 DEF ToolCalls
        <4>3. PICK s \in Nat, t \in Nat : s = toolCall[i].sent + 1 /\ t = toolCall[i].tries + 1
          BY <4>1
        <4>4. c = [toolCall[i] EXCEPT !.pc = "sent", !.sent = s, !.tries = t]
          BY <4>3
        <4>. HIDE DEF c
        <4>. QED BY <3>0, <4>3, <4>4 DEF ToolCalls
      <3>2. /\ toolCall[i].sent \in Nat
            /\ toolCall[i].sort # "read" => toolCall[i].sent = 0 /\ toolCall[i].authority # "none"
            /\ toolCall[i].authority \in {"grant", "delegation"} =>
                  toolCall[i].sort = "write" /\ ~toolCall[i].approved /\ ~toolCall[i].escalated
            /\ toolCall[i].authority = "approval" => toolCall[i].approved /\ ~toolCall[i].rewritten
        BY <3>0 DEF ToolCalls, Authorised
      <3>. HIDE DEF c
      <3>3. Authorised(c)
        BY <3>1, <3>2 DEF Authorised
      <3>. QED BY <3>1, <3>3
    <2>2. [toolCall[i] EXCEPT !.pc = "refused"] \in ToolCalls /\ Authorised([toolCall[i] EXCEPT !.pc = "refused"])
          /\ [toolCall[i] EXCEPT !.pc = "refused"].authority = toolCall[i].authority
      BY <1>0, <1>8 DEF Gateway!Send, ToolCalls, Authorised
    <2>. QED BY <1>8, <2>1, <2>2, Moved DEF Gateway!Send
  <1>9. ASSUME NEW i \in Calls, Gateway!Return(i) PROVE GatewayInv'
    <2>1. PICK pc \in {"done", "refused", "sending"} : Gateway!To(i, pc) /\ (pc = "sending" => toolCall[i].sort = "read")
      BY <1>9 DEF Gateway!Return, Gateway!Reads
    <2>2. [toolCall[i] EXCEPT !.pc = pc] \in ToolCalls /\ Authorised([toolCall[i] EXCEPT !.pc = pc])
          /\ [toolCall[i] EXCEPT !.pc = pc].authority = toolCall[i].authority
      BY <1>0, <1>9, <2>1 DEF Gateway!Return, ToolCalls, Authorised
    <2>. QED BY <1>9, <2>1, <2>2, Moved DEF Gateway!Return
  <1>. QED BY <1>1, <1>2, <1>3, <1>4, <1>5, <1>6, <1>7, <1>8, <1>9 DEF Gateway!Next

LEMMA GatewayInvariant == HostSpec => [](part = "gateway" => GatewayInv)
  <1>1. HostInit => (part = "gateway" => GatewayInv)
    BY GatewayInit DEF HostInit
  <1>2. (part = "gateway" => GatewayInv) /\ [HostNext]_hostVars => (part = "gateway" => GatewayInv)'
    BY GatewayStep, OnePart
  <1>. QED BY <1>1, <1>2, PTL DEF HostSpec

\* However the calls of a run meet, a write is sent once and by an authority of
\* its own, and what the policy sends to a person is never sent by another.
THEOREM WritesHold == HostSpec => []WritesAuthorised
  <1>1. (part = "gateway" => GatewayInv) => WritesAuthorised
    <2>. SUFFICES ASSUME GatewayInv PROVE Gateway!WritesAuthorised
      BY DEF WritesAuthorised
    <2>1. ASSUME NEW i \in Calls, toolCall[i].sent > 0, toolCall[i].sort # "read"
          PROVE  /\ toolCall[i].sent = 1 /\ toolCall[i].authority # "none"
                 /\ toolCall[i].authority = "approval" => toolCall[i].approved /\ ~toolCall[i].rewritten
                 /\ toolCall[i].sort = "sensitive" \/ toolCall[i].escalated => toolCall[i].authority = "approval"
      <3>1. toolCall[i] \in ToolCalls /\ Authorised(toolCall[i])
        BY DEF GatewayInv, GatewayTypes
      <3>2. toolCall[i].sent \in Nat /\ toolCall[i].authority \in {"none", "grant", "delegation", "approval"}
        BY <3>1 DEF ToolCalls
      <3>. QED BY <2>1, <3>1, <3>2 DEF Authorised
    <2>2. Cardinality(Gateway!By("delegation")) <= Delegated
      <3>1. /\ run.delegated \in Nat /\ Cardinality(Gateway!By("delegation")) \in Nat /\ Delegated \in Nat
            /\ run.delegated + Cardinality(Gateway!By("delegation")) <= Delegated
        BY GivenFinite, HostAssumption DEF GatewayInv, GatewayTypes, Spent
      <3>. QED BY <3>1
    <2>3. ~run.scripted => Cardinality(Gateway!By("grant")) <= Budget
      <3>1. /\ run.remaining \in Int /\ Cardinality(Gateway!By("grant")) \in Nat /\ Budget \in Nat
            /\ ~run.scripted => run.remaining >= 0 /\ run.remaining + Cardinality(Gateway!By("grant")) <= Budget
        BY GivenFinite, HostAssumption DEF GatewayInv, GatewayTypes, Spent
      <3>. QED BY <3>1
    <2>4. ASSUME NEW i \in Calls, toolCall[i].sent > 0 /\ ~Gateway!Reads(toolCall[i])
          PROVE  /\ toolCall[i].sent = 1 /\ toolCall[i].authority # "none"
                 /\ toolCall[i].authority = "approval" => toolCall[i].approved /\ ~toolCall[i].rewritten
                 /\ toolCall[i].sort = "sensitive" \/ toolCall[i].escalated => toolCall[i].authority = "approval"
      BY <2>1, <2>4 DEF Gateway!Reads
    <2>. QED BY <2>2, <2>3, <2>4, SameCardinality, Zenon DEF Gateway!WritesAuthorised
  <1>. QED BY <1>1, GatewayInvariant, PTL

-------------------------------------------------------------------------------
(* DocumentSaver *)

Files == [version : Nat, content : [Saver!Changes -> Nat]]

Edits == [pc : {"idle", "trying", "loading", "saving", "saved", "holding", "noting", "starting", "waiting", "failed"},
          kind : {"edit", "reply"}, read : Files, tries : Nat]

Savers == [pc : {"none", "looking", "looked", "reading", "loading", "saving", "saved", "noting",
                 "reporting", "dropping", "dropped", "telling"},
           edits : Seq(Calls), reply : Calls \cup {None}, read : Files, tries : Nat, failed : Nat, found : BOOLEAN,
           due : SUBSET Calls]

SaverTypes ==
    /\ doc \in [version : Nat, content : [Saver!Changes -> Nat], open : BOOLEAN]
    /\ held \in [on : BOOLEAN, edits : Seq(Calls), reply : Calls \cup {None}]
    /\ edit \in [Calls -> Edits]
    /\ saver \in Savers
    /\ queued \subseteq Calls /\ told \subseteq Calls /\ unheard \subseteq Calls /\ saverFaults \in Nat

\* A file that was read is the document, unless that has a later version.
Current(read) == read.version <= doc.version /\ (read.version = doc.version => read.content = doc.content)
ReadsTrue == Current(Saver!Unread) /\ Current(saver.read) /\ \A i \in Calls : Current(edit[i].read)

\* A call from the moment it holds its change for Word, saves it or gives it up.
Passed(c) == c.pc \notin {"idle", "trying", "loading", "saving", "holding"}
Saving == saver.pc \in {"loading", "saving", "saved"}
HeldFor(x) == x \in Saver!Range(held.edits) \/ x = held.reply

\* Nothing is held twice, and the saver saves what was held first.
HeldOnce ==
    /\ \A m, n \in 1 .. Len(held.edits) : held.edits[m] = held.edits[n] => m = n
    /\ \A x \in Saver!Range(held.edits) : edit[x].kind = "edit" /\ Passed(edit[x])
    /\ held.reply # None => edit[held.reply].kind = "reply" /\ Passed(edit[held.reply])
    /\ Saving =>
          /\ Len(saver.edits) <= Len(held.edits)
          /\ \A n \in 1 .. Len(saver.edits) : saver.edits[n] = held.edits[n]
          /\ saver.reply # None => edit[saver.reply].kind = "reply" /\ Passed(edit[saver.reply])

\* The saver has something to tell between a save or a drop and its notice.
Telling == {"saved", "noting", "reporting", "dropped", "telling"}
Known(x) == x \in told \/ x \in saver.due \/ x \in unheard
Remembered ==
    /\ \A i \in queued : HeldFor(i) \/ doc.content[i] > 0 \/ Known(i)
    /\ saver.pc = "saved" => \A x \in Saver!Held : doc.content[x] > 0 \/ x \in saver.due
    /\ saver.due # {} => saver.pc \in Telling

\* While nothing is lost, what is held is not in the document yet.
Once == saverFaults = 0 =>
    /\ \A x \in Saver!Changes : doc.content[x] <= 1
    /\ \A i \in Calls : ~Passed(edit[i]) => doc.content[i] = 0
    /\ \A x \in Calls : HeldFor(x) => doc.content[x] = 0 \/ (saver.pc = "saved" /\ x \in Saver!Held)
    /\ saver.pc \in {"loading", "saving"} /\ saver.reply # None => doc.content[saver.reply] = 0

\* While nothing is lost, what is told, or about to be, is not in the document,
\* and nobody will put it there: it is not held, nor in the saver's hand, but for
\* the reply of the save that was just made without it.
Honest == saverFaults = 0 => \A x \in told \cup saver.due :
    /\ doc.content[x] = 0
    /\ Passed(edit[x])
    /\ HeldFor(x) => saver.pc = "saved" /\ x = saver.reply
    /\ saver.pc \in {"loading", "saving"} => x \notin Saver!Held

SaverInv == SaverTypes /\ ReadsTrue /\ HeldOnce /\ Remembered /\ Once /\ Honest

LEMMA SaverInit == Saver!Init => SaverInv
  <1>. SUFFICES ASSUME Saver!Init PROVE SaverInv
    OBVIOUS
  <1>1. Saver!Unread \in Files /\ Current(Saver!Unread)
    BY DEF Saver!Init, Saver!Unread, Files, Current
  <1>2. SaverTypes
    BY <1>1, HostAssumption DEF Saver!Init, SaverTypes, Saver!NotHeld, Saver!NoCall, Saver!NoSaver, Edits, Savers
  <1>3. ReadsTrue
    BY <1>1 DEF Saver!Init, ReadsTrue, Saver!NoCall, Saver!NoSaver
  <1>4. HeldOnce
    BY DEF Saver!Init, HeldOnce, Saver!NotHeld, Saver!NoSaver, Saving, Saver!Range
  <1>5. Remembered /\ Honest
    BY DEF Saver!Init, Remembered, Honest, Saver!NoSaver
  <1>6. Once
    BY HostAssumption DEF Saver!Init, Once, Saver!NotHeld, Saver!NoSaver, Saver!Range, HeldFor, Saver!Changes
  <1>. QED BY <1>2, <1>3, <1>4, <1>5, <1>6 DEF SaverInv

\* A call goes on: the document, the saver and what is held are left alone.
LEMMA CallMoves ==
    ASSUME SaverInv, NEW i \in Calls, NEW c \in Edits, edit' = [edit EXCEPT ![i] = c], Current(c.read),
           Passed(edit[i]) => Passed(c) /\ c.kind = edit[i].kind,
           UNCHANGED <<doc, held, saver, queued, told, unheard>>, saverFaults' \in Nat, saverFaults' = 0 => saverFaults = 0
           , ~Passed(c) => ~Passed(edit[i])
    PROVE  SaverInv'
  <1>0. /\ edit'[i] = c
        /\ \A j \in Calls : j # i => edit'[j] = edit[j]
    BY DEF SaverInv, SaverTypes
  <1>1. SaverTypes'
    BY DEF SaverInv, SaverTypes
  <1>2. ReadsTrue'
    BY <1>0 DEF SaverInv, ReadsTrue, Current
  <1>3. Saver!Range(held.edits) \subseteq Calls /\ held.reply \in Calls \cup {None} /\ saver.reply \in Calls \cup {None}
    BY DEF SaverInv, SaverTypes, Savers, Saver!Range
  <1>4. \A j \in Calls : Passed(edit[j]) => Passed(edit'[j]) /\ edit'[j].kind = edit[j].kind
    BY <1>0
  <1>5. HeldOnce'
    BY <1>3, <1>4 DEF SaverInv, HeldOnce, Saving, Saver!Range
  <1>6. Remembered'
    BY DEF SaverInv, Remembered, Known, HeldFor, Saver!Held, Saver!InHand, Saver!Range
  <1>7. Once'
    BY <1>0 DEF SaverInv, Once, HeldFor, Saver!Held, Saver!InHand, Saver!Range
  <1>8. Honest'
    <2>1. told \subseteq Calls /\ saver.due \subseteq Calls
      BY DEF SaverInv, SaverTypes, Savers
    <2>2. Saver!Held' = Saver!Held /\ \A x : HeldFor(x)' <=> HeldFor(x)
      BY DEF HeldFor, Saver!Held, Saver!InHand, Saver!Range
    <2>. QED BY <1>4, <2>1, <2>2 DEF SaverInv, Honest
  <1>. QED BY <1>1, <1>2, <1>5, <1>6, <1>7, <1>8 DEF SaverInv

\* The saver goes on without saving: what it has read to save stays, or is dropped.
LEMMA SaverMoves ==
    ASSUME SaverInv, NEW s \in Savers, saver' = s, Current(s.read), saver.pc # "saved", s.pc # "saved",
           s.pc \in {"loading", "saving"} => saver.pc \in {"loading", "saving"} /\ s.edits = saver.edits /\ s.reply = saver.reply,
           s.due = saver.due, s.due # {} => s.pc \in Telling,
           UNCHANGED <<doc, held, edit, queued, told, unheard>>, saverFaults' \in Nat, saverFaults' = 0 => saverFaults = 0
    PROVE  SaverInv'
  <1>1. SaverTypes'
    BY DEF SaverInv, SaverTypes
  <1>2. ReadsTrue'
    BY DEF SaverInv, ReadsTrue, Current
  <1>3. HeldOnce'
    BY DEF SaverInv, HeldOnce, Saving, Saver!Range
  <1>4. Remembered'
    BY DEF SaverInv, Remembered, Known, HeldFor, Saver!Range
  <1>5. Once'
    BY DEF SaverInv, Once, HeldFor, Saver!Range
  <1>6. Honest'
    <2>1. s.pc \in {"loading", "saving"} => Saver!Held' = Saver!Held
      BY DEF Saver!Held, Saver!InHand, Saver!Range
    <2>2. \A x : HeldFor(x)' <=> HeldFor(x)
      BY DEF HeldFor, Saver!Range
    <2>. QED BY <2>1, <2>2 DEF SaverInv, Honest
  <1>. QED BY <1>1, <1>2, <1>3, <1>4, <1>5, <1>6 DEF SaverInv

\* A save over the version that was read adds what it makes, and is a later version.
LEMMA Writes ==
    ASSUME SaverInv, NEW read \in Files, NEW made, Current(read), read.version = doc.version, Saver!Overwrites(read, made)
    PROVE  /\ doc' \in [version : Nat, content : [Saver!Changes -> Nat], open : BOOLEAN]
           /\ \A x \in Saver!Changes : doc'.content[x] = doc.content[x] + (IF x \in made THEN 1 ELSE 0)
           /\ \A r \in Files : Current(r) => Current(r)'
  <1>1. read.content = doc.content /\ doc.version \in Nat /\ doc.content \in [Saver!Changes -> Nat]
    BY DEF Current, SaverInv, SaverTypes
  <1>. DEFINE new == [x \in Saver!Changes |-> read.content[x] + (IF x \in made THEN 1 ELSE 0)]
  <1>2. /\ doc'.version = doc.version + 1 /\ doc'.content = new
        /\ doc' = [doc EXCEPT !.version = doc.version + 1, !.content = new]
    BY DEF Saver!Overwrites, SaverInv, SaverTypes
  <1>3. new \in [Saver!Changes -> Nat]
    BY <1>1
  <1>4. \A x \in Saver!Changes : new[x] = doc.content[x] + (IF x \in made THEN 1 ELSE 0)
    BY <1>1
  <1>. HIDE DEF new
  <1>5. doc' \in [version : Nat, content : [Saver!Changes -> Nat], open : BOOLEAN]
    <2>1. doc.version + 1 \in Nat
      BY <1>1
    <2>2. PICK v \in Nat : v = doc.version + 1
      BY <2>1
    <2>. QED BY <1>2, <1>3, <2>2 DEF SaverInv, SaverTypes
  <1>6. \A r \in Files : Current(r) => Current(r)'
    BY <1>1, <1>2 DEF Current, Files
  <1>. QED BY <1>2, <1>4, <1>5, <1>6

\* A call saves its change.
LEMMA CallWrites ==
    ASSUME SaverInv, NEW i \in Calls, NEW c \in Edits, edit' = [edit EXCEPT ![i] = c], c.read = edit[i].read,
           ~Passed(edit[i]), Passed(c), c.kind = edit[i].kind,
           edit[i].read.version = doc.version, Saver!Overwrites(edit[i].read, {i}),
           UNCHANGED <<held, saver, queued, told, unheard>>, saverFaults' \in Nat, saverFaults' = 0 => saverFaults = 0
    PROVE  SaverInv'
  <1>0. /\ edit'[i] = c
        /\ \A j \in Calls : j # i => edit'[j] = edit[j]
        /\ \A j \in Calls : edit[j].read \in Files /\ Current(edit[j].read)
    BY DEF SaverInv, SaverTypes, ReadsTrue, Edits
  <1>1. /\ doc' \in [version : Nat, content : [Saver!Changes -> Nat], open : BOOLEAN]
        /\ \A x \in Saver!Changes : doc'.content[x] = doc.content[x] + (IF x \in {i} THEN 1 ELSE 0)
        /\ \A r \in Files : Current(r) => Current(r)'
    BY <1>0, Writes
  <1>2. \A x \in Saver!Changes : doc.content[x] \in Nat
    BY DEF SaverInv, SaverTypes
  <1>3. SaverTypes'
    BY <1>1 DEF SaverInv, SaverTypes
  <1>4. ReadsTrue'
    <2>1. saver.read \in Files /\ Saver!Unread \in Files
      BY DEF SaverInv, SaverTypes, Savers, Saver!Unread, Files
    <2>. QED BY <1>0, <1>1, <2>1 DEF SaverInv, ReadsTrue, Current
  <1>5. \A j \in Calls : Passed(edit[j]) => Passed(edit'[j]) /\ edit'[j].kind = edit[j].kind
    BY <1>0
  <1>6. Saver!Range(held.edits) \subseteq Calls /\ held.reply \in Calls \cup {None} /\ saver.reply \in Calls \cup {None}
        /\ saver.edits \in Seq(Calls) /\ Saver!Range(saver.edits) \subseteq Calls /\ Calls \subseteq Saver!Changes
    BY DEF SaverInv, SaverTypes, Savers, Saver!Range, Saver!Changes
  <1>7. HeldOnce'
    BY <1>5, <1>6 DEF SaverInv, HeldOnce, Saving, Saver!Range
  <1>8. Remembered'
    <2>2. ASSUME NEW x \in Calls, doc.content[x] > 0 PROVE doc'.content[x] > 0
      <3>1. x \in Saver!Changes /\ doc.content[x] \in Nat
        BY <1>2, <1>6
      <3>2. doc'.content[x] = doc.content[x] \/ doc'.content[x] = doc.content[x] + 1
        BY <1>1, <3>1
      <3>. QED BY <2>2, <3>1, <3>2
    <2>3. Saver!Held' = Saver!Held /\ \A x \in Calls : HeldFor(x)' <=> HeldFor(x)
      <3>1. Saver!Held' = Saver!Held
        BY DEF Saver!Held, Saver!InHand, Saver!Range
      <3>2. \A x \in Calls : HeldFor(x)' <=> HeldFor(x)
        BY DEF HeldFor, Saver!Range
      <3>. QED BY <3>1, <3>2
    <2>4. queued \subseteq Calls /\ Saver!Held \subseteq Calls
      BY <1>6 DEF SaverInv, SaverTypes, Saver!Held, Saver!InHand
    <2>5. \A j \in queued' : HeldFor(j)' \/ doc'.content[j] > 0 \/ Known(j)'
      BY <2>2, <2>3, <2>4 DEF SaverInv, Remembered, Known
    <2>6. saver'.pc = "saved" => \A x \in Saver!Held' : doc'.content[x] > 0 \/ x \in saver'.due
      BY <2>2, <2>3, <2>4 DEF SaverInv, Remembered
    <2>. QED BY <2>5, <2>6 DEF SaverInv, Remembered
  <1>9. Once'
    <2>. SUFFICES ASSUME saverFaults = 0 PROVE Once'
      BY DEF Once
    <2>1. doc.content[i] = 0 /\ \A x \in Saver!Changes : x # i => doc'.content[x] = doc.content[x]
      BY <1>1, <1>2, <1>6 DEF SaverInv, Once
    <2>2. doc'.content[i] = 1
      BY <1>1, <1>6, <2>1
    <2>3. ~HeldFor(i) /\ (Saving => i # saver.reply)
      BY <1>6, HostAssumption DEF SaverInv, HeldOnce, HeldFor
    <2>4. \A j \in Calls : ~Passed(edit'[j]) => ~Passed(edit[j]) /\ j # i
      BY <1>0
    <2>5. \A x \in Saver!Changes : doc'.content[x] <= 1
      BY <2>1, <2>2 DEF SaverInv, Once
    <2>6. \A j \in Calls : ~Passed(edit'[j]) => doc'.content[j] = 0
      BY <1>6, <2>1, <2>4 DEF SaverInv, Once
    <2>7. \A x \in Calls : HeldFor(x)' => doc'.content[x] = 0 \/ (saver'.pc = "saved" /\ x \in Saver!Held')
      BY <1>6, <2>1, <2>3 DEF SaverInv, Once, HeldFor, Saver!Range, Saver!Held, Saver!InHand
    <2>8. saver'.pc \in {"loading", "saving"} /\ saver'.reply # None => doc'.content[saver'.reply] = 0
      BY <1>6, <2>1, <2>3 DEF SaverInv, Once, Saving
    <2>. QED BY <2>5, <2>6, <2>7, <2>8 DEF Once
  <1>10. Honest'
    <2>. SUFFICES ASSUME saverFaults = 0, NEW x \in told \cup saver.due
                  PROVE  /\ doc'.content[x] = 0
                         /\ Passed(edit'[x])
                         /\ HeldFor(x)' => saver.pc = "saved" /\ x = saver.reply
                         /\ saver.pc \in {"loading", "saving"} => x \notin Saver!Held'
      BY DEF Honest
    <2>1. x \in Calls /\ x # i
      BY DEF SaverInv, SaverTypes, Savers, Honest
    <2>2. Saver!Held' = Saver!Held /\ (HeldFor(x)' <=> HeldFor(x))
      BY DEF HeldFor, Saver!Held, Saver!InHand, Saver!Range
    <2>. QED BY <1>1, <1>2, <1>5, <1>6, <2>1, <2>2 DEF SaverInv, Honest
  <1>. QED BY <1>3, <1>4, <1>7, <1>8, <1>9, <1>10 DEF SaverInv

\* What the saver saves is held, or was the last reply, and is of calls that have passed.
LEMMA HeldPassed ==
    ASSUME SaverInv
    PROVE  /\ Saver!Range(held.edits) \subseteq Calls /\ held.reply \in Calls \cup {None}
           /\ Saver!Held \subseteq Calls /\ Calls \subseteq Saver!Changes
           /\ \A x \in Calls : HeldFor(x) => Passed(edit[x])
           /\ Saving => /\ Saver!Range(saver.edits) \subseteq Saver!Range(held.edits)
                        /\ \A x \in Saver!Held : Passed(edit[x])
  <1>1. Saver!Range(held.edits) \subseteq Calls /\ held.reply \in Calls \cup {None} /\ Saver!Held \subseteq Calls
        /\ Calls \subseteq Saver!Changes
    BY DEF SaverInv, SaverTypes, Savers, Saver!Range, Saver!Held, Saver!InHand, Saver!Changes
  <1>2. \A x \in Calls : HeldFor(x) => Passed(edit[x])
    BY HostAssumption DEF SaverInv, HeldOnce, HeldFor
  <1>3. ASSUME Saving PROVE Saver!Range(saver.edits) \subseteq Saver!Range(held.edits)
    <2>1. /\ Len(saver.edits) \in Nat /\ Len(held.edits) \in Nat
          /\ Len(saver.edits) <= Len(held.edits)
          /\ \A n \in 1 .. Len(saver.edits) : saver.edits[n] = held.edits[n]
      BY <1>3 DEF SaverInv, SaverTypes, Savers, HeldOnce
    <2>. QED BY <2>1 DEF Saver!Range
  <1>4. ASSUME Saving, NEW x \in Saver!Held PROVE Passed(edit[x])
    <2>1. x \in Saver!Range(saver.edits) \/ (x = saver.reply /\ saver.reply # None)
      BY <1>4 DEF Saver!Held, Saver!InHand
    <2>2. CASE x = saver.reply /\ saver.reply # None
      BY <1>4, <2>2 DEF SaverInv, HeldOnce
    <2>3. CASE x \in Saver!Range(held.edits)
      BY <2>3 DEF SaverInv, HeldOnce
    <2>. QED BY <1>3, <1>4, <2>1, <2>2, <2>3
  <1>. QED BY <1>1, <1>2, <1>3, <1>4

\* The saver saves, or its save was made and the answer to it lost.
LEMMA SaverWrites ==
    ASSUME SaverInv, saver.pc = "saving", NEW s \in Savers, saver' = s, s.read = saver.read, NEW made,
           saver.read.version = doc.version, Saver!Overwrites(saver.read, made), made \subseteq Saver!Held,
           s.pc \in {"saved", "looking", "dropping"}, s.pc # "saved" => s.due = {},
           s.pc = "saved" => /\ s.edits = saver.edits /\ s.reply = saver.reply
                             /\ \A x \in Saver!Held : x \in made \/ x \in s.due
                             /\ \A x \in s.due : x = saver.reply /\ x \notin made,
           UNCHANGED <<held, edit, queued, told, unheard>>, saverFaults' \in Nat,
           saverFaults' = 0 => saverFaults = 0 /\ s.pc = "saved"
    PROVE  SaverInv'
  <1>0. /\ saver.read \in Files /\ Current(saver.read)
        /\ Saver!Unread \in Files /\ Current(Saver!Unread)
        /\ \A j \in Calls : edit[j].read \in Files /\ Current(edit[j].read)
    <2>1. saver.read \in Files /\ Saver!Unread \in Files /\ \A j \in Calls : edit[j].read \in Files
      BY DEF SaverInv, SaverTypes, Edits, Savers, Saver!Unread, Files
    <2>. QED BY <2>1 DEF SaverInv, ReadsTrue
  <1>1. /\ doc' \in [version : Nat, content : [Saver!Changes -> Nat], open : BOOLEAN]
        /\ \A x \in Saver!Changes : doc'.content[x] = doc.content[x] + (IF x \in made THEN 1 ELSE 0)
        /\ \A r \in Files : Current(r) => Current(r)'
    BY <1>0, Writes
  <1>2. \A x \in Saver!Changes : doc.content[x] \in Nat
    BY DEF SaverInv, SaverTypes
  <1>3. SaverTypes'
    BY <1>1 DEF SaverInv, SaverTypes
  <1>4. ReadsTrue'
    <2>1. Current(Saver!Unread)'
      BY <1>0, <1>1
    <2>2. Current(saver.read)'
      BY <1>0, <1>1 DEF Current
    <2>3. \A k \in Calls : Current(edit[k].read)'
      BY <1>0, <1>1 DEF Current
    <2>. QED BY <2>1, <2>2, <2>3 DEF ReadsTrue
  <1>5. HeldOnce'
    BY DEF SaverInv, HeldOnce, Saving, Saver!Range
  <1>6. ASSUME NEW x \in Calls
        PROVE  (x \in made \/ doc.content[x] > 0) => doc'.content[x] > 0
    <2>1. x \in Saver!Changes /\ doc.content[x] \in Nat
      BY <1>2, HeldPassed
    <2>2. doc'.content[x] = IF x \in made THEN doc.content[x] + 1 ELSE doc.content[x]
      BY <1>1, <2>1
    <2>. QED BY <2>1, <2>2
  <1>7. s.pc = "saved" => Saver!Held' = Saver!Held
    BY DEF Saver!Held, Saver!InHand, Saver!Range
  <1>H. \A x \in Calls : HeldFor(x)' <=> HeldFor(x)
    BY DEF HeldFor, Saver!Range
  <1>8. Remembered'
    <2>0. saver.due = {}
      BY DEF SaverInv, Remembered, Telling
    <2>1. ASSUME NEW j \in queued PROVE HeldFor(j)' \/ doc'.content[j] > 0 \/ Known(j)'
      BY <1>6, <1>H, <2>0 DEF SaverInv, SaverTypes, Remembered, Known
    <2>2. ASSUME s.pc = "saved", NEW x \in Saver!Held PROVE doc'.content[x] > 0 \/ x \in s.due
      BY <1>6, <2>2, HeldPassed
    <2>. QED BY <1>7, <2>1, <2>2 DEF Remembered, Telling
  <1>9. Once'
    <2>. SUFFICES ASSUME saverFaults = 0, s.pc = "saved" PROVE Once'
      BY DEF Once
    <2>1. \A x \in Saver!Held : doc.content[x] = 0 /\ Passed(edit[x])
      BY HeldPassed DEF SaverInv, Once, HeldFor, Saving, Saver!Held, Saver!InHand
    <2>2. \A x \in Saver!Changes : doc'.content[x] = doc.content[x] \/ (x \in Saver!Held /\ doc'.content[x] = 1)
      BY <1>1, <1>2, <2>1, HeldPassed
    <2>3. \A x \in Saver!Changes : doc'.content[x] <= 1
      BY <2>2 DEF SaverInv, Once
    <2>4. \A j \in Calls : ~Passed(edit'[j]) => doc'.content[j] = 0
      BY <2>1, <2>2, HeldPassed DEF SaverInv, Once
    <2>5. \A x \in Calls : HeldFor(x)' => doc'.content[x] = 0 \/ (saver'.pc = "saved" /\ x \in Saver!Held')
      BY <1>7, <1>H, <2>2, HeldPassed DEF SaverInv, Once
    <2>. QED BY <2>3, <2>4, <2>5 DEF Once
  <1>10. Honest'
    <2>. SUFFICES ASSUME saverFaults = 0, s.pc = "saved", NEW x \in told \cup s.due
                  PROVE  /\ doc'.content[x] = 0
                         /\ Passed(edit[x])
                         /\ HeldFor(x)' => x = s.reply
      BY DEF Honest
    <2>1. x \in Calls /\ x # None /\ x \in Saver!Changes
      BY HeldPassed, HostAssumption DEF SaverInv, SaverTypes, Savers
    <2>2. CASE x \in s.due
      <3>1. x = saver.reply /\ x \in Saver!Held /\ doc.content[x] = 0
        BY <2>1, <2>2 DEF SaverInv, Once, Saver!Held, Saver!InHand
      <3>2. Passed(edit[x]) /\ doc'.content[x] = 0
        BY <1>1, <2>1, <2>2, <3>1, HeldPassed DEF Saving
      <3>. QED BY <3>1, <3>2
    <2>3. CASE x \in told
      <3>1. doc.content[x] = 0 /\ Passed(edit[x]) /\ ~HeldFor(x) /\ x \notin Saver!Held
        BY <2>3 DEF SaverInv, Honest
      <3>. QED BY <1>1, <1>H, <2>1, <3>1
    <2>. QED BY <2>2, <2>3
  <1>. QED BY <1>3, <1>4, <1>5, <1>8, <1>9, <1>10 DEF SaverInv

\* A change is queued behind what is held; a reply takes the place of the one before it.
LEMMA Holds == ASSUME SaverInv, NEW i \in Calls, Saver!Hold(i) PROVE SaverInv'
  <1>0. /\ edit[i].pc = "holding" /\ ~Passed(edit[i]) /\ edit[i] \in Edits /\ edit \in [Calls -> Edits]
        /\ held \in [on : BOOLEAN, edits : Seq(Calls), reply : Calls \cup {None}]
        /\ ~HeldFor(i) /\ (Saving => i \notin Saver!Held) /\ i # None /\ Current(edit[i].read)
        /\ UNCHANGED <<doc, row, saver, up, told, unheard, saverFaults>>
    BY HeldPassed, HostAssumption DEF Saver!Hold, Saver!At, Saver!CallStays, Passed, SaverInv, SaverTypes, ReadsTrue
  <1>1. CASE Saver!To(i, "failed") /\ UNCHANGED <<held, queued>>
    <2>. DEFINE c == [edit[i] EXCEPT !.pc = "failed"]
    <2>1. c \in Edits /\ c.read = edit[i].read /\ Passed(c) /\ edit' = [edit EXCEPT ![i] = c]
      BY <1>0, <1>1 DEF Edits, Passed, Saver!To
    <2>. HIDE DEF c
    <2>. QED BY <1>0, <1>1, <2>1, CallMoves DEF SaverInv, SaverTypes
  <1>2. ASSUME Saver!To(i, "noting"),
               held' = [on |-> TRUE, edits |-> IF edit[i].kind = "edit" THEN Append(held.edits, i) ELSE held.edits,
                        reply |-> IF edit[i].kind = "reply" THEN i ELSE held.reply],
               queued' = (IF edit[i].kind = "reply" THEN queued \ Saver!Replies ELSE queued) \cup {i}
        PROVE  SaverInv'
    <2>1. /\ edit' \in [Calls -> Edits] /\ Passed(edit'[i]) /\ edit'[i].kind = edit[i].kind /\ edit'[i].read = edit[i].read
          /\ \A j \in Calls : j # i => edit'[j] = edit[j]
          /\ edit[i].kind \in {"edit", "reply"}
      <3>1. /\ [edit[i] EXCEPT !.pc = "noting"] \in Edits /\ Passed([edit[i] EXCEPT !.pc = "noting"])
            /\ [edit[i] EXCEPT !.pc = "noting"].kind = edit[i].kind /\ [edit[i] EXCEPT !.pc = "noting"].read = edit[i].read
            /\ edit[i].kind \in {"edit", "reply"}
        BY <1>0 DEF Edits, Passed
      <3>. QED BY <1>0, <1>2, <3>1 DEF Saver!To
    <2>2. /\ held'.edits \in Seq(Calls) /\ held'.reply \in Calls \cup {None}
          /\ held' \in [on : BOOLEAN, edits : Seq(Calls), reply : Calls \cup {None}]
      BY <1>0, <1>2
    <2>3. Len(held.edits) \in Nat /\ \A n \in 1 .. Len(held.edits) : held.edits[n] \in Calls /\ held.edits[n] # i
      BY <1>0 DEF HeldFor, Saver!Range
    <2>4. SaverTypes'
      BY <1>0, <1>2, <2>1, <2>2 DEF SaverInv, SaverTypes
    <2>5. ReadsTrue'
      BY <1>0, <2>1 DEF SaverInv, ReadsTrue, Current
    <2>6. \A j \in Calls : Passed(edit[j]) => Passed(edit'[j]) /\ edit'[j].kind = edit[j].kind
      BY <2>1
    <2>7. saver.reply \in Calls \cup {None} /\ Len(saver.edits) \in Nat /\ queued \subseteq Calls
      BY DEF SaverInv, SaverTypes, Savers
    <2>8. Saver!Held' = Saver!Held /\ (Saving <=> Saving')
      BY <1>0 DEF Saver!Held, Saver!InHand, Saver!Range, Saving
    <2>11. saverFaults = 0 => \A x \in told \cup saver.due : x \in Calls /\ x # i
      BY <1>0 DEF SaverInv, SaverTypes, Savers, Honest
    <2>9. CASE edit[i].kind = "edit"
      <3>1. /\ Len(held'.edits) = Len(held.edits) + 1 /\ held'.edits[Len(held.edits) + 1] = i /\ held'.reply = held.reply
            /\ \A n \in 1 .. Len(held.edits) : held'.edits[n] = held.edits[n]
        BY <1>0, <1>2, <2>9
      <3>2. \A n \in 1 .. Len(held'.edits) : n = Len(held.edits) + 1 \/ n \in 1 .. Len(held.edits)
        BY <2>3, <3>1
      <3>3. Saver!Range(held.edits)' = Saver!Range(held.edits) \cup {i}
        BY <2>3, <3>1, <3>2 DEF Saver!Range
      <3>4. \A x \in Calls : HeldFor(x)' <=> HeldFor(x) \/ x = i
        BY <3>1, <3>3 DEF HeldFor
      <3>5. HeldOnce'
        <4>1. \A m, n \in 1 .. Len(held'.edits) : held'.edits[m] = held'.edits[n] => m = n
          BY <2>3, <3>1, <3>2 DEF SaverInv, HeldOnce
        <4>2. \A x \in Saver!Range(held.edits)' : edit'[x].kind = "edit" /\ Passed(edit'[x])
          BY <2>1, <2>6, <2>9, <3>3, HeldPassed DEF SaverInv, HeldOnce
        <4>3. held'.reply # None => edit'[held'.reply].kind = "reply" /\ Passed(edit'[held'.reply])
          BY <1>0, <2>6, <3>1 DEF SaverInv, HeldOnce
        <4>4. ASSUME Saving
              PROVE  /\ Len(saver.edits) <= Len(held'.edits)
                     /\ \A n \in 1 .. Len(saver.edits) : saver.edits[n] = held'.edits[n]
          BY <2>3, <2>7, <3>1, <4>4 DEF SaverInv, HeldOnce
        <4>5. Saving /\ saver.reply # None => edit'[saver.reply].kind = "reply" /\ Passed(edit'[saver.reply])
          BY <2>6, <2>7 DEF SaverInv, HeldOnce
        <4>. QED BY <1>0, <2>8, <4>1, <4>2, <4>3, <4>4, <4>5 DEF HeldOnce
      <3>6. Remembered'
        BY <1>0, <1>2, <2>7, <2>8, <2>9, <3>4 DEF SaverInv, Remembered, Known
      <3>7. Once'
        <4>. SUFFICES ASSUME saverFaults = 0 PROVE Once'
          BY <1>0 DEF Once
        <4>1. doc.content[i] = 0 /\ \A x \in Saver!Changes : doc.content[x] <= 1
          BY <1>0 DEF SaverInv, Once
        <4>2. \A j \in Calls : ~Passed(edit'[j]) => doc.content[j] = 0
          BY <2>1, <4>1 DEF SaverInv, Once
        <4>3. \A x \in Calls : HeldFor(x)' => doc.content[x] = 0 \/ (saver.pc = "saved" /\ x \in Saver!Held)
          BY <3>4, <4>1 DEF SaverInv, Once
        <4>4. saver.pc \in {"loading", "saving"} /\ saver.reply # None => doc.content[saver.reply] = 0
          BY DEF SaverInv, Once
        <4>. QED BY <1>0, <2>8, <4>1, <4>2, <4>3, <4>4 DEF Once
      <3>8. Honest'
        BY <1>0, <2>6, <2>8, <2>11, <3>4 DEF SaverInv, Honest
      <3>. QED BY <2>4, <2>5, <3>5, <3>6, <3>7, <3>8 DEF SaverInv
    <2>10. CASE edit[i].kind = "reply"
      <3>1. held'.edits = held.edits /\ held'.reply = i
        BY <1>2, <2>10
      <3>2. Saver!Range(held.edits)' = Saver!Range(held.edits)
        BY <3>1 DEF Saver!Range
      <3>3. \A x \in Calls : (HeldFor(x)' => HeldFor(x) \/ x = i) /\ HeldFor(i)'
                             /\ (HeldFor(x) /\ x \notin Saver!Replies => HeldFor(x)')
        <4>1. \A x \in Calls : x = held.reply => x \in Saver!Replies
          BY HostAssumption DEF SaverInv, HeldOnce, Saver!Replies
        <4>. QED BY <3>1, <3>2, <4>1 DEF HeldFor
      <3>5. HeldOnce'
        <4>2. \A x \in Saver!Range(held.edits)' : edit'[x].kind = "edit" /\ Passed(edit'[x])
          BY <2>6, <3>2, HeldPassed DEF SaverInv, HeldOnce
        <4>3. edit'[held'.reply].kind = "reply" /\ Passed(edit'[held'.reply])
          BY <2>1, <2>10, <3>1
        <4>5. Saving /\ saver.reply # None => edit'[saver.reply].kind = "reply" /\ Passed(edit'[saver.reply])
          BY <2>6, <2>7 DEF SaverInv, HeldOnce
        <4>. QED BY <1>0, <2>8, <3>1, <4>2, <4>3, <4>5 DEF SaverInv, HeldOnce
      <3>6. Remembered'
        <4>1. ASSUME NEW j \in queued' PROVE HeldFor(j)' \/ doc'.content[j] > 0 \/ Known(j)'
          <5>1. j = i \/ (j \in queued /\ j \notin Saver!Replies)
            BY <1>2, <2>10
          <5>. QED BY <1>0, <2>7, <3>3, <5>1 DEF SaverInv, Remembered, Known
        <4>. QED BY <1>0, <2>8, <4>1 DEF SaverInv, Remembered
      <3>7. Once'
        BY <1>0, <2>1, <2>8, <3>3 DEF SaverInv, Once
      <3>8. Honest'
        BY <1>0, <2>6, <2>8, <2>11, <3>3 DEF SaverInv, Honest
      <3>. QED BY <2>4, <2>5, <3>5, <3>6, <3>7, <3>8 DEF SaverInv
    <2>. QED BY <2>1, <2>9, <2>10
  <1>. QED BY <1>1, <1>2 DEF Saver!Hold

\* A sequence without its first elements.
LEMMA Rest ==
    ASSUME NEW S, NEW h \in Seq(S), NEW l \in Nat, l <= Len(h)
    PROVE  /\ SubSeq(h, l + 1, Len(h)) \in Seq(S)
           /\ Len(SubSeq(h, l + 1, Len(h))) = Len(h) - l
           /\ \A n \in 1 .. Len(h) - l : n + l \in 1 .. Len(h) /\ SubSeq(h, l + 1, Len(h))[n] = h[n + l]
  OBVIOUS

\* What was saved is let go, and only that.
LEMMA Saves == ASSUME SaverInv, Saver!Saved PROVE SaverInv'
  <1>. DEFINE h == held.edits
              l == Len(saver.edits)
              rest == SubSeq(h, l + 1, Len(h))
  <1>0. /\ saver.pc = "saved" /\ Saving /\ saver.reply \in Calls \cup {None}
        /\ h \in Seq(Calls) /\ l \in Nat /\ Len(h) \in Nat /\ l <= Len(h)
        /\ saver.edits \in Seq(Calls) /\ \A n \in 1 .. l : saver.edits[n] = h[n]
        /\ UNCHANGED <<doc, row, told, unheard, saverFaults, edit, up, queued>>
    BY DEF Saver!Saved, Saver!SaverAt, Saver!SaverStays, Saving, SaverInv, SaverTypes, Savers, HeldOnce
  <1>1. /\ rest \in Seq(Calls) /\ Len(rest) = Len(h) - l
        /\ \A n \in 1 .. Len(rest) : n + l \in 1 .. Len(h) /\ rest[n] = h[n + l]
    <2>. HIDE DEF h, l
    <2>1. /\ rest \in Seq(Calls) /\ Len(rest) = Len(h) - l
          /\ \A n \in 1 .. Len(h) - l : n + l \in 1 .. Len(h) /\ rest[n] = h[n + l]
      BY <1>0, Rest
    <2>. HIDE DEF rest
    <2>. QED BY <2>1
  <1>2. /\ held' \in [on : BOOLEAN, edits : Seq(Calls), reply : Calls \cup {None}]
        /\ held'.edits = rest
        /\ held'.reply = IF held.reply # saver.reply THEN held.reply ELSE None
    <2>1. Saver!Left = rest /\ rest \in Seq(Calls) /\ Saver!LaterReply = IF held.reply # saver.reply THEN held.reply ELSE None
      BY <1>1 DEF Saver!Left, Saver!LaterReply
    <2>2. Saver!LaterReply \in Calls \cup {None}
      BY <2>1 DEF SaverInv, SaverTypes
    <2>3. CASE Saver!Left # <<>> \/ Saver!LaterReply # None
      <3>1. held' = [on |-> TRUE, edits |-> Saver!Left, reply |-> Saver!LaterReply]
        BY <2>3 DEF Saver!Saved
      <3>. QED BY <2>1, <2>2, <3>1
    <2>4. CASE Saver!Left = <<>> /\ Saver!LaterReply = None
      <3>1. held' = [on |-> FALSE, edits |-> <<>>, reply |-> None]
        BY <2>4 DEF Saver!Saved, Saver!NotHeld
      <3>. QED BY <2>1, <2>4, <3>1
    <2>. QED BY <2>3, <2>4
  <1>3. /\ saver' \in Savers /\ saver'.pc = "noting" /\ saver'.read = saver.read /\ saver'.due = saver.due
    <2>1. held'.on \in BOOLEAN /\ saver' = [saver EXCEPT !.pc = "noting", !.found = held'.on]
      BY <1>2 DEF Saver!Saved
    <2>. QED BY <2>1 DEF SaverInv, SaverTypes, Savers
  <1>4. Saver!Range(held.edits)' \subseteq Saver!Range(held.edits)
    BY <1>1, <1>2 DEF Saver!Range
  <1>5. ASSUME NEW x \in Saver!Range(held.edits)
        PROVE  x \in Saver!Range(held.edits)' \/ x \in Saver!Range(saver.edits)
    <2>1. PICK n \in 1 .. Len(h) : x = h[n]
      BY <1>5 DEF Saver!Range
    <2>2. CASE n <= l
      <3>1. n \in 1 .. l /\ x = saver.edits[n]
        BY <1>0, <2>1, <2>2
      <3>. QED BY <3>1 DEF Saver!Range
    <2>3. CASE n > l
      <3>1. n - l \in 1 .. Len(rest) /\ (n - l) + l = n
        <4>. HIDE DEF h, l, rest
        <4>. QED BY <1>0, <1>1, <2>3
      <3>2. rest[n - l] = x
        BY <1>1, <2>1, <3>1
      <3>. HIDE DEF rest
      <3>. QED BY <1>2, <3>1, <3>2 DEF Saver!Range
    <2>. QED BY <1>0, <2>2, <2>3
  <1>6. ASSUME NEW x \in Calls, HeldFor(x)' PROVE HeldFor(x) /\ x \notin Saver!Held
    <2>1. CASE x \in Saver!Range(held.edits)'
      <3>1. PICK n \in 1 .. Len(rest) : x = rest[n]
        BY <1>2, <2>1 DEF Saver!Range
      <3>2. n + l \in 1 .. Len(h) /\ x = h[n + l] /\ n \in Nat /\ n > 0
        BY <1>1, <3>1
      <3>3. x \in Saver!Range(held.edits) /\ edit[x].kind = "edit"
        BY <3>2 DEF Saver!Range, SaverInv, HeldOnce
      <3>4. \A m \in 1 .. l : saver.edits[m] # x
        BY <1>0, <3>2 DEF SaverInv, HeldOnce
      <3>5. x # saver.reply \/ saver.reply = None
        BY <1>0, <3>3 DEF SaverInv, HeldOnce
      <3>. QED BY <3>3, <3>4, <3>5 DEF HeldFor, Saver!Held, Saver!InHand, Saver!Range
    <2>2. CASE x = held'.reply
      <3>1. x = held.reply /\ x # saver.reply /\ edit[x].kind = "reply"
        BY <1>2, <2>2, HostAssumption DEF SaverInv, HeldOnce
      <3>2. x \notin Saver!Range(held.edits)
        BY <3>1 DEF SaverInv, HeldOnce
      <3>. QED BY <1>0, <3>1, <3>2, HeldPassed DEF HeldFor, Saver!Held, Saver!InHand
    <2>. QED BY <1>6, <2>1, <2>2 DEF HeldFor
  <1>. HIDE DEF rest, l, h
  <1>7. SaverTypes'
    BY <1>0, <1>2, <1>3 DEF SaverInv, SaverTypes
  <1>8. ReadsTrue'
    BY <1>0, <1>3 DEF SaverInv, ReadsTrue, Current
  <1>9. HeldOnce'
    <2>1. \A m, n \in 1 .. Len(held'.edits) : held'.edits[m] = held'.edits[n] => m = n
      <3>. SUFFICES ASSUME NEW m \in 1 .. Len(rest), NEW n \in 1 .. Len(rest), rest[m] = rest[n] PROVE m = n
        BY <1>2
      <3>1. m + l \in 1 .. Len(h) /\ n + l \in 1 .. Len(h) /\ h[m + l] = h[n + l]
        BY <1>1
      <3>2. m + l = n + l
        BY <3>1 DEF SaverInv, HeldOnce, h
      <3>. QED BY <1>0, <1>1, <3>2
    <2>2. \A x \in Saver!Range(held.edits)' : edit'[x].kind = "edit" /\ Passed(edit'[x])
      BY <1>0, <1>4 DEF SaverInv, HeldOnce
    <2>3. held'.reply # None => edit'[held'.reply].kind = "reply" /\ Passed(edit'[held'.reply])
      BY <1>0, <1>2 DEF SaverInv, HeldOnce
    <2>. QED BY <1>3, <2>1, <2>2, <2>3 DEF HeldOnce, Saving
  <1>10. Remembered'
    <2>1. ASSUME NEW j \in queued, HeldFor(j) PROVE HeldFor(j)' \/ j \in Saver!Held
      <3>1. j \in Calls /\ j # None
        BY HostAssumption DEF SaverInv, SaverTypes
      <3>2. CASE j \in Saver!Range(held.edits)
        BY <1>5, <3>2 DEF HeldFor, Saver!Held, Saver!InHand
      <3>3. CASE j = held.reply
        BY <1>2, <3>1, <3>3 DEF HeldFor, Saver!Held, Saver!InHand
      <3>. QED BY <2>1, <3>2, <3>3 DEF HeldFor
    <2>. QED BY <1>0, <1>3, <2>1 DEF SaverInv, Remembered, Known, Telling
  <1>11. Once'
    BY <1>0, <1>3, <1>6 DEF SaverInv, Once
  <1>12. Honest'
    <2>. SUFFICES ASSUME saverFaults = 0, NEW x \in told \cup saver.due
                  PROVE  doc.content[x] = 0 /\ Passed(edit[x]) /\ ~HeldFor(x)'
      BY <1>0, <1>3 DEF Honest
    <2>1. doc.content[x] = 0 /\ Passed(edit[x]) /\ (HeldFor(x) => x = saver.reply) /\ x \in Calls
      BY DEF SaverInv, SaverTypes, Savers, Honest
    <2>2. x = saver.reply => x \in Saver!Held
      BY <2>1, HostAssumption DEF Saver!Held, Saver!InHand
    <2>. QED BY <1>6, <2>1, <2>2
  <1>. QED BY <1>7, <1>8, <1>9, <1>10, <1>11, <1>12 DEF SaverInv

\* What is held is dropped, and its requester is to be told.
LEMMA Drops == ASSUME SaverInv, Saver!Drop PROVE SaverInv'
  <1>. DEFINE dropped == Saver!Range(held.edits) \cup ({held.reply} \ {None})
  <1>0. /\ saver.pc = "dropping" /\ held' = Saver!NotHeld
        /\ saver' = [saver EXCEPT !.pc = "dropped", !.due = dropped]
        /\ UNCHANGED <<doc, row, told, unheard, saverFaults, edit, up, queued>>
    BY DEF Saver!Drop, Saver!SaverAt, Saver!SaverStays, Saver!InHand
  <1>1. dropped \subseteq Calls /\ \A x \in Calls : x \in dropped <=> HeldFor(x)
    BY HeldPassed, HostAssumption DEF HeldFor
  <1>. HIDE DEF dropped
  <1>2. /\ saver' \in Savers /\ saver'.pc = "dropped" /\ saver'.read = saver.read /\ saver'.due = dropped
        /\ held' \in [on : BOOLEAN, edits : Seq(Calls), reply : Calls \cup {None}]
        /\ \A x \in Calls : ~HeldFor(x)'
    <2>1. held'.edits = <<>> /\ held'.reply = None /\ Saver!Range(held.edits)' = {}
          /\ held' \in [on : BOOLEAN, edits : Seq(Calls), reply : Calls \cup {None}]
      BY <1>0 DEF Saver!NotHeld, Saver!Range
    <2>2. saver' \in Savers /\ saver'.pc = "dropped" /\ saver'.read = saver.read /\ saver'.due = dropped
      BY <1>0, <1>1 DEF SaverInv, SaverTypes, Savers
    <2>3. \A x \in Calls : ~HeldFor(x)'
      BY <2>1, HostAssumption DEF HeldFor
    <2>. QED BY <2>1, <2>2, <2>3
  <1>3. SaverTypes'
    BY <1>0, <1>2 DEF SaverInv, SaverTypes
  <1>4. ReadsTrue'
    BY <1>0, <1>2 DEF SaverInv, ReadsTrue, Current
  <1>5. HeldOnce'
    BY <1>0, <1>2 DEF HeldOnce, Saving, Saver!NotHeld, Saver!Range
  <1>6. saver.due = {}
    BY <1>0 DEF SaverInv, Remembered, Telling
  <1>7. Remembered'
    BY <1>0, <1>1, <1>2, <1>6 DEF SaverInv, SaverTypes, Remembered, Known, Telling
  <1>8. Once'
    BY <1>0, <1>2 DEF SaverInv, Once
  <1>9. Honest'
    <2>. SUFFICES ASSUME saverFaults = 0, NEW x \in told \cup dropped
                  PROVE  doc.content[x] = 0 /\ Passed(edit[x]) /\ x \in Calls
      BY <1>0, <1>2 DEF Honest
    <2>1. CASE x \in dropped
      BY <1>0, <1>1, <2>1, HeldPassed DEF SaverInv, Once
    <2>2. CASE x \in told
      BY <2>2 DEF SaverInv, SaverTypes, Honest
    <2>. QED BY <2>1, <2>2
  <1>. QED BY <1>3, <1>4, <1>5, <1>7, <1>8, <1>9 DEF SaverInv

\* The requester is told, or the notice fails.
LEMMA Notices == ASSUME SaverInv, Saver!Told \/ Saver!NoticeFails PROVE SaverInv'
  <1>0. /\ saver.pc \in {"reporting", "telling"} /\ UNCHANGED <<doc, held, row, edit, up, queued>>
        /\ \/ told' = told \cup saver.due /\ UNCHANGED <<unheard, saverFaults>>
           \/ unheard' = unheard \cup saver.due /\ saverFaults' = saverFaults + 1 /\ UNCHANGED told
    BY DEF Saver!Told, Saver!NoticeFails, Saver!Notice, Saver!SaverStays
  <1>1. PICK pc \in {"looking", "none"} : saver' = [saver EXCEPT !.pc = pc, !.due = {}]
    BY DEF Saver!Told, Saver!NoticeFails, Saver!Notice
  <1>2. /\ saver' \in Savers /\ saver'.pc = pc /\ saver'.due = {} /\ saver'.read = saver.read
        /\ saver.due \subseteq Calls /\ saverFaults \in Nat
    BY <1>1 DEF SaverInv, SaverTypes, Savers
  <1>3. \A x : HeldFor(x)' <=> HeldFor(x)
    BY <1>0 DEF HeldFor, Saver!Range
  <1>4. SaverTypes'
    BY <1>0, <1>2 DEF SaverInv, SaverTypes
  <1>5. ReadsTrue'
    BY <1>0, <1>2 DEF SaverInv, ReadsTrue, Current
  <1>6. HeldOnce'
    BY <1>0, <1>2 DEF SaverInv, HeldOnce, Saving, Saver!Range
  <1>7. Remembered'
    BY <1>0, <1>2, <1>3 DEF SaverInv, Remembered, Known
  <1>8. saverFaults' = 0 => saverFaults = 0 /\ told' = told \cup saver.due
    BY <1>0, <1>2
  <1>9. Once'
    BY <1>0, <1>2, <1>3, <1>8 DEF SaverInv, Once
  <1>10. Honest'
    BY <1>0, <1>2, <1>3, <1>8 DEF SaverInv, Honest
  <1>. QED BY <1>4, <1>5, <1>6, <1>7, <1>9, <1>10 DEF SaverInv

\* A saver that has done nothing takes the place of one that was not at work, or was lost.
LEMMA Restarts ==
    ASSUME SaverInv, saver' \in Savers, saver'.pc \in {"none", "looking"}, saver'.read = Saver!Unread,
           saver'.due = {}, unheard' \subseteq Calls, unheard \subseteq unheard',
           \A x \in saver.due : HeldFor(x) \/ x \in unheard',
           UNCHANGED <<doc, held, queued, told>>,
           saverFaults' \in Nat, saverFaults' = 0 => saverFaults = 0 /\ saver.pc = "none",
           edit' \in [Calls -> Edits],
           \A i \in Calls : /\ edit'[i].read = edit[i].read /\ edit'[i].kind = edit[i].kind
                            /\ Passed(edit[i]) => Passed(edit'[i])
                            /\ ~Passed(edit'[i]) => ~Passed(edit[i])
    PROVE  SaverInv'
  <1>1. SaverTypes'
    BY DEF SaverInv, SaverTypes
  <1>2. ReadsTrue'
    BY DEF SaverInv, ReadsTrue, Current
  <1>3. HeldOnce'
    <2>1. Saver!Range(held.edits)' = Saver!Range(held.edits)
      BY DEF Saver!Range
    <2>. QED BY <2>1, HeldPassed DEF SaverInv, HeldOnce, Saving
  <1>6. \A x : HeldFor(x)' <=> HeldFor(x)
    BY DEF HeldFor, Saver!Range
  <1>4. Remembered'
    BY <1>6 DEF SaverInv, Remembered, Known
  <1>5. Once'
    BY <1>6 DEF SaverInv, Once
  <1>7. Honest'
    <2>1. told \subseteq Calls
      BY DEF SaverInv, SaverTypes
    <2>. QED BY <1>6, <2>1 DEF SaverInv, Honest
  <1>. QED BY <1>1, <1>2, <1>3, <1>4, <1>5, <1>7 DEF SaverInv

\* The process is lost, and with it the saver and the calls on their way.
LEMMA Crashes == ASSUME SaverInv, Saver!Crash PROVE SaverInv'
  <1>0. /\ saver' = Saver!NoSaver /\ saverFaults' = saverFaults + 1
        /\ unheard' = unheard \cup Saver!Untold
        /\ UNCHANGED <<doc, held, row, queued, told>>
        /\ edit' = [i \in Calls |-> IF edit[i].pc = "idle" THEN edit[i] ELSE [edit[i] EXCEPT !.pc = "failed"]]
    BY DEF Saver!Crash, Saver!At
  <1>1. saver' \in Savers /\ saver'.pc = "none" /\ saver'.read = Saver!Unread /\ saver'.due = {}
    BY <1>0 DEF Savers, Saver!NoSaver, Saver!Unread, Files
  <1>2. ASSUME NEW i \in Calls
        PROVE  /\ edit'[i] \in Edits /\ edit'[i].read = edit[i].read /\ edit'[i].kind = edit[i].kind
               /\ Passed(edit[i]) => Passed(edit'[i])
               /\ ~Passed(edit'[i]) => ~Passed(edit[i])
    BY <1>0 DEF SaverInv, SaverTypes, Edits, Passed
  <1>3. edit' \in [Calls -> Edits]
    BY <1>0, <1>2
  <1>4. saverFaults' \in Nat /\ saverFaults' # 0
    BY <1>0 DEF SaverInv, SaverTypes
  <1>5. unheard' \subseteq Calls /\ \A x \in saver.due : HeldFor(x) \/ x \in unheard'
    BY <1>0 DEF SaverInv, SaverTypes, Savers, Saver!Untold, Saver!InHand, HeldFor
  <1>. QED BY <1>0, <1>1, <1>2, <1>3, <1>4, <1>5, Restarts

\* A person saves a change that the document does not have.
LEMMA Persons == ASSUME SaverInv, NEW p \in People, Saver!PersonSaves(p) PROVE SaverInv'
  <1>0. /\ Saver!Now \in Files /\ Current(Saver!Now) /\ Saver!Now.version = doc.version
        /\ Saver!Overwrites(Saver!Now, {p}) /\ doc.content[p] = 0
        /\ UNCHANGED <<held, edit, saver, queued, told, unheard, saverFaults>>
    BY DEF Saver!PersonSaves, Saver!Now, Files, Current, SaverInv, SaverTypes
  <1>1. /\ doc' \in [version : Nat, content : [Saver!Changes -> Nat], open : BOOLEAN]
        /\ \A x \in Saver!Changes : doc'.content[x] = doc.content[x] + (IF x \in {p} THEN 1 ELSE 0)
        /\ \A r \in Files : Current(r) => Current(r)'
    BY <1>0, Writes
  <1>2. \A x \in Saver!Changes : doc.content[x] \in Nat
    BY DEF SaverInv, SaverTypes
  <1>3. p \in Saver!Changes /\ p \notin Calls /\ Calls \subseteq Saver!Changes
    BY HostAssumption DEF Saver!Changes
  <1>4. doc'.content[p] = 1 /\ \A x \in Saver!Changes : x # p => doc'.content[x] = doc.content[x]
    BY <1>0, <1>1, <1>2, <1>3
  <1>5. SaverTypes'
    BY <1>0, <1>1 DEF SaverInv, SaverTypes
  <1>6. ReadsTrue'
    <2>1. /\ saver.read \in Files /\ Saver!Unread \in Files
          /\ \A j \in Calls : edit[j].read \in Files
      BY DEF SaverInv, SaverTypes, Edits, Savers, Saver!Unread, Files
    <2>2. Current(Saver!Unread)'
      BY <1>1, <2>1 DEF SaverInv, ReadsTrue
    <2>3. Current(saver.read)'
      BY <1>0, <1>1, <2>1 DEF SaverInv, ReadsTrue, Current
    <2>4. \A k \in Calls : Current(edit[k].read)'
      BY <1>0, <1>1, <2>1 DEF SaverInv, ReadsTrue, Current
    <2>. QED BY <2>2, <2>3, <2>4 DEF ReadsTrue
  <1>7. HeldOnce'
    BY <1>0 DEF SaverInv, HeldOnce, Saving, Saver!Range
  <1>8. Saver!Held' = Saver!Held /\ \A x : HeldFor(x)' <=> HeldFor(x)
    <2>1. Saver!Held' = Saver!Held
      BY <1>0 DEF Saver!Held, Saver!InHand, Saver!Range
    <2>2. \A x : HeldFor(x)' <=> HeldFor(x)
      BY <1>0 DEF HeldFor, Saver!Range
    <2>. QED BY <2>1, <2>2
  <1>9. Remembered'
    BY <1>0, <1>3, <1>4, <1>8, HeldPassed DEF SaverInv, SaverTypes, Remembered, Known
  <1>10. Once'
    <2>. SUFFICES ASSUME saverFaults = 0 PROVE Once'
      BY <1>0 DEF Once
    <2>1. \A x \in Saver!Changes : doc'.content[x] <= 1
      BY <1>4 DEF SaverInv, Once
    <2>2. \A x \in Calls : doc'.content[x] = doc.content[x]
      BY <1>3, <1>4
    <2>3. saver.reply \in Calls \cup {None}
      BY DEF SaverInv, SaverTypes, Savers
    <2>. QED BY <1>0, <1>8, <2>1, <2>2, <2>3 DEF SaverInv, Once
  <1>11. Honest'
    <2>1. told \subseteq Calls /\ saver.due \subseteq Calls
      BY DEF SaverInv, SaverTypes, Savers
    <2>2. \A x \in Calls : doc'.content[x] = doc.content[x]
      BY <1>3, <1>4
    <2>. QED BY <1>0, <1>8, <2>1, <2>2 DEF SaverInv, Honest
  <1>. QED BY <1>5, <1>6, <1>7, <1>9, <1>10, <1>11 DEF SaverInv

\* A call that goes on, by what becomes of it.
LEMMA EditStep == ASSUME SaverInv, NEW i \in Calls, Saver!Edit(i) PROVE SaverInv'
  <1>. USE DEF Saver!At, Saver!CallStays
  <1>0. /\ edit \in [Calls -> Edits] /\ edit[i] \in Edits /\ Current(edit[i].read) /\ saverFaults \in Nat
        /\ Saver!Now \in Files /\ Current(Saver!Now)
    BY DEF SaverInv, SaverTypes, ReadsTrue, Saver!Now, Files, Current
  <1>1. ASSUME NEW pc \in {"loading", "trying", "holding", "saved", "starting", "waiting", "failed"}, Saver!To(i, pc)
        PROVE  \E c \in Edits : /\ edit' = [edit EXCEPT ![i] = c] /\ c.read = edit[i].read /\ c.kind = edit[i].kind
                                /\ c.pc = pc
    <2>1. /\ [edit[i] EXCEPT !.pc = pc] \in Edits /\ [edit[i] EXCEPT !.pc = pc].read = edit[i].read
          /\ [edit[i] EXCEPT !.pc = pc].kind = edit[i].kind /\ [edit[i] EXCEPT !.pc = pc].pc = pc
      BY <1>0 DEF Edits
    <2>2. edit' = [edit EXCEPT ![i] = [edit[i] EXCEPT !.pc = pc]]
      BY <1>1 DEF Saver!To
    <2>. QED BY <2>1, <2>2
  <1>2. CASE Saver!Ask(i)
    <2>1. PICK kind \in {"edit", "reply"}, pc \in {"loading", "trying", "holding"} :
              edit' = [edit EXCEPT ![i].kind = kind, ![i].pc = pc]
      BY <1>2 DEF Saver!Ask
    <2>2. PICK c : c = [edit[i] EXCEPT !.kind = kind, !.pc = pc]
      OBVIOUS
    <2>3. c \in Edits /\ c.read = edit[i].read /\ c.pc = pc
      BY <1>0, <2>2 DEF Edits
    <2>4. edit' = [edit EXCEPT ![i] = c]
      BY <1>0, <2>1, <2>2
    <2>5. edit[i].pc = "idle" /\ UNCHANGED <<doc, held, saver, queued, told, unheard, saverFaults>>
      BY <1>2 DEF Saver!Ask
    <2>. QED BY <1>0, <2>3, <2>4, <2>5, CallMoves DEF Passed
  <1>3. CASE Saver!Try(i)
    <2>1. PICK pc \in {"holding", "failed"} : Saver!To(i, pc)
      BY <1>3 DEF Saver!Try
    <2>2. PICK c \in Edits : edit' = [edit EXCEPT ![i] = c] /\ c.read = edit[i].read /\ c.kind = edit[i].kind /\ c.pc = pc
      BY <1>1, <2>1
    <2>3. edit[i].pc = "trying" /\ UNCHANGED <<doc, held, saver, queued, told, unheard, saverFaults>>
      BY <1>3 DEF Saver!Try
    <2>. QED BY <1>0, <2>2, <2>3, CallMoves DEF Passed
  <1>4. CASE Saver!Load(i)
    <2>0. edit[i].pc = "loading" /\ UNCHANGED <<doc, held, saver, queued, told, unheard, saverFaults>>
      BY <1>4 DEF Saver!Load
    <2>1. CASE edit' = [edit EXCEPT ![i].pc = "saving", ![i].read = Saver!Now]
      <3>1. PICK c : c = [edit[i] EXCEPT !.pc = "saving", !.read = Saver!Now]
        OBVIOUS
      <3>2. c \in Edits /\ c.read = Saver!Now /\ c.pc = "saving"
        BY <1>0, <3>1 DEF Edits
      <3>3. edit' = [edit EXCEPT ![i] = c]
        BY <1>0, <2>1, <3>1
      <3>. QED BY <1>0, <2>0, <3>2, <3>3, CallMoves DEF Passed
    <2>2. CASE Saver!To(i, "failed")
      <3>1. PICK c \in Edits : edit' = [edit EXCEPT ![i] = c] /\ c.read = edit[i].read /\ c.kind = edit[i].kind
                               /\ c.pc = "failed"
        BY <1>1, <2>2
      <3>. QED BY <1>0, <2>0, <3>1, CallMoves DEF Passed
    <2>. QED BY <1>4, <2>1, <2>2 DEF Saver!Load
  <1>5. CASE Saver!Save(i)
    <2>0. edit[i].pc = "saving" /\ UNCHANGED <<held, saver, queued, told, unheard, saverFaults>>
      BY <1>5 DEF Saver!Save
    <2>1. CASE Saver!Fits(edit[i].read) /\ Saver!Overwrites(edit[i].read, {i}) /\ Saver!To(i, "saved")
      <3>1. PICK c \in Edits : edit' = [edit EXCEPT ![i] = c] /\ c.read = edit[i].read /\ c.kind = edit[i].kind
                               /\ c.pc = "saved"
        BY <1>1, <2>1
      <3>. QED BY <1>0, <2>0, <2>1, <3>1, CallWrites DEF Passed, Saver!Fits
    <2>2. CASE Saver!To(i, "holding") /\ UNCHANGED doc
      <3>1. PICK c \in Edits : edit' = [edit EXCEPT ![i] = c] /\ c.read = edit[i].read /\ c.kind = edit[i].kind
                               /\ c.pc = "holding"
        BY <1>1, <2>2
      <3>. QED BY <1>0, <2>0, <2>2, <3>1, CallMoves DEF Passed
    <2>3. ASSUME UNCHANGED doc, NEW pc \in {"loading", "failed"},
                 edit' = [edit EXCEPT ![i].pc = pc, ![i].tries = @ + 1]
          PROVE  SaverInv'
      <3>1. PICK n \in Nat : n = edit[i].tries + 1
        BY <1>0 DEF Edits
      <3>2. PICK c : c = [edit[i] EXCEPT !.pc = pc, !.tries = n]
        OBVIOUS
      <3>3. c \in Edits /\ c.read = edit[i].read /\ c.kind = edit[i].kind /\ c.pc = pc
        BY <1>0, <3>2 DEF Edits
      <3>4. edit' = [edit EXCEPT ![i] = c]
        BY <1>0, <2>3, <3>1, <3>2
      <3>. QED BY <1>0, <2>0, <2>3, <3>3, <3>4, CallMoves DEF Passed
    <2>. QED BY <1>5, <2>1, <2>2, <2>3 DEF Saver!Save
  <1>6. CASE Saver!SaveFails(i)
    <2>0. edit[i].pc = "saving" /\ UNCHANGED <<held, saver, queued, told, unheard>> /\ saverFaults' \in Nat /\ saverFaults' # 0
      BY <1>0, <1>6 DEF Saver!SaveFails
    <2>1. PICK c \in Edits : edit' = [edit EXCEPT ![i] = c] /\ c.read = edit[i].read /\ c.kind = edit[i].kind
                             /\ c.pc = "failed"
      BY <1>1, <1>6 DEF Saver!SaveFails
    <2>2. CASE UNCHANGED doc
      BY <1>0, <2>0, <2>1, <2>2, CallMoves DEF Passed
    <2>3. CASE Saver!Fits(edit[i].read) /\ Saver!Overwrites(edit[i].read, {i})
      BY <1>0, <2>0, <2>1, <2>3, CallWrites DEF Passed, Saver!Fits
    <2>. QED BY <1>6, <2>2, <2>3 DEF Saver!SaveFails
  <1>7. CASE Saver!HoldNoted(i)
    <2>1. PICK c \in Edits : edit' = [edit EXCEPT ![i] = c] /\ c.read = edit[i].read /\ c.kind = edit[i].kind
                             /\ c.pc = "starting"
      BY <1>1, <1>7 DEF Saver!HoldNoted
    <2>2. edit[i].pc = "noting" /\ UNCHANGED <<doc, held, saver, queued, told, unheard, saverFaults>>
      BY <1>7 DEF Saver!HoldNoted
    <2>. QED BY <1>0, <2>1, <2>2, CallMoves DEF Passed
  <1>8. CASE Saver!StartSaver(i)
    <2>1. PICK c \in Edits : edit' = [edit EXCEPT ![i] = c] /\ c.read = edit[i].read /\ c.kind = edit[i].kind
                             /\ c.pc = "waiting"
      BY <1>1, <1>8 DEF Saver!StartSaver
    <2>2. edit[i].pc = "starting" /\ saver' = Saver!Woken /\ UNCHANGED <<doc, held, queued, told, unheard, saverFaults>>
      BY <1>8 DEF Saver!StartSaver
    <2>3. CASE saver.pc = "none"
      <3>1. saver' = [Saver!NoSaver EXCEPT !.pc = "looking"]
        BY <2>2, <2>3 DEF Saver!Woken
      <3>2. saver' \in Savers /\ saver'.pc = "looking" /\ saver'.read = Saver!Unread /\ saver'.due = {}
        <4>1. Saver!NoSaver \in Savers /\ Saver!NoSaver.read = Saver!Unread /\ Saver!NoSaver.due = {}
          BY DEF Savers, Saver!NoSaver, Saver!Unread, Files
        <4>. QED BY <3>1, <4>1 DEF Savers
      <3>3. edit' \in [Calls -> Edits] /\ \A j \in Calls : edit'[j] = IF j = i THEN c ELSE edit[j]
        BY <1>0, <2>1
      <3>4. saver.due = {} /\ unheard \subseteq Calls
        BY <2>3 DEF SaverInv, SaverTypes, Remembered, Telling
      <3>. QED BY <1>0, <2>1, <2>2, <2>3, <3>2, <3>3, <3>4, Restarts DEF Passed
    <2>4. CASE saver.pc # "none"
      BY <1>0, <2>1, <2>2, <2>4, CallMoves DEF Passed, Saver!Woken
    <2>. QED BY <2>3, <2>4
  <1>. QED BY <1>2, <1>3, <1>4, <1>5, <1>6, <1>7, <1>8, Holds DEF Saver!Edit

\* The saver goes on.
LEMMA SaverActs == ASSUME SaverInv, Saver!Saver PROVE SaverInv'
  <1>. USE DEF Saver!SaverAt, Saver!SaverStays
  <1>0. /\ saver \in Savers /\ Current(saver.read) /\ saverFaults \in Nat
        /\ Saver!Now \in Files /\ Current(Saver!Now) /\ held \in [on : BOOLEAN, edits : Seq(Calls), reply : Calls \cup {None}]
    BY DEF SaverInv, SaverTypes, ReadsTrue, Saver!Now, Files, Current
  <1>D. saver.pc \notin Telling => saver.due = {}
    BY DEF SaverInv, Remembered
  <1>1. ASSUME NEW pc \in {"none", "looking", "reading", "dropping", "reporting", "telling"}, Saver!SaverTo(pc),
               saver.pc # "saved", saver.pc \notin Telling \/ pc \in Telling,
               UNCHANGED <<doc, held, edit, queued, told, unheard, saverFaults>>
        PROVE  SaverInv'
    <2>1. saver' \in Savers /\ saver'.read = saver.read /\ saver'.pc = pc /\ saver'.due = saver.due
      BY <1>0, <1>1 DEF Savers, Saver!SaverTo
    <2>. QED BY <1>0, <1>1, <1>D, <2>1, SaverMoves
  <1>2. ASSUME Saver!Failed
        PROVE  /\ saver' \in Savers /\ saver'.read = saver.read /\ saver'.pc \in {"looking", "dropping"}
               /\ saver'.due = saver.due
    <2>1. PICK n \in Nat : n = saver.failed + 1
      BY <1>0 DEF Savers
    <2>2. PICK pc \in {"looking", "dropping"} : saver' = [saver EXCEPT !.pc = pc, !.failed = n]
      BY <1>2, <2>1 DEF Saver!Failed
    <2>. QED BY <1>0, <2>2 DEF Savers
  <1>3. CASE Saver!Look
    <2>1. saver' \in Savers /\ saver'.read = saver.read /\ saver'.pc = "looked" /\ saver'.due = saver.due
      BY <1>0, <1>3 DEF Savers, Saver!Look
    <2>. QED BY <1>0, <1>3, <1>D, <2>1, SaverMoves DEF Saver!Look, Telling
  <1>4. CASE Saver!Looked \/ Saver!SavedNoted \/ Saver!DropNoted
    BY <1>1, <1>4 DEF Saver!Looked, Saver!SavedNoted, Saver!DropNoted, Telling
  <1>5. CASE Saver!Read
    <2>1. /\ saver' \in Savers /\ saver'.read = saver.read /\ saver'.pc = "loading" /\ saver.pc = "reading"
          /\ saver'.edits = held.edits /\ saver'.reply = held.reply /\ saver'.due = saver.due /\ saver.due = {}
          /\ UNCHANGED <<doc, held, edit, queued, told, unheard, saverFaults>>
      BY <1>0, <1>5, <1>D DEF Savers, Saver!Read, Telling
    <2>2. SaverTypes' /\ ReadsTrue'
      BY <2>1 DEF SaverInv, SaverTypes, ReadsTrue, Current
    <2>3. HeldOnce'
      <3>1. Saver!Range(held.edits)' = Saver!Range(held.edits) /\ Len(held.edits) \in Nat
        BY <1>0, <2>1 DEF Saver!Range
      <3>. QED BY <2>1, <3>1 DEF SaverInv, HeldOnce
    <2>4. Remembered'
      BY <2>1 DEF SaverInv, Remembered, Known, HeldFor, Saver!Range
    <2>5. Once'
      <3>1. \A x : HeldFor(x)' <=> HeldFor(x)
        BY <2>1 DEF HeldFor, Saver!Range
      <3>2. held.reply # None => held.reply \in Calls /\ HeldFor(held.reply)
        BY <1>0 DEF HeldFor
      <3>. QED BY <2>1, <3>1, <3>2 DEF SaverInv, Once
    <2>6. Honest'
      <3>1. \A x : HeldFor(x)' <=> HeldFor(x)
        BY <2>1 DEF HeldFor, Saver!Range
      <3>2. \A x \in Saver!Held' : HeldFor(x)
        BY <2>1 DEF Saver!Held, Saver!InHand, HeldFor, Saver!Range
      <3>. QED BY <2>1, <3>1, <3>2 DEF SaverInv, Honest
    <2>. QED BY <2>2, <2>3, <2>4, <2>5, <2>6 DEF SaverInv
  <1>6. CASE Saver!SaverLoad
    <2>1. CASE saver' = [saver EXCEPT !.pc = "saving", !.read = Saver!Now]
      <3>1. /\ saver' \in Savers /\ saver'.read = Saver!Now /\ saver'.pc = "saving"
            /\ saver'.edits = saver.edits /\ saver'.reply = saver.reply /\ saver'.due = saver.due
        BY <1>0, <2>1 DEF Savers
      <3>. QED BY <1>0, <1>6, <1>D, <3>1, SaverMoves DEF Saver!SaverLoad, Telling
    <2>2. CASE Saver!SaverTo("dropping")
      BY <1>1, <1>6, <2>2 DEF Saver!SaverLoad, Telling
    <2>. QED BY <1>6, <2>1, <2>2 DEF Saver!SaverLoad
  <1>7. CASE Saver!SaverSave
    <2>0. saver.pc = "saving" /\ saver.due = {} /\ UNCHANGED <<held, edit, queued, told, unheard, saverFaults>>
      BY <1>7, <1>D DEF Saver!SaverSave, Telling
    <2>1. ASSUME Saver!Fits(saver.read), NEW due \in {{}, {saver.reply}},
                 IF due = {} THEN Saver!Overwrites(saver.read, Saver!Held) ELSE Saver!Apologises,
                 saver' = [saver EXCEPT !.pc = "saved", !.failed = 0, !.due = due]
          PROVE  SaverInv'
      <3>1. due \subseteq Calls
        BY <1>0, <2>1 DEF Saver!Apologises, Savers
      <3>2. /\ saver' \in Savers /\ saver'.read = saver.read /\ saver'.pc = "saved" /\ saver'.due = due
            /\ saver'.edits = saver.edits /\ saver'.reply = saver.reply /\ saver.read.version = doc.version
        BY <1>0, <2>1, <3>1 DEF Savers, Saver!Fits
      <3>3. PICK made : /\ Saver!Overwrites(saver.read, made) /\ made \subseteq Saver!Held
                        /\ \A x \in Saver!Held : x \in made \/ x \in due
                        /\ \A x \in due : x = saver.reply /\ x \notin made
        <4>1. CASE due = {}
          BY <2>1, <4>1
        <4>2. CASE due # {}
          <5>1. saver.reply # None /\ Saver!Overwrites(saver.read, Saver!Range(saver.edits)) /\ due = {saver.reply}
            BY <2>1, <4>2 DEF Saver!Apologises
          <5>2. edit[saver.reply].kind = "reply" /\ \A x \in Saver!Range(saver.edits) : edit[x].kind = "edit"
            BY <2>0, <5>1, HeldPassed DEF SaverInv, HeldOnce, Saving
          <5>. QED BY <5>1, <5>2 DEF Saver!Held, Saver!InHand
        <4>. QED BY <4>1, <4>2
      <3>. QED BY <1>0, <2>0, <3>2, <3>3, SaverWrites
    <2>2. CASE Saver!SaverTo("looking") /\ UNCHANGED doc
      BY <1>1, <2>0, <2>2 DEF Telling
    <2>3. CASE /\ UNCHANGED doc
               /\ saver' = [saver EXCEPT !.pc = "loading", !.tries = @ + 1]
      <3>1. PICK n \in Nat : n = saver.tries + 1
        BY <1>0 DEF Savers
      <3>2. saver' = [saver EXCEPT !.pc = "loading", !.tries = n]
        BY <2>3, <3>1
      <3>3. /\ saver' \in Savers /\ saver'.read = saver.read /\ saver'.pc = "loading"
            /\ saver'.edits = saver.edits /\ saver'.reply = saver.reply /\ saver'.due = saver.due
        BY <1>0, <3>2 DEF Savers
      <3>. QED BY <1>0, <2>0, <2>3, <3>3, SaverMoves
    <2>4. CASE UNCHANGED doc /\ Saver!Failed
      BY <1>0, <1>2, <2>0, <2>4, SaverMoves
    <2>. QED BY <1>7, <2>1, <2>2, <2>3, <2>4 DEF Saver!SaverSave
  <1>8. CASE Saver!SaverSaveFails
    <2>0. /\ saver.pc = "saving" /\ saver.due = {} /\ UNCHANGED <<held, edit, queued, told, unheard>>
          /\ saverFaults' = saverFaults + 1 /\ Saver!Failed
      BY <1>8, <1>D DEF Saver!SaverSaveFails, Telling
    <2>1. saverFaults' \in Nat /\ saverFaults' # 0
      BY <1>0, <2>0
    <2>2. CASE UNCHANGED doc
      BY <1>0, <1>2, <2>0, <2>1, <2>2, SaverMoves
    <2>3. CASE Saver!Fits(saver.read) /\ (Saver!Overwrites(saver.read, Saver!Held) \/ Saver!Apologises)
      <3>1. saver.read.version = doc.version
        BY <2>3 DEF Saver!Fits
      <3>2. PICK made : Saver!Overwrites(saver.read, made) /\ made \subseteq Saver!Held
        BY <2>3 DEF Saver!Apologises, Saver!Held, Saver!InHand
      <3>. QED BY <1>0, <1>2, <2>0, <2>1, <3>1, <3>2, SaverWrites
    <2>. QED BY <1>8, <2>2, <2>3 DEF Saver!SaverSaveFails
  <1>. QED BY <1>3, <1>4, <1>5, <1>6, <1>7, <1>8, Saves, Drops, Notices DEF Saver!Saver

LEMMA SaverStep == SaverInv /\ [Saver!Next]_(Saver!vars) => SaverInv'
  <1>. SUFFICES ASSUME SaverInv, [Saver!Next]_(Saver!vars) PROVE SaverInv'
    OBVIOUS
  <1>1. ASSUME UNCHANGED <<held, edit, saver, queued, told, unheard, saverFaults>>, doc'.version = doc.version,
               doc'.content = doc.content, doc' \in [version : Nat, content : [Saver!Changes -> Nat], open : BOOLEAN]
        PROVE  SaverInv'
    <2>1. Saver!Held' = Saver!Held /\ \A x : HeldFor(x)' <=> HeldFor(x)
      <3>1. Saver!Held' = Saver!Held
        BY <1>1 DEF Saver!Held, Saver!InHand, Saver!Range
      <3>2. \A x : HeldFor(x)' <=> HeldFor(x)
        BY <1>1 DEF HeldFor, Saver!Range
      <3>. QED BY <3>1, <3>2
    <2>2. SaverTypes' /\ ReadsTrue'
      BY <1>1 DEF SaverInv, SaverTypes, ReadsTrue, Current
    <2>3. HeldOnce'
      BY <1>1 DEF SaverInv, HeldOnce, Saving, Saver!Range
    <2>4. Remembered' /\ Once' /\ Honest'
      BY <1>1, <2>1 DEF SaverInv, Remembered, Known, Once, Honest
    <2>. QED BY <2>2, <2>3, <2>4 DEF SaverInv
  <1>2. CASE UNCHANGED Saver!vars
    BY <1>1, <1>2 DEF Saver!vars, SaverInv, SaverTypes
  <1>3. CASE Saver!Word
    <2>1. /\ doc' \in [version : Nat, content : [Saver!Changes -> Nat], open : BOOLEAN]
          /\ doc'.version = doc.version /\ doc'.content = doc.content
      BY <1>3 DEF Saver!Word, SaverInv, SaverTypes
    <2>. QED BY <1>1, <1>3, <2>1 DEF Saver!Word
  <1>4. CASE Saver!Resume
    <2>1. UNCHANGED <<doc, held, edit, queued, told, unheard, saverFaults>> /\ (saver' = Saver!Woken \/ UNCHANGED saver)
          /\ saverFaults \in Nat /\ edit \in [Calls -> Edits]
      BY <1>4 DEF Saver!Resume, SaverInv, SaverTypes
    <2>2. CASE UNCHANGED saver
      BY <1>1, <2>1, <2>2 DEF SaverInv, SaverTypes
    <2>3. CASE saver.pc = "none" /\ saver' = [Saver!NoSaver EXCEPT !.pc = "looking"]
      <3>1. Saver!NoSaver \in Savers /\ Saver!NoSaver.read = Saver!Unread /\ Saver!NoSaver.due = {}
        BY DEF Savers, Saver!NoSaver, Saver!Unread, Files
      <3>2. saver' \in Savers /\ saver'.pc = "looking" /\ saver'.read = Saver!Unread /\ saver'.due = {}
        BY <2>3, <3>1 DEF Savers
      <3>3. saver.due = {} /\ unheard \subseteq Calls
        BY <2>3 DEF SaverInv, SaverTypes, Remembered, Telling
      <3>. QED BY <2>1, <2>3, <3>2, <3>3, Restarts
    <2>. QED BY <2>1, <2>2, <2>3 DEF Saver!Woken
  <1>. QED BY <1>2, <1>3, <1>4, Persons, Crashes, EditStep, SaverActs DEF Saver!Next

LEMMA SaverInvariant == HostSpec => [](part = "document" => SaverInv)
  <1>1. HostInit => (part = "document" => SaverInv)
    BY SaverInit DEF HostInit
  <1>2. (part = "document" => SaverInv) /\ [HostNext]_hostVars => (part = "document" => SaverInv)'
    BY SaverStep, OnePart
  <1>. QED BY <1>1, <1>2, PTL DEF HostSpec

\* However calls, saves, people, faults and crashes meet, a change that was queued for
\* Word is held, made, or told, or its notice was lost; and none is made twice unless
\* something was lost.
THEOREM QueuedHolds == HostSpec => []QueuedKept
  <1>1. (part = "document" => SaverInv) => QueuedKept
    <2>. SUFFICES ASSUME SaverInv PROVE Saver!QueuedKept
      BY DEF QueuedKept
    <2>1. ASSUME NEW i \in queued PROVE Saver!Accounted(i) \/ i \in saver.due \cup unheard
      <3>1. i # None /\ (HeldFor(i) \/ doc.content[i] > 0 \/ Known(i))
        BY HostAssumption DEF SaverInv, SaverTypes, Remembered
      <3>. QED BY <3>1 DEF HeldFor, Known, Saver!Accounted, Saver!InHand
    <2>. QED BY <2>1 DEF Saver!QueuedKept, SaverInv, Once
  <1>. QED BY <1>1, SaverInvariant, PTL

\* A requester who is told that a change is not in the document can rely on it.
THEOREM NoticesHold == HostSpec => []NoticesTrue
  <1>1. (part = "document" => SaverInv) => NoticesTrue
    BY DEF NoticesTrue, Saver!NoticesTrue, SaverInv, Honest
  <1>. QED BY <1>1, SaverInvariant, PTL

\* A save over the version that was read loses nothing of the document.
LEMMA Grows ==
    ASSUME SaverInv, NEW read \in Files, NEW made, Current(read), read.version = doc.version,
           Saver!Overwrites(read, made), NEW x \in Saver!Changes
    PROVE  doc'.content[x] >= doc.content[x]
  <1>1. doc'.content[x] = doc.content[x] + (IF x \in made THEN 1 ELSE 0)
    BY Writes
  <1>2. doc.content[x] \in Nat
    BY DEF SaverInv, SaverTypes
  <1>. QED BY <1>1, <1>2

\* No save of the agent, over whatever it has read, undoes what anybody saved.
THEOREM NothingUndoneHolds == HostSpec => NothingUndone
  <1>1. (part = "document" => SaverInv) /\ [HostNext]_hostVars =>
            [\A x \in Saver!Changes : doc'.content[x] >= doc.content[x]]_(Saver!vars)
    <2>. SUFFICES ASSUME part = "document" => SaverInv, [HostNext]_hostVars, ~UNCHANGED Saver!vars,
                         NEW x \in Saver!Changes
                  PROVE  doc'.content[x] >= doc.content[x]
      OBVIOUS
    <2>1. part = "document" /\ SaverInv /\ Saver!Next
      BY DEF HostNext, hostVars, document, Saver!vars
    <2>2. CASE UNCHANGED doc \/ doc'.content = doc.content
      BY <2>1, <2>2 DEF SaverInv, SaverTypes
    <2>3. ASSUME NEW read \in Files, Current(read), read.version = doc.version,
                 NEW made, Saver!Overwrites(read, made)
          PROVE  doc'.content[x] >= doc.content[x]
      BY <2>1, <2>3, Grows
    <2>4. /\ saver.read \in Files /\ Current(saver.read) /\ Saver!Now \in Files /\ Current(Saver!Now)
          /\ \A i \in Calls : edit[i].read \in Files /\ Current(edit[i].read)
      <3>1. saver.read \in Files /\ Saver!Now \in Files /\ \A i \in Calls : edit[i].read \in Files
        BY <2>1 DEF SaverInv, SaverTypes, Savers, Edits, Saver!Now, Files
      <3>2. Current(Saver!Now)
        BY <2>1 DEF SaverInv, SaverTypes, Saver!Now, Current
      <3>3. Current(saver.read) /\ \A i \in Calls : Current(edit[i].read)
        BY <2>1 DEF SaverInv, ReadsTrue
      <3>. QED BY <3>1, <3>2, <3>3
    <2>5. CASE Saver!Word
      BY <2>1, <2>2, <2>5 DEF Saver!Word, SaverInv, SaverTypes
    <2>6. CASE \E p \in People : Saver!PersonSaves(p)
      <3>1. Saver!Now.version = doc.version
        BY DEF Saver!Now
      <3>. QED BY <2>3, <2>4, <2>6, <3>1 DEF Saver!PersonSaves
    <2>7. CASE Saver!Saver
      <3>1. CASE Saver!SaverSave \/ Saver!SaverSaveFails
        BY <2>2, <2>3, <2>4, <3>1 DEF Saver!SaverSave, Saver!SaverSaveFails, Saver!Fits, Saver!Apologises
      <3>. QED BY <2>2, <2>7, <3>1
           DEF Saver!Saver, Saver!Look, Saver!Looked, Saver!Read, Saver!SaverLoad, Saver!Saved, Saver!SavedNoted,
               Saver!Drop, Saver!DropNoted, Saver!Told, Saver!NoticeFails, Saver!Notice
    <2>8. CASE \E i \in Calls : Saver!Edit(i)
      <3>1. PICK i \in Calls : Saver!Edit(i)
        BY <2>8
      <3>2. CASE Saver!Save(i) \/ Saver!SaveFails(i)
        BY <2>2, <2>3, <2>4, <3>2 DEF Saver!Save, Saver!SaveFails, Saver!Fits
      <3>. QED BY <2>2, <3>1, <3>2
           DEF Saver!Edit, Saver!Ask, Saver!Try, Saver!Load, Saver!Hold, Saver!HoldNoted, Saver!StartSaver
    <2>. QED BY <2>1, <2>2, <2>5, <2>6, <2>7, <2>8 DEF Saver!Next, Saver!Crash, Saver!Resume
  <1>. QED BY <1>1, SaverInvariant, PTL DEF HostSpec, NothingUndone, Saver!NothingUndone

-------------------------------------------------------------------------------
(* AnalyticsLedger: what is in memory is stored or will be, and what is stored *)
(* stays stored, while every day can be read and one flush runs at a time.      *)

LEMMA NoFlushType == NoFlush \in Flushes /\ \A D \in SUBSET Days : [NoFlush EXCEPT !.pc = "days", !.days = D] \in Flushes
  BY DEF NoFlush, Flushes

LEMMA LandedType == ASSUME TypeOK, NEW c \in Callers, Landed(c)
                    PROVE  stored' \in [Days -> SUBSET Facts]
  <1>1. flush[c] \in Flushes /\ stored \in [Days -> SUBSET Facts]
    BY DEF TypeOK
  <1>. QED BY <1>1 DEF Landed, Flushes

LEMMA TypeStep == TypeOK /\ [Next]_vars => TypeOK'
  <1>. SUFFICES ASSUME TypeOK, [Next]_vars PROVE TypeOK'
    OBVIOUS
  <1>0. MaxFaults \in Nat /\ DayOf \in [Facts -> Days] /\ NoFlush \in Flushes
    BY LedgerAssumption, NoFlushType
  <1>F. \A c \in Callers : flush[c] \in Flushes
    BY DEF TypeOK
  <1>1. CASE UNCHANGED vars
    BY <1>1 DEF vars, TypeOK
  <1>2. ASSUME NEW d \in Days, Load(d) PROVE TypeOK'
    BY <1>2 DEF Load, TypeOK
  <1>3. CASE Loaded
    BY <1>3 DEF Loaded, TypeOK
  <1>4. ASSUME NEW c \in Callers, Take(c) PROVE TypeOK'
    <2>1. [NoFlush EXCEPT !.pc = "days", !.days = dirty] \in Flushes
      BY NoFlushType DEF TypeOK
    <2>2. flush' \in [Callers -> Flushes]
      BY <1>4, <2>1 DEF Take, TypeOK
    <2>3. faults' \in 0..MaxFaults
      BY <1>4, <1>0 DEF Take, Begins, TypeOK
    <2>. QED BY <1>4, <2>2, <2>3 DEF Take, TypeOK
  <1>5. ASSUME NEW c \in Callers, Payload(c) PROVE TypeOK'
    <2>1. PICK d \in flush[c].days :
              flush' = [flush EXCEPT ![c] = [pc |-> "write", days |-> @.days \ {d}, day |-> d, payload |-> facts[d]]]
      BY <1>5 DEF Payload
    <2>2. d \in Days /\ facts[d] \subseteq Facts /\ flush[c].days \ {d} \subseteq Days
      BY <1>F DEF TypeOK, Flushes
    <2>3. [pc |-> "write", days |-> flush[c].days \ {d}, day |-> d, payload |-> facts[d]] \in Flushes
      BY <2>2 DEF Flushes
    <2>. QED BY <1>5, <2>1, <2>3 DEF Payload, TypeOK
  <1>6. ASSUME NEW c \in Callers, Write(c) PROVE TypeOK'
    <2>1. stored' \in [Days -> SUBSET Facts]
      BY <1>6, <1>F DEF Write, TypeOK, Flushes
    <2>2. [flush[c] EXCEPT !.pc = "days"] \in Flushes
      BY <1>F DEF Flushes
    <2>. QED BY <1>6, <2>1, <2>2 DEF Write, TypeOK
  <1>7. ASSUME NEW c \in Callers, Flushed(c) PROVE TypeOK'
    <2>1. [NoFlush EXCEPT !.pc = "ended"] \in Flushes
      BY DEF NoFlush, Flushes
    <2>2. CASE c = "close"
      BY <1>7, <2>1, <2>2 DEF Flushed, TypeOK
    <2>3. CASE c # "close"
      BY <1>7, <1>0, <2>3 DEF Flushed, TypeOK
    <2>. QED BY <2>2, <2>3
  <1>8. ASSUME NEW f \in Facts, Note(f) PROVE TypeOK'
    <2>1. DayOf[f] \in Days /\ facts' \in [Days -> SUBSET Facts] /\ dirty' \subseteq Days
      BY <1>8, <1>0 DEF Note, Mark, TypeOK
    <2>2. [flush["task"] EXCEPT !.pc = "asleep"] \in Flushes
      BY <1>F DEF Flushes, Callers
    <2>3. flush' \in [Callers -> Flushes]
      BY <1>8, <2>2 DEF Note, Mark, TypeOK
    <2>. QED BY <1>8, <2>1, <2>3 DEF Note, TypeOK
  <1>9. ASSUME NEW c \in Callers, Fails(c) PROVE TypeOK'
    <2>1. flush[c].day \in Days \cup {0} /\ flush[c].payload \subseteq Facts
      BY <1>F DEF Flushes
    <2>2. [flush[c] EXCEPT !.pc = "days"] \in Flushes
      BY <1>F DEF Flushes
    <2>3. faults' \in 0..MaxFaults
      BY <1>9, <1>0 DEF Fails, TypeOK
    <2>4. stored' \in [Days -> SUBSET Facts] /\ flush' \in [Callers -> Flushes]
      BY <1>9, <2>1, <2>2 DEF Fails, TypeOK
    <2>5. dirty' \subseteq Days
      BY <1>9, <1>F DEF Fails, Flushes, TypeOK
    <2>. QED BY <1>9, <2>3, <2>4, <2>5 DEF Fails, TypeOK
  <1>10. CASE Close
    BY <1>10, <1>0, LandedType DEF Close, TypeOK, Callers
  <1>11. CASE Stopped
    BY <1>11 DEF Stopped, TypeOK
  <1>12. CASE Restart
    <2>1. faults' \in 0..MaxFaults
      BY <1>12, <1>0 DEF Restart, TypeOK
    <2>. QED BY <1>12, <1>0, <2>1, LandedType DEF Restart, TypeOK
  <1>. QED BY <1>1, <1>2, <1>3, <1>4, <1>5, <1>6, <1>7, <1>8, <1>9, <1>10, <1>11, <1>12 DEF Next, Progress, Callers

\* The ledger's state keeps its types, for any days, facts and limits.
THEOREM TypesHold == Spec => []TypeOK
  <1>1. Init => TypeOK
    <2>. SUFFICES ASSUME Init PROVE TypeOK
      OBVIOUS
    <2>1. [c \in Callers |-> NoFlush] \in [Callers -> Flushes]
      BY NoFlushType
    <2>0. 0 \in 0..MaxFaults
      BY LedgerAssumption
    <2>2. [d \in Days |-> {}] \in [Days -> SUBSET Facts]
      OBVIOUS
    <2>. QED BY <2>0, <2>1, <2>2 DEF Init, TypeOK
  <1>. QED BY <1>1, TypeStep, PTL DEF Spec

---------------------------------------------------------------------------
(* One flush runs at a time, and it writes no less than what is stored. *)

\* Who may be flushing in which phase of the host's life.
OneFlush == /\ flush["reset"] = NoFlush
            /\ life \in {"loading", "running"} => flush["close"] = NoFlush
            /\ life # "running" => flush["task"] = NoFlush
            /\ \A c \in Callers : flush[c].pc \in {"none", "asleep"} => flush[c].days = {}

\* What has been read, or noted, is what is stored and more.
Read == \A d \in Days : IF life = "loading"
                       THEN facts[d] \subseteq stored[d] /\ (d \notin unread => stored[d] \subseteq facts[d])
                       ELSE stored[d] \subseteq facts[d]

\* The document under way has everything the stored one has.
MemoryGrows == \A c \in Callers : flush[c].pc = "write" =>
    flush[c].day \in Days /\ stored[flush[c].day] \subseteq flush[c].payload /\ flush[c].payload \subseteq facts[flush[c].day]

\* The flush e has still to store fact f of day d.
Takes(e, d, f) == \/ d \in flush[e].days
                  \/ flush[e].pc = "write" /\ flush[e].day = d /\ f \in flush[e].payload

LEMMA KeptIs == LedgerKept <=>
    (life = "running" => \A d \in Days : \A f \in facts[d] \ stored[d] :
                             d \in dirty \/ \E e \in Callers : Takes(e, d, f))
  BY DEF LedgerKept, Takes

Whole == OneFlush /\ Read /\ MemoryGrows

LEMMA LandedGrows == ASSUME TypeOK, MemoryGrows, NEW c \in Callers, Landed(c)
                     PROVE  \A d \in Days : stored[d] \subseteq stored'[d]
  BY DEF TypeOK, MemoryGrows, Landed

LEMMA NotFlushing == NoFlush.pc = "none" /\ NoFlush.days = {}
  BY DEF NoFlush

LEMMA WholeInit == Init => Whole /\ LedgerKept
  BY NotFlushing DEF Init, Whole, OneFlush, Read, MemoryGrows, LedgerKept, Callers

LEMMA WholeStep == ASSUME ~ReadFails, ~Resets, TypeOK, Whole, LedgerKept, [Next]_vars
                   PROVE  /\ Whole' /\ LedgerKept'
                          /\ \A d \in Days : stored[d] \subseteq stored'[d]
  <1>0. DayOf \in [Facts -> Days] /\ NoFlush.pc = "none" /\ NoFlush.days = {}
    BY LedgerAssumption, NotFlushing
  <1>F. facts \in [Days -> SUBSET Facts] /\ stored \in [Days -> SUBSET Facts] /\ dirty \subseteq Days
        /\ flush \in [Callers -> Flushes] /\ \A c \in Callers : flush[c] \in Flushes
    BY DEF TypeOK
  <1>T. "task" \in Callers /\ "close" \in Callers /\ "reset" \in Callers
        /\ \A c \in Callers : c \in {"task", "reset", "close"}
    BY DEF Callers
  <1>. USE DEF Whole
  <1>1. CASE UNCHANGED vars
    BY <1>1 DEF vars, OneFlush, Read, MemoryGrows, LedgerKept
  <1>2. ASSUME NEW d \in Days, Load(d) PROVE Whole' /\ LedgerKept' /\ stored' = stored
    <2>1. OneFlush' /\ LedgerKept' /\ stored' = stored
      BY <1>2 DEF Load, OneFlush, LedgerKept
    <2>2. Read'
      BY <1>2, <1>F DEF Load, Read
    <2>3. MemoryGrows'
      BY <1>2, <1>F, <1>0, <1>T DEF Load, MemoryGrows, OneFlush
    <2>. QED BY <2>1, <2>2, <2>3
  <1>3. ASSUME Loaded PROVE Whole' /\ LedgerKept' /\ stored' = stored
    <2>1. OneFlush' /\ stored' = stored /\ MemoryGrows'
      BY <1>3, <1>0, <1>T DEF Loaded, OneFlush, MemoryGrows
    <2>2. Read' /\ LedgerKept'
      BY <1>3, <1>F DEF Loaded, Read, LedgerKept
    <2>. QED BY <2>1, <2>2
  <1>4. ASSUME NEW c \in Callers, Take(c) PROVE Whole' /\ LedgerKept' /\ stored' = stored
    <2>1. c \in {"task", "close"} /\ (c = "task" => life = "running") /\ (c = "close" => life = "closing")
      BY <1>4, <1>T DEF Take, Begins
    <2>2. flush' = [flush EXCEPT ![c] = [NoFlush EXCEPT !.pc = "days", !.days = dirty]]
          /\ dirty' = {} /\ UNCHANGED <<life, unread, facts, stored>>
      BY <1>4 DEF Take
    <2>3. flush'[c].pc = "days" /\ flush'[c].days = dirty
          /\ \A e \in Callers : e # c => flush'[e] = flush[e]
      BY <2>2, <1>F DEF NoFlush
    <2>4. OneFlush'
      BY <2>1, <2>2, <2>3, <1>0, <1>T DEF OneFlush
    <2>5. Read'
      BY <2>2 DEF Read
    <2>6. MemoryGrows'
      BY <2>2, <2>3 DEF MemoryGrows
    <2>7. LedgerKept'
      <3>. SUFFICES ASSUME life' = "running", NEW d \in Days, NEW f \in facts'[d] \ stored'[d]
                    PROVE  d \in dirty' \/ \E e \in Callers : Takes(e, d, f)'
        BY DEF LedgerKept, Takes
      <3>1. c = "task" /\ flush[c].pc = "asleep" /\ flush[c].days = {}
        BY <2>1, <2>2, <1>4, <1>T DEF Take, Begins, OneFlush
      <3>2. CASE d \in dirty
        BY <2>3, <3>2 DEF Takes
      <3>3. ASSUME NEW e \in Callers,
                   Takes(e, d, f)
            PROVE  Takes(e, d, f)'
        BY <3>1, <3>3, <2>3 DEF Takes
      <3>. QED BY <2>2, <2>3, <3>2, <3>3, KeptIs DEF Takes
    <2>. QED BY <2>2, <2>4, <2>5, <2>6, <2>7
  <1>5. ASSUME NEW c \in Callers, Payload(c) PROVE Whole' /\ LedgerKept' /\ stored' = stored
    <2>1. PICK d \in flush[c].days :
              flush' = [flush EXCEPT ![c] = [pc |-> "write", days |-> @.days \ {d}, day |-> d, payload |-> facts[d]]]
      BY <1>5 DEF Payload
    <2>2. flush[c].pc = "days" /\ UNCHANGED <<life, unread, facts, dirty, stored>> /\ d \in Days
      BY <1>5, <1>F DEF Payload, Flushes
    <2>3. flush'[c] = [pc |-> "write", days |-> flush[c].days \ {d}, day |-> d, payload |-> facts[d]]
          /\ \A e \in Callers : e # c => flush'[e] = flush[e]
      BY <2>1, <1>F
    <2>4. flush[c] # NoFlush /\ c # "reset" /\ life # "loading"
      BY <2>2, <1>0, <1>T DEF OneFlush
    <2>5. OneFlush'
      BY <2>2, <2>3, <2>4, <1>T, <1>0 DEF OneFlush
    <2>6. Read' /\ stored[d] \subseteq facts[d]
      BY <2>2, <2>4 DEF Read
    <2>7. MemoryGrows'
      BY <2>2, <2>3, <2>6 DEF MemoryGrows
    <2>8. LedgerKept'
      BY <2>2, <2>3 DEF LedgerKept
    <2>. QED BY <2>2, <2>5, <2>6, <2>7, <2>8
  <1>6. ASSUME NEW c \in Callers, flush[c].pc = "write",
               stored' \in {stored, [stored EXCEPT ![flush[c].day] = flush[c].payload]},
               dirty' \in {dirty, dirty \cup {flush[c].day}},
               stored' = [stored EXCEPT ![flush[c].day] = flush[c].payload] \/ flush[c].day \in dirty',
               flush' = [flush EXCEPT ![c].pc = "days"],
               UNCHANGED <<life, unread, facts>>
        PROVE  Whole' /\ LedgerKept' /\ \A d \in Days : stored[d] \subseteq stored'[d]
    <2>1. flush'[c] = [flush[c] EXCEPT !.pc = "days"] /\ \A e \in Callers : e # c => flush'[e] = flush[e]
      BY <1>6, <1>F
    <2>2. flush'[c].pc = "days" /\ flush'[c].days = flush[c].days
      BY <2>1, <1>F DEF Flushes
    <2>3. c # "reset" /\ life # "loading" /\ (c = "task" => life = "running") /\ (c = "close" => life \notin {"loading", "running"})
      BY <1>6, <1>0, <1>T DEF OneFlush
    <2>4. \A e \in Callers : e # c => flush[e].pc # "write"
      BY <2>3, <1>0, <1>T DEF OneFlush
    <2>5. OneFlush'
      BY <1>6, <2>1, <2>2, <2>3, <1>T DEF OneFlush
    <2>6. flush[c].day \in Days /\ stored[flush[c].day] \subseteq flush[c].payload
          /\ flush[c].payload \subseteq facts[flush[c].day]
      BY <1>6 DEF MemoryGrows
    <2>7. \A d \in Days : stored[d] \subseteq stored'[d]
      BY <1>6, <2>6, <1>F
    <2>8. Read'
      BY <1>6, <2>3, <2>6, <1>F DEF Read
    <2>9. MemoryGrows'
      BY <2>1, <2>2, <2>4 DEF MemoryGrows
    <2>10. LedgerKept'
      <3>. SUFFICES ASSUME life' = "running", NEW d \in Days, NEW f \in facts'[d] \ stored'[d]
                    PROVE  d \in dirty' \/ \E e \in Callers : Takes(e, d, f)'
        BY DEF LedgerKept, Takes
      <3>1. life = "running" /\ f \in facts[d] \ stored[d]
        BY <1>6, <2>7
      <3>2. CASE d \in dirty
        BY <1>6, <3>2
      <3>3. ASSUME NEW e \in Callers, d \in flush[e].days PROVE d \in flush'[e].days
        BY <3>3, <2>1, <2>2
      <3>4. CASE flush[c].day = d /\ f \in flush[c].payload
        BY <1>6, <2>6, <3>4, <1>F
      <3>. QED BY <3>1, <3>2, <3>3, <3>4, <2>4, KeptIs DEF Takes
    <2>. QED BY <2>5, <2>7, <2>8, <2>9, <2>10
  <1>7. ASSUME NEW c \in Callers, Flushed(c) PROVE Whole' /\ LedgerKept' /\ stored' = stored
    <2>1. flush[c].pc = "days" /\ flush[c].days = {} /\ UNCHANGED <<life, unread, facts, dirty, stored>>
          /\ flush' = [flush EXCEPT ![c] = IF c = "close" THEN [NoFlush EXCEPT !.pc = "ended"] ELSE NoFlush]
      BY <1>7 DEF Flushed
    <2>2. flush'[c].pc \in {"ended", "none"} /\ (c # "close" => flush'[c] = NoFlush)
          /\ \A e \in Callers : e # c => flush'[e] = flush[e]
      BY <2>1, <1>F DEF NoFlush
    <2>3. OneFlush'
      BY <2>1, <2>2, <1>0, <1>T DEF OneFlush
    <2>4. Read' /\ MemoryGrows'
      BY <2>1, <2>2 DEF Read, MemoryGrows
    <2>5. LedgerKept'
      BY <2>1, <2>2 DEF LedgerKept
    <2>. QED BY <2>1, <2>3, <2>4, <2>5
  <1>8. ASSUME NEW g \in Facts, Note(g) PROVE Whole' /\ LedgerKept' /\ stored' = stored
    <2>1. life = "running" /\ UNCHANGED <<life, unread, stored>> /\ DayOf[g] \in Days
          /\ facts' = [facts EXCEPT ![DayOf[g]] = @ \cup {g}] /\ dirty' = dirty \cup {DayOf[g]}
      BY <1>8, <1>0 DEF Note, Mark
    <2>2. \/ flush' = flush
          \/ flush["task"].pc = "none" /\ flush' = [flush EXCEPT !["task"].pc = "asleep"]
      BY <1>8 DEF Note, Mark
    <2>3. \A e \in Callers :
              /\ flush'[e].days = flush[e].days /\ flush'[e].day = flush[e].day
              /\ flush'[e].payload = flush[e].payload
              /\ flush'[e] = flush[e] \/ (e = "task" /\ flush[e].pc = "none" /\ flush'[e].pc = "asleep")
      BY <2>2, <1>F, <1>T DEF Flushes
    <2>4. \A d \in Days : facts[d] \subseteq facts'[d] /\ (d \notin dirty' => facts'[d] = facts[d])
      BY <2>1, <1>F
    <2>. QED
      <3>1. LedgerKept'
        <4>. SUFFICES ASSUME NEW d \in Days, NEW f \in facts'[d] \ stored'[d], d \notin dirty'
                      PROVE  \E e \in Callers : Takes(e, d, f)'
          BY DEF LedgerKept, Takes
        <4>1. f \in facts[d] \ stored[d] /\ d \notin dirty
          BY <2>1, <2>4
        <4>2. PICK e \in Callers : Takes(e, d, f)
          BY <4>1, <2>1, KeptIs
        <4>. QED BY <4>2, <2>3 DEF Takes
      <3>2. Read'
        BY <2>1, <2>4 DEF Read
      <3>3. MemoryGrows'
        <4>. SUFFICES ASSUME NEW e \in Callers, flush'[e].pc = "write"
                      PROVE  /\ flush'[e].day \in Days /\ stored'[flush'[e].day] \subseteq flush'[e].payload
                             /\ flush'[e].payload \subseteq facts'[flush'[e].day]
          BY DEF MemoryGrows
        <4>1. flush'[e] = flush[e]
          BY <2>3
        <4>. QED BY <4>1, <2>1, <2>4 DEF MemoryGrows
      <3>4. OneFlush'
        <4>1. flush'["reset"] = flush["reset"] /\ flush'["close"] = flush["close"]
          BY <2>3, <1>T
        <4>2. \A e \in Callers : flush'[e].pc \in {"none", "asleep"} => flush'[e].days = {}
          BY <2>3 DEF OneFlush
        <4>. QED BY <4>1, <4>2, <2>1 DEF OneFlush
      <3>. QED BY <3>1, <3>2, <3>3, <3>4, <2>1
  <1>9. ASSUME Close PROVE Whole' /\ LedgerKept' /\ \A d \in Days : stored[d] \subseteq stored'[d]
    <2>1. life = "running" /\ life' = "closing" /\ Landed("task") /\ UNCHANGED <<unread, facts, dirty>>
          /\ flush'["task"] = NoFlush /\ \A e \in Callers : e # "task" => flush'[e] = flush[e]
      BY <1>9, <1>F, <1>T DEF Close
    <2>2. \A d \in Days : stored[d] \subseteq stored'[d]
      BY <2>1, <1>T, LandedGrows
    <2>3. Read'
      BY <2>1, <1>F, <1>T DEF Read, Landed, MemoryGrows
    <2>4. OneFlush' /\ LedgerKept'
      BY <2>1, <1>0, <1>T DEF OneFlush, LedgerKept
    <2>5. \A e \in Callers : flush'[e] = NoFlush
      BY <2>1, <1>T DEF OneFlush
    <2>. QED BY <2>2, <2>3, <2>4, <2>5, <1>0 DEF MemoryGrows
  <1>10. ASSUME Stopped PROVE Whole' /\ LedgerKept' /\ stored' = stored
    <2>1. life = "closing" /\ life' = "stopped" /\ UNCHANGED <<unread, facts, dirty, flush, stored>>
      BY <1>10 DEF Stopped
    <2>. QED BY <2>1 DEF OneFlush, Read, MemoryGrows, LedgerKept
  <1>11. ASSUME Restart PROVE Whole' /\ LedgerKept' /\ \A d \in Days : stored[d] \subseteq stored'[d]
    <2>1. /\ life' = "loading" /\ unread' = Days /\ facts' = [d \in Days |-> {}]
          /\ flush' = [c \in Callers |-> NoFlush] /\ \E c \in Callers : Landed(c)
      BY <1>11 DEF Restart
    <2>2. \A d \in Days : stored[d] \subseteq stored'[d]
      BY <2>1, LandedGrows
    <2>3. OneFlush' /\ MemoryGrows'
      BY <2>1, <1>0, <1>T DEF OneFlush, MemoryGrows
    <2>4. Read' /\ LedgerKept'
      BY <2>1 DEF Read, LedgerKept
    <2>. QED BY <2>2, <2>3, <2>4
  <1>12. ASSUME NEW c \in Callers, Write(c) PROVE Whole' /\ LedgerKept' /\ \A d \in Days : stored[d] \subseteq stored'[d]
    BY <1>12, <1>6 DEF Write
  <1>13. ASSUME NEW c \in Callers, Fails(c) PROVE Whole' /\ LedgerKept' /\ \A d \in Days : stored[d] \subseteq stored'[d]
    BY <1>13, <1>6 DEF Fails
  <1>. QED BY <1>1, <1>2, <1>3, <1>4, <1>5, <1>7, <1>8, <1>9, <1>10, <1>11, <1>12, <1>13 DEF Next, Progress, Callers, vars

\* While every day can be read and nothing but the host flushes, whatever is in
\* memory and not stored is dirty, or in a flush that has still to write it.
THEOREM KeptHolds == ASSUME ~ReadFails, ~Resets PROVE Spec => []LedgerKept
  <1>1. Init => Whole /\ LedgerKept
    BY WholeInit
  <1>2. TypeOK /\ Whole /\ LedgerKept /\ [Next]_vars => Whole' /\ LedgerKept'
    BY WholeStep
  <1>. QED BY <1>1, <1>2, TypesHold, PTL DEF Spec

\* Under the same assumption no step, no restart and no late write takes a fact
\* from a stored day.
THEOREM NothingLost == ASSUME ~ReadFails, ~Resets PROVE Spec => NothingErased
  <1>1. Init => Whole /\ LedgerKept
    BY WholeInit
  <1>2. TypeOK /\ Whole /\ LedgerKept /\ [Next]_vars => Whole' /\ LedgerKept'
    BY WholeStep
  <1>3. TypeOK /\ Whole /\ LedgerKept /\ [Next]_vars => [\A d \in Days : stored[d] \subseteq stored'[d]]_vars
    BY WholeStep
  <1>. QED BY <1>1, <1>2, <1>3, TypesHold, PTL DEF Spec, NothingErased
===============================================================================
