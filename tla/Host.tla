-------------------------------- MODULE Host --------------------------------
(***************************************************************************)
(* The smaller parts of the host. They share no state in the code, and are *)
(* put together one at a time: the initial state chooses the part that     *)
(* runs, and the others rest. The ledger has the names of its own module.  *)
(***************************************************************************)
EXTENDS AnalyticsLedger

CONSTANTS Calls,     \* ToolGateway and DocumentSaver: calls
          Budget, Delegated, Attempts, MaxChanges,      \* ToolGateway
          People, Tries, Failures, Batches, MaxLost,    \* DocumentSaver; MaxLost bounds its faults
          Events, KeyOf, MaxErrors,                     \* ControlRoom; MaxErrors bounds its faults
          CaseCalls, MaxOutages,                        \* CaseWorkflow; MaxOutages bounds its faults
          Asks, Answers,                                \* Hitl
          None

ASSUME HostAssumption ==
    /\ IsFiniteSet(Calls) /\ Budget \in Nat /\ Delegated \in Nat /\ Attempts \in Nat /\ MaxChanges \in Nat
    /\ Calls \cap People = {} /\ None \notin Calls
    /\ Tries \in Nat /\ Failures \in Nat /\ Batches \in Nat /\ MaxLost \in Nat
    /\ DOMAIN KeyOf = Events /\ MaxErrors \in Nat /\ MaxOutages \in Nat
    /\ None \notin Answers \cup {"timeout", "cancelled"} /\ {"timeout", "cancelled"} \cap Answers = {}

VARIABLES part,
          controls, run, toolCall,
          doc, held, row, edit, saver, up, queued, told, unheard, saverFaults,
          room, feed, changed, write, loading, saved, listed, recorded, excused, late, feedFaults,
          record, stage, done, caseFaults,
          ask, future, pending, answer

Gateway == INSTANCE ToolGateway WITH call <- toolCall
Saver == INSTANCE DocumentSaver WITH MaxFaults <- MaxLost, call <- edit, faults <- saverFaults
Feeds == INSTANCE ControlRoom WITH
    MaxFaults <- MaxErrors, life <- room, dirty <- changed, flush <- write, stored <- saved, faults <- feedFaults
Workflow == INSTANCE CaseWorkflow WITH Calls <- CaseCalls, MaxFaults <- MaxOutages, call <- stage, faults <- caseFaults
Manager == INSTANCE Hitl

gateway == <<controls, run, toolCall>>
document == <<doc, held, row, edit, saver, up, queued, told, unheard, saverFaults>>
feeds == <<room, feed, changed, write, loading, saved, listed, recorded, excused, late, feedFaults>>
workflow == <<record, stage, done, caseFaults>>
manager == <<ask, future, pending, answer>>
ledger == vars
hostVars == <<part, gateway, document, feeds, workflow, manager, ledger>>

HostInit ==
    /\ part \in {"gateway", "document", "feeds", "workflow", "manager", "ledger"}
    /\ IF part = "gateway" THEN Gateway!Init
       ELSE controls = None /\ run = None /\ toolCall = [i \in Calls |-> Gateway!NoCall]
    /\ IF part = "document" THEN Saver!Init
       ELSE /\ doc = [content |-> [x \in Calls \cup People |-> 0]] /\ held = None /\ row = None /\ edit = None
            /\ saver = None /\ up = None /\ queued = None /\ told = None /\ unheard = None /\ saverFaults = None
    /\ IF part = "feeds" THEN Feeds!Init
       ELSE /\ room = None /\ feed = None /\ changed = None /\ write = None /\ loading = None /\ saved = None
            /\ listed = None /\ recorded = None /\ excused = None /\ late = None /\ feedFaults = None
    /\ IF part = "workflow" THEN Workflow!Init 
       ELSE record = "none" /\ stage = None /\ done = [s \in Workflow!Stages |-> 0] /\ caseFaults = None
    /\ IF part = "manager" THEN Manager!Init ELSE ask = None /\ future = None /\ pending = None /\ answer = None
    /\ IF part = "ledger" THEN Init
       ELSE /\ life = None /\ unread = None /\ facts = None /\ dirty = None /\ flush = None
            /\ stored = [d \in Days |-> {}] /\ faults = None

HostNext ==
    /\ UNCHANGED part
    /\ \/ part = "gateway" /\ Gateway!Next /\ UNCHANGED <<document, feeds, workflow, manager, ledger>>
       \/ part = "document" /\ Saver!Next /\ UNCHANGED <<gateway, feeds, workflow, manager, ledger>>
       \/ part = "feeds" /\ Feeds!Next /\ UNCHANGED <<gateway, document, workflow, manager, ledger>>
       \/ part = "workflow" /\ Workflow!Next /\ UNCHANGED <<gateway, document, feeds, manager, ledger>>
       \/ part = "manager" /\ Manager!Next /\ UNCHANGED <<gateway, document, feeds, workflow, ledger>>
       \/ part = "ledger" /\ Next /\ UNCHANGED <<gateway, document, feeds, workflow, manager>>

HostSpec == HostInit /\ [][HostNext]_hostVars

\* A call is sent only to a server that is still approved.
SentApproved == Gateway!SentApproved
\* A write is sent once, by an authority of its own.
WritesAuthorised == part = "gateway" => Gateway!WritesAuthorised
\* No more calls are made by a skill's grant than its budget says.
BudgetKept == part = "gateway" => Gateway!BudgetKept
\* No save of the agent undoes anybody's.
NothingUndone == Saver!NothingUndone
\* Nothing that was queued for Word is lost before it is told, or made twice.
QueuedKept == part = "document" => Saver!QueuedKept
\* Nothing that was queued for Word is lost without a notice.
QueuedTold == part = "document" => Saver!QueuedTold
\* What the requester is told is so.
NoticesTrue == part = "document" => Saver!NoticesTrue
\* What is held for Word has a saver.
HeldHasSaver == part = "document" => Saver!HeldHasSaver
\* An event of the feed is stored, or will be.
FeedKept == part = "feeds" => Feeds!FeedKept
\* The effects of a case are attempted once and in order.
EffectsOnceInOrder == part = "workflow" => Workflow!EffectsOnceInOrder
\* The effects of a case are claimed, attempted once and settled.
StagesClaimed == Workflow!StagesClaimed
\* A recorded answer decides its request.
RecordedDecides == part = "manager" => Manager!RecordedDecides
=============================================================================
