# Verification of ess-mcp

This directory holds TLA+ models of the stateful core of the ESS reference
implementation (`src/demo_agent`), the TLC configurations that check them on
small instances, and TLAPS proofs of the properties that matter most for every
instance. `PROJECT.json` maps every definition to the source lines it stands for.

    tlc -workers 2 -config Chat.cfg MCConversationService   # a run
    tlapm ToolApprovalsProofs.tla                           # proofs

## The system

The repository is an autonomous "colleague" on Microsoft 365: a Python asyncio
host (`demo_agent`), the MCP servers it calls (`mcp_servers`), plugins,
infrastructure and widgets. The servers are proxies without state between calls
(but for what the Salesforce one remembers of its own user, and a simulated
Coupa); everything that is hard to get right lives in the host, or between the
host and the list tools its sweeps read, and nearly all durable state goes
through one class, `conversation_memory.Store`.

| Component | State | Operations | Used by |
| --- | --- | --- | --- |
| Conversation store (`conversation_memory.py`) | one versioned JSON document per scope; SQLite row version or blob ETag | `read`, `update` (CAS loop), `claim_activity`, `mark_welcomed`, `append_exchange`, `clear_all` | all that follow |
| Compliance service (`compliance_service.py`) | an index document of cases: owner, generation, queued rounds, write claims and receipts | `receive_email`, `handle_reply`, the drive loop, closure, abort | web host, by mail and chat |
| Case desk (`case_desk.py`) | a file per case, an index of rows; in memory: `_running`, `_again`, `_agenda`, drains | `submit`, `schedule`/`_drain`, the lifecycle tools, `_timer_loop`, `resume_pending` | event gateway, sweeps, operators |
| Event gateway and sweeps (`event_gateway.py`, `web._sweep`, `sweep_once`, the list tools) | a watermark per sweep; event ids on case files; the server's `_integration` | push, sweep: list, submit, save the watermark | case desk |
| Conversation service (`conversation.py`) | a document per chat: memory, receipts, tasks; in memory: locks, generations, jobs | `handle_message`, `welcome`, forget, `remove`, `close`, background tasks | autopilot runtime |
| Autopilot runtime (`autopilot_runtime.py`) | generations and decisions per chat | scope checks, forget, removal, decisions | web host |
| Tool approvals (`tool_approvals.py`) | approval records pending / executing / completed / rejected / unknown | `propose`, `decide`, `clear` | tool gateway, runtime |
| Tool gateway (`web._call_tool_safe`, `governance.py`, `skill_runtime.py`) | kill switch, deny-list, approved servers, budgets of a run | check, judge, grant, propose, send | every tool call |
| Case work and document saver (`case_work.py`, `agent_comms.py`) | held edits and replies, one saver task per case | edit, reply, `_save_when_closed`, `resume` | case desk |
| Human in the loop (`hitl.py`) | requests and their futures | request, resolve, time out | tools of a run |
| Control room (`control_room.py`) | activity feeds, dirty set | `record`, `load`, `flush` | all, best effort |
| Analytics ledger (`analytics.py`) | facts by day in memory, dirty days, one document per day | `note_*`, `flush`, `load`, `close`, a reset's flush | web host |
| Compliance case workflow (`compliance_case.py`) | one case per document, claims and receipts | the earlier workflow | superseded by the service |
| Compliance host and backend | none of their own | routing, Salesforce, Graph, Teams | compliance service |
| Guardrails, identity and tokens, skills, harness, telemetry reports, messaging, web host, MCP servers, plugins, deployment, widgets | none, caches, files of configuration, or outside processes | | |

How they interact: mail, chat messages and system events reach the web host,
which calls `ComplianceService`, `CaseDesk.submit` or, through the autopilot
runtime, `ConversationService` concurrently. They keep their state in store
documents and change it with synchronous transforms inside `Store.update`, so
the store's promise - a transform is applied whole to the current document - is
what everything else stands on. Every turn and task calls tools through
`_call_tool_safe`, which asks the operators' controls, the policy, and, for a
write, a grant, a delegation or a person (`ToolApprovalGate`,
`HitlCoordinator`). Between two updates anything may run: the host is one event
loop, but every `await` of the store, of a backend, of a policy or of a turn
yields; SQLite writes run in threads.

What is hard: lost and late answers of the storage; cancelled callers whose
write goes on; resets; external writes whose outcome nobody can know after a
crash; deliveries repeated by the systems that send them; owners that let go
while a reply is being queued; a case file and its index row that are two
updates; timers that ring while a turn sets them; a forget, a removal or a close
that overtakes tasks, approvals and messages under way; a document that people
edit while changes wait for it; a change whose push is lost, or that a sweep
meets while others are pushed; documents replaced by what memory had a while ago;
a process that stops anywhere.

What makes each component right:

* Store: updates are atomic, receipts are durable, a claim is won once.
* Compliance service: an external write is attempted at most once and never on
  top of an unsettled one; a case closes only on the answer the requester
  confirmed, which saw everything said; every queued reply has somebody who
  looks after it; no legal sequence makes the index reject itself.
* Case desk: serial work per case within the slots; an event is worked once and
  not forgotten; a waiting case keeps a wake-up; rows follow files; a restart
  resumes what was interrupted.
* Conversation service: after "forget this chat", nothing of the old generation
  is stored or sent; a message's task runs once; no result is sent that was not
  saved; the bound on tasks holds while cancelled ones drain; everything ends.
* Tool approvals: a callback runs at most once and never after a rejection, an
  expiry or a forget; receipts are true; an unknown outcome is kept.
* Tool gateway: no call is sent against the controls in force, no write without
  an authority of its own, none over its budget.
* Document saver: nobody's save is undone; nothing queued is made twice, or lost
  without its requester being told, and what they are told is so.
* HITL: an answer that was recorded is the one that decides its request.
* Control room: an event is stored, or will be; also one of a process that stops.
* Sweeps: what a push lost is caught; a watermark never passes what the desk does
  not know; the colleague's own writes are no events.
* Analytics ledger: a fact is stored, or will be; no stored fact is overwritten.

## Modules

`MC...` modules give constants their values; `...Proofs` modules hold theorems.
An operator beside a definition that no action uses (`ClearLazily` beside
`Clear`, `JudgedAgain` beside `Judged`) is a plausible bug in it, a mutant;
`PROJECT.json` names the property that finds each.

### AtomicStore and ConversationStore

`AtomicStore` is the promise: a document that changes only by a whole transform
of its current content (or of a fresh one, once it outlived its TTL), or by a
reset. `ConversationStore` is the code: each caller (`Callers`) goes through
`Invoke`, `ReadRecord` (`_read_record`), `Decide` (the transform on the snapshot;
a no-op returns unwritten), and `CasSuccess` or `CasConflict` (with `Retry` up to
`MaxAttempts`). `Unavailable` is a storage error before, or after, the write
landed. `Cancel` and `DetachedCas` are a caller cancelled while its write runs in
a thread. `Reset` is `clear_all`. `Backend` chooses between row versions, which
restart with the row, and ETags, which do not (`NewVersion`). `Resets` says when
a reset may come; `"stopped"` is what `_reset_everything` of the host does:
callers were cancelled, their threads were not awaited. `content` has the
receipts (`seen`), the messages (`recent`) and the `welcomed` flag. The history
variable `won` counts the calls that answered True for an activity.

### ClaimedEffects

The promise of the three parts with effects that cannot be undone: a case
created, answered or closed by `compliance_service` or `compliance_case`, a tool
called for `tool_approvals`. An object (a case, a request) has effects, each with a
`record` (none, claimed, completed, unknown, refused) and a count `done` of its
attempts. `Claim` needs a settled object and an effect that is `Ready`, given what
is completed; `Attempt` needs a claim and happens once; `Complete` is the
receipt; `Doubt` gives a claim up for good; `Refuse` turns down what was not
attempted. A step changes the record or the outside, never both: that is why a
crash between the two is always possible, and why an unknown outcome is kept.

The parts implement it each in its own way, and each module states its mapping
at its end: `WritesClaimed` (`ComplianceService`: claims and receipts are stored
per write, `Follows` is the order of the writes, and an interrupted call leaves
its claim unknown), `StagesClaimed` (`CaseWorkflow`: one status stands for
three records, which `Known` reads off it), and `CallbacksClaimed`
(`ToolApprovals`: `Receipt` of a request; rejections, expiry and eviction are
refusals or leave the receipt as it is).

### ComplianceService

`call[c]` is a running call of `receive_email` or `handle_reply` with its locals,
`cases[k]` the record of a case, `writes[k][n]` the claim and receipt of its
external write `n` (create, private chat, update and delivery of each round,
close, notice of closure). One CAS edit is one step, which the refinement of
`AtomicStore` justifies. `Claim`, `Invoke` and `Complete` are the three parts of
`_write`; `ClaimRefused` the claim that comes too late. `Take`, `Investigate`,
`Record`, `Block`, `ChatReady` and `Delivered` are the drive loop; `Verify`,
`Readback`, `Closed` and `Notified` the closure. A reply is received, interpreted
and accepted (`AcceptNothing`, `AcceptFull`, `AcceptRejected`, `AcceptClose`,
`AcceptChat`, `AcceptMaterial`), each a branch of the edit `accept` of `handle_reply`. `Interrupt`
ends any running call; `Abort` is the marker `_abort` leaves, and `Die` the
process dying before it does. The histories `effects`, `heard` and `answered`
record invocations, accepted material and what the delivered answer had seen.

One binding, one requester and one private chat are modelled; texts, evidence,
timelines and best-effort notices are not, as no decision depends on them.

### CaseDesk

`file[k]` is the durable case file, `row[k]` its durable index row; `drain[d]`
the tasks of `_drain`, `sub[s]` the calls of `submit`, `timer` the timer loop
and `resume` the call of `resume_pending`. A step is what runs between two
awaits: the update of a file and that of its row are two (`SubmitFile`,
`SubmitRow`; `Take`, `Begin`; `Tool`, `ToolRow`; `Finish`, `FinishRow`; `Clear`,
`ClearRow`; `TimerFile`, `TimerRow`). `Turned` is the end of the colleague's turn
with a summary or an error. `Stop` keeps only files and rows; `Start` starts the
loops again. `Fault` is a store error: the call it hits raises, a drain ends, the
timer loop ends for good. The history `worked[v]` counts the turns an event was
given to. There is one more place for drains than there are cases, so that a
second drain of a case would show.

Left out: aliases, titles and timelines, the operator's reset, and changes of a
file from outside its turn. The sweeps, which call `submit`, are in
`Reconciliation`.

### Reconciliation

How the desk learns of a change in a system of record. `log[r]` is what happened
to record `r` there, when and by whom; `pushes` the doorbells on their way, which
may be lost (`Lose`) or arrive late (`Deliver`); `seen` the event ids on the case
files; `mark` the stored watermark; `sweep` the sweep in progress: `Start` reads
the watermark, `List` calls the list tool, `Submit` files an event, `Save` stores
the newest version listed, `Fails` is a call that fails anywhere, or a restart.
`Lists` is the list tool of each system: ServiceNow's takes the oldest records of
its window and drops those up to the watermark afterwards, Salesforce's and
Coupa's filter first. `Asks` is what the Salesforce server remembers of its own
user, `IsOwn` the `updated_by_integration` of a row.

The clock moves only with changes, so that versions are told apart by the code's
comparisons and by nothing else; with `Ties` two changes may share a second.
Records stay in the queue and the window, their cases stay open, and the gateway
is configured with the integration's user.

### ToolApprovals

The gate of one chat together with what the runtime does around it.
`records[r]` is an approval record; `job[j]` a run whose call needs a person
(`Screen`, `Offer`, `Proposed`); `decision[d]` a requester's answer (`Command`,
`Claim`, `Recheck`, `Dispatch` or `Refuse`, `Return`, `Finish`); `ending[e]` a
forget or a removal (`End`, `Clear`, `Erase`, `Leave`). Each edit of the gate's
document is one step. `Proposal`, `Lapsed`, `Duplicates`, `Evictions` and `Room`
are the parts of the edit of `propose`; `Judged` is that of `decide`, `Outcome`
that of `_finish`. A decision that is cancelled at an edit raises after it
(the edits are shielded), at any other await at once (`Interrupted`); every edit
may fail, committed or not. The history `ran[r]` counts the invocations of the
callback, `cleared` what a forget or a removal found pending. The shut-down of
the runtime, which cancels decisions as `End` does, is not modelled apart.

### ConversationService

`chat[c]` is the document of a chat, `slot[c]` its lock, generation and removed
flag in memory, `handler[h]` a call of `handle_message` or `welcome` with its
locals, `job[h]` the task it started, `removal[x]` a call of `remove`, `closing`
the call of `close`. A handler goes through recovery, activation, claim, note,
plan, and a reply or the start of a task (`_start_job`: `Persist`, `Ack`,
`Launch`, `Unstart`). A job is `_run_job`: `Begin`, `Read`, `Return`, `Collect`,
`Finish`, `Send`, `Deliver`, `Compact`; a cancellation is raised at its next
await (`Raise`) or after the edit it is in (`After`), and leads to
`_interrupt_live_job` (`InterruptJob`) and to the callback `_job_done`. Every
edit, acknowledgement or send may fail (`CallFails`, `StartFails`, `JobFails`,
`UnstartFails`, `InterruptFails`, `LeaveFails`, `CloseFails`), committed or not;
`Crash` keeps the documents only.

Memory is the set of the forgets its entries follow (`era`), which is what
`ForgottenStays` needs to tell entries apart; wording, summaries, references and
compaction are left out, and the planner's and runner's answers are any. A lock
is taken by any waiter, except that `close` comes after the removals that waited
before it, on which `Quiet` depends.

### ToolGateway, DocumentSaver, CaseWorkflow, Hitl, ControlRoom, AnalyticsLedger

Six smaller parts, each with its own module; `Host` puts them side by side, the
initial state choosing which one runs, and `MCHost` gives its constants their
values. (They share no state in the code.
The gateway's `Propose` is where `ToolApprovals` begins; a call that starts as
`approved` is where its `Dispatch` goes on.)

* `ToolGateway`: the calls of one run, some at once, through `Check` (scope, kill
  switch, approved servers, deny-list), `Judge` (the policy's verdict, and what
  follows it before the next await: `Settle`), `Autonomy` (the skill's script),
  `Propose`, `Send` (scope, kill switch and deny-list once more - `InForce` - but not
  the approved servers, then the call) and `Return` (a read may be sent again). The
  controls change at any time. The server "human", which needs no approval, is left
  out.
* `DocumentSaver`: one Word document, the agent's edits and replies (`Ask`,
  `Load`, `Save` over the version read, `Hold` while Word has the file open),
  people who open and change it, and the saver with its drop of what it cannot
  save. The content of a file is how often it has each change. What the requester
  is to be told - that the edits were dropped, or that the comment to reply to has
  gone - is in the saver's hand (`due`) from the save or drop until its notice, two
  updates of the case later (`Told`). A notice that fails is not repeated
  (`NoticeFails`), and a crash loses the saver and what it had to tell; both are
  kept in the history `unheard`. `Resume` starts a saver for a row that says
  something is held.
* `CaseWorkflow`: `compliance_case.CaseWorkflow`, which the host no longer uses;
  its three calls claim a stage, perform the effect and complete the record.
* `Hitl`: requests, the timeout, a run that is stopped or whose card could not
  be sent, and answers that are matched first and, after awaits, resolved.
  `resolve`, first in first out, is called only by tests and is left out.
* `ControlRoom`: `record`, the load at the start, the flush loop, the stop that
  cancels it and the one final flush (`Take` in the life "closing", then `Stopped`
  whether it succeeded or failed), with failing writes and crashes. Events are
  recorded in every life, as the host goes on closing other parts when the control
  room has stopped; those that came when the final flush had taken the dirty feeds
  are the history `late`. A feed's own bound, the eviction of feeds over
  `MAX_INSTANCES`, `complete_call`, the policies, and the operator's reset (which
  stops without a flush, erases everything and starts anew) are left out.
* `AnalyticsLedger`: `Note` marks a day dirty and starts a flush (`Mark`) unless
  one runs; `Take`, `Payload`, `Write` and `Flushed` are `flush`, with the payload
  computed before its update is won; `Fails` puts the day back, `Close` cancels
  the task and leads to the flush of `close()`. A store update that lost its
  caller may still land. `ReadFails` and `Resets` admit what two of the findings
  need; the run is without them, as are the two theorems about stored facts.

## Runs

| Run | Question | Bounds |
| --- | --- | --- |
| `store_azure` | Does the CAS loop implement the atomic store, are claims won once, and receipts durable? | two callers, three calls, two activities, two attempts, TTL and clock of one, resets at any time |
| `compliance_one` | Everything about one case: do its external writes implement the claim protocol, closure, queue, validity of the index | one email, three replies, each may fail or die anywhere; three rounds, queue of one, two receipts |
| `compliance_cases` | Is an activity recorded on one case, is a case never taken over, is queued material served? | three instances: two cases, the second begun when the first has its chat, two numbers, an activity replayed with either marker; two emails, one delivered twice, a full index of one case; one email and two replies with every verdict and intent, under fairness |
| `desk_one_case` | Serial work, no event or open case forgotten, resumption | two events, a restart, two moments, queue of one |
| `desk_two_cases` | Is every admitted event worked, and none twice? | two cases, one slot, one event delivered twice, a store that may fail any call |
| `approvals` | Does the gate implement the claim protocol (callbacks at most once); true receipts, settled outcomes, forgotten approvals never run, uncertain ones kept | two requests, requesters, jobs and decisions, one forget or removal; limits of one record and one pending; one store error or crash; one tick, which is the time to live |
| `chat` | Forgetting, redelivery, saved results, capacity, true task records, quiet removal and close, termination | one chat, two messages (the second perhaps a redelivery), one removal, a close, one task at a time, history of one, one error or crash anywhere |
| `host` | Six parts: authority of writes, what is queued for Word and what is told about it, the feed, the case workflow against the claim protocol, a manager's answers, the ledger | two calls and two changes of the controls; two edits and a person, one fault; three events of two instances, two faults; three calls of the workflow, two faults; two requests, three answers; three facts of two days, two faults |
| `sweep` | Does a sweep catch what pushes lost, and is the watermark never ahead of what the desk knows? | two records, two changes each by people or the colleague; Salesforce with a page of one row, ServiceNow with one that covers its window, Coupa with a page of one; two failures or restarts (one for ServiceNow) |
| `desk_timers` | Are timers durable? No. | one case, one restart |
| `gateway_budget` | Is the budget of a skill kept? No. | as `host` |
| `sweep_starved` | Does ServiceNow's sweep catch everything? No. | two records, a page of one |

Why the bounds are enough. The store's hazards need two rivals and a third call
that sees what they left, a second attempt that may be lost, and a clock that
reaches the TTL; the document's limits are two, so that eviction happens (one
exchange of two messages fills `recent`). For the compliance service, the third
reply is the one that finds the queue and the receipts full; three rounds let a
confirmed answer be overtaken and answered again; two calls at a time are enough
for a lost owner, the third for the reply behind it. In the desk, `MaxPending = 1`
is the queue at its limit, `MaxErrors = 2` lets errors both accumulate and be
reset, and the second moment of the clock is when the wake-ups of the first
ring. For approvals, two decisions are two claims on one record, `MaxRecords = 1`
makes every second proposal evict or be refused, and a record is claimed, cleared
or expired in every order with one failure in between; about 780 000 states. In
`chat`, the second message is the forget, the redelivery or the rival task of
the first, and one failure is what separates a saved result from an unsaved one;
about 340 000 states. The lock, the generation and the document are per chat;
only the number of admitted tasks is shared, which the second message exercises
within one chat as well. In `host`, two calls race for a budget of one, two
changes of the controls are a change and its withdrawal, a second edit is the one
queued behind a save in flight, and two attempts and two failures reach each
retry and each giving up; the third fact is the one noted while the day of the
first is written. In `sweep`, a page of one row makes each of two records wait
for the other, and the second change of a record is the one that a listed
version is overtaken by; a failure per sweep leaves it nothing, a part, or all
but its watermark. What was proved holds beyond all of these bounds.

Deadlock is not checked: when all calls have been made, or the process has
stopped for the last time and holds nothing, these systems rightly do nothing.
`EverythingEnds` says, for the conversation service, that such a stop is
orderly; the compliance service, the desk and the sweeps have liveness properties
of their own.

Symmetry: the runs that use it permute names no definition tells apart and check
no liveness property, except that in `compliance_cases` the names permuted occur
only in the first instance, of which the liveness property says nothing; in
`approvals` two requesters are exchanged together with their jobs.

## Fairness

* Compliance service (`MCComplianceCases`, its third instance): weak fairness of
  the steps of each accepted call; nothing obliges mail or replies to arrive, or
  anything to fail.
* Desk: weak fairness of tasks, as the loop schedules them and turns have a
  deadline; weak fairness of the clock; strong fairness of taking a slot, as
  `asyncio.Semaphore` is first in, first out. `EventsWorked` speaks of a process
  that goes on running and of a store that did not fail.
* Conversation service: one weak fairness of all internal steps together - the
  event loop does not stop while something can go on, and planner, runner and
  sender return (the harness and the runtime wait for the model with a timeout).
  No single call is favoured, none is needed: each takes finitely many steps.
  Messages, removals and closes need not come, and nothing is forced to fail.
* Sweeps: weak fairness of the sweep's steps together. The loop of `web._sweep`
  sleeps and sweeps again whatever went wrong, and failures are bounded; nothing
  obliges a push to arrive, so that `Caught` rests on the sweep alone.
* The store and the parts of `Host` have safety properties only, and no
  fairness.

## What is proved

Every safety property that a passing run checks, for any values of the constants
that the modules' `ASSUME`s allow, and under the hypotheses named below. A proof module has, for each inductive
invariant, its definition, lemmas that say what an action or a kind of edit does
to it, one `...Step` lemma, and the theorems that follow from it.

**Store.** `StoreTypes`. `ReceiptsDurable`, `StoreIsAtomic` and `ClaimsWonOnce`
under `VersionsNeverReused` - the backend is Azure, or SQLite is never reset;
without it the first of the findings without a run applies. The inductive
invariant is optimistic concurrency itself: a snapshot whose version is still the
stored one is the stored document, versions seen lie below the next one, and a
candidate is the transform of its snapshot; so a swap that lands transforms the
current document. `ClaimsWonOnce` adds that an activity that was won is in the
document, so that nobody's candidate, derived from the current document, wins it
again.

**Compliance service.** `ServiceTypes` needs `Knows`: what a call has in its
locals at each step (its case, its round, the result it writes for).
`WritesAttemptedOnce` (`EffectsOnce`) and `WritesAttemptedInOrder`
(`EffectsInOrder`, of which `WritesClaimed` is the stronger form that the run
checks) rest on `WriteInv`: a call about to invoke a write is `Poised` - it has the claim, the write was never
invoked, and every other write of the case is untouched or has its receipt - and
what was invoked was claimed and is never unclaimed (`_abort` turns claims into
unknown ones). `CallsOwnTheirCase` rests on `OwnerInv`: ownership
passes only on release, and whoever has released does not drive any more.
`SettledHolds`, `QueueHolds`, `IndexHolds`, `AnswerHolds` and `ActivitiesApart`
rest on `Books`. Its `Kept` is what is true of each case, whoever drives it: it has
room; a write that was claimed is of a round that was begun, and a case that has a
number, a chat or its closure has the receipt for it; a round's answer was
confirmed only on everything heard; replies wait only for an owner or on a case
that says it is stopped. Its `Sound` is what the call that drives a case relies on
at each step: the receipt it waited for, the round it writes for, and, while its
round is the case's last and nothing suspended it, that its context is everything
heard. A step changes one case: the driving call shows `Kept` and its own `Sound`
again (`Moves`), and a reply accepted from outside must leave the driving call
what it relies on (`Accepts`). No two cases have an activity in common, as only an
activity that no case has is added.

**The claim protocol.** `ClaimedEffectsProofs` proves, for any objects, effects and
`Ready`: `ProtocolHolds` (the record is true of the outside, and one effect of an
object at most is open), `DoubtStops` (what was attempted stays on record and is
not attempted again; an unknown outcome is for good and stops its object), and,
where `Ready` only grows with what is completed, `OrderHolds` (what an effect was
claimed on is never taken back). Three refinements are proved, every step of
the component being a step of the protocol or a stutter:

* `WritesKeepClaims`: besides `WriteInv` and `Books` it needs `ReceiptInv` - one
  write of a case at most is claimed or unknown, a call about to complete a write
  has attempted it, and an answer about to be delivered was stored with the case -
  from which, at a claim, what `Follows` asks for is completed (`ClaimFollows`).
* `StagesKeepClaims`: as one status stands for all records, the step of a call
  changes the record of one stage and leaves what `Known` says of the others, also
  when the outcome becomes unknown.
* `CallbacksKeepClaims`: a decision's claim and its record fit at every step
  (`Held`), so that an edit of the gate is a claim, a receipt or a doubt of one
  request, or the refusal of several that nothing was run for, and an eviction
  takes only settled ones.

The protocol's theorems then hold of the components by instantiation:
`DoubtStopsCase` and `WritesFollow` of the service, `DoubtStopsWorkflow` of the
workflow.

**Case desk.** `DeskTypes`, with `Workers`: one drain at most per running case,
requests to look again only for running cases. `WorkIsSerial` adds that every
step but `Take` settles (no drain enters a slot), and `Take` needs a free one.
`EventsWorkedOnce` rests on `Fresh`: what waits in a file, and what a drain has
taken, is in the receipts, was never worked and is in no other place; what was
worked stays in the receipts, which keep it from being filed again.
`DeskAssumption` includes that cases are finitely many, as slots are counted.
`AttendedHolds` and `ResumedHolds` rest on `Vigil`, which joins six facts, because
neither property is inductive. `Staffed`: a case that runs has a drain, so that
scheduling it again reaches one. `Down`: a stopped process has no timer loop.
`Timely`: a timer event is recorded once and not again - what rings is not in the
receipts, and a file never waits for a moment it has recorded - so that the event
of a cleared wake-up is always admitted to an open case. `Watch`, until the first
stop or store error: a file with events is `Minded` (a drain will look at it, or a
call is about to schedule it); a new case has events; a working one has events or
its turn; a waiting one has events, a wake-up that was cleared and not yet filed,
or one that is `Due` (in the agenda, in a row about to be indexed, or ringing).
`Rung`: the timer rings only for a case that is open or minded. `Resumed`: a case
listed with events is minded, rung for, or still to be resumed. The last two hold
after restarts too, until the store fails again.

**Tool approvals.** All five properties of the run `approvals`: the refinement
above, which rests on `CallbacksOnce` (`CallbackOnce`: a call is made at most
once), `ReceiptsAreTrue`, `ClearedStayRejected`,
`UncertainReceiptsKept`, `OutcomesAlwaysSettle`, with `TypesAlways`. The
inductive invariant relates a decision to the record it claimed (`Held`): a
decision that goes on from its claim finds the record executing, under its own
claim; nothing ran for it before `Dispatch`, and exactly one call was made after
it; a decision that has not claimed yet holds nothing. A record has one claim, so
no two decisions hold one, `Dispatch` finds a record for which nothing ran, and
`Finish` gives an outcome to nobody else's. The invariant joins it to the three
state properties themselves, because `ReceiptsTrue` is what a claim relies on: a
record that waits was never run. `OutcomesSettle` has an invariant of its own,
about states without a fault: a decision with a claim, cancelled or not, still
has its outcome or its clean-up before it.

**Conversation service.** All six safety properties of the run `chat`.
`ForgottenStays`, `ActivityOnce`, `ResultsSaved` and `LateSuppressed`, with
`TypesHold`, rest on the inductive invariant `Inv`, which has these parts. `Locks`:
one step at most is inside a chat's lock. `Eras`: a step that holds the lock, or whose generation is the chat's, knows its last forget; a
forget raises the generation before it saves, under the lock, so that a task
which still finds its generation may store what it has. `Results`: a task about
to send finds its result in the record, and the agent in the chat. `Once`: a call
or task that may still run an activity's task is the only one, the activity is
in the receipts, and was not run. Failures, cancellations and the crash are
actions like the others, so the theorems cover them.

`TasksHold` (`TasksTrue`) and `QuietHolds` (`Quiet`) add `Orderly`, about who settles
a task. `Admission`: the places taken are exactly those of calls that start a task
and of jobs that have not ended. `Known`: what a call has recovered it knows, so
that it starts nothing beside a task it has not seen. `Honest`: while nothing has
failed, a task that is not settled either has a job that is able to settle it - its
generation, its process, an active chat, and a step that leads there - or is
`Doomed`: a forget, a removal or `close` is about to settle it before a call
looks. `GoneQuiet`: a chat that was left has no such task. `ClosingKnown`: what
`close` has still to settle is among the jobs it took, or another removal or forget
that it waits for is at it.

**Sweeps.** `MarkHonest` where version stamps tell changes apart (`~Ties`): the
versions of the records are distinct and ordered, everything up to the watermark
is known, and everything up to the sweep's newest is known or still to be
submitted; so `Save` moves the watermark over nothing unknown, for any system,
page, failures and number of records. `NoEcho` where the integration's user is
known and the system has one (`EchoHolds`).

**Analytics ledger** (in `HostProofs`)**.** `LedgerKept` and `NothingErased` where every day can be
read and no reset flushes (`KeptHolds`, `NothingLost`): one flush is in its
update at a time, memory has whatever is stored, and the document that a flush is
about to write contains the one it replaces.

**The other parts of the host** (`HostProofs`). Each part has an invariant over its
own actions; `OnePart` is all that their composition adds.

* `EffectsHold` (`EffectsOnceInOrder`), of the case workflow: one call at most is
  between its claim and the end of its stage, and it has the claim that the record
  shows; what was attempted follows from the record's status, so that a claim finds
  its effect not attempted and the earlier ones complete. `StagesKeepClaims` rests
  on it.
* `AnswersDecide`, of questions to managers: an answer in a future is the one
  recorded for its request, a decided request is not pending, and a request is
  decided once; a run that was stopped is the exception that `RecordedDecides`
  names.
* `FeedsHold`, of the control room: what a flush has in hand is the whole feed
  unless the feed is dirty again, the index it writes lists every feed that is not
  dirty, and nothing is flushed before the feeds are loaded. What is dirty counts
  only while somebody will flush it: after the final flush has begun, an event is
  stored, in that flush's hand, or one of the exceptions that `FeedKept` names.
* `WritesHold`, of the gateway: a call has no authority before its verdict and
  afterwards one that fits it; what was granted or delegated and what is left add up
  to what the run began with; an authority is never of two calls, and none is kept
  for a second sending.
* `QueuedHolds`, `NoticesHold` and `NothingUndoneHolds`, of the document saver: what
  anybody read is the document or an older version of it, so that a save over the
  version read only adds; nothing is held twice; the saver lets go exactly what it
  saved or has then to tell, until the notice is out, failed or is lost with the
  process; and while no fault happened, what is held is not in the document, and
  what was told, or is to be told, is neither there nor held any more (`Honest`).

Only model-checked: liveness (`QueueServed`, `EventsWorked`, `EverythingEnds`,
`Caught`), which is beyond the prover, as ENABLED and induction over data are (the
models have no recursive definitions); and the two invariants of
`MCComplianceCases` under those names - they are `ActivityOnce` and `OwnersDrive` of
two instances of `ComplianceService`, which `ActivitiesApart` and
`CallsOwnTheirCase` prove of the module for any constants.

## Findings

With a run:

1. `desk_timers`: the timer loop clears a due wake-up before it submits its
   event; a stop in between leaves a waiting case that nothing wakes. (`AttendedHolds`
   proves that, while the store works, it takes a stop to lose one.)
2. `gateway_budget`: two calls of one run are granted on the last unit of a
   skill's budget, as the skill's script is awaited between grant and spending.
3. `sweep_starved`: ServiceNow's list tool asks for the oldest `limit` incidents of
   72 hours and drops those up to the watermark afterwards; with more incidents
   than that in the window, newer changes are never listed.

Without a run of their own; the formula is in the module and the way to see it
violated is given:

4. A change that is held while the saver, having dropped the earlier ones, sends
   its notice has no saver, nor a row that a restart finds (`Host.cfg` with the
   invariant `HeldHasSaver`).
5. The store on SQLite (`StoreAzure.cfg` with `Backend = "sqlite"`, property
   `DurableReceipt`): `clear_all` does not wait for writes still in their thread,
   and rows start again at version 1, so such a write can replace a document
   created after the reset, with receipts that were won meanwhile.
6. `resume_pending` looks at rows that say new or working, but a waiting or
   resolved case keeps its status until its drain takes the event; an event on
   one is not resumed (`DeskOneCase.cfg` with `MaxPending = 2`, `ResumeFinishes`).
7. Rows are written from each update's own snapshot; two updates may write theirs
   in the other order, and the older row stays (`DeskOneCase.cfg`, `RowFollows`).
8. An approval that is proposed by a job which was screened before a forget, and
   written after the forget cleared the gate, stays pending in the new
   conversation (`Approvals.cfg`, `ForgetRejects`).
9. The control room's dirty set is emptied by `load`, by a flush that the stop
   cancels, and is not refilled when only the index write fails; a final flush that
   fails is not repeated, and what is recorded after the final flush took the dirty
   set, while the compliance service and the runtime close, is flushed by nobody.
   These are the stated exceptions (`excused` and `late`) of `FeedKept`; leave one out
   of `Loaded`, `Missed`, `Stop` or `FeedKept` and `FeedKept` is violated.
10. A sweep sees the last change of a record only. A person's change whose push
    was lost, followed by one of the colleague's, is skipped as the colleague's
    own (`SweepStarved.cfg` with `Limit = 2`, `MaxClock = 3`, `AgentWrites = TRUE`
    and the invariant `NothingMissed`). `Caught` and `MarkHonest` speak of
    records whose last change needs the desk.
11. Version stamps are whole seconds, and rows up to the watermark are dropped: a
    change in the watermark's second, after the list was read, is never listed
    (`SweepStarved.cfg` with `Limit = 2`, `MaxClock = 3`, `Ties = TRUE`,
    `NothingMissed`).
12. One failed answer to "who am I" is kept for the life of the Salesforce server,
    after which the colleague's own changes are admitted as events
    (`SweepStarved.cfg` with `System = "salesforce"`, `MaxClock = 3`,
    `AgentWrites` and `UserinfoFails` TRUE, `NoEcho`).
13. The ledger's `load` skips a day it cannot read, and the next flush replaces
    that day by what memory has (`Host.cfg` with `ReadFails = TRUE`,
    `NothingErased`).
14. `flush` has no lock: a reset's flush beside the task's can leave the older
    document (`Host.cfg` with `Resets = TRUE`, `NothingErased`).
15. `close()` cancels a flush that has taken the dirty days, which nobody puts
    back (`Host.cfg` with the invariant `ClosedWhole`).
16. A fact noted while its day is being written leaves the day dirty with no task
    to write it, until something else is noted (`Host.cfg` with the invariant
    `DirtyAttended`).
17. The servers an operator approved for a teammate are looked at once, before the
    policy, the skill's script or a renewed session are awaited, and not with the
    other controls before the call is sent; a call that waits goes to a server whose
    approval was withdrawn meanwhile (`Host.cfg` with the property `SentApproved`).
18. The saver drops what it cannot save from the case file two updates before it
    tells the requester, swallows a notice that fails, and a crash in between
    leaves nobody to tell; the same goes for a reply whose comment has gone
    (`Host.cfg` with the invariant `QueuedTold`). The timeline of the case does say
    that the changes were not saved, unless the crash came before it.

Seen while modelling, not judged by a property because nothing in the repository
says otherwise: a failed store call ends the timer loop for the life of the
process; a case reopened after escalation keeps its error count; in the
compliance service a reply queued behind an investigation that fails stays
queued on a case flagged `needs_specialist_review` that has no owner
(`QueueAttended` and `QueueServed` allow exactly this); a manager's request whose
run was stopped stays listed, as `_timeout` leaves a future that is done, and an
answer to it is "recorded" although nobody uses it (`RecordedDecides` names this
exception).

## Not modelled

* MCP servers, about 16 000 lines, but for the list tools of the sweeps: each
  tool is one or a few HTTP calls and a rendering of the answer, with no state
  between calls. A model of a tool would
  restate its request, and nothing another part depends on would be checked by
  it. The same is true of the adapters of the compliance host and backend, of the
  messaging clients, of the directory and token code (a cache whose misses are
  independent: a second token is harmless), and of telemetry and the reports of
  analytics.
* Most of `web.py` is HTTP routes, wiring, prompt assembly and rendering; what of
  it decides or orders anything is in the modules above.
* Guardrails: versions of a Rego policy, evaluated by OPA, an outside process;
  its verdict is an input of `ToolGateway`. Persisting governance is one
  synchronous write.
* The Copilot SDK and the child interpreter are outside processes; a turn is its
  case tools and its end. Skills are prose and scripts that such a process runs
  once over spreadsheets.
* Deployment, manifests, widgets, previews: no behaviour of their own.
* Encoding, size limits and scrubbing of documents: they turn a call into an
  error before any write, which the models have. The editing of Word XML
  (`doc_edit.py`) is a pure function of a file; the saver models when it is
  applied and to which version.

For these reasons the mapped lines are a small share of the repository: its
bulk is stateless integration code, and its stateful core is what is mapped.

## Plan

1. Done: the store, the compliance service and the desk, with their runs and
   first proofs.
2. Done: approvals with all their properties proved; the conversation service and
   the proofs of its state properties; the gateway, the saver, the case workflow,
   questions to managers and the feed; the sweeps and the ledger with their
   proofs; the removal of shallower properties in their favour.
3. Done: the safety properties that the runs check, as theorems; the claim
   protocol as the common promise of the parts with external effects, and the proofs
   that they implement it.
4. Models: the deadlines and the recovery of the agent harness
   (`copilot_harness.py`); the case writes of the compliance backend; the
   shut-down sequence of the runtime over service and gate; the eviction of
   feeds.
