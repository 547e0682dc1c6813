------------------------- MODULE ConversationService -------------------------
(***************************************************************************)
(* conversation.ConversationService: one process that answers the messages *)
(* of several chats, runs their tasks in the background, and forgets,      *)
(* leaves, rejoins and closes while both go on.                            *)
(*                                                                         *)
(* Each chat has a lock, a generation and a document.  An edit of the      *)
(* document is one atomic step (ConversationStore shows it is one); an     *)
(* edit that fails may have been committed.  A message is a handler, which *)
(* also names the task it may start.  Texts, summaries and references are  *)
(* left out: what memory holds is the set of the forgets its entries       *)
(* follow.  A lock is taken by any of its waiters, not only by the first,  *)
(* except that close comes after the removals that waited before it.       *)
(***************************************************************************)
EXTENDS Integers, FiniteSets

CONSTANTS Chats,
          Activities,   \* activity ids; a message delivered twice has one of them
          Handlers,     \* handle_message and welcome calls
          Removals,     \* remove calls
          ChatOf,       \* ChatOf[a]: the chat activity a is of
          MaxTasks,     \* max_tasks
          HistoryLimit, \* _HISTORY_LIMIT
          MaxFaults,    \* bound: store and transport errors, and crashes
          None

ASSUME ConversationAssumption ==
    /\ ChatOf \in [Activities -> Chats] /\ None \notin Activities /\ None \notin Chats
    /\ MaxTasks \in Nat /\ HistoryLimit \in Nat /\ MaxFaults \in Nat

VARIABLES chat,     \* chat[c]: the stored document
          slot,     \* slot[c]: the lock, generation and removed flag in memory
          process,  \* _owner: which process this is
          admitted, \* _jobs
          handler,  \* handler[h]: where the call is, and its locals
          job,      \* job[h]: where the task that h started is
          removal,  \* removal[x]: where the call is
          closing,  \* where close is
          ran,      \* history: ran[a], times the runner was called for activity a
          sent,     \* history: sent[h], times the result of h's task was sent
          faults    \* history: errors and crashes so far

vars == <<chat, slot, process, admitted, handler, job, removal, closing, ran, sent, faults>>

NoTask == [status |-> "none", delivery |-> "none", owner |-> 0, gen |-> 0, era |-> 0]
NoDocument == [active |-> FALSE, gone |-> FALSE, seen |-> {}, memory |-> {}, era |-> 0,
               tasks |-> [h \in Handlers |-> NoTask]]
NewSlot == [locked |-> FALSE, gen |-> 0, removed |-> FALSE]
NoCall == [pc |-> "idle", chat |-> None, act |-> None, gen |-> 0, era |-> 0, saw |-> {}]
NoJob == [pc |-> "none", ok |-> FALSE, cancelling |-> FALSE]
EndedJob == [NoJob EXCEPT !.pc = "ended"]
NoRemoval == [pc |-> "idle", chat |-> None, waits |-> {}]
Open == [pc |-> "open", left |-> {}, jobs |-> {}, waits |-> {}, behind |-> {}, failed |-> FALSE]

Init == /\ chat = [c \in Chats |-> NoDocument]
        /\ slot = [c \in Chats |-> NewSlot]
        /\ process = 0 /\ admitted = {}
        /\ handler = [h \in Handlers |-> NoCall]
        /\ job = [h \in Handlers |-> NoJob]
        /\ removal = [x \in Removals |-> NoRemoval]
        /\ closing = Open
        /\ ran = [a \in Activities |-> 0] /\ sent = [h \in Handlers |-> 0]
        /\ faults = 0

---------------------------------------------------------------------------
(* What the edits make of a chat's document. *)

Home(h) == handler[h].chat
Closed == closing.pc # "open"
Live(h) == ~Closed /\ ~slot[Home(h)].removed /\ slot[Home(h)].gen = handler[h].gen
Task(h) == chat[Home(h)].tasks[h]
Valid(h) == /\ Live(h) /\ chat[Home(h)].active
            /\ Task(h).status = "running" /\ Task(h).owner = process /\ Task(h).gen = handler[h].gen

\* A task that will not go on, in both of its statuses.
Settled(task) == [task EXCEPT !.status = IF @ = "running" THEN "interrupted" ELSE @,
                              !.delivery = IF @ = "pending" THEN "interrupted" ELSE @]

\* Every task of the process is taken for one that still runs.
RecoveredByOwner(h) == [chat[Home(h)] EXCEPT !.tasks =
    [j \in Handlers |-> IF @[j].owner # process THEN Settled(@[j]) ELSE @[j]]]
\* _read_scope: tasks that no admitted job of this process runs were orphaned.
Recovered(h) == [chat[Home(h)] EXCEPT !.tasks =
    [j \in Handlers |-> IF @[j].owner # process \/ j \notin handler[h].saw THEN Settled(@[j]) ELSE @[j]]]

Activates(h) == Live(h) /\ ~chat[Home(h)].gone
Activated(h) == IF Activates(h) THEN [chat[Home(h)] EXCEPT !.active = TRUE] ELSE chat[Home(h)]
Rejoined(h) == IF Live(h) THEN [chat[Home(h)] EXCEPT !.active = TRUE, !.gone = FALSE] ELSE chat[Home(h)]
Received(h) == [chat[Home(h)] EXCEPT !.seen = @ \cup {handler[h].act}]
\* What still runs is kept, to be finished.
ForgottenButRunning(h) == [chat[Home(h)] EXCEPT !.memory = {}, !.era = @ + 1,
    !.tasks = [j \in Handlers |-> IF @[j].status = "running" THEN @[j] ELSE NoTask]]
Forgotten(h) == [chat[Home(h)] EXCEPT !.memory = {}, !.era = @ + 1,
                                      !.tasks = [j \in Handlers |-> NoTask]]

\* _append and _compact
Remembered(h) == IF Live(h) /\ chat[Home(h)].active
                 THEN [chat[Home(h)] EXCEPT !.memory = @ \cup {handler[h].era}] ELSE chat[Home(h)]

\* _trim_tasks: ended tasks go until the rest fit, never a running one.
Trimmed(tasks) ==
    LET kept == {j \in Handlers : tasks[j].status # "none"}
        ended == {j \in kept : tasks[j].status # "running"}
        excess == Cardinality(kept) - HistoryLimit
    IN  {[j \in Handlers |-> IF j \in E THEN NoTask ELSE tasks[j]] :
            E \in {E \in SUBSET ended : \/ Cardinality(E) = (IF excess > 0 THEN excess ELSE 0)
                                        \/ E = ended /\ Cardinality(E) < excess}}

Started(h) == [status |-> "running", delivery |-> "none", owner |-> process,
               gen |-> handler[h].gen, era |-> handler[h].era]
Admissible(h) == Live(h) /\ chat[Home(h)].active
Persisted(h) == IF Admissible(h)
                THEN {[chat[Home(h)] EXCEPT !.tasks = t] : t \in Trimmed([chat[Home(h)].tasks EXCEPT ![h] = Started(h)])}
                ELSE {chat[Home(h)]}

\* _interrupt_records
Interrupted(c, ids) == [chat[c] EXCEPT !.tasks =
    [j \in Handlers |-> IF j \in ids /\ @[j].owner = process THEN Settled(@[j]) ELSE @[j]]]
Left(c) == [chat[c] EXCEPT !.active = FALSE, !.gone = TRUE, !.tasks = [j \in Handlers |-> Settled(@[j])]]

\* finish and delivery of _finish_job
Saved(h) == IF Valid(h)
            THEN [chat[Home(h)] EXCEPT !.tasks[h].status = IF job[h].ok THEN "completed" ELSE "failed",
                                       !.tasks[h].delivery = "pending"]
            ELSE chat[Home(h)]
Delivered(h, ok) ==
    IF Live(h) /\ chat[Home(h)].active /\ Task(h).status # "none" /\ Task(h).owner = process
    THEN [chat[Home(h)] EXCEPT !.tasks[h].delivery = IF ok THEN "sent" ELSE "failed",
                               !.memory = IF ok THEN @ \cup {handler[h].era} ELSE @]
    ELSE chat[Home(h)]

---------------------------------------------------------------------------
(* handle_message and welcome, which hold the chat's lock from first to last. *)

\* A call that has returned; what it gave its task is of the task's closure.
Returned(h) == IF job[h].pc = "none" THEN [NoCall EXCEPT !.pc = "done", !.chat = Home(h)]
               ELSE [handler[h] EXCEPT !.pc = "done", !.saw = {}]
\* Going on to pc; the lock is released at the end.
Go(h, pc) == /\ handler' = [handler EXCEPT ![h] = IF pc = "done" THEN Returned(h) ELSE [handler[h] EXCEPT !.pc = pc]]
             /\ slot' = IF pc = "done" THEN [slot EXCEPT ![Home(h)].locked = FALSE] ELSE slot
At(h, pc) == handler[h].pc = pc
Commit(h, document) == chat' = [chat EXCEPT ![Home(h)] = document]
tasksAlone == <<admitted, job, ran, sent>>
rest == <<process, removal, closing>>

Entered(c, a) == [pc |-> "recovering", chat |-> c, act |-> a, gen |-> slot[c].gen,
                  era |-> chat[c].era, saw |-> admitted]

\* A message gets the lock of a chat that is live.
Enter(h) ==
    /\ At(h, "idle") /\ ~Closed
    /\ \E a \in Activities :
          /\ ~slot[ChatOf[a]].locked /\ ~slot[ChatOf[a]].removed
          /\ slot' = [slot EXCEPT ![ChatOf[a]].locked = TRUE]
          /\ handler' = [handler EXCEPT ![h] = Entered(ChatOf[a], a)]
    /\ UNCHANGED <<chat, tasksAlone, rest, faults>>

\* The agent is added to a chat, again if it was removed before.
Welcome(h) ==
    /\ At(h, "idle") /\ ~Closed
    /\ \E c \in Chats :
          /\ ~slot[c].locked
          /\ slot' = [slot EXCEPT ![c].locked = TRUE, ![c].removed = FALSE]
          /\ handler' = [handler EXCEPT ![h] = Entered(c, None)]
    /\ UNCHANGED <<chat, tasksAlone, rest, faults>>

\* What a group says among itself is dropped when the agent does not listen.
Recover(h) ==
    /\ At(h, "recovering")
    /\ Commit(h, Recovered(h))
    /\ IF handler[h].act = None THEN Go(h, "rejoining")
       ELSE \E pc \in {"activating", "done"} : Go(h, pc)
    /\ UNCHANGED <<tasksAlone, rest, faults>>

Rejoin(h) ==
    /\ At(h, "rejoining")
    /\ Commit(h, Rejoined(h))
    /\ \E pc \in {"replying", "done"} : Go(h, pc)
    /\ UNCHANGED <<tasksAlone, rest, faults>>

Activate(h) ==
    /\ At(h, "activating")
    /\ Commit(h, Activated(h))
    /\ Go(h, IF Activates(h) THEN "claiming" ELSE "done")
    /\ UNCHANGED <<tasksAlone, rest, faults>>

\* _cancel_scope: jobs of the chat that have been started.
Ended(h) == job[h].pc \in {"ended", "done"}
Running(h) == job[h].pc # "none" /\ ~Ended(h)
Cancel(jobs) == job' = [j \in Handlers |-> IF j \in jobs THEN [job[j] EXCEPT !.cancelling = TRUE] ELSE job[j]]
JobsOf(c) == {j \in admitted : Home(j) = c /\ Running(j)}

\* Only an activity whose task is in progress is taken for a repeated one.
FirstInFlight(h) == \A j \in admitted : handler[j].act # handler[h].act
First(h) == handler[h].act \notin chat[Home(h)].seen
\* claim_activity, and what follows it before the next await: a forget makes
\* what goes on in the chat of an older generation, and cancels its jobs.
Claim(h) ==
    /\ At(h, "claiming")
    /\ Commit(h, Received(h))
    /\ \/ First(h) /\ Live(h) /\ Go(h, "noting") /\ UNCHANGED job
       \/ /\ First(h) /\ Live(h)
          /\ slot' = [slot EXCEPT ![Home(h)].gen = @ + 1]
          /\ handler' = [handler EXCEPT ![h].pc = "forgetting"]
          /\ Cancel(JobsOf(Home(h)))
       \/ ~(First(h) /\ Live(h)) /\ Go(h, "done") /\ UNCHANGED job
    /\ UNCHANGED <<admitted, ran, sent, rest, faults>>

Forget(h) ==
    /\ At(h, "forgetting")
    /\ Commit(h, Forgotten(h))
    /\ Go(h, "done")
    /\ UNCHANGED <<tasksAlone, rest, faults>>

\* Ambient messages are only remembered.
Note(h) ==
    /\ At(h, "noting")
    /\ Commit(h, Remembered(h))
    /\ \E pc \in {"planning", "done"} : (pc = "planning" => Live(h)) /\ Go(h, pc)
    /\ UNCHANGED <<tasksAlone, rest, faults>>

\* The planner answers, or a task is admitted if there is room for it.
Plan(h) ==
    /\ At(h, "planning")
    /\ \/ Live(h) /\ Go(h, "replying") /\ UNCHANGED admitted
       \/ /\ Live(h) /\ Cardinality(admitted) < MaxTasks
          /\ admitted' = admitted \cup {h}
          /\ Go(h, "persisting")
       \/ ~Live(h) /\ Go(h, "done") /\ UNCHANGED admitted
    /\ UNCHANGED <<chat, job, ran, sent, rest, faults>>

\* _reply, then _compact: entries and a summary.
Reply(h) ==
    /\ At(h, "replying") \/ At(h, "compacting")
    /\ Commit(h, Remembered(h))
    /\ Go(h, IF At(h, "replying") /\ Live(h) THEN "compacting" ELSE "done")
    /\ UNCHANGED <<tasksAlone, rest, faults>>

---------------------------------------------------------------------------
(* _start_job *)

\* The job becomes a task of the event loop, and the handler goes on.
Launch(h) == /\ job' = [job EXCEPT ![h] = [NoJob EXCEPT !.pc = "queued"]]
             /\ Go(h, "compacting")
             /\ UNCHANGED admitted
Withdraw(h) == /\ admitted' = admitted \ {h}
               /\ Go(h, "done")
               /\ UNCHANGED job

Persist(h) ==
    /\ At(h, "persisting")
    /\ \E document \in Persisted(h) : Commit(h, document)
    /\ \/ Admissible(h) /\ Launch(h)
       \/ Admissible(h) /\ Go(h, "acking") /\ UNCHANGED <<admitted, job>>
       \/ ~Admissible(h) /\ Withdraw(h)
    /\ UNCHANGED <<ran, sent, rest, faults>>

\* The acknowledgement is sent and remembered.
Ack(h) ==
    /\ At(h, "acking")
    /\ Commit(h, Remembered(h))
    /\ IF Live(h) THEN Launch(h) ELSE Withdraw(h)
    /\ UNCHANGED <<ran, sent, rest, faults>>

\* The record cannot be saved, or the acknowledgement cannot be sent.
StartFails(h) ==
    /\ faults < MaxFaults
    /\ \/ At(h, "persisting") /\ \E document \in Persisted(h) \cup {chat[Home(h)]} : Commit(h, document)
       \/ At(h, "acking") /\ \E document \in {Remembered(h), chat[Home(h)]} : Commit(h, document)
    /\ Go(h, "unstarting")
    /\ faults' = faults + 1
    /\ UNCHANGED <<tasksAlone, rest>>

Unstart(h) ==
    /\ At(h, "unstarting")
    /\ Commit(h, Interrupted(Home(h), {h}))
    /\ Withdraw(h)
    /\ UNCHANGED <<ran, sent, rest, faults>>

\* The failure that made the start fail goes on: no other fault is counted.
UnstartFails(h) ==
    /\ At(h, "unstarting")
    /\ Commit(h, chat[Home(h)])
    /\ Withdraw(h)
    /\ UNCHANGED <<ran, sent, rest, faults>>

\* Any other edit fails, committed or not, and the call raises.
Edits(h) == CASE At(h, "recovering") -> Recovered(h)
              [] At(h, "rejoining") -> Rejoined(h)
              [] At(h, "activating") -> Activated(h)
              [] At(h, "claiming") -> Received(h)
              [] At(h, "forgetting") -> Forgotten(h)
              [] OTHER -> Remembered(h)
CallFails(h) ==
    /\ faults < MaxFaults
    /\ handler[h].pc \in {"recovering", "rejoining", "activating", "claiming", "forgetting",
                          "noting", "replying", "compacting"}
    /\ \E document \in {Edits(h), chat[Home(h)]} : Commit(h, document)
    /\ Go(h, "done")
    /\ faults' = faults + 1
    /\ UNCHANGED <<tasksAlone, rest>>

---------------------------------------------------------------------------
(* _run_job *)

JobAt(h, pc) == job[h].pc = pc
JobHolds(h) == job[h].pc \in {"reading", "finishing", "sending", "delivering", "compacting"}
\* The lock is held from here on, or no longer.
JobGo(h, pc, held) ==
    /\ job' = [job EXCEPT ![h] = IF pc = "ended" THEN EndedJob ELSE [job[h] EXCEPT !.pc = pc]]
    /\ slot' = IF held = JobHolds(h) THEN slot ELSE [slot EXCEPT ![Home(h)].locked = held]
service == <<process, admitted, handler, removal, closing>>

\* A job that is no longer live ends at its turn; another looks at its record.
Begin(h) ==
    /\ JobAt(h, "queued")
    /\ IF Live(h) THEN ~slot[Home(h)].locked /\ JobGo(h, "reading", TRUE) ELSE JobGo(h, "ended", FALSE)
    /\ UNCHANGED <<chat, service, ran, sent, faults>>

Read(h) ==
    /\ JobAt(h, "reading")
    /\ IF Valid(h) THEN /\ JobGo(h, "running", FALSE)
                        /\ ran' = [ran EXCEPT ![handler[h].act] = @ + 1]
       ELSE JobGo(h, "ended", FALSE) /\ UNCHANGED ran
    /\ UNCHANGED <<chat, service, sent, faults>>

\* The runner returns a result, raises, or is cancelled from within; it may
\* suppress a cancellation of the job.
Return(h) ==
    /\ JobAt(h, "running")
    /\ \/ \E ok \in BOOLEAN :
             job' = [job EXCEPT ![h] = [pc |-> "returned", ok |-> ok, cancelling |-> FALSE]]
       \/ job' = [job EXCEPT ![h].pc = "interrupting"]
    /\ UNCHANGED <<chat, slot, service, ran, sent, faults>>

Collect(h) ==
    /\ JobAt(h, "returned")
    /\ IF Live(h) THEN ~slot[Home(h)].locked /\ JobGo(h, "finishing", TRUE) ELSE JobGo(h, "ended", FALSE)
    /\ UNCHANGED <<chat, service, ran, sent, faults>>

\* The lock is not held over the call of the sender.
AfterReleasing(h, pc) == IF job[h].cancelling THEN JobGo(h, "interrupting", FALSE)
                         ELSE JobGo(h, pc, pc = "compacting")
\* What follows an edit under the lock: a cancellation is raised after it.
After(h, pc) == IF job[h].cancelling THEN JobGo(h, "interrupting", FALSE)
                ELSE JobGo(h, pc, pc # "ended")

\* The result is sent whether or not it was saved.
FinishUnsaved(h) ==
    /\ JobAt(h, "finishing")
    /\ Commit(h, Saved(h))
    /\ After(h, "sending")
    /\ UNCHANGED <<service, ran, sent, faults>>
Finish(h) ==
    /\ JobAt(h, "finishing")
    /\ Commit(h, Saved(h))
    /\ After(h, IF Valid(h) THEN "sending" ELSE "ended")
    /\ UNCHANGED <<service, ran, sent, faults>>

\* The sender is called at once; its answer comes later.
Send(h) ==
    /\ JobAt(h, "sending")
    /\ sent' = [sent EXCEPT ![h] = @ + 1]
    /\ job' = [job EXCEPT ![h].pc = "delivering", ![h].ok = TRUE]
    /\ UNCHANGED <<chat, slot, service, ran, faults>>

SendFails(h) ==
    /\ JobAt(h, "sending")
    /\ job' = [job EXCEPT ![h].pc = "delivering", ![h].ok = FALSE]
    /\ UNCHANGED <<chat, slot, service, ran, sent, faults>>

Deliver(h) ==
    /\ JobAt(h, "delivering")
    /\ Commit(h, Delivered(h, job[h].ok))
    /\ After(h, "compacting")
    /\ UNCHANGED <<service, ran, sent, faults>>

Compact(h) ==
    /\ JobAt(h, "compacting")
    /\ Commit(h, Remembered(h))
    /\ After(h, "ended")
    /\ UNCHANGED <<service, ran, sent, faults>>

\* A cancelled job gives its place up at once.
RaiseAndRelease(h) ==
    /\ job[h].pc \in {"queued", "reading", "running", "returned", "sending"} /\ job[h].cancelling
    /\ JobGo(h, "interrupting", FALSE)
    /\ admitted' = admitted \ {h}
    /\ UNCHANGED <<chat, process, handler, removal, closing, ran, sent, faults>>
\* The job is cancelled at an await that is not an edit.
Raise(h) ==
    /\ job[h].pc \in {"queued", "reading", "running", "returned", "sending"} /\ job[h].cancelling
    /\ JobGo(h, "interrupting", FALSE)
    /\ UNCHANGED <<chat, service, ran, sent, faults>>

\* A store call fails, committed or not.
JobEdits(h) == CASE JobAt(h, "finishing") -> Saved(h)
                 [] JobAt(h, "delivering") -> Delivered(h, job[h].ok)
                 [] JobAt(h, "compacting") -> Remembered(h)
                 [] OTHER -> chat[Home(h)]
JobFails(h) ==
    /\ job[h].pc \in {"reading", "finishing", "delivering", "compacting"} /\ faults < MaxFaults
    /\ \E document \in {JobEdits(h), chat[Home(h)]} : Commit(h, document)
    /\ JobGo(h, "interrupting", FALSE)
    /\ faults' = faults + 1
    /\ UNCHANGED <<service, ran, sent>>

\* _interrupt_live_job, under the lock; what is not live is left to who ended it.
InterruptJob(h) ==
    /\ JobAt(h, "interrupting")
    /\ IF Live(h) THEN ~slot[Home(h)].locked /\ Commit(h, Interrupted(Home(h), {h})) ELSE UNCHANGED chat
    /\ job' = [job EXCEPT ![h] = EndedJob]
    /\ UNCHANGED <<slot, service, ran, sent, faults>>

InterruptFails(h) ==
    /\ JobAt(h, "interrupting") /\ Live(h) /\ ~slot[Home(h)].locked /\ faults < MaxFaults
    /\ \E document \in {Interrupted(Home(h), {h}), chat[Home(h)]} : Commit(h, document)
    /\ job' = [job EXCEPT ![h] = EndedJob]
    /\ faults' = faults + 1
    /\ UNCHANGED <<slot, service, ran, sent>>

\* _job_done, a later callback
JobDone(h) ==
    /\ JobAt(h, "ended")
    /\ admitted' = admitted \ {h}
    /\ job' = [job EXCEPT ![h].pc = "done"]
    /\ UNCHANGED <<chat, slot, handler, rest, ran, sent, faults>>

---------------------------------------------------------------------------
(* remove and close *)

\* Before the lock is waited for: nothing of before is live any more.
Remove(x) ==
    /\ removal[x].pc = "idle"
    /\ \E c \in Chats :
          /\ slot' = [slot EXCEPT ![c].gen = @ + 1, ![c].removed = TRUE]
          /\ removal' = [removal EXCEPT ![x] = [pc |-> "locking", chat |-> c, waits |-> JobsOf(c)]]
          /\ Cancel(JobsOf(c))
    /\ UNCHANGED <<chat, process, admitted, handler, closing, ran, sent, faults>>

Leave(x) ==
    /\ removal[x].pc = "locking" /\ ~slot[removal[x].chat].locked
    /\ chat' = [chat EXCEPT ![removal[x].chat] = Left(removal[x].chat)]
    /\ removal' = [removal EXCEPT ![x].pc = "draining"]
    /\ UNCHANGED <<slot, process, admitted, handler, job, closing, ran, sent, faults>>

LeaveFails(x) ==
    /\ removal[x].pc = "locking" /\ ~slot[removal[x].chat].locked /\ faults < MaxFaults
    /\ \E document \in {Left(removal[x].chat), chat[removal[x].chat]} :
          chat' = [chat EXCEPT ![removal[x].chat] = document]
    /\ removal' = [removal EXCEPT ![x].pc = "draining"]
    /\ faults' = faults + 1
    /\ UNCHANGED <<slot, process, admitted, handler, job, closing, ran, sent>>

Drained(x) ==
    /\ removal[x].pc = "draining" /\ \A h \in removal[x].waits : Ended(h)
    /\ removal' = [removal EXCEPT ![x].pc = "done", ![x].waits = {}]
    /\ UNCHANGED <<chat, slot, process, admitted, handler, job, closing, ran, sent, faults>>

\* close, called again when an earlier call failed.
Close ==
    /\ closing.pc \in {"open", "failed"}
    /\ slot' = [c \in Chats |-> [slot[c] EXCEPT !.gen = @ + 1]]
    /\ closing' = [pc |-> "closing", left |-> Chats, jobs |-> admitted,
                   waits |-> {h \in admitted : Running(h)},
                   behind |-> {x \in Removals : removal[x].pc = "locking"}, failed |-> FALSE]
    /\ Cancel({h \in admitted : Running(h)})
    /\ UNCHANGED <<chat, process, admitted, handler, removal, ran, sent, faults>>

\* Chat by chat, after whoever holds its lock.
\* The jobs that are left at the chat's turn.
OursNow(c) == {h \in admitted : Home(h) = c}
Ours(c) == {h \in closing.jobs : Home(h) = c}
Turn(c) == /\ closing.pc = "closing" /\ c \in closing.left /\ ~slot[c].locked
           /\ \A x \in closing.behind : removal[x].chat = c => removal[x].pc # "locking"
CloseChat(c) ==
    /\ Turn(c)
    /\ chat' = [chat EXCEPT ![c] = Interrupted(c, Ours(c))]
    /\ closing' = [closing EXCEPT !.left = @ \ {c}]
    /\ UNCHANGED <<slot, process, admitted, handler, job, removal, ran, sent, faults>>

CloseFails(c) ==
    /\ Turn(c) /\ Ours(c) # {} /\ faults < MaxFaults
    /\ closing' = [closing EXCEPT !.left = @ \ {c}, !.failed = TRUE]
    /\ faults' = faults + 1
    /\ UNCHANGED <<chat, slot, process, admitted, handler, job, removal, ran, sent>>

\* The jobs that close cancelled are not waited for.
CloseEndsAtOnce ==
    /\ closing.pc = "closing" /\ closing.left = {}
    /\ closing' = [Open EXCEPT !.pc = IF closing.failed THEN "failed" ELSE "complete"]
    /\ UNCHANGED <<chat, slot, process, admitted, handler, job, removal, ran, sent, faults>>
CloseEnds ==
    /\ closing.pc = "closing" /\ closing.left = {} /\ \A h \in closing.waits : Ended(h)
    /\ closing' = [Open EXCEPT !.pc = IF closing.failed THEN "failed" ELSE "complete"]
    /\ UNCHANGED <<chat, slot, process, admitted, handler, job, removal, ran, sent, faults>>

\* The process dies and another starts.
Crash ==
    /\ faults < MaxFaults
    /\ process' = process + 1
    /\ slot' = [c \in Chats |-> NewSlot]
    /\ admitted' = {} /\ closing' = Open
    /\ handler' = [h \in Handlers |-> IF At(h, "idle") THEN NoCall
                                   ELSE [NoCall EXCEPT !.pc = "done", !.chat = Home(h)]]
    /\ job' = [h \in Handlers |-> IF JobAt(h, "none") THEN NoJob ELSE [NoJob EXCEPT !.pc = "done"]]
    /\ removal' = [x \in Removals |-> IF removal[x].pc = "idle" THEN NoRemoval
                                    ELSE [removal[x] EXCEPT !.pc = "done", !.waits = {}]]
    /\ faults' = faults + 1
    /\ UNCHANGED <<chat, ran, sent>>

---------------------------------------------------------------------------

Handle(h) == \/ Recover(h) \/ Rejoin(h) \/ Activate(h) \/ Claim(h) \/ Forget(h) \/ Note(h) \/ Plan(h) \/ Reply(h)
             \/ Persist(h) \/ Ack(h) \/ StartFails(h) \/ Unstart(h) \/ UnstartFails(h) \/ CallFails(h)
Run(h) == \/ Begin(h) \/ Read(h) \/ Return(h) \/ Collect(h) \/ Finish(h) \/ Send(h) \/ SendFails(h)
          \/ Deliver(h) \/ Compact(h) \/ Raise(h) \/ JobFails(h) \/ InterruptJob(h) \/ InterruptFails(h) \/ JobDone(h)
Removing(x) == Leave(x) \/ LeaveFails(x) \/ Drained(x)
Closes == CloseEnds \/ \E c \in Chats : CloseChat(c) \/ CloseFails(c)

Next == \/ \E h \in Handlers : Enter(h) \/ Welcome(h) \/ Handle(h) \/ Run(h)
        \/ \E x \in Removals : Remove(x) \/ Removing(x)
        \/ Close \/ Closes \/ Crash

Spec == Init /\ [][Next]_vars

\* The event loop does not stop while a call can go on; the planner, the runner
\* and the sender return.  No call has to be favoured: each takes finitely many steps.
Fairness == WF_vars((\E h \in Handlers : Handle(h) \/ Run(h)) \/ (\E x \in Removals : Removing(x)) \/ Closes)
LiveSpec == Spec /\ Fairness

---------------------------------------------------------------------------
(* Properties. *)

Statuses == {"none", "running", "completed", "failed", "interrupted"}
Deliveries == {"none", "pending", "sent", "failed", "interrupted"}
TaskType == [status : Statuses, delivery : Deliveries, owner : Nat, gen : Nat, era : Nat]
DocumentType == [active : BOOLEAN, gone : BOOLEAN, seen : SUBSET Activities, memory : SUBSET Nat, era : Nat,
                 tasks : [Handlers -> TaskType]]
SlotType == [locked : BOOLEAN, gen : Nat, removed : BOOLEAN]
CallType == [pc : {"idle", "recovering", "rejoining", "activating", "claiming", "forgetting", "noting", "planning",
                   "replying", "compacting", "persisting", "acking", "unstarting", "done"},
             chat : Chats \cup {None}, act : Activities \cup {None}, gen : Nat, era : Nat, saw : SUBSET Handlers]
JobType == [pc : {"none", "queued", "reading", "running", "returned", "finishing", "sending", "delivering",
                  "compacting", "interrupting", "ended", "done"},
            ok : BOOLEAN, cancelling : BOOLEAN]
RemovalType == [pc : {"idle", "locking", "draining", "done"}, chat : Chats \cup {None}, waits : SUBSET Handlers]
ClosingType == [pc : {"open", "closing", "failed", "complete"}, left : SUBSET Chats, jobs : SUBSET Handlers,
                waits : SUBSET Handlers, behind : SUBSET Removals, failed : BOOLEAN]

\* The shape of the documents, of the slots and of the calls in progress.
TypeOK == /\ chat \in [Chats -> DocumentType]
          /\ slot \in [Chats -> SlotType]
          /\ process \in Nat /\ admitted \in SUBSET Handlers
          /\ handler \in [Handlers -> CallType]
          /\ job \in [Handlers -> JobType]
          /\ removal \in [Removals -> RemovalType]
          /\ closing \in ClosingType
          /\ ran \in [Activities -> Nat] /\ sent \in [Handlers -> Nat] /\ faults \in Nat

\* Once a forget is saved, nothing that was said, done or summarised before
\* it is in the chat's memory or tasks again, whatever was under way.
ForgottenStays == \A c \in Chats :
    /\ chat[c].memory \subseteq {chat[c].era}
    /\ \A h \in Handlers : chat[c].tasks[h].status # "none" => chat[c].tasks[h].era = chat[c].era

\* A message that is delivered again, before or after a forget or a restart,
\* does not have its task run again.
ActivityOnce == \A a \in Activities : ran[a] <= 1

\* "never send an unpersisted success after a store failure": a result that
\* was sent, at most once, is one that its record has, and keeps while it lasts.
ResultsSaved == \A h \in Handlers :
    /\ sent[h] <= 1
    /\ sent[h] = 1 => Task(h).status \in {"completed", "failed", "none"}

\* "Generation guards suppress late results": no result is sent to a chat
\* after the forget or the removal that follows its request is saved.
LateSuppressed ==
    [][\A h \in Handlers : sent'[h] # sent[h] => ~chat[Home(h)].gone /\ handler[h].era = chat[Home(h)].era]_vars

\* "concurrent chats cannot oversubscribe the bound. Cancellation does not
\* release it until drain": every job that goes on is one of those admitted.
Capacity == /\ Cardinality(admitted) <= MaxTasks
            /\ \A h \in Handlers : Running(h) => h \in admitted

\* What a message is told of the chat's tasks is true: one that is running has
\* a job; or its end could not be saved, and it was still being drained at the
\* message's turn; or the agent is being removed from the chat right after it.
StatusTrue == \A h, j \in Handlers :
    /\ handler[h].pc \notin {"idle", "done", "recovering"} /\ Live(h)
    /\ chat[Home(h)].tasks[j].status = "running"
    /\ \A x \in Removals : removal[x].chat = Home(h) => removal[x].pc # "locking"
    => j \in admitted \/ (faults > 0 /\ j \in handler[h].saw)

\* The chat's record and the process agree on the tasks that are in progress.
TasksTrue == Capacity /\ StatusTrue

\* A chat the agent has left has no task under way; and once close returns,
\* neither has the process, nor any call that still writes.
Quiet ==
    /\ \A c \in Chats : chat[c].gone =>
          /\ ~chat[c].active
          /\ \A h \in Handlers : chat[c].tasks[h].status # "running" /\ chat[c].tasks[h].delivery # "pending"
    /\ closing.pc = "complete" /\ faults = 0 =>
          /\ \A h \in Handlers : handler[h].pc \in {"idle", "done"} /\ ~Running(h)
          /\ \A c \in Chats, h \in Handlers :
                chat[c].tasks[h].status # "running" /\ chat[c].tasks[h].delivery # "pending"

\* Once no more calls come, all comes to rest: a task that was started does not
\* stay in progress, though it is cancelled or its chat forgotten, left or closed
\* at any await, and no message, removal or close waits for ever for the others.
\* Only a store that failed to save the end of a task may still call it running.
AtRest == /\ \A c \in Chats, h \in Handlers : chat[c].tasks[h].status # "running" \/ faults > 0
          /\ \A h \in Handlers : handler[h].pc \in {"idle", "done"} /\ job[h].pc \in {"none", "done"}
          /\ \A x \in Removals : removal[x].pc \in {"idle", "done"}
          /\ closing.pc # "closing"
EverythingEnds == <>[]AtRest
=============================================================================
