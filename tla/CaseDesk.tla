------------------------------ MODULE CaseDesk ------------------------------
(***************************************************************************)
(* case_desk.CaseDesk: durable case files worked by one serial task per    *)
(* case, with durable timers and an index of the cases.                    *)
(*                                                                         *)
(* The host is one asyncio process, so a step is what runs between two     *)
(* awaits of the store or of the colleague's turn; a store update is one   *)
(* step (ConversationStore shows it is one).  A file and its index row are *)
(* two updates, and anything may happen between them.  The process may     *)
(* stop anywhere, and the store may fail any update.                       *)
(*                                                                         *)
(* Abstractions: an event's aliases and anchor name the case SubmitEvent   *)
(* gives it, whose function is bound; titles, timelines, waiting reasons,  *)
(* aliases and watermarks are left out, and so are the operator's reset and *)
(* the changes that work outside the turn (a document's save) makes to a   *)
(* file; a case sees fewer events than its 400 receipts and the index      *)
(* fewer cases than MAX_INDEX; one unit of time is longer than the second  *)
(* within which two wake-ups are one, and a follow-up is due after one.    *)
(***************************************************************************)
EXTENDS Integers, Sequences, FiniteSets

CONSTANTS Keys,           \* cases
          None,           \* no case
          Events,         \* events that systems of record, people and operators send
          Submits,        \* deliveries of events: calls of submit()
          SubmitEvent,    \* SubmitEvent[s]: the event that delivery s carries
          EventKey,       \* EventKey[e]: the case of event e
          Revivals,       \* the events that reopen a closed case, or an operator's
          MaxConcurrent,  \* max_concurrent
          MaxPending,     \* MAX_PENDING
          MaxErrors,      \* MAX_ERRORS
          MaxTime,        \* bound: the last moment of the clock
          MaxTools,       \* bound: the case tools one turn calls
          Faults,         \* whether the store may fail
          MaxStops        \* bound: the times the process may stop

ASSUME DeskAssumption ==
    /\ None \notin Keys /\ IsFiniteSet(Keys)
    /\ SubmitEvent \in [Submits -> Events] /\ EventKey \in [Events -> Keys] /\ Revivals \subseteq Events
    /\ MaxConcurrent \in Nat \ {0} /\ MaxPending \in Nat \ {0} /\ MaxErrors \in Nat \ {0}
    /\ MaxTime \in Nat \ {0} /\ MaxTools \in Nat /\ MaxStops \in Nat /\ Faults \in BOOLEAN

OpenStates == {"new", "working", "waiting", "resolved"}
FinalStates == {"closed", "escalated"}

\* What a case's file holds in pending: sent events, and its own timers.
Timer(k, due) == <<"timer", k, due>>
Sent(e) == <<"sent", EventKey[e], e>>

\* One drain per case is all the code starts; one more shows that it does.
Drains == 1..(Cardinality(Keys) + 1)

VARIABLES file,    \* file[k]: the durable case file
          row,     \* row[k]: the durable index row of the case
          clock,   \* the time
          up,      \* whether the process runs
          stops,   \* how often it stopped
          faulty,  \* history: whether a store call failed since the process started
          running, \* _running
          again,   \* _again
          drain,   \* drain[d]: the tasks of _drain
          sub,     \* sub[s]: the calls of submit
          agenda,  \* _agenda
          timer,   \* the task of _timer_loop
          resume,  \* the call of resume_pending
          worked   \* history: worked[v], the turns that were given event v

vars == <<file, row, clock, up, stops, faulty, running, again, drain, sub, agenda, timer, resume, worked>>

NoFile == [status |-> "absent", pending |-> <<>>, seen |-> {}, wake |-> 0, errors |-> 0]
Row(f) == [status |-> f.status, wake |-> f.wake]
NoRow == Row(NoFile)
NoDrain == [pc |-> "none", key |-> None, row |-> NoRow, events |-> <<>>, tools |-> 0, failed |-> FALSE]
NoSub == [pc |-> "idle", row |-> NoRow]
Off == [pc |-> "off", key |-> None, due |-> 0, row |-> NoRow]

Values == {Sent(e) : e \in Events} \cup {Timer(k, t) : k \in Keys, t \in 1..MaxTime}

Init == /\ file = [k \in Keys |-> NoFile]
        /\ row = [k \in Keys |-> NoRow]
        /\ clock = 1
        /\ up = TRUE
        /\ stops = 0
        /\ faulty = FALSE
        /\ running = {}
        /\ again = {}
        /\ drain = [d \in Drains |-> NoDrain]
        /\ sub = [s \in Submits |-> NoSub]
        /\ agenda = {}
        /\ timer = [Off EXCEPT !.pc = "rebuild"]
        /\ resume = [pc |-> "start", todo |-> {}]
        /\ worked = [v \in Values |-> 0]

durable == <<file, row>>
world == <<clock, up, stops, faulty>>
worker == <<running, again, drain>>

-----------------------------------------------------------------------------
(* Storage                                                                 *)

\* _index: the row is written, and a wake-up of an open case goes to the agenda.
Index(k, r) == /\ row' = [row EXCEPT ![k] = r]
               /\ agenda' = IF r.wake # 0 /\ r.status \in OpenStates THEN agenda \cup {<<r.wake, k>>} ELSE agenda

\* Mutant of Schedule: a drain is started whether or not one runs.
ScheduleTwice(k, run, more, tasks) ==
    /\ running' = run \cup {k} /\ again' = more
    /\ \E d \in Drains : tasks[d].pc = "none" /\ drain' = [tasks EXCEPT ![d] = [NoDrain EXCEPT !.pc = "take", !.key = k]]

\* Mutant of Schedule: a case is left alone while every slot is taken.
ScheduleIfFree(k, run, more, tasks) ==
    IF k \in run
    THEN /\ running' = run /\ again' = more \cup {k} /\ drain' = tasks
    ELSE IF Cardinality(run) >= MaxConcurrent
    THEN running' = run /\ again' = more /\ drain' = tasks
    ELSE /\ running' = run \cup {k} /\ again' = more
         /\ \E d \in Drains : /\ tasks[d].pc = "none"
                              /\ \A e \in Drains : tasks[e].pc = "none" => d <= e
                              /\ drain' = [tasks EXCEPT ![d] = [NoDrain EXCEPT !.pc = "take", !.key = k]]

\* schedule: one drain per case; the one that runs is asked to look again.
Schedule(k, run, more, tasks) ==
    IF k \in run
    THEN /\ running' = run /\ again' = more \cup {k} /\ drain' = tasks
    ELSE /\ running' = run \cup {k} /\ again' = more
         /\ \E d \in Drains : /\ tasks[d].pc = "none"
                              /\ \A e \in Drains : tasks[e].pc = "none" => d <= e
                              /\ drain' = [tasks EXCEPT ![d] = [NoDrain EXCEPT !.pc = "take", !.key = k]]

Elems(s) == {s[i] : i \in DOMAIN s}

\* The latest n of a sequence.
LastN(s, n) == IF Len(s) <= n THEN s ELSE SubSeq(s, Len(s) - n + 1, Len(s))

-----------------------------------------------------------------------------
(* submit                                                                  *)

\* Mutant of Admits: the receipts are not looked at.
AdmitsAgain(k, v, revives, fresh) ==
    /\ file[k].status = "absent" => fresh
    /\ file[k].status \in FinalStates => revives

\* A closed case ignores all but what revives it; nothing is admitted twice; only
\* a sent event opens a case.
Admits(k, v, revives, fresh) ==
    /\ v \notin file[k].seen
    /\ file[k].status = "absent" => fresh
    /\ file[k].status \in FinalStates => revives

\* The file once event v is admitted.
Filed(k, v) == [file[k] EXCEPT !.status = CASE @ = "absent" -> "new" [] @ \in FinalStates -> "working" [] OTHER -> @,
                               !.seen = @ \cup {v},
                               !.pending = LastN(Append(@, v), MaxPending)]

\* The event is recorded on its case, or ignored.
SubmitFile(s) ==
    LET e == SubmitEvent[s]
        k == EventKey[e]
    IN /\ up /\ sub[s].pc = "idle"
       /\ IF Admits(k, Sent(e), e \in Revivals, TRUE)
          THEN /\ file' = [file EXCEPT ![k] = Filed(k, Sent(e))]
               /\ sub' = [sub EXCEPT ![s] = [pc |-> "row", row |-> Row(file'[k])]]
          ELSE sub' = [sub EXCEPT ![s].pc = "done"] /\ UNCHANGED file
       /\ UNCHANGED <<row, world, worker, agenda, timer, resume, worked>>

\* The index follows, and the work is scheduled.
SubmitRow(s) ==
    LET k == EventKey[SubmitEvent[s]]
    IN /\ sub[s].pc = "row"
       /\ Index(k, sub[s].row)
       /\ Schedule(k, running, again, drain)
       /\ sub' = [sub EXCEPT ![s] = [NoSub EXCEPT !.pc = "done"]]
       /\ UNCHANGED <<file, world, timer, resume, worked>>

-----------------------------------------------------------------------------
(* _drain                                                                  *)

HasSlot(d) == drain[d].pc \in {"index", "work", "tool", "finish", "finished", "exit"}
Busy == {d \in Drains : HasSlot(d)}

\* _take, in a slot: all pending events, or none and the drain ends.
Take(d) ==
    LET k == drain[d].key
        f == file[k]
    IN /\ drain[d].pc = "take" /\ Cardinality(Busy) < MaxConcurrent
       /\ IF f.pending = <<>>
          THEN drain' = [drain EXCEPT ![d].pc = "exit"] /\ UNCHANGED file
          ELSE /\ file' = [file EXCEPT ![k].pending = <<>>,
                                       ![k].status = IF @ \in {"new", "waiting", "resolved"} THEN "working" ELSE @]
               /\ drain' = [drain EXCEPT ![d] = [@ EXCEPT !.pc = "index", !.events = f.pending,
                                                          !.row = Row(file'[k])]]
       /\ UNCHANGED <<row, world, running, again, sub, agenda, timer, resume, worked>>

\* The row follows, and work() gives the colleague the events, in a turn; those of
\* a case that was final when they were taken are dropped.
Begin(d) == /\ drain[d].pc = "index"
            /\ Index(drain[d].key, drain[d].row)
            /\ IF drain[d].row.status \in FinalStates
               THEN drain' = [drain EXCEPT ![d] = [NoDrain EXCEPT !.pc = "finish", !.key = drain[d].key]] /\ UNCHANGED worked
               ELSE /\ drain' = [drain EXCEPT ![d] = [NoDrain EXCEPT !.pc = "work", !.key = drain[d].key]]
                    /\ worked' = [v \in Values |-> worked[v] + IF v \in Elems(drain[d].events) THEN 1 ELSE 0]
            /\ UNCHANGED <<file, world, running, again, sub, timer, resume>>

\* What the case tools make of a file: wait, wake_at, resolve, finish, or any of
\* the tools that only add to it.
Tooled(f, tool) == CASE tool = "wait" -> [f EXCEPT !.status = "waiting", !.wake = clock + 1]
                     [] tool = "wake_at" -> [f EXCEPT !.wake = clock + 1]
                     [] tool = "resolve" -> [f EXCEPT !.status = "resolved", !.wake = clock + 1]
                     [] tool = "finish" -> [f EXCEPT !.status = "closed", !.wake = 0]
                     [] tool = "note" -> f

\* A drain whose turn is in one more tool, which has row r to write.
Called(t, r) == [t EXCEPT !.pc = "tool", !.tools = @ + 1, !.row = r]

\* The turn calls a case tool: update() changes the file ...
Tool(d) == LET k == drain[d].key
           IN /\ drain[d].pc = "work" /\ drain[d].tools < MaxTools
              /\ \E t \in {"wait", "wake_at", "resolve", "finish", "note"} :
                    file' = [file EXCEPT ![k] = Tooled(@, t)]
              /\ drain' = [drain EXCEPT ![d] = Called(@, Row(file'[k]))]
              /\ UNCHANGED <<row, world, running, again, sub, agenda, timer, resume, worked>>

\* ... and the index row follows.
ToolRow(d) == /\ drain[d].pc = "tool"
              /\ Index(drain[d].key, drain[d].row)
              /\ drain' = [drain EXCEPT ![d] = [@ EXCEPT !.pc = "work", !.row = NoRow]]
              /\ UNCHANGED <<file, world, running, again, sub, timer, resume, worked>>

\* The turn ends, with a summary or an error.
Turned(d) == /\ drain[d].pc = "work"
             /\ \E error \in BOOLEAN : drain' = [drain EXCEPT ![d] = [@ EXCEPT !.pc = "finish", !.failed = error]]
             /\ UNCHANGED <<durable, world, running, again, sub, agenda, timer, resume, worked>>

\* Mutant of Finished: a turn that set no state of its own is left as it is.
FinishedIdle(f, failed) ==
    LET errors == IF ~failed THEN 0 ELSE IF f.errors < MaxErrors THEN f.errors + 1 ELSE MaxErrors
        counted == [f EXCEPT !.errors = errors]
    IN IF errors >= MaxErrors /\ f.status \notin FinalStates
       THEN [counted EXCEPT !.status = "escalated", !.wake = 0]
       ELSE counted

\* _finish: repeated errors hand the case to a person, and a turn that set no
\* state of its own still owes the case a next step.  (Errors beyond MaxErrors,
\* which a revived case may have, count as MaxErrors.)
Finished(f, failed) ==
    LET errors == IF ~failed THEN 0 ELSE IF f.errors < MaxErrors THEN f.errors + 1 ELSE MaxErrors
        counted == [f EXCEPT !.errors = errors]
    IN IF errors >= MaxErrors /\ f.status \notin FinalStates
       THEN [counted EXCEPT !.status = "escalated", !.wake = 0]
       ELSE IF f.status = "working"
            THEN [counted EXCEPT !.status = "waiting", !.wake = IF @ = 0 THEN clock + 1 ELSE @]
            ELSE counted

Finish(d) == LET k == drain[d].key
             IN /\ drain[d].pc = "finish"
                /\ file' = [file EXCEPT ![k] = Finished(@, drain[d].failed)]
                /\ drain' = [drain EXCEPT ![d] = [@ EXCEPT !.pc = "finished", !.row = Row(file'[k])]]
                /\ UNCHANGED <<row, world, running, again, sub, agenda, timer, resume, worked>>

\* The row follows, and the drain goes round again.
FinishRow(d) == /\ drain[d].pc = "finished"
                /\ Index(drain[d].key, drain[d].row)
                /\ drain' = [drain EXCEPT ![d] = [NoDrain EXCEPT !.pc = "take", !.key = drain[d].key]]
                /\ UNCHANGED <<file, world, running, again, sub, timer, resume, worked>>

\* Mutant of Exit: the drain forgets that it was asked to look again.
ExitDeaf(d) == LET k == drain[d].key
               IN /\ drain[d].pc = "exit"
                  /\ running' = running \ {k} /\ again' = again \ {k} /\ drain' = [drain EXCEPT ![d] = NoDrain]
                  /\ UNCHANGED <<durable, world, sub, agenda, timer, resume, worked>>

\* The drain ends, or raises, and is started again if it was asked to look again.
Exit(d) == LET k == drain[d].key
               rest == [drain EXCEPT ![d] = NoDrain]
           IN /\ drain[d].pc = "exit"
              /\ IF k \in again THEN Schedule(k, running \ {k}, again \ {k}, rest)
                 ELSE running' = running \ {k} /\ drain' = rest /\ UNCHANGED again
              /\ UNCHANGED <<durable, world, sub, agenda, timer, resume, worked>>

-----------------------------------------------------------------------------
(* _timer_loop                                                             *)

\* _rebuild_agenda: what the index rows say of open cases.
Rebuild == /\ timer.pc = "rebuild"
           /\ agenda' = agenda \cup {<<row[k].wake, k>> : k \in {j \in Keys : row[j].wake # 0 /\ row[j].status \in OpenStates}}
           /\ timer' = [Off EXCEPT !.pc = "idle"]
           /\ UNCHANGED <<durable, world, worker, sub, resume, worked>>

\* A wake-up still stands if the open case has it.
Stands(k, due) == file[k].status \in OpenStates /\ file[k].wake = due

\* The first wake-up that is due is looked up, and dropped if it was superseded.
Pop == /\ timer.pc = "idle"
       /\ \E w \in agenda : /\ w[1] <= clock /\ \A x \in agenda : w[1] <= x[1]
                            /\ agenda' = agenda \ {w}
                            /\ timer' = IF Stands(w[2], w[1]) THEN [Off EXCEPT !.pc = "clear", !.key = w[2], !.due = w[1]]
                                        ELSE timer
       /\ UNCHANGED <<durable, world, worker, sub, resume, worked>>

\* The wake-up is cleared, whatever it is by now ...
Clear == LET k == timer.key
         IN /\ timer.pc = "clear"
            /\ file' = [file EXCEPT ![k].wake = 0]
            /\ timer' = [timer EXCEPT !.pc = "cleared", !.row = Row(file'[k])]
            /\ UNCHANGED <<row, world, worker, sub, agenda, resume, worked>>

ClearRow == /\ timer.pc = "cleared"
            /\ Index(timer.key, timer.row)
            /\ timer' = [timer EXCEPT !.pc = "submit", !.row = NoRow]
            /\ UNCHANGED <<file, world, worker, sub, resume, worked>>

\* ... and its event is submitted.
TimerFile == LET k == timer.key
                 v == Timer(k, timer.due)
             IN /\ timer.pc = "submit"
                /\ IF Admits(k, v, FALSE, FALSE)
                   THEN /\ file' = [file EXCEPT ![k] = Filed(k, v)]
                        /\ timer' = [timer EXCEPT !.pc = "submitted", !.row = Row(file'[k])]
                   ELSE timer' = [Off EXCEPT !.pc = "idle"] /\ UNCHANGED file
                /\ UNCHANGED <<row, world, worker, sub, agenda, resume, worked>>

TimerRow == /\ timer.pc = "submitted"
            /\ Index(timer.key, timer.row)
            /\ Schedule(timer.key, running, again, drain)
            /\ timer' = [Off EXCEPT !.pc = "idle"]
            /\ UNCHANGED <<file, world, sub, resume, worked>>

-----------------------------------------------------------------------------
(* Starting, stopping and faults                                           *)

\* Mutant of Listed: only cases that were never worked.
ListedNew == {k \in Keys : row[k].status = "new"}

\* resume_pending reads the index, then the file of each case listed as new or
\* working, and schedules those that hold events.
Listed == {k \in Keys : row[k].status \in {"new", "working"}}

ResumeList == /\ resume.pc = "start"
              /\ resume' = [pc |-> "cases", todo |-> Listed]
              /\ UNCHANGED <<durable, world, worker, sub, agenda, timer, worked>>

ResumeCase == /\ \E k \in resume.todo :
                    /\ resume' = [resume EXCEPT !.todo = @ \ {k}]
                    /\ IF file[k].pending # <<>> THEN Schedule(k, running, again, drain) ELSE UNCHANGED worker
              /\ UNCHANGED <<durable, world, sub, agenda, timer, worked>>

\* The process stops, cleanly or not: only what is durable is left.  Calls of
\* submit are lost with it.
Stop == /\ up /\ stops < MaxStops
        /\ up' = FALSE /\ stops' = stops + 1 /\ faulty' = FALSE
        /\ running' = {} /\ again' = {} /\ agenda' = {}
        /\ drain' = [d \in Drains |-> NoDrain]
        /\ sub' = [s \in Submits |-> IF sub[s].pc = "row" THEN [NoSub EXCEPT !.pc = "done"] ELSE sub[s]]
        /\ timer' = Off /\ resume' = [pc |-> "off", todo |-> {}]
        /\ UNCHANGED <<durable, clock, worked>>

\* A new process starts its loops and resumes.
Start == /\ ~up
         /\ up' = TRUE
         /\ timer' = [Off EXCEPT !.pc = "rebuild"] /\ resume' = [pc |-> "start", todo |-> {}]
         /\ UNCHANGED <<durable, clock, stops, faulty, worker, sub, agenda, worked>>

\* The store fails a call: submit raises, the drain ends, the turn sees its tool
\* fail, the resumption ends, and so does the timer loop, which nothing restarts.
Fault == /\ Faults
         /\ \/ \E s \in Submits : /\ sub[s].pc = "row"
                                  /\ sub' = [sub EXCEPT ![s] = [NoSub EXCEPT !.pc = "done"]]
                                  /\ UNCHANGED <<drain, timer, resume>>
            \/ \E d \in Drains : /\ \/ drain[d].pc \in {"index", "finish", "finished"}
                                    \/ drain[d].pc = "take" /\ Cardinality(Busy) < MaxConcurrent
                                 /\ drain' = [drain EXCEPT ![d] = [NoDrain EXCEPT !.pc = "exit", !.key = drain[d].key]]
                                 /\ UNCHANGED <<sub, timer, resume>>
            \/ \E d \in Drains : /\ drain[d].pc = "tool"
                                 /\ drain' = [drain EXCEPT ![d] = [@ EXCEPT !.pc = "work", !.row = NoRow]]
                                 /\ UNCHANGED <<sub, timer, resume>>
            \/ /\ timer.pc \notin {"off", "idle"}
               /\ timer' = Off
               /\ UNCHANGED <<sub, drain, resume>>
            \/ /\ resume.pc = "start" \/ resume.todo # {}
               /\ resume' = [pc |-> "off", todo |-> {}]
               /\ UNCHANGED <<sub, drain, timer>>
         /\ faulty' = TRUE
         /\ UNCHANGED <<durable, clock, up, stops, running, again, agenda, worked>>

Tick == /\ clock < MaxTime
        /\ clock' = clock + 1
        /\ UNCHANGED <<durable, up, stops, faulty, worker, sub, agenda, timer, resume, worked>>

-----------------------------------------------------------------------------
Work(d) == \/ Take(d) \/ Begin(d) \/ Tool(d) \/ ToolRow(d) \/ Turned(d) \/ Finish(d) \/ FinishRow(d)
           \/ Exit(d)
TimerLoop == Rebuild \/ Pop \/ Clear \/ ClearRow \/ TimerFile \/ TimerRow
Resume == ResumeList \/ ResumeCase

Next == \/ \E s \in Submits : SubmitFile(s) \/ SubmitRow(s)
        \/ \E d \in Drains : Work(d)
        \/ TimerLoop \/ Resume \/ Stop \/ Start \/ Fault \/ Tick

Spec == Init /\ [][Next]_vars

\* Tasks of the event loop run on, turns end (they have a deadline), and a slot
\* goes to the drain that has waited longest; nothing obliges events to arrive.
Fairness == /\ \A s \in Submits : WF_vars(SubmitRow(s))
            /\ \A d \in Drains : /\ SF_vars(Take(d))
                                 /\ WF_vars(Begin(d) \/ ToolRow(d) \/ Turned(d) \/ Finish(d) \/ FinishRow(d) \/ Exit(d))
            /\ WF_vars(TimerLoop) /\ WF_vars(Resume) /\ WF_vars(Tick)

LiveSpec == Spec /\ Fairness

-----------------------------------------------------------------------------
DrainPcs == {"none", "take", "index", "work", "tool", "finish", "finished", "exit"}
RowType == [status : OpenStates \cup FinalStates \cup {"absent"}, wake : 0..(MaxTime + 1)]

TypeOK == /\ \A k \in Keys : /\ Row(file[k]) \in RowType /\ row[k] \in RowType
                             /\ Elems(file[k].pending) \subseteq Values /\ file[k].seen \subseteq Values
                             /\ Len(file[k].pending) <= MaxPending /\ file[k].errors \in 0..MaxErrors
          /\ clock \in 1..MaxTime /\ up \in BOOLEAN /\ stops \in 0..MaxStops /\ faulty \in BOOLEAN
          /\ running \subseteq Keys /\ again \subseteq running
          /\ \A d \in Drains : /\ drain[d].pc \in DrainPcs /\ drain[d].row \in RowType
                               /\ drain[d].pc # "none" => drain[d].key \in running
          /\ \A s \in Submits : sub[s].pc \in {"idle", "row", "done"} /\ sub[s].row \in RowType
          /\ agenda \subseteq (1..(MaxTime + 1)) \X Keys
          /\ timer.pc \in {"off", "rebuild", "idle", "clear", "cleared", "submit", "submitted"} /\ timer.row \in RowType
          /\ resume.pc \in {"start", "cases", "off"} /\ resume.todo \subseteq Keys

\* "Work on a case is strictly serial; different cases run concurrently": two
\* drains are never about one case, however deliveries, timers, resumption and
\* store failures interleave, and no more work at once than there are slots.
SerialWork == /\ \A d, e \in Drains : drain[d].pc # "none" /\ drain[e].pc # "none" /\ drain[d].key = drain[e].key => d = e
              /\ Cardinality(Busy) <= MaxConcurrent

\* However it is redelivered, resumed, interrupted or failed, no event is given to
\* the colleague in two turns.
WorkedOnce == \A v \in Values : worked[v] <= 1

\* A drain of case k will look at its file again.
Attended(k) == \E d \in Drains : drain[d].key = k /\ (drain[d].pc \notin {"none", "exit"} \/ k \in again)

\* A call of submit, or the timer that rings, has still to schedule case k.
Scheduling(k) == \/ \E s \in Submits : sub[s].pc = "row" /\ EventKey[SubmitEvent[s]] = k
                 \/ timer.pc \in {"clear", "cleared", "submit", "submitted"} /\ timer.key = k

\* Until the process first stops, and while its store works, events never wait
\* unattended: the file that holds some will be looked at, or is about to be scheduled.
PendingAttended == stops = 0 /\ ~faulty => \A k \in Keys : file[k].pending # <<>> => Attended(k) \/ Scheduling(k)

\* Nor is an open case forgotten: it is attended to, or waits for a wake-up that
\* the timer loop knows of.
OpenAttended == stops = 0 /\ ~faulty =>
    \A k \in Keys : file[k].status \in OpenStates =>
        \/ Attended(k) \/ Scheduling(k)
        \/ file[k].status \in {"waiting", "resolved"} /\ file[k].wake # 0 /\ <<file[k].wake, k>> \in agenda

\* Neither waiting events nor open cases are forgotten while the process runs.
CasesAttended == PendingAttended /\ OpenAttended

\* After a restart, the cases that the index lists as new or working and that hold
\* events are attended to, whatever failed before it, until the store fails again.
ResumedAttended ==
    up /\ ~faulty /\ resume.pc = "cases" /\ resume.todo = {} =>
        \A k \in Keys : row[k].status \in {"new", "working"} /\ file[k].pending # <<>> => Attended(k) \/ Scheduling(k)

\* An admitted event is worked, unless its case was closed or handed over before
\* its turn came, or a store call failed.  (Where MaxPending is not exceeded.)
EventsWorked == \A v \in Values :
    v \in Elems(file[v[2]].pending) ~> worked[v] > 0 \/ file[v[2]].status \in FinalStates \/ faulty

\* resume_pending says of itself (line 551): "After a restart, finish any case that
\* still holds unworked events."  An open case that does is attended to, at least
\* when its index row says of it what its file does.
ResumeFinishes ==
    up /\ resume.pc = "cases" /\ resume.todo = {} =>
        \A k \in Keys : /\ file[k].status \in OpenStates /\ file[k].pending # <<>> /\ row[k] = Row(file[k])
                       => Attended(k) \/ Scheduling(k)

\* The module says (line 4) that "durable timers wake a case for follow-ups and SLA
\* checks": a case that waits has a wake-up in its file until it has been woken.
TimersDurable ==
    \A k \in Keys : file[k].status \in {"waiting", "resolved"} /\ file[k].pending = <<>> =>
        file[k].wake # 0 \/ Attended(k) \/ Scheduling(k)

\* The calls about case k that have still to write its index row.
Following(k) == \/ \E s \in Submits : sub[s].pc = "row" /\ EventKey[SubmitEvent[s]] = k
                \/ \E d \in Drains : drain[d].pc \in {"index", "tool", "finished"} /\ drain[d].key = k
                \/ timer.pc \in {"cleared", "submitted"} /\ timer.key = k

\* update says of itself (line 212): "the index row follows".  Once no call has it
\* still to write, the row says what the file does.
RowFollows == \A k \in Keys : Following(k) \/ row[k] = Row(file[k])
=============================================================================
