--------------------------- MODULE AnalyticsLedger ---------------------------
(***************************************************************************)
(* analytics.AnalyticsLedger: facts in memory, marked by day, and written  *)
(* to one document per day by a flush that replaces the document.          *)
(*                                                                         *)
(* The host is one asyncio process; a store update reads, transforms and   *)
(* compares and swaps until it wins, so that a flush writes the payload it *)
(* computed before, whatever was written since.                            *)
(*                                                                         *)
(* Abstractions: a fact is an item of its own, noted once, of a day within *)
(* the retention and the limits per day; nothing is noted before load() is *)
(* through or after close() began; settings and costs are left out.        *)
(***************************************************************************)
EXTENDS Integers, FiniteSets

CONSTANTS Days,      \* days, as integers
          Facts,     \* runs, cases, approvals, assets
          DayOf,     \* DayOf[f]: the day of fact f
          ReadFails, \* whether the store may fail to read a day
          Resets,    \* whether the control room is reset, which flushes
          MaxFaults  \* bound: failed updates, crashes and resets

ASSUME LedgerAssumption ==
    /\ Days \subseteq Nat /\ IsFiniteSet(Days) /\ IsFiniteSet(Facts) /\ DayOf \in [Facts -> Days]
    /\ ReadFails \in BOOLEAN /\ Resets \in BOOLEAN /\ MaxFaults \in Nat

VARIABLES life,    \* "loading", "running", "closing" or "stopped"
          unread,  \* days that load() has not read yet
          facts,   \* facts[d]: runs, cases, approvals and assets of day d
          dirty,   \* _dirty
          flush,   \* the calls of flush: of _flush_task, of a reset, of close()
          stored,  \* stored[d]: the document of day d
          faults   \* history: failed updates, crashes and resets

vars == <<life, unread, facts, dirty, flush, stored, faults>>

Callers == {"task", "reset", "close"}
NoFlush == [pc |-> "none", days |-> {}, day |-> 0, payload |-> {}]

Of(d) == {f \in Facts : DayOf[f] = d}

Init == /\ life = "loading" /\ unread = Days
        /\ facts = [d \in Days |-> {}] /\ dirty = {}
        /\ flush = [c \in Callers |-> NoFlush]
        /\ stored = [d \in Days |-> {}] /\ faults = 0

---------------------------------------------------------------------------
(* load *)

Load(d) == /\ life = "loading" /\ d \in unread
           /\ unread' = unread \ {d}
           /\ \/ facts' = [facts EXCEPT ![d] = @ \cup stored[d]]
              \/ ReadFails /\ UNCHANGED facts
           /\ UNCHANGED <<life, dirty, flush, stored, faults>>

Loaded == /\ life = "loading" /\ unread = {}
          /\ life' = "running"
          /\ UNCHANGED <<unread, facts, dirty, flush, stored, faults>>

---------------------------------------------------------------------------
(* notes *)

\* Mutant of Mark: a flush that runs is taken to write what is noted meanwhile.
MarkIdle(d) == IF flush["task"].pc = "none"
               THEN dirty' = dirty \cup {d} /\ flush' = [flush EXCEPT !["task"].pc = "asleep"]
               ELSE UNCHANGED <<dirty, flush>>

\* _mark: the day is dirty, and a flush is started unless the last one still runs.
Mark(d) == /\ dirty' = dirty \cup {d}
           /\ flush' = IF flush["task"].pc = "none" THEN [flush EXCEPT !["task"].pc = "asleep"] ELSE flush

Note(f) == /\ life = "running" /\ f \notin facts[DayOf[f]]
           /\ facts' = [facts EXCEPT ![DayOf[f]] = @ \cup {f}]
           /\ Mark(DayOf[f])
           /\ UNCHANGED <<life, unread, stored, faults>>

---------------------------------------------------------------------------
(* flush *)

\* The days are taken when the call begins; a task sleeps before.
Begins(c) == \/ c = "task" /\ flush[c].pc = "asleep" /\ life = "running"
             \/ c = "reset" /\ flush[c].pc = "none" /\ life = "running" /\ Resets /\ faults < MaxFaults
             \/ c = "close" /\ flush[c].pc = "none" /\ life = "closing" /\ dirty # {}

Take(c) == /\ Begins(c)
           /\ flush' = [flush EXCEPT ![c] = [NoFlush EXCEPT !.pc = "days", !.days = dirty]]
           /\ dirty' = {}
           /\ faults' = IF c = "reset" THEN faults + 1 ELSE faults
           /\ UNCHANGED <<life, unread, facts, stored>>

\* The next day's payload, of the facts as they are.
Payload(c) == /\ flush[c].pc = "days"
              /\ \E d \in flush[c].days :
                     /\ \A e \in flush[c].days : d <= e
                     /\ flush' = [flush EXCEPT ![c] = [pc |-> "write", days |-> @.days \ {d}, day |-> d,
                                                       payload |-> facts[d]]]
              /\ UNCHANGED <<life, unread, facts, dirty, stored, faults>>

\* The document of the day is replaced.
Write(c) == /\ flush[c].pc = "write"
            /\ stored' = [stored EXCEPT ![flush[c].day] = flush[c].payload]
            /\ flush' = [flush EXCEPT ![c].pc = "days"]
            /\ UNCHANGED <<life, unread, facts, dirty, faults>>

\* The update fails, before or after it took effect; the day is dirty again.
Fails(c) == /\ flush[c].pc = "write" /\ faults < MaxFaults
            /\ stored' \in {stored, [stored EXCEPT ![flush[c].day] = flush[c].payload]}
            /\ dirty' = dirty \cup {flush[c].day}
            /\ flush' = [flush EXCEPT ![c].pc = "days"]
            /\ faults' = faults + 1
            /\ UNCHANGED <<life, unread, facts>>

Flushed(c) == /\ flush[c].pc = "days" /\ flush[c].days = {}
              /\ flush' = [flush EXCEPT ![c] = IF c = "close" THEN [NoFlush EXCEPT !.pc = "ended"] ELSE NoFlush]
              /\ UNCHANGED <<life, unread, facts, dirty, stored, faults>>

---------------------------------------------------------------------------
(* The end *)

\* An update in flight may land although its caller is gone.
Landed(c) == \/ UNCHANGED stored
             \/ flush[c].pc = "write" /\ stored' = [stored EXCEPT ![flush[c].day] = flush[c].payload]

\* close(): the task is cancelled where it is.
Close == /\ life = "running" /\ flush["reset"].pc = "none"
         /\ life' = "closing"
         /\ Landed("task")
         /\ flush' = [flush EXCEPT !["task"] = NoFlush]
         /\ UNCHANGED <<unread, facts, dirty, faults>>

Stopped == /\ life = "closing"
           /\ flush["close"].pc = "ended" \/ (flush["close"].pc = "none" /\ dirty = {})
           /\ life' = "stopped"
           /\ UNCHANGED <<unread, facts, dirty, flush, stored, faults>>

\* Mutant of Restart: the documents are not read.
RestartEmpty == /\ life = "stopped" \/ faults < MaxFaults
                /\ faults' = IF life = "stopped" THEN faults ELSE faults + 1
                /\ life' = "running" /\ unread' = {}
                /\ facts' = [d \in Days |-> {}] /\ dirty' = {}
                /\ flush' = [c \in Callers |-> NoFlush]
                /\ \E c \in Callers : Landed(c)

\* Another process starts, after a stop or a crash.
Restart == /\ life = "stopped" \/ faults < MaxFaults
           /\ faults' = IF life = "stopped" THEN faults ELSE faults + 1
           /\ life' = "loading" /\ unread' = Days
           /\ facts' = [d \in Days |-> {}] /\ dirty' = {}
           /\ flush' = [c \in Callers |-> NoFlush]
           /\ \E c \in Callers : Landed(c)

Progress == \/ \E d \in Days : Load(d)
            \/ Loaded
            \/ \E c \in {"task", "close"} : Take(c)
            \/ \E c \in Callers : Payload(c) \/ Write(c) \/ Flushed(c)

Next == \/ Progress \/ Take("reset")
        \/ \E f \in Facts : Note(f)
        \/ \E c \in Callers : Fails(c)
        \/ Close \/ Stopped \/ Restart

Spec == Init /\ [][Next]_vars

---------------------------------------------------------------------------

Flushes == {r \in [pc : {"none", "asleep", "days", "write", "ended"}, days : SUBSET Days,
                   day : Days \cup {0}, payload : SUBSET Facts] : r.pc = "write" => r.day \in Days}

TypeOK == /\ life \in {"loading", "running", "closing", "stopped"} /\ unread \subseteq Days
          /\ facts \in [Days -> SUBSET Facts] /\ stored \in [Days -> SUBSET Facts] /\ dirty \subseteq Days
          /\ flush \in [Callers -> Flushes] /\ faults \in 0..MaxFaults

\* A fact in memory that is not stored will be: its day is dirty, or a flush
\* that runs has still to take it, or is writing it.
LedgerKept == life = "running" =>
    \A d \in Days : \A f \in facts[d] \ stored[d] :
        \/ d \in dirty
        \/ \E c \in Callers : \/ d \in flush[c].days
                              \/ flush[c].pc = "write" /\ flush[c].day = d /\ f \in flush[c].payload

\* A stored fact stays stored: facts "survive restarts and control-room resets".
NothingErased == [][\A d \in Days : stored[d] \subseteq stored'[d]]_vars

\* What the host knew when it closed in good order is stored.
ClosedWhole == life = "stopped" /\ faults = 0 => \A d \in Days : facts[d] \subseteq stored[d]

\* While no update failed, a day that is dirty has a flush that will take it:
\* facts are "written through".
DirtyAttended == life = "running" /\ faults = 0 /\ dirty # {} => flush["task"].pc = "asleep"
=============================================================================
