--------------------------- MODULE Reconciliation ---------------------------
(***************************************************************************)
(* How the case desk learns of a change in a system of record: the system  *)
(* pushes a doorbell (event_gateway), which may be lost, and a periodic    *)
(* sweep lists what changed after a stored watermark (web._sweep,          *)
(* CaseDesk.sweep_once, and the list tool of the system's MCP server).     *)
(* Both name a change by the same event id, and the desk keeps the ids it  *)
(* has seen.                                                               *)
(*                                                                         *)
(* Three systems: ServiceNow lists the oldest records of its window and    *)
(* drops those up to the watermark afterwards; Salesforce and Coupa filter *)
(* first; Salesforce asks once who the integration is; Coupa pushes        *)
(* nothing and marks nothing as the integration's.                         *)
(*                                                                         *)
(* Abstractions: records stay in the queue and in its 72 hours, their      *)
(* cases stay open and know fewer events than their receipts; the clock    *)
(* moves only when a record changes, by one unit of the system's version   *)
(* stamps; comments, which Salesforce pushes under ids of their own, are   *)
(* changes; the index after an admission is CaseDesk's.                    *)
(***************************************************************************)
EXTENDS Integers, Sequences, FiniteSets

CONSTANTS Records,       \* incidents, cases or invoices of the queue
          System,        \* "servicenow", "salesforce" or "coupa"
          Limit,         \* the rows a list tool returns, and _sweep reads
          Ties,          \* whether two records may change in one unit of the version stamps
          AgentWrites,   \* whether the colleague changes records
          UserinfoFails, \* whether Salesforce may fail to say who the integration is
          MaxChanges,    \* bound: changes of one record
          MaxClock,      \* bound: the last moment of the clock
          MaxFaults      \* bound: failed calls, and restarts of the host

ASSUME ReconciliationAssumption ==
    /\ IsFiniteSet(Records) /\ System \in {"servicenow", "salesforce", "coupa"}
    /\ Limit \in Nat \ {0} /\ Ties \in BOOLEAN /\ AgentWrites \in BOOLEAN /\ UserinfoFails \in BOOLEAN
    /\ MaxChanges \in Nat /\ MaxClock \in Nat /\ MaxFaults \in Nat

VARIABLES log,    \* log[r]: the changes of record r, when and by whom; the first creates it
          clock,  \* the moment of the last change
          pushes, \* doorbells on their way
          seen,   \* the event ids on the desk's case files
          mark,   \* the stored watermark
          sweep,  \* the sweep in progress
          known,  \* _integration: what the Salesforce server remembers of its own user
          faults  \* history: failed calls and restarts

vars == <<log, clock, pushes, seen, mark, sweep, known, faults>>

Authors == {"person", "agent"}
Idle == [pc |-> "idle", from |-> 0, todo |-> {}, newest |-> 0]

Init == /\ log = [r \in Records |-> <<>>] /\ clock = 0
        /\ pushes = {} /\ seen = {} /\ mark = 0 /\ sweep = Idle
        /\ known = "unset" /\ faults = 0

world == <<log, clock>>
desk == <<seen, mark>>

Existing == {r \in Records : log[r] # <<>>}
Version(r) == log[r][Len(log[r])].at
Event(r) == <<r, Len(log[r])>>

\* A change that needs the desk: a person's, or a new record.
Needs(r, n) == n = 1 \/ log[r][n].by = "person"

---------------------------------------------------------------------------
(* The system of record *)

\* A record is created or changed, and the change is pushed.
Change(r, who) ==
    /\ Len(log[r]) < MaxChanges /\ (who = "agent" => AgentWrites)
    /\ \E at \in {clock + 1} \cup (IF Ties /\ clock > 0 THEN {clock} ELSE {}) :
           /\ at <= MaxClock
           /\ clock' = at
           /\ log' = [log EXCEPT ![r] = Append(@, [at |-> at, by |-> who])]
    /\ pushes' = IF System = "coupa" THEN pushes ELSE pushes \cup {<<r, Len(log[r]) + 1>>}
    /\ UNCHANGED <<seen, mark, sweep, known, faults>>

\* The doorbell does not get through, or the desk cannot store its event.
Lose(p) == /\ p \in pushes /\ pushes' = pushes \ {p}
           /\ UNCHANGED <<log, clock, seen, mark, sweep, known, faults>>

\* The gateway drops the colleague's own writes; submit knows the ids it has seen.
Deliver(p) == /\ p \in pushes /\ pushes' = pushes \ {p}
              /\ seen' = IF Needs(p[1], p[2]) THEN seen \cup {p} ELSE seen
              /\ UNCHANGED <<log, clock, mark, sweep, known, faults>>

---------------------------------------------------------------------------
(* The sweep *)

\* sweep_once reads the watermark.
Start == /\ sweep.pc = "idle"
         /\ sweep' = [pc |-> "list", from |-> mark, todo |-> {}, newest |-> 0]
         /\ UNCHANGED <<log, clock, pushes, seen, mark, known, faults>>

After(S, m) == {r \in S : Version(r) > m}

\* P are the oldest of the records S, as many as fit.
Oldest(P, S) == /\ P \subseteq S
                /\ P = S \/ Cardinality(P) = Limit
                /\ \A p \in P : \A r \in S \ P : Version(p) <= Version(r)

\* Mutant of Lists: the latest come first.
ListsLatest(P, m) == /\ P \subseteq After(Existing, m)
                     /\ P = After(Existing, m) \/ Cardinality(P) = Limit
                     /\ \A p \in P : \A r \in After(Existing, m) \ P : Version(p) >= Version(r)

\* The rows a list tool returns of what changed after m.
Lists(P, m) == IF System = "servicenow"
               THEN \E Q \in SUBSET Existing : Oldest(Q, Existing) /\ P = After(Q, m)
               ELSE Oldest(P, After(Existing, m))

\* The first answer about the integration's user is kept, also if it is an error.
Asks == IF System = "salesforce" /\ known = "unset"
        THEN known' \in {"name"} \cup (IF UserinfoFails THEN {"nothing"} ELSE {})
        ELSE UNCHANGED known

\* updated_by_integration
IsOwn(r, name) == /\ System # "coupa" /\ ~Needs(r, Len(log[r]))
                  /\ System = "salesforce" => name = "name"

List == /\ sweep.pc = "list"
        /\ Asks
        /\ \E P \in SUBSET Existing :
               /\ Lists(P, sweep.from)
               /\ \E newest \in {Version(r) : r \in P} \cup {sweep.from} :
                      /\ newest >= sweep.from /\ \A r \in P : newest >= Version(r)
                      /\ sweep' = [sweep EXCEPT !.pc = "submit", !.newest = newest,
                                                !.todo = {Event(r) : r \in {x \in P : ~IsOwn(x, known')}}]
        /\ UNCHANGED <<log, clock, pushes, seen, mark, faults>>

\* The events of the rows, oldest first.
Submit == /\ sweep.pc = "submit"
          /\ \E e \in sweep.todo :
                 /\ \A d \in sweep.todo : log[e[1]][e[2]].at <= log[d[1]][d[2]].at
                 /\ seen' = seen \cup {e}
                 /\ sweep' = [sweep EXCEPT !.todo = @ \ {e}]
          /\ UNCHANGED <<log, clock, pushes, mark, known, faults>>

Save == /\ sweep.pc = "submit" /\ sweep.todo = {}
        /\ mark' = sweep.newest
        /\ sweep' = Idle
        /\ UNCHANGED <<log, clock, pushes, seen, known, faults>>

\* Mutant of Fails: the loop ends with the error, as the timers' loop does.
FailsForGood == /\ sweep.pc \in {"list", "submit"} /\ faults < MaxFaults
                /\ \/ UNCHANGED seen
                   \/ sweep.pc = "submit" /\ \E e \in sweep.todo : seen' = seen \cup {e}
                /\ sweep' = [Idle EXCEPT !.pc = "ended"] /\ faults' = faults + 1
                /\ UNCHANGED <<log, clock, pushes, mark, known>>

\* A call fails, before or after it took effect, or the host restarts: the
\* loop begins again from the watermark it had.
Fails == /\ sweep.pc \in {"list", "submit"} /\ faults < MaxFaults
         /\ \/ UNCHANGED <<seen, mark>>
            \/ sweep.pc = "submit" /\ UNCHANGED mark /\ \E e \in sweep.todo : seen' = seen \cup {e}
            \/ sweep.pc = "submit" /\ sweep.todo = {} /\ mark' = sweep.newest /\ UNCHANGED seen
         /\ UNCHANGED known \/ (sweep.pc = "list" /\ Asks)
         /\ sweep' = Idle /\ faults' = faults + 1
         /\ UNCHANGED <<log, clock, pushes>>

Sweep == Start \/ List \/ Submit \/ Save

Next == \/ \E r \in Records, who \in Authors : Change(r, who)
        \/ \E p \in pushes : Lose(p) \/ Deliver(p)
        \/ Sweep \/ Fails

\* The loop sweeps again and again.
Spec == Init /\ [][Next]_vars /\ WF_vars(Sweep)

---------------------------------------------------------------------------

Ids == Records \X (1..MaxChanges)

Sweeps == [pc : {"idle", "list", "submit"}, from : 0..MaxClock, todo : SUBSET Ids, newest : 0..MaxClock]

TypeOK == /\ log \in [Records -> Seq([at : 1..MaxClock, by : Authors])]
          /\ \A r \in Records : Len(log[r]) <= MaxChanges
          /\ clock \in 0..MaxClock /\ mark \in 0..MaxClock
          /\ pushes \subseteq Ids /\ seen \subseteq Ids
          /\ sweep \in Sweeps
          /\ known \in {"unset", "name", "nothing"} /\ faults \in 0..MaxFaults

\* The desk was told of this change, or of a later one of the record.
Covered(r, n) == \E m \in n..Len(log[r]) : <<r, m>> \in seen

\* A record whose last change needs the desk is never behind the watermark
\* untold: whatever the pushes did, and wherever a sweep failed, the next sweep
\* begins before a change that the desk does not know.
MarkHonest == \A r \in Existing :
    Needs(r, Len(log[r])) /\ Version(r) <= mark => Covered(r, Len(log[r]))

\* The same of every change that needs the desk, whatever happened to the
\* record later ("catches anything a push missed", case_desk.py).
NothingMissed == \A r \in Existing : \A n \in 1..Len(log[r]) :
    Needs(r, n) /\ log[r][n].at <= mark => Covered(r, n) \/ <<r, n>> \in pushes

\* The colleague's own change of a record is no event ("loop prevention drops
\* the colleague's own writes", event_gateway.py), by either way.
NoEcho == \A e \in seen : Needs(e[1], e[2])

\* A change that needs the desk reaches it although its push was lost, unless
\* the record changes again.
Caught == \A r \in Records : \A n \in 1..MaxChanges :
    (Len(log[r]) = n /\ Needs(r, n)) ~> (Covered(r, n) \/ Len(log[r]) > n)
=============================================================================
