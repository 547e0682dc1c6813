---------------------------- MODULE CaseDeskProofs ----------------------------
(***************************************************************************)
(* Proofs about CaseDesk: its types, that work on a case is serial and     *)
(* fits its slots, that no event is worked twice, and that no case is      *)
(* forgotten while the process runs or when it resumes.                    *)
(***************************************************************************)
EXTENDS CaseDesk, FiniteSetTheorems, TLAPS

FileType == [status : OpenStates \cup FinalStates \cup {"absent"}, seen : SUBSET Values,
             pending : {s \in Seq(Values) : Len(s) <= MaxPending},
             wake : 0..(MaxTime + 1), errors : 0..MaxErrors]

DrainType == [pc : DrainPcs, key : Keys \cup {None}, row : RowType, events : Seq(Values),
              tools : Nat, failed : BOOLEAN]

\* One drain at most per case, and only for the cases in run; only those are
\* asked to look again.
Workers(run, more, tasks) ==
    /\ run \subseteq Keys /\ more \subseteq run
    /\ tasks \in [Drains -> DrainType]
    /\ \A d \in Drains : tasks[d].pc # "none" => tasks[d].key \in run
    /\ \A d, e \in Drains : tasks[d].pc # "none" /\ tasks[e].pc # "none" /\ tasks[d].key = tasks[e].key => d = e

Files == file \in [Keys -> FileType] /\ row \in [Keys -> RowType]
World == clock \in 1..MaxTime /\ up \in BOOLEAN /\ stops \in 0..MaxStops /\ faulty \in BOOLEAN
Calls == sub \in [Submits -> [pc : {"idle", "row", "done"}, row : RowType]]
Agenda == agenda \subseteq (1..(MaxTime + 1)) \X Keys
Timers == /\ timer \in [pc : {"off", "rebuild", "idle", "clear", "cleared", "submit", "submitted"},
                        key : Keys \cup {None}, due : Nat, row : RowType]
          /\ timer.pc \notin {"off", "rebuild", "idle"} => timer.key \in Keys /\ timer.due \in 1..MaxTime
Resuming == resume \in [pc : {"start", "cases", "off"}, todo : SUBSET Keys]

TypeInv == /\ Files /\ World /\ Calls /\ Agenda /\ Timers /\ Resuming
           /\ Workers(running, again, drain)
           /\ worked \in [Values -> Nat]

-----------------------------------------------------------------------------
(* The operators on files, rows and drains.                                *)

\* What is kept of a sequence comes from it, and is no longer than allowed.
LEMMA LastNFacts ==
    ASSUME NEW S, NEW s \in Seq(S), NEW n \in Nat \ {0}
    PROVE  LastN(s, n) \in Seq(S) /\ Len(LastN(s, n)) <= n /\ Elems(LastN(s, n)) \subseteq Elems(s)
<1>1. CASE Len(s) <= n
  BY <1>1 DEF LastN
<1>2. CASE ~(Len(s) <= n)
  <2>1. LastN(s, n) = SubSeq(s, Len(s) - n + 1, Len(s)) /\ Len(s) \in Nat
    BY <1>2 DEF LastN
  <2>2. Len(s) - n + 1 \in 1..Len(s) /\ \A i \in 1..Len(s) : s[i] \in S
    BY <1>2, <2>1
  <2>3. LastN(s, n) \in Seq(S) /\ Len(LastN(s, n)) = n
    BY <2>1, <2>2
  <2>4. ASSUME NEW i \in 1..n
        PROVE  LastN(s, n)[i] = s[Len(s) - n + i] /\ Len(s) - n + i \in 1..Len(s)
    BY <1>2, <2>1, <2>2
  <2> QED BY <2>3, <2>4 DEF Elems
<1> QED BY <1>1, <1>2

\* An appended event joins those that were there.
LEMMA AppendFacts ==
    ASSUME NEW S, NEW s \in Seq(S), NEW v \in S
    PROVE  Append(s, v) \in Seq(S) /\ Elems(Append(s, v)) \subseteq Elems(s) \cup {v}
BY DEF Elems

LEMMA EmptyFacts == <<>> \in Seq(Values) /\ Len(<<>>) = 0 /\ Elems(<<>>) = {}
BY DEF Elems

LEMMA RowTypes == /\ NoFile \in FileType /\ NoRow \in RowType
                  /\ \A f \in FileType : Row(f) \in RowType
<1>1. MaxTime \in Nat /\ MaxErrors \in Nat /\ MaxPending \in Nat
  BY DeskAssumption
<1>2. NoFile \in FileType
  BY <1>1, EmptyFacts DEF NoFile, FileType
<1>3. ASSUME NEW f \in FileType PROVE Row(f) \in RowType
  BY DEF Row, RowType, FileType
<1> QED BY <1>2, <1>3 DEF NoRow

\* An admitted event is receipted, and pending events only come from before or
\* from it.
LEMMA FiledFacts ==
    ASSUME NEW k \in Keys, NEW v \in Values, file[k] \in FileType
    PROVE  /\ Filed(k, v) \in FileType
           /\ Filed(k, v).seen = file[k].seen \cup {v}
           /\ Elems(Filed(k, v).pending) \subseteq Elems(file[k].pending) \cup {v}
<1> DEFINE longer == Append(file[k].pending, v)
           status == CASE file[k].status = "absent" -> "new"
                       [] file[k].status \in FinalStates -> "working"
                       [] OTHER -> file[k].status
<1>1. file[k].pending \in Seq(Values)
  BY DEF FileType
<1>2. longer \in Seq(Values) /\ Elems(longer) \subseteq Elems(file[k].pending) \cup {v}
  BY <1>1, AppendFacts
<1>3. MaxPending \in Nat \ {0}
  BY DeskAssumption
<1> HIDE DEF longer
<1>4. /\ LastN(longer, MaxPending) \in Seq(Values) /\ Len(LastN(longer, MaxPending)) <= MaxPending
      /\ Elems(LastN(longer, MaxPending)) \subseteq Elems(longer)
  BY <1>2, <1>3, LastNFacts
<1>5. status \in OpenStates \cup FinalStates \cup {"absent"}
  BY DEF FileType, OpenStates, FinalStates
<1> HIDE DEF status
<1>6. Filed(k, v) = [file[k] EXCEPT !.status = status, !.seen = file[k].seen \cup {v},
                              !.pending = LastN(longer, MaxPending)]
  BY DEF Filed, longer, status
<1>7. /\ Filed(k, v).status = status /\ Filed(k, v).seen = file[k].seen \cup {v}
      /\ Filed(k, v).pending = LastN(longer, MaxPending)
  BY <1>6 DEF FileType
<1>8. Filed(k, v) \in FileType
  <2>1. file[k].seen \cup {v} \in SUBSET Values /\ LastN(longer, MaxPending) \in {s \in Seq(Values) : Len(s) <= MaxPending}
    BY <1>4 DEF FileType
  <2> QED BY <1>5, <1>6, <2>1 DEF FileType
<1> QED BY <1>2, <1>4, <1>7, <1>8

\* The wake-ups and statuses that turns set.
LEMMA WakeFacts ==
    ASSUME clock \in 1..MaxTime
    PROVE  /\ 0 \in 0..(MaxTime + 1) /\ clock + 1 \in 0..(MaxTime + 1)
           /\ {"waiting", "resolved", "closed", "escalated"} \subseteq OpenStates \cup FinalStates
BY DeskAssumption DEF OpenStates, FinalStates

\* The end of a turn and the case tools change neither events nor receipts.
LEMMA FinishedFacts ==
    ASSUME NEW f \in FileType, NEW failed \in BOOLEAN, clock \in 1..MaxTime
    PROVE  /\ Finished(f, failed) \in FileType
           /\ Finished(f, failed).seen = f.seen /\ Finished(f, failed).pending = f.pending
<1> DEFINE errors == IF ~failed THEN 0 ELSE IF f.errors < MaxErrors THEN f.errors + 1 ELSE MaxErrors
           counted == [f EXCEPT !.errors = errors]
<1>1. MaxErrors \in Nat /\ MaxTime \in Nat
  BY DeskAssumption
<1>2. errors \in 0..MaxErrors
  BY <1>1 DEF FileType
<1> HIDE DEF errors
<1>3. counted \in FileType /\ counted.seen = f.seen /\ counted.pending = f.pending
  BY <1>2 DEF FileType
<1>4. \/ Finished(f, failed) = [counted EXCEPT !.status = "escalated", !.wake = 0]
      \/ Finished(f, failed) = [counted EXCEPT !.status = "waiting", !.wake = clock + 1]
      \/ Finished(f, failed) = [counted EXCEPT !.status = "waiting", !.wake = counted.wake]
      \/ Finished(f, failed) = counted
  BY DEF Finished, counted, errors
<1> HIDE DEF counted
<1>5. counted.wake \in 0..(MaxTime + 1)
  BY <1>3 DEF FileType
<1>6. ASSUME NEW s \in OpenStates \cup FinalStates, NEW w \in 0..(MaxTime + 1),
             Finished(f, failed) = [counted EXCEPT !.status = s, !.wake = w]
      PROVE  /\ Finished(f, failed) \in FileType
             /\ Finished(f, failed).seen = f.seen /\ Finished(f, failed).pending = f.pending
  BY <1>3, <1>6 DEF FileType
<1> QED BY <1>3, <1>4, <1>5, <1>6, WakeFacts

LEMMA TooledFacts ==
    ASSUME NEW f \in FileType, NEW t \in {"wait", "wake_at", "resolve", "finish", "note"}, clock \in 1..MaxTime
    PROVE  /\ Tooled(f, t) \in FileType
           /\ Tooled(f, t).seen = f.seen /\ Tooled(f, t).pending = f.pending
<1>1. \/ Tooled(f, t) = [f EXCEPT !.status = "waiting", !.wake = clock + 1]
      \/ Tooled(f, t) = [f EXCEPT !.wake = clock + 1]
      \/ Tooled(f, t) = [f EXCEPT !.status = "resolved", !.wake = clock + 1]
      \/ Tooled(f, t) = [f EXCEPT !.status = "closed", !.wake = 0]
      \/ Tooled(f, t) = f
  BY DEF Tooled, FileType
<1>2. ASSUME NEW s \in OpenStates \cup FinalStates, NEW w \in 0..(MaxTime + 1),
             Tooled(f, t) = [f EXCEPT !.status = s, !.wake = w]
      PROVE  /\ Tooled(f, t) \in FileType
             /\ Tooled(f, t).seen = f.seen /\ Tooled(f, t).pending = f.pending
  BY <1>2 DEF FileType
<1>3. CASE Tooled(f, t) = [f EXCEPT !.wake = clock + 1]
  BY <1>3, WakeFacts DEF FileType
<1> QED BY <1>1, <1>2, <1>3, WakeFacts

\* A drain whose turn calls a tool keeps its case.
LEMMA CalledFacts ==
    ASSUME NEW t \in DrainType, NEW r \in RowType
    PROVE  Called(t, r) \in DrainType /\ Called(t, r).key = t.key /\ Called(t, r).pc = "tool"
<1>1. PICK n \in Nat : n = t.tools + 1
  BY DEF DrainType
<1>2. Called(t, r) = [t EXCEPT !.pc = "tool", !.tools = t.tools + 1, !.row = r]
  BY DEF Called
<1>3. Called(t, r) = [t EXCEPT !.pc = "tool", !.tools = n, !.row = r]
  BY <1>1, <1>2
<1> QED BY <1>3 DEF DrainType, DrainPcs

\* An index row keeps the rows and the agenda typed.
LEMMA IndexTypes ==
    ASSUME NEW k \in Keys, NEW r \in RowType, row \in [Keys -> RowType], Agenda, Index(k, r)
    PROVE  row' \in [Keys -> RowType] /\ Agenda'
<1>1. MaxTime \in Nat
  BY DeskAssumption
<1>2. row' = [row EXCEPT ![k] = r]
  BY DEF Index
<1>3. r.wake # 0 => <<r.wake, k>> \in (1..(MaxTime + 1)) \X Keys
  BY <1>1 DEF RowType
<1> QED BY <1>2, <1>3 DEF Index, Agenda

LEMMA NoDrainType == NoDrain \in DrainType /\ \A k \in Keys : [NoDrain EXCEPT !.key = k] \in DrainType
BY RowTypes, EmptyFacts DEF NoDrain, DrainType, DrainPcs

\* Scheduling a case keeps one drain per case, whatever runs.
LEMMA ScheduleFacts ==
    ASSUME NEW k \in Keys, NEW run, NEW more, NEW tasks, Workers(run, more, tasks), Schedule(k, run, more, tasks)
    PROVE  /\ Workers(running', again', drain')
           /\ \A d \in Drains : drain'[d] = tasks[d] \/ (drain'[d].pc = "take" /\ drain'[d].events = <<>>)
<1>1. CASE k \in run
  BY <1>1 DEF Schedule, Workers
<1>2. CASE k \notin run
  <2> DEFINE t == [NoDrain EXCEPT !.pc = "take", !.key = k]
  <2>1. t \in DrainType /\ t.pc = "take" /\ t.key = k /\ t.events = <<>>
    BY NoDrainType DEF DrainType, DrainPcs, NoDrain
  <2>2. PICK d \in Drains : tasks[d].pc = "none" /\ drain' = [tasks EXCEPT ![d] = t]
    BY <1>2 DEF Schedule
  <2> HIDE DEF t
  <2>3. running' = run \cup {k} /\ again' = more
    BY <1>2 DEF Schedule
  <2>4. /\ drain' \in [Drains -> DrainType]
        /\ drain'[d] = t
        /\ \A e \in Drains \ {d} : drain'[e] = tasks[e]
    BY <2>1, <2>2 DEF Workers
  <2> QED BY <1>2, <2>1, <2>3, <2>4 DEF Workers
<1> QED BY <1>1, <1>2

\* A drain that moves on keeps its case.
LEMMA MoveFacts ==
    ASSUME NEW run, NEW more, NEW tasks, Workers(run, more, tasks), NEW d \in Drains, tasks[d].pc # "none",
           NEW t \in DrainType, t.key = tasks[d].key
    PROVE  Workers(run, more, [tasks EXCEPT ![d] = t])
BY DEF Workers

-----------------------------------------------------------------------------
(* Types.                                                                  *)

LEMMA TypeInit == Init => TypeInv
<1> SUFFICES ASSUME Init PROVE TypeInv
  OBVIOUS
<1>1. MaxTime \in Nat \ {0} /\ MaxStops \in Nat
  BY DeskAssumption
<1>2. /\ Off \in [pc : {"off"}, key : {None}, due : {0}, row : RowType]
      /\ NoSub \in [pc : {"idle"}, row : RowType]
  BY RowTypes DEF Off, NoSub
<1>3. Files /\ World /\ Agenda /\ Resuming
  <2>1. clock \in 1..MaxTime /\ stops \in 0..MaxStops
    BY <1>1 DEF Init
  <2>2. World
    BY <1>1, <2>1 DEF Init, World
  <2> QED BY <1>1, <2>2, RowTypes DEF Init, Files, Agenda, Resuming
<1>4. Calls
  BY <1>2 DEF Init, Calls
<1>5. Timers
  BY <1>2 DEF Init, Timers
<1>6. Workers(running, again, drain)
  <2>1. NoDrain.pc = "none"
    BY DEF NoDrain
  <2> QED BY <2>1, NoDrainType DEF Init, Workers
<1>7. worked \in [Values -> Nat]
  BY DEF Init
<1> QED BY <1>3, <1>4, <1>5, <1>6, <1>7 DEF TypeInv

\* The case and the event of a delivery.
LEMMA DeliveryTypes ==
    /\ \A s \in Submits : EventKey[SubmitEvent[s]] \in Keys /\ Sent(SubmitEvent[s]) \in Values
    /\ \A k \in Keys, t \in 1..MaxTime : Timer(k, t) \in Values
BY DeskAssumption DEF Values

LEMMA SubmitTypes ==
    ASSUME TypeInv, NEW s \in Submits, SubmitFile(s) \/ SubmitRow(s)
    PROVE  TypeInv'
<1> DEFINE e == SubmitEvent[s]
           k == EventKey[e]
<1>1. k \in Keys /\ Sent(e) \in Values
  BY DeliveryTypes
<1> HIDE DEF e, k
<1>2. CASE SubmitFile(s)
  <2>1. /\ file' = [file EXCEPT ![k] = Filed(k, Sent(e))] \/ file' = file
        /\ UNCHANGED <<row, world, worker, agenda, timer, resume, worked>>
    BY <1>2 DEF SubmitFile, e, k
  <2>2. Files'
    <3>1. file[k] \in FileType
      BY <1>1 DEF TypeInv, Files
    <3>2. Filed(k, Sent(e)) \in FileType
      BY <1>1, <3>1, FiledFacts
    <3> QED BY <1>1, <2>1, <3>2 DEF TypeInv, Files
  <2>3. Calls'
    <3>1. CASE sub' = [sub EXCEPT ![s] = [pc |-> "row", row |-> Row(file'[k])]]
      <4>1. Row(file'[k]) \in RowType
        BY <1>1, <2>2, RowTypes DEF Files
      <4> QED BY <3>1, <4>1 DEF TypeInv, Calls
    <3>2. CASE sub' = [sub EXCEPT ![s].pc = "done"]
      BY <3>2 DEF TypeInv, Calls
    <3> QED BY <1>2, <3>1, <3>2 DEF SubmitFile, e, k
  <2> QED BY <2>1, <2>2, <2>3 DEF TypeInv, World, world, worker, Agenda, Timers, Resuming
<1>3. CASE SubmitRow(s)
  <2>1. /\ Index(k, sub[s].row) /\ Schedule(k, running, again, drain)
        /\ sub' = [sub EXCEPT ![s] = [NoSub EXCEPT !.pc = "done"]]
        /\ UNCHANGED <<file, world, timer, resume, worked>>
    BY <1>3 DEF SubmitRow, e, k
  <2>2. sub[s].row \in RowType
    BY DEF TypeInv, Calls
  <2>3. row' \in [Keys -> RowType] /\ Agenda'
    BY <1>1, <2>1, <2>2, IndexTypes DEF TypeInv, Files
  <2>4. Workers(running', again', drain')
    BY <1>1, <2>1, ScheduleFacts DEF TypeInv
  <2>5. Calls'
    BY <2>1, RowTypes DEF TypeInv, Calls, NoSub
  <2> QED BY <2>1, <2>3, <2>4, <2>5 DEF TypeInv, Files, World, world, Timers, Resuming
<1> QED BY <1>2, <1>3

\* A drain has a case, and a step of it that leaves the others alone keeps one
\* drain per case.
LEMMA DrainStep ==
    ASSUME TypeInv, NEW d \in Drains, drain[d].pc # "none"
    PROVE  /\ drain[d].key \in Keys /\ drain[d] \in DrainType /\ file[drain[d].key] \in FileType
           /\ \A t \in DrainType : t.key = drain[d].key => Workers(running, again, [drain EXCEPT ![d] = t])
<1>1. Workers(running, again, drain)
  BY DEF TypeInv
<1>2. drain[d].key \in Keys /\ drain[d] \in DrainType
  BY <1>1 DEF Workers
<1>3. file[drain[d].key] \in FileType
  BY <1>2 DEF TypeInv, Files
<1>4. ASSUME NEW t \in DrainType, t.key = drain[d].key
      PROVE  Workers(running, again, [drain EXCEPT ![d] = t])
  BY <1>1, <1>4, MoveFacts
<1> QED BY <1>2, <1>3, <1>4

LEMMA TakeTypes ==
    ASSUME TypeInv, NEW d \in Drains, Take(d)
    PROVE  TypeInv'
<1> DEFINE k == drain[d].key
           f == file[k]
<1>1. /\ k \in Keys /\ drain[d] \in DrainType /\ f \in FileType
      /\ \A t \in DrainType : t.key = k => Workers(running, again, [drain EXCEPT ![d] = t])
  BY DrainStep DEF Take
<1>2. UNCHANGED <<row, world, running, again, sub, agenda, timer, resume, worked>>
  BY DEF Take
<1> HIDE DEF k, f
<1>3. CASE f.pending = <<>>
  <2> DEFINE t == [drain[d] EXCEPT !.pc = "exit"]
  <2>1. drain' = [drain EXCEPT ![d] = t] /\ file' = file
    BY <1>3 DEF Take, f, k
  <2>2. t \in DrainType /\ t.key = k
    BY <1>1 DEF DrainType, DrainPcs, k
  <2> HIDE DEF t
  <2>3. Workers(running', again', drain')
    BY <1>1, <1>2, <2>1, <2>2
  <2> QED BY <1>2, <2>1, <2>3 DEF TypeInv, Files, World, world, Calls, Agenda, Timers, Resuming
<1>4. CASE f.pending # <<>>
  <2> DEFINE status == IF f.status \in {"new", "waiting", "resolved"} THEN "working" ELSE f.status
             g == [f EXCEPT !.pending = <<>>, !.status = status]
             t == [drain[d] EXCEPT !.pc = "index", !.events = f.pending, !.row = Row(file'[k])]
  <2>1. file' = [file EXCEPT ![k] = g] /\ drain' = [drain EXCEPT ![d] = t]
    BY <1>4 DEF Take, f, k
  <2>2. g \in FileType
    <3>1. status \in OpenStates \cup FinalStates \cup {"absent"}
      BY <1>1 DEF FileType, OpenStates
    <3>2. <<>> \in {s \in Seq(Values) : Len(s) <= MaxPending}
      BY DeskAssumption, EmptyFacts
    <3> HIDE DEF status
    <3> QED BY <1>1, <3>1, <3>2 DEF FileType
  <2> HIDE DEF g
  <2>3. Files'
    BY <1>1, <1>2, <2>1, <2>2 DEF TypeInv, Files
  <2>4. t \in DrainType /\ t.key = k
    <3>1. Row(file'[k]) \in RowType
      BY <1>1, <2>3, RowTypes DEF Files
    <3>2. f.pending \in Seq(Values)
      BY <1>1 DEF FileType
    <3> QED BY <1>1, <3>1, <3>2 DEF DrainType, DrainPcs, k
  <2> HIDE DEF t
  <2>5. Workers(running', again', drain')
    BY <1>1, <1>2, <2>1, <2>4
  <2> QED BY <1>2, <2>3, <2>5 DEF TypeInv, World, world, Calls, Agenda, Timers, Resuming
<1> QED BY <1>3, <1>4

\* The index follows a turn's changes, in three places of it.
LEMMA RowTypesKept ==
    ASSUME TypeInv, NEW d \in Drains, Begin(d) \/ ToolRow(d) \/ FinishRow(d)
    PROVE  TypeInv'
<1> DEFINE k == drain[d].key
<1>1. /\ k \in Keys /\ drain[d] \in DrainType
      /\ \A t \in DrainType : t.key = k => Workers(running, again, [drain EXCEPT ![d] = t])
  BY DrainStep DEF Begin, ToolRow, FinishRow
<1>2. Index(k, drain[d].row) /\ UNCHANGED <<file, world, running, again, sub, timer, resume>>
  BY DEF Begin, ToolRow, FinishRow
<1>3. row' \in [Keys -> RowType] /\ Agenda'
  <2>1. drain[d].row \in RowType
    BY <1>1 DEF DrainType
  <2> QED BY <1>1, <1>2, <2>1, IndexTypes DEF TypeInv, Files
<1>4. PICK t \in DrainType : t.key = k /\ drain' = [drain EXCEPT ![d] = t]
  <2> DEFINE next(pc) == [NoDrain EXCEPT !.pc = pc, !.key = k]
             back == [drain[d] EXCEPT !.pc = "work", !.row = NoRow]
  <2>1. ASSUME NEW pc \in DrainPcs PROVE next(pc) \in DrainType /\ next(pc).key = k
    BY <1>1, NoDrainType DEF DrainType, NoDrain
  <2>2. back \in DrainType /\ back.key = k
    BY <1>1, RowTypes DEF DrainType, DrainPcs
  <2>3. \/ drain' = [drain EXCEPT ![d] = next("finish")]
        \/ drain' = [drain EXCEPT ![d] = next("work")]
        \/ drain' = [drain EXCEPT ![d] = next("take")]
        \/ drain' = [drain EXCEPT ![d] = back]
    BY DEF Begin, ToolRow, FinishRow
  <2>4. {"finish", "work", "take"} \subseteq DrainPcs
    BY DEF DrainPcs
  <2> HIDE DEF next, back
  <2> QED BY <2>1, <2>2, <2>3, <2>4
<1>5. worked' \in [Values -> Nat]
  BY DEF TypeInv, Begin, ToolRow, FinishRow
<1> HIDE DEF k
<1>6. Workers(running', again', drain')
  BY <1>1, <1>2, <1>4
<1> QED BY <1>2, <1>3, <1>5, <1>6 DEF TypeInv, Files, World, world, Calls, Timers, Resuming

\* A case tool and the end of a turn change the case's file.
LEMMA TurnTypes ==
    ASSUME TypeInv, NEW d \in Drains, Tool(d) \/ Finish(d)
    PROVE  TypeInv'
<1> DEFINE k == drain[d].key
<1>1. /\ k \in Keys /\ drain[d] \in DrainType /\ file[k] \in FileType
      /\ \A t \in DrainType : t.key = k => Workers(running, again, [drain EXCEPT ![d] = t])
  BY DrainStep DEF Tool, Finish
<1>2. UNCHANGED <<row, world, running, again, sub, agenda, timer, resume, worked>>
  BY DEF Tool, Finish
<1>3. clock \in 1..MaxTime
  BY DEF TypeInv, World
<1>4. PICK g \in FileType : file' = [file EXCEPT ![k] = g]
  <2>1. CASE Tool(d)
    <3>1. PICK t \in {"wait", "wake_at", "resolve", "finish", "note"} : file' = [file EXCEPT ![k] = Tooled(file[k], t)]
      BY <2>1 DEF Tool
    <3> QED BY <1>1, <1>3, <3>1, TooledFacts
  <2>2. CASE Finish(d)
    <3>1. drain[d].failed \in BOOLEAN
      BY <1>1 DEF DrainType
    <3>2. Finished(file[k], drain[d].failed) \in FileType
      BY <1>1, <1>3, <3>1, FinishedFacts
    <3> QED BY <2>2, <3>2 DEF Finish
  <2> QED BY <2>1, <2>2
<1>5. Files'
  BY <1>1, <1>2, <1>4 DEF TypeInv, Files
<1>6. Row(file'[k]) \in RowType
  BY <1>1, <1>5, RowTypes DEF Files
<1>7. PICK t \in DrainType : t.key = k /\ drain' = [drain EXCEPT ![d] = t]
  <2> DEFINE r == Row(file'[k])
  <2>1. r \in RowType /\ drain \in [Drains -> DrainType]
    BY <1>6 DEF TypeInv, Workers
  <2>2. CASE Tool(d)
    <3>1. drain' = [drain EXCEPT ![d] = Called(drain[d], r)]
      BY <2>2 DEF Tool
    <3> HIDE DEF r
    <3> QED BY <1>1, <2>1, <3>1, CalledFacts
  <2>3. CASE Finish(d)
    <3>1. drain' = [drain EXCEPT ![d] = [@ EXCEPT !.pc = "finished", !.row = r]]
      BY <2>3 DEF Finish
    <3> HIDE DEF r
    <3>2. drain'[d] \in DrainType /\ drain'[d].key = k
      BY <1>1, <2>1, <3>1 DEF DrainType, DrainPcs
    <3>3. drain' = [drain EXCEPT ![d] = drain'[d]]
      BY <2>1, <3>1
    <3> QED BY <3>2, <3>3
  <2> QED BY <2>2, <2>3
<1> HIDE DEF k
<1>8. Workers(running', again', drain')
  BY <1>1, <1>2, <1>7
<1> QED BY <1>2, <1>5, <1>8 DEF TypeInv, World, world, Calls, Agenda, Timers, Resuming

\* The end of a turn, and the end of a drain.
LEMMA EndTypes ==
    ASSUME TypeInv, NEW d \in Drains, Turned(d) \/ Exit(d)
    PROVE  TypeInv'
<1> DEFINE k == drain[d].key
<1>1. /\ k \in Keys /\ drain[d] \in DrainType
      /\ \A t \in DrainType : t.key = k => Workers(running, again, [drain EXCEPT ![d] = t])
  BY DrainStep DEF Turned, Exit
<1>2. UNCHANGED <<durable, world, sub, agenda, timer, resume, worked>>
  BY DEF Turned, Exit
<1> HIDE DEF k
<1>3. Workers(running', again', drain')
  <2>1. CASE Turned(d)
    <3>1. PICK error \in BOOLEAN : drain' = [drain EXCEPT ![d] = [@ EXCEPT !.pc = "finish", !.failed = error]]
      BY <2>1 DEF Turned
    <3> DEFINE t == [drain[d] EXCEPT !.pc = "finish", !.failed = error]
    <3>2. drain' = [drain EXCEPT ![d] = t]
      BY <3>1
    <3>3. t \in DrainType /\ t.key = k
      BY <1>1 DEF DrainType, DrainPcs, k
    <3> HIDE DEF t
    <3> QED BY <1>1, <2>1, <3>2, <3>3 DEF Turned
  <2>2. CASE Exit(d)
    <3> DEFINE rest == [drain EXCEPT ![d] = NoDrain]
    <3>1. Workers(running \ {k}, again \ {k}, rest)
      <4>1. NoDrain \in DrainType /\ NoDrain.pc = "none"
        BY NoDrainType DEF NoDrain
      <4>2. drain[d].pc # "none" /\ Workers(running, again, drain)
        BY <2>2 DEF Exit, TypeInv
      <4> QED BY <4>1, <4>2 DEF Workers, k
    <3>2. CASE k \in again
      <4>1. Schedule(k, running \ {k}, again \ {k}, rest)
        BY <2>2, <3>2 DEF Exit, k
      <4> HIDE DEF rest
      <4> QED BY <1>1, <3>1, <4>1, ScheduleFacts
    <3>3. CASE k \notin again
      <4>1. running' = running \ {k} /\ drain' = rest /\ again' = again
        BY <2>2, <3>3 DEF Exit, k
      <4>2. again \ {k} = again
        BY <3>3
      <4> HIDE DEF rest
      <4> QED BY <3>1, <4>1, <4>2
    <3> QED BY <3>2, <3>3
  <2> QED BY <2>1, <2>2
<1> QED BY <1>2, <1>3 DEF TypeInv, Files, World, world, durable, Calls, Agenda, Timers, Resuming

TimerType == [pc : {"off", "rebuild", "idle", "clear", "cleared", "submit", "submitted"},
              key : Keys \cup {None}, due : Nat, row : RowType]

\* The timer loop at rest, or about to do something for a case.
LEMMA TimerFacts ==
    Off \in TimerType /\ [Off EXCEPT !.pc = "idle"] \in TimerType /\ [Off EXCEPT !.pc = "rebuild"] \in TimerType
BY RowTypes DEF Off, TimerType

LEMMA RingFacts ==
    ASSUME NEW k \in Keys, NEW t \in 1..MaxTime
    PROVE  [pc |-> "clear", key |-> k, due |-> t, row |-> NoRow] \in TimerType
<1>1. t \in Nat
  BY DeskAssumption
<1> QED BY <1>1, RowTypes DEF TimerType

LEMMA LookTypes ==
    ASSUME TypeInv, Rebuild \/ Pop
    PROVE  TypeInv'
<1>1. UNCHANGED <<durable, world, worker, sub, resume, worked>>
  BY DEF Rebuild, Pop
<1>2. Agenda'
  <2>1. CASE Rebuild
    <3>1. ASSUME NEW k \in Keys, row[k].wake # 0
          PROVE  <<row[k].wake, k>> \in (1..(MaxTime + 1)) \X Keys
      <4>1. row[k] \in RowType
        BY DEF TypeInv, Files
      <4>2. MaxTime \in Nat
        BY DeskAssumption
      <4> QED BY <3>1, <4>1, <4>2 DEF RowType
    <3> QED BY <2>1, <3>1 DEF Rebuild, TypeInv, Agenda
  <2>2. CASE Pop
    BY <2>2 DEF Pop, TypeInv, Agenda
  <2> QED BY <2>1, <2>2
<1>3. Timers'
  <2>1. CASE timer' = [Off EXCEPT !.pc = "idle"]
    BY <2>1, TimerFacts DEF Timers, TimerType, Off
  <2>2. CASE timer' = timer
    BY <2>2 DEF TypeInv, Timers
  <2>3. ASSUME NEW w \in agenda, w[1] <= clock, timer' = [Off EXCEPT !.pc = "clear", !.key = w[2], !.due = w[1]]
        PROVE  Timers'
    <3>1. w[1] \in 1..MaxTime /\ w[2] \in Keys
      <4>1. w \in (1..(MaxTime + 1)) \X Keys /\ clock \in 1..MaxTime /\ MaxTime \in Nat
        BY DeskAssumption DEF TypeInv, Agenda, World
      <4> QED BY <2>3, <4>1
    <3>2. PICK k \in Keys, t \in 1..MaxTime : timer' = [Off EXCEPT !.pc = "clear", !.key = k, !.due = t]
      BY <2>3, <3>1
    <3>3. timer' = [pc |-> "clear", key |-> k, due |-> t, row |-> NoRow]
      BY <3>2 DEF Off
    <3>4. timer' \in TimerType
      BY <3>3, RingFacts
    <3> QED BY <3>3, <3>4 DEF Timers, TimerType
  <2>4. CASE Rebuild
    BY <2>1, <2>4 DEF Rebuild
  <2>5. CASE Pop
    BY <2>2, <2>3, <2>5 DEF Pop
  <2> QED BY <2>4, <2>5
<1> QED BY <1>1, <1>2, <1>3 DEF TypeInv, Files, World, world, durable, worker, Calls, Resuming

LEMMA RingTypes ==
    ASSUME TypeInv, Clear \/ ClearRow \/ TimerFile \/ TimerRow
    PROVE  TypeInv'
<1> DEFINE k == timer.key
<1>1. /\ k \in Keys /\ timer.due \in 1..MaxTime /\ timer \in TimerType
      /\ file[k] \in FileType /\ timer.row \in RowType
  <2>1. timer.key \in Keys /\ timer.due \in 1..MaxTime /\ timer \in TimerType
    BY DEF TypeInv, Timers, TimerType, Clear, ClearRow, TimerFile, TimerRow
  <2>2. timer.row \in RowType
    BY <2>1 DEF TimerType
  <2> QED BY <2>1, <2>2 DEF TypeInv, Files
<1> HIDE DEF k
<1>2. CASE Clear
  <2> DEFINE g == [file[k] EXCEPT !.wake = 0]
             t == [timer EXCEPT !.pc = "cleared", !.row = Row(file'[k])]
  <2>1. /\ file' = [file EXCEPT ![k] = g] /\ timer' = t
        /\ UNCHANGED <<row, world, worker, sub, agenda, resume, worked>>
    BY <1>2 DEF Clear, k
  <2>2. g \in FileType
    <3>1. 0 \in 0..(MaxTime + 1)
      BY DeskAssumption
    <3> QED BY <1>1, <3>1 DEF FileType
  <2> HIDE DEF g
  <2>3. Files'
    BY <1>1, <2>1, <2>2 DEF TypeInv, Files
  <2>4. Timers'
    <3>1. Row(file'[k]) \in RowType
      BY <1>1, <2>3, RowTypes DEF Files
    <3>2. t \in TimerType /\ t.key = timer.key /\ t.due = timer.due
      BY <1>1, <3>1 DEF TimerType
    <3> HIDE DEF t
    <3> QED BY <1>1, <2>1, <3>2 DEF Timers, TimerType, k
  <2> QED BY <2>1, <2>3, <2>4 DEF TypeInv, World, world, worker, Calls, Agenda, Resuming
<1>3. CASE ClearRow
  <2> DEFINE t == [timer EXCEPT !.pc = "submit", !.row = NoRow]
  <2>1. /\ Index(k, timer.row) /\ timer' = t
        /\ UNCHANGED <<file, world, worker, sub, resume, worked>>
    BY <1>3 DEF ClearRow, k
  <2>2. row' \in [Keys -> RowType] /\ Agenda'
    BY <1>1, <2>1, IndexTypes DEF TypeInv, Files
  <2>3. t \in TimerType /\ t.key = timer.key /\ t.due = timer.due
    BY <1>1, RowTypes DEF TimerType
  <2> HIDE DEF t
  <2>4. Timers'
    BY <1>1, <2>1, <2>3 DEF Timers, TimerType, k
  <2> QED BY <2>1, <2>2, <2>4 DEF TypeInv, Files, World, world, worker, Calls, Resuming
<1>4. CASE TimerFile
  <2> DEFINE v == Timer(k, timer.due)
             t == [timer EXCEPT !.pc = "submitted", !.row = Row(file'[k])]
  <2>1. v \in Values
    BY <1>1, DeliveryTypes
  <2>2. /\ UNCHANGED <<row, world, worker, sub, agenda, resume, worked>>
        /\ \/ file' = [file EXCEPT ![k] = Filed(k, v)] /\ timer' = t
           \/ file' = file /\ timer' = [Off EXCEPT !.pc = "idle"]
    BY <1>4 DEF TimerFile, k
  <2> HIDE DEF v
  <2>3. Files'
    <3>1. Filed(k, v) \in FileType
      BY <1>1, <2>1, FiledFacts
    <3> QED BY <1>1, <2>2, <3>1 DEF TypeInv, Files
  <2>4. Timers'
    <3>1. Row(file'[k]) \in RowType
      BY <1>1, <2>3, RowTypes DEF Files
    <3>2. t \in TimerType /\ t.key = timer.key /\ t.due = timer.due
      BY <1>1, <3>1 DEF TimerType
    <3> HIDE DEF t
    <3>3. CASE timer' = t
      BY <1>1, <3>2, <3>3 DEF Timers, TimerType, k
    <3>4. CASE timer' = [Off EXCEPT !.pc = "idle"]
      BY <3>4, TimerFacts DEF Timers, TimerType, Off
    <3> QED BY <2>2, <3>3, <3>4
  <2> QED BY <2>2, <2>3, <2>4 DEF TypeInv, World, world, worker, Calls, Agenda, Resuming
<1>5. CASE TimerRow
  <2>1. /\ Index(k, timer.row) /\ Schedule(k, running, again, drain) /\ timer' = [Off EXCEPT !.pc = "idle"]
        /\ UNCHANGED <<file, world, sub, resume, worked>>
    BY <1>5 DEF TimerRow, k
  <2>2. row' \in [Keys -> RowType] /\ Agenda'
    BY <1>1, <2>1, IndexTypes DEF TypeInv, Files
  <2>3. Workers(running', again', drain')
    BY <1>1, <2>1, ScheduleFacts DEF TypeInv
  <2>4. Timers'
    BY <2>1, TimerFacts DEF Timers, TimerType, Off
  <2> QED BY <2>1, <2>2, <2>3, <2>4 DEF TypeInv, Files, World, world, Calls, Resuming
<1> QED BY <1>2, <1>3, <1>4, <1>5

LEMMA ResumeTypes ==
    ASSUME TypeInv, ResumeList \/ ResumeCase
    PROVE  TypeInv'
<1>1. CASE ResumeList
  BY <1>1 DEF ResumeList, Listed, TypeInv, Files, World, world, durable, worker, Calls, Agenda, Timers, Resuming
<1>2. CASE ResumeCase
  <2>1. PICK k \in resume.todo : /\ resume' = [resume EXCEPT !.todo = @ \ {k}]
                                 /\ Schedule(k, running, again, drain) \/ UNCHANGED worker
    BY <1>2 DEF ResumeCase
  <2>2. k \in Keys /\ Resuming'
    BY <2>1 DEF TypeInv, Resuming
  <2>3. Workers(running', again', drain')
    BY <2>1, <2>2, ScheduleFacts DEF TypeInv, worker
  <2> QED BY <1>2, <2>2, <2>3 DEF ResumeCase, TypeInv, Files, World, world, durable, Calls, Agenda, Timers
<1> QED BY <1>1, <1>2

LEMMA StopTypes ==
    ASSUME TypeInv, Stop \/ Start \/ Tick
    PROVE  TypeInv'
<1>1. CASE Stop
  <2>1. Files' /\ Agenda' /\ Resuming' /\ worked' \in [Values -> Nat]
    BY <1>1 DEF Stop, durable, TypeInv, Files, Agenda, Resuming
  <2>2. World'
    <3>1. stops \in 0..MaxStops /\ stops < MaxStops /\ stops' = stops + 1 /\ MaxStops \in Nat
      BY <1>1, DeskAssumption DEF Stop, TypeInv, World
    <3>2. stops' \in 0..MaxStops
      BY <3>1
    <3>3. up' = FALSE /\ faulty' = FALSE /\ clock' = clock /\ clock \in 1..MaxTime
      BY <1>1 DEF Stop, TypeInv, World
    <3> QED BY <3>2, <3>3 DEF World
  <2>3. Calls'
    BY <1>1, RowTypes DEF Stop, TypeInv, Calls, NoSub
  <2>4. Timers'
    BY <1>1, TimerFacts DEF Stop, Timers, TimerType, Off
  <2>5. Workers(running', again', drain')
    BY <1>1, NoDrainType DEF Stop, Workers, NoDrain
  <2> QED BY <2>1, <2>2, <2>3, <2>4, <2>5 DEF TypeInv
<1>2. CASE Start
  <2>1. Timers'
    BY <1>2, TimerFacts DEF Start, Timers, TimerType, Off
  <2> QED BY <1>2, <2>1 DEF Start, durable, worker, TypeInv, Files, World, Calls, Agenda, Resuming
<1>3. CASE Tick
  <2>1. World'
    BY <1>3, DeskAssumption DEF Tick, TypeInv, World
  <2> QED BY <1>3, <2>1 DEF Tick, durable, worker, TypeInv, Files, Calls, Agenda, Timers, Resuming
<1> QED BY <1>1, <1>2, <1>3

\* What the failure of a call makes of the drains.
LEMMA FaultDrains ==
    ASSUME TypeInv, Fault, drain' # drain
    PROVE  \E d \in Drains, t \in DrainType :
              /\ drain[d].pc # "none" /\ t.key = drain[d].key /\ t.pc \in {"exit", "work"}
              /\ drain' = [drain EXCEPT ![d] = t]
              /\ HasSlot(d) \/ Cardinality(Busy) < MaxConcurrent
<1>1. CASE \E d \in Drains : /\ \/ drain[d].pc \in {"index", "finish", "finished"}
                                \/ drain[d].pc = "take" /\ Cardinality(Busy) < MaxConcurrent
                             /\ drain' = [drain EXCEPT ![d] = [NoDrain EXCEPT !.pc = "exit", !.key = drain[d].key]]
  <2>1. PICK d \in Drains : /\ \/ drain[d].pc \in {"index", "finish", "finished"}
                               \/ drain[d].pc = "take" /\ Cardinality(Busy) < MaxConcurrent
                            /\ drain' = [drain EXCEPT ![d] = [NoDrain EXCEPT !.pc = "exit", !.key = drain[d].key]]
    BY <1>1
  <2> DEFINE t == [NoDrain EXCEPT !.pc = "exit", !.key = drain[d].key]
  <2>2. drain[d].key \in Keys
    BY <2>1, DrainStep
  <2>3. t \in DrainType /\ t.key = drain[d].key /\ t.pc = "exit"
    BY <2>2, NoDrainType DEF DrainType, DrainPcs, NoDrain
  <2> HIDE DEF t
  <2> QED BY <2>1, <2>3 DEF t, HasSlot
<1>2. CASE \E d \in Drains : /\ drain[d].pc = "tool"
                             /\ drain' = [drain EXCEPT ![d] = [@ EXCEPT !.pc = "work", !.row = NoRow]]
  <2>1. PICK d \in Drains : /\ drain[d].pc = "tool"
                            /\ drain' = [drain EXCEPT ![d] = [@ EXCEPT !.pc = "work", !.row = NoRow]]
    BY <1>2
  <2> DEFINE t == [drain[d] EXCEPT !.pc = "work", !.row = NoRow]
  <2>2. drain[d] \in DrainType
    BY <2>1, DrainStep
  <2>3. t \in DrainType /\ t.key = drain[d].key /\ t.pc = "work"
    BY <2>2, RowTypes DEF DrainType, DrainPcs
  <2>4. drain' = [drain EXCEPT ![d] = t]
    BY <2>1
  <2> HIDE DEF t
  <2> QED BY <2>1, <2>3, <2>4 DEF HasSlot
<1> QED BY <1>1, <1>2 DEF Fault

LEMMA FaultTypes ==
    ASSUME TypeInv, Fault
    PROVE  TypeInv'
<1>1. faulty' = TRUE /\ UNCHANGED <<durable, clock, up, stops, running, again, agenda, worked>>
  BY DEF Fault
<1>2. Workers(running', again', drain')
  <2>1. CASE drain' = drain
    BY <1>1, <2>1 DEF TypeInv
  <2>2. CASE drain' # drain
    <3>1. PICK d \in Drains, t \in DrainType : /\ drain[d].pc # "none" /\ t.key = drain[d].key
                                               /\ drain' = [drain EXCEPT ![d] = t]
      BY <2>2, FaultDrains
    <3> QED BY <1>1, <3>1, DrainStep
  <2> QED BY <2>1, <2>2
<1>3. Calls'
  BY RowTypes DEF Fault, TypeInv, Calls, NoSub
<1>4. Timers'
  <2>1. timer' = timer \/ timer' = Off
    BY DEF Fault
  <2>2. CASE timer' = timer
    BY <2>2 DEF TypeInv, Timers
  <2>3. CASE timer' = Off
    BY <2>3, TimerFacts DEF Timers, TimerType, Off
  <2> QED BY <2>1, <2>2, <2>3
<1>5. Resuming'
  <2>1. resume' = resume \/ resume' = [pc |-> "off", todo |-> {}]
    BY DEF Fault
  <2> QED BY <2>1 DEF TypeInv, Resuming
<1> QED BY <1>1, <1>2, <1>3, <1>4, <1>5 DEF TypeInv, Files, World, durable, Agenda

LEMMA TypeStep == TypeInv /\ [Next]_vars => TypeInv'
<1> SUFFICES ASSUME TypeInv, [Next]_vars PROVE TypeInv'
  OBVIOUS
<1>1. CASE UNCHANGED vars
  BY <1>1 DEF vars, TypeInv, Files, World, Calls, Agenda, Timers, Resuming, Workers
<1>2. ASSUME NEW s \in Submits, SubmitFile(s) \/ SubmitRow(s) PROVE TypeInv'
  BY <1>2, SubmitTypes
<1>3. ASSUME NEW d \in Drains, Work(d) PROVE TypeInv'
  BY <1>3, TakeTypes, RowTypesKept, TurnTypes, EndTypes DEF Work
<1>4. CASE TimerLoop
  BY <1>4, LookTypes, RingTypes DEF TimerLoop
<1>5. CASE Resume
  BY <1>5, ResumeTypes DEF Resume
<1>6. CASE Stop \/ Start \/ Tick
  BY <1>6, StopTypes
<1>7. CASE Fault
  BY <1>7, FaultTypes
<1> QED BY <1>1, <1>2, <1>3, <1>4, <1>5, <1>6, <1>7 DEF Next

LEMMA TypesHold == TypeInv => TypeOK
<1> SUFFICES ASSUME TypeInv PROVE TypeOK
  OBVIOUS
<1>1. ASSUME NEW k \in Keys
      PROVE  /\ Row(file[k]) \in RowType /\ row[k] \in RowType
             /\ Elems(file[k].pending) \subseteq Values /\ file[k].seen \subseteq Values
             /\ Len(file[k].pending) <= MaxPending /\ file[k].errors \in 0..MaxErrors
  <2>1. file[k] \in FileType /\ row[k] \in RowType
    BY DEF TypeInv, Files
  <2> QED BY <2>1, RowTypes DEF FileType, Elems
<1>2. ASSUME NEW d \in Drains
      PROVE  /\ drain[d].pc \in DrainPcs /\ drain[d].row \in RowType
             /\ drain[d].pc # "none" => drain[d].key \in running
  BY DEF TypeInv, Workers, DrainType
<1>3. /\ clock \in 1..MaxTime /\ up \in BOOLEAN /\ stops \in 0..MaxStops /\ faulty \in BOOLEAN
      /\ running \subseteq Keys /\ again \subseteq running
      /\ agenda \subseteq (1..(MaxTime + 1)) \X Keys
  BY DEF TypeInv, World, Workers, Agenda
<1>4. /\ timer.pc \in {"off", "rebuild", "idle", "clear", "cleared", "submit", "submitted"} /\ timer.row \in RowType
      /\ resume.pc \in {"start", "cases", "off"} /\ resume.todo \subseteq Keys
  BY DEF TypeInv, Timers, Resuming
<1>5. \A s \in Submits : sub[s].pc \in {"idle", "row", "done"} /\ sub[s].row \in RowType
  BY DEF TypeInv, Calls
<1> QED BY <1>1, <1>2, <1>3, <1>4, <1>5 DEF TypeOK

LEMMA TypesAlways == Spec => []TypeInv
<1>1. Init => TypeInv
  BY TypeInit
<1>2. TypeInv /\ [Next]_vars => TypeInv'
  BY TypeStep
<1> QED BY <1>1, <1>2, PTL DEF Spec

\* Files, rows, tasks, calls and the agenda keep their types, and the tasks and
\* the requests to look again are about running cases, for any numbers of cases,
\* events and deliveries, and any limits.
THEOREM DeskTypes == Spec => []TypeOK
<1>1. TypeInv => TypeOK
  BY TypesHold
<1> QED BY <1>1, TypesAlways, PTL

-----------------------------------------------------------------------------
(* How a step changes the drains.                                          *)

\* No drain takes events or a slot.
Settles == /\ \A d \in Drains : drain'[d].pc = "index" => drain'[d] = drain[d]
           /\ Busy' \subseteq Busy

LEMMA SettledBySchedule ==
    ASSUME NEW k \in Keys, TypeInv, Schedule(k, running, again, drain)
    PROVE  Settles
<1>1. \A d \in Drains : drain'[d] = drain[d] \/ drain'[d].pc = "take"
  BY ScheduleFacts DEF TypeInv
<1> QED BY <1>1 DEF Settles, Busy, HasSlot

LEMMA SettledByDrain ==
    ASSUME TypeInv, NEW d \in Drains, Work(d), ~Take(d)
    PROVE  Settles
<1>1. drain \in [Drains -> DrainType]
  BY DEF TypeInv, Workers
<1>2. CASE Exit(d)
  <2> DEFINE k == drain[d].key
             rest == [drain EXCEPT ![d] = NoDrain]
  <2>1. k \in Keys /\ Workers(running, again, drain)
    BY <1>2, DrainStep DEF Exit, TypeInv
  <2>2. rest[d].pc = "none" /\ \A e \in Drains \ {d} : rest[e] = drain[e]
    BY <1>1 DEF NoDrain
  <2>3. CASE k \in again
    <3>1. Workers(running \ {k}, again \ {k}, rest)
      <4>1. NoDrain \in DrainType /\ NoDrain.pc = "none"
        BY NoDrainType DEF NoDrain
      <4> QED BY <1>2, <2>1, <4>1 DEF Workers, Exit
    <3>2. Schedule(k, running \ {k}, again \ {k}, rest)
      BY <1>2, <2>3 DEF Exit
    <3> HIDE DEF rest, k
    <3>3. \A e \in Drains : drain'[e] = rest[e] \/ drain'[e].pc = "take"
      BY <2>1, <3>1, <3>2, ScheduleFacts
    <3> QED BY <2>2, <3>3 DEF Settles, Busy, HasSlot
  <2>4. CASE k \notin again
    <3>1. drain' = rest
      BY <1>2, <2>4 DEF Exit
    <3>2. \A e \in Drains : drain'[e] = drain[e] \/ drain'[e].pc = "none"
      BY <2>2, <3>1
    <3> HIDE DEF rest, k
    <3>3. \A e \in Drains : drain'[e].pc = "index" => drain'[e] = drain[e]
      BY <3>2
    <3>4. \A e \in Drains : HasSlot(e)' => HasSlot(e)
      BY <3>2 DEF HasSlot
    <3> QED BY <3>3, <3>4 DEF Settles, Busy
  <2> QED BY <2>3, <2>4
<1>3. CASE ~Exit(d)
  <2>1. HasSlot(d) /\ drain'[d].pc \in {"work", "tool", "finish", "finished", "take"}
    <3>1. CASE Begin(d) \/ ToolRow(d) \/ FinishRow(d)
      BY <1>1, <3>1 DEF Begin, ToolRow, FinishRow, HasSlot, NoDrain, DrainType
    <3>2. CASE Turned(d) \/ Finish(d)
      BY <1>1, <3>2 DEF Turned, Finish, HasSlot, DrainType
    <3>3. CASE Tool(d)
      <4>1. drain[d].pc = "work" /\ drain' = [drain EXCEPT ![d] = Called(drain[d], Row(file'[drain[d].key]))]
        BY <3>3 DEF Tool
      <4>2. Called(drain[d], Row(file'[drain[d].key])).pc = "tool"
        BY <1>1 DEF Called, DrainType
      <4> QED BY <1>1, <4>1, <4>2 DEF HasSlot
    <3> QED BY <1>3, <3>1, <3>2, <3>3 DEF Work
  <2>2. \A e \in Drains \ {d} : drain'[e] = drain[e]
    <3>1. CASE Begin(d) \/ ToolRow(d) \/ FinishRow(d)
      BY <1>1, <3>1 DEF Begin, ToolRow, FinishRow
    <3>2. CASE Turned(d) \/ Finish(d)
      BY <1>1, <3>2 DEF Turned, Finish
    <3>3. CASE Tool(d)
      BY <1>1, <3>3 DEF Tool
    <3> QED BY <1>3, <3>1, <3>2, <3>3 DEF Work
  <2> QED BY <2>1, <2>2 DEF Settles, Busy, HasSlot
<1> QED BY <1>2, <1>3

\* Every step but Take and Fault settles.
LEMMA Settled ==
    ASSUME TypeInv, [Next]_vars
    PROVE  Settles \/ Fault \/ \E d \in Drains : Take(d)
<1>1. ASSUME drain' = drain PROVE Settles
  BY <1>1 DEF Settles, Busy, HasSlot
<1>2. ASSUME NEW s \in Submits, SubmitFile(s) \/ SubmitRow(s) PROVE Settles
  <2>1. CASE SubmitFile(s)
    <3>1. drain' = drain
      BY <2>1 DEF SubmitFile, worker
    <3> QED BY <1>1, <3>1
  <2>2. CASE SubmitRow(s)
    BY <2>2, DeliveryTypes, SettledBySchedule DEF SubmitRow
  <2> QED BY <1>2, <2>1, <2>2
<1>3. ASSUME NEW d \in Drains, Work(d) PROVE Settles \/ Take(d)
  BY <1>3, SettledByDrain
<1>4. CASE TimerLoop
  <2>1. CASE TimerRow
    <3>1. timer.key \in Keys
      BY <2>1 DEF TypeInv, Timers, TimerRow
    <3> QED BY <2>1, <3>1, SettledBySchedule DEF TimerRow
  <2>2. CASE ~TimerRow
    <3>1. drain' = drain
      BY <1>4, <2>2 DEF TimerLoop, Rebuild, Pop, Clear, ClearRow, TimerFile, worker
    <3> QED BY <1>1, <3>1
  <2> QED BY <2>1, <2>2
<1>5. CASE Resume
  <2>1. CASE ResumeList
    <3>1. drain' = drain
      BY <2>1 DEF ResumeList, worker
    <3> QED BY <1>1, <3>1
  <2>2. CASE ResumeCase
    <3>1. PICK k \in resume.todo : Schedule(k, running, again, drain) \/ UNCHANGED worker
      BY <2>2 DEF ResumeCase
    <3>2. k \in Keys
      BY <3>1 DEF TypeInv, Resuming
    <3> QED BY <1>1, <3>1, <3>2, SettledBySchedule DEF worker
  <2> QED BY <1>5, <2>1, <2>2 DEF Resume
<1>6. CASE Stop
  BY <1>6 DEF Stop, NoDrain, Settles, Busy, HasSlot
<1>7. CASE Start \/ Tick \/ UNCHANGED vars
  <2>1. drain' = drain
    BY <1>7 DEF Start, Tick, vars, worker
  <2> QED BY <1>1, <2>1
<1> QED BY <1>2, <1>3, <1>4, <1>5, <1>6, <1>7 DEF Next

-----------------------------------------------------------------------------
(* Slots.                                                                  *)

Slots == Cardinality(Busy) <= MaxConcurrent

LEMMA BusyFinite == IsFiniteSet(Busy) /\ Cardinality(Busy) \in Nat
<1>1. Cardinality(Keys) \in Nat
  BY DeskAssumption, FS_CardinalityType
<1>2. IsFiniteSet(Drains)
  BY <1>1, FS_Interval DEF Drains
<1>3. IsFiniteSet(Busy)
  BY <1>2, FS_Subset DEF Busy
<1> QED BY <1>3, FS_CardinalityType

LEMMA SlotsStep == TypeInv /\ Slots /\ [Next]_vars => Slots'
<1> SUFFICES ASSUME TypeInv, Slots, [Next]_vars PROVE Slots'
  OBVIOUS
<1>1. IsFiniteSet(Busy) /\ Cardinality(Busy) \in Nat /\ MaxConcurrent \in Nat
  BY BusyFinite, DeskAssumption
<1>2. drain \in [Drains -> DrainType]
  BY DEF TypeInv, Workers
<1>3. CASE Busy' \subseteq Busy
  <2>1. Cardinality(Busy') <= Cardinality(Busy)
    BY <1>1, <1>3, FS_Subset
  <2>2. Cardinality(Busy') \in Nat
    BY <1>1, <1>3, FS_Subset, FS_CardinalityType
  <2> QED BY <1>1, <2>1, <2>2 DEF Slots
<1>4. ASSUME NEW d \in Drains, Busy' \subseteq Busy \cup {d}, Cardinality(Busy) < MaxConcurrent
      PROVE  Slots'
  <2>1. IsFiniteSet(Busy \cup {d}) /\ Cardinality(Busy \cup {d}) <= Cardinality(Busy) + 1 /\ Cardinality(Busy \cup {d}) \in Nat
    BY <1>1, FS_AddElement, FS_CardinalityType
  <2>2. Cardinality(Busy') <= Cardinality(Busy \cup {d}) /\ Cardinality(Busy') \in Nat
    BY <1>4, <2>1, FS_Subset, FS_CardinalityType
  <2> QED BY <1>1, <1>4, <2>1, <2>2 DEF Slots
<1>5. ASSUME NEW d \in Drains, Take(d) PROVE Slots'
  <2>1. Cardinality(Busy) < MaxConcurrent /\ \A e \in Drains \ {d} : drain'[e] = drain[e]
    BY <1>2, <1>5 DEF Take
  <2>2. Busy' \subseteq Busy \cup {d}
    BY <2>1 DEF Busy, HasSlot
  <2> QED BY <1>4, <2>1, <2>2
<1>6. CASE Fault
  <2>1. CASE drain' = drain
    BY <1>3, <2>1 DEF Busy, HasSlot
  <2>2. CASE drain' # drain
    <3>1. PICK d \in Drains, t \in DrainType : /\ drain' = [drain EXCEPT ![d] = t]
                                               /\ HasSlot(d) \/ Cardinality(Busy) < MaxConcurrent
      BY <1>6, <2>2, FaultDrains
    <3>2. \A e \in Drains \ {d} : drain'[e] = drain[e]
      BY <1>2, <3>1
    <3>3. Busy' \subseteq Busy \cup {d}
      BY <3>2 DEF Busy, HasSlot
    <3>4. CASE HasSlot(d)
      BY <1>3, <3>3, <3>4 DEF Busy
    <3>5. CASE Cardinality(Busy) < MaxConcurrent
      BY <1>4, <3>3, <3>5
    <3> QED BY <3>1, <3>4, <3>5
  <2> QED BY <2>1, <2>2
<1> QED BY <1>3, <1>5, <1>6, Settled DEF Settles

\* Work on a case is strictly serial, and fits the slots, whatever deliveries,
\* timers, resumption, restarts and store failures do.
THEOREM WorkIsSerial == Spec => []SerialWork
<1>1. Init => Slots
  <2> SUFFICES ASSUME Init PROVE Slots
    OBVIOUS
  <2>1. Busy = {}
    BY DEF Init, NoDrain, Busy, HasSlot
  <2> QED BY <2>1, FS_EmptySet, DeskAssumption DEF Slots
<1>2. TypeInv /\ Slots /\ [Next]_vars => Slots'
  BY SlotsStep
<1>3. TypeInv /\ Slots => SerialWork
  BY DEF TypeInv, Workers, Slots, SerialWork
<1> QED BY <1>1, <1>2, <1>3, TypesAlways, PTL DEF Spec
-----------------------------------------------------------------------------
(* No event is worked twice.                                               *)

\* Events that wait, and those that a drain took, are recorded on their case and
\* were never worked; those that were worked stay recorded.
Fresh == /\ \A k \in Keys : \A v \in Elems(file[k].pending) : v[2] = k /\ v \in file[k].seen /\ worked[v] = 0
         /\ \A d \in Drains : drain[d].pc = "index" =>
               \A v \in Elems(drain[d].events) : /\ v[2] = drain[d].key /\ v \in file[v[2]].seen /\ worked[v] = 0
                                                 /\ v \notin Elems(file[v[2]].pending)
         /\ \A v \in Values : worked[v] <= 1 /\ (worked[v] = 1 => v \in file[v[2]].seen)

\* A step that neither files, takes nor works an event.
Quiet == /\ \A k \in Keys : file'[k].pending = file[k].pending /\ file'[k].seen = file[k].seen
         /\ \A d \in Drains : drain'[d].pc = "index" => drain'[d] = drain[d]
         /\ worked' = worked

LEMMA ValueKeys ==
    /\ \A v \in Values : v[2] \in Keys
    /\ \A s \in Submits : Sent(SubmitEvent[s])[2] = EventKey[SubmitEvent[s]]
    /\ \A k \in Keys, t \in 1..MaxTime : Timer(k, t)[2] = k
BY DeskAssumption DEF Values, Sent, Timer

LEMMA EventsTyped ==
    ASSUME TypeInv
    PROVE  /\ \A k \in Keys : Elems(file[k].pending) \subseteq Values /\ file[k].pending \in Seq(Values)
           /\ \A d \in Drains : Elems(drain[d].events) \subseteq Values
<1>1. ASSUME NEW k \in Keys PROVE Elems(file[k].pending) \subseteq Values /\ file[k].pending \in Seq(Values)
  BY DEF TypeInv, Files, FileType, Elems
<1>2. ASSUME NEW d \in Drains PROVE Elems(drain[d].events) \subseteq Values
  BY DEF TypeInv, Workers, DrainType, Elems
<1> QED BY <1>1, <1>2

LEMMA FreshQuiet ==
    ASSUME TypeInv, Fresh, Quiet
    PROVE  Fresh'
<1>1. \A k \in Keys : Elems(file'[k].pending) = Elems(file[k].pending)
  BY DEF Quiet, Elems
<1>2. \A k \in Keys : \A v \in Elems(file[k].pending)' : v[2] = k /\ v \in file'[k].seen /\ worked'[v] = 0
  BY <1>1 DEF Fresh, Quiet, Elems
<1>3. ASSUME NEW d \in Drains, drain'[d].pc = "index", NEW v \in Elems(drain'[d].events)
      PROVE  /\ v[2] = drain'[d].key /\ v \in file'[v[2]].seen /\ worked'[v] = 0
             /\ v \notin Elems(file'[v[2]].pending)
  <2>1. drain'[d] = drain[d]
    BY <1>3 DEF Quiet
  <2>2. v \in Values
    BY <1>3, <2>1, EventsTyped
  <2>3. v[2] \in Keys
    BY <2>2, ValueKeys
  <2> QED BY <1>1, <1>3, <2>1, <2>3 DEF Fresh, Quiet
<1>4. \A v \in Values : worked'[v] <= 1 /\ (worked'[v] = 1 => v \in file'[v[2]].seen)
  BY ValueKeys DEF Fresh, Quiet
<1> QED BY <1>2, <1>3, <1>4 DEF Fresh, Elems

LEMMA FreshFiled ==
    ASSUME TypeInv, Fresh, NEW k \in Keys, NEW v \in Values, v[2] = k, v \notin file[k].seen,
           file' = [file EXCEPT ![k] = Filed(k, v)], drain' = drain, worked' = worked
    PROVE  Fresh'
<1>1. file \in [Keys -> FileType]
  BY DEF TypeInv, Files
<1>2. /\ file'[k].seen = file[k].seen \cup {v}
      /\ Elems(file'[k].pending) \subseteq Elems(file[k].pending) \cup {v}
      /\ \A j \in Keys \ {k} : file'[j] = file[j]
  BY <1>1, FiledFacts
<1>3. worked[v] = 0
  BY DEF Fresh, TypeInv
<1>4. ASSUME NEW j \in Keys, NEW u \in Elems(file'[j].pending)
      PROVE  u[2] = j /\ u \in file'[j].seen /\ worked'[u] = 0
  BY <1>2, <1>3, <1>4 DEF Fresh
<1>5. ASSUME NEW d \in Drains, drain'[d].pc = "index", NEW u \in Elems(drain'[d].events)
      PROVE  /\ u[2] = drain'[d].key /\ u \in file'[u[2]].seen /\ worked'[u] = 0
             /\ u \notin Elems(file'[u[2]].pending)
  <2>1. u \in Values
    BY <1>5, EventsTyped
  <2>2. u[2] \in Keys
    BY <2>1, ValueKeys
  <2>3. u # v
    BY <1>5 DEF Fresh
  <2> QED BY <1>2, <1>5, <2>2, <2>3 DEF Fresh
<1>6. \A u \in Values : worked'[u] <= 1 /\ (worked'[u] = 1 => u \in file'[u[2]].seen)
  BY <1>2, ValueKeys DEF Fresh
<1> QED BY <1>4, <1>5, <1>6 DEF Fresh, Elems

LEMMA FreshTaken ==
    ASSUME TypeInv, Fresh, NEW d \in Drains, Take(d)
    PROVE  Fresh'
<1> DEFINE k == drain[d].key
<1>1. k \in Keys /\ drain \in [Drains -> DrainType] /\ file \in [Keys -> FileType]
  BY DrainStep DEF Take, TypeInv, Workers, Files
<1>2. CASE file[k].pending = <<>>
  <2>1. drain' = [drain EXCEPT ![d].pc = "exit"] /\ UNCHANGED <<file, worked>>
    BY <1>2 DEF Take
  <2>2. Quiet
    BY <1>1, <2>1 DEF Quiet
  <2> QED BY <2>2, FreshQuiet
<1>3. CASE file[k].pending # <<>>
  <2> DEFINE t == [drain[d] EXCEPT !.pc = "index", !.events = file[k].pending, !.row = Row(file'[k])]
  <2>1. /\ file'[k].pending = <<>> /\ file'[k].seen = file[k].seen
        /\ \A j \in Keys \ {k} : file'[j] = file[j]
    BY <1>1, <1>3 DEF Take, FileType
  <2>2. /\ drain'[d].events = file[k].pending /\ drain'[d].key = k
        /\ \A e \in Drains \ {d} : drain'[e] = drain[e]
    <3>1. drain' = [drain EXCEPT ![d] = t]
      BY <1>3 DEF Take
    <3>2. drain[d] \in DrainType
      BY <1>1
    <3>3. t.events = file[k].pending /\ t.key = k
      BY <3>2 DEF DrainType
    <3> HIDE DEF t
    <3> QED BY <1>1, <3>1, <3>3
  <2>3. worked' = worked
    BY DEF Take
  <2>4. Elems(file'[k].pending) = {}
    BY <2>1 DEF Elems
  <2> HIDE DEF k
  <2>5. ASSUME NEW j \in Keys, NEW u \in Elems(file'[j].pending)
        PROVE  u[2] = j /\ u \in file'[j].seen /\ worked'[u] = 0
    BY <2>1, <2>3, <2>4, <2>5 DEF Fresh
  <2>6. ASSUME NEW e \in Drains, drain'[e].pc = "index", NEW u \in Elems(drain'[e].events)
        PROVE  /\ u[2] = drain'[e].key /\ u \in file'[u[2]].seen /\ worked'[u] = 0
               /\ u \notin Elems(file'[u[2]].pending)
    <3>1. CASE e = d
      <4>1. u \in Elems(file[k].pending)
        BY <2>2, <2>6, <3>1
      <4> QED BY <1>1, <2>1, <2>2, <2>3, <2>4, <3>1, <4>1 DEF Fresh
    <3>2. CASE e # d
      <4>1. drain'[e] = drain[e] /\ u \in Values /\ u[2] \in Keys
        BY <2>2, <2>6, <3>2, EventsTyped, ValueKeys
      <4> QED BY <2>1, <2>3, <2>4, <2>6, <4>1 DEF Fresh
    <3> QED BY <3>1, <3>2
  <2>7. \A u \in Values : worked'[u] <= 1 /\ (worked'[u] = 1 => u \in file'[u[2]].seen)
    BY <2>1, <2>3, ValueKeys DEF Fresh
  <2> QED BY <2>5, <2>6, <2>7 DEF Fresh, Elems
<1> QED BY <1>2, <1>3

LEMMA FreshBegun ==
    ASSUME TypeInv, Fresh, NEW d \in Drains, Begin(d)
    PROVE  Fresh'
<1>1. drain[d].pc = "index" /\ drain[d].key \in Keys /\ drain \in [Drains -> DrainType] /\ file' = file
  BY DrainStep DEF Begin, TypeInv, Workers
<1>2. /\ drain'[d].pc # "index"
      /\ \A e \in Drains \ {d} : drain'[e] = drain[e]
  BY <1>1 DEF Begin, NoDrain
<1>3. CASE worked' = worked
  <2>1. Quiet
    BY <1>1, <1>2, <1>3 DEF Quiet
  <2> QED BY <2>1, FreshQuiet
<1>4. CASE worked' = [v \in Values |-> worked[v] + IF v \in Elems(drain[d].events) THEN 1 ELSE 0]
  <2>1. \A v \in Values : worked[v] \in Nat
    BY DEF TypeInv
  <2>2. \A v \in Values : IF v \in Elems(drain[d].events) THEN worked'[v] = 1 ELSE worked'[v] = worked[v]
    BY <1>1, <1>4, <2>1 DEF Fresh
  <2>3. ASSUME NEW j \in Keys, NEW u \in Elems(file[j].pending)
        PROVE  u[2] = j /\ u \in file[j].seen /\ worked'[u] = 0
    <3>1. u \in Values /\ u[2] = j /\ u \in file[j].seen /\ worked[u] = 0
      BY <2>3, EventsTyped DEF Fresh
    <3>2. u \notin Elems(drain[d].events)
      BY <1>1, <3>1 DEF Fresh
    <3> QED BY <2>2, <3>1, <3>2
  <2>4. ASSUME NEW e \in Drains, drain'[e].pc = "index", NEW u \in Elems(drain'[e].events)
        PROVE  /\ u[2] = drain'[e].key /\ u \in file[u[2]].seen /\ worked'[u] = 0
               /\ u \notin Elems(file[u[2]].pending)
    <3>1. e # d /\ drain'[e] = drain[e] /\ drain[e].pc = "index" /\ u \in Values
      BY <1>2, <2>4, EventsTyped
    <3>2. u[2] = drain[e].key /\ drain[e].key # drain[d].key
      BY <1>1, <2>4, <3>1 DEF Fresh, TypeInv, Workers
    <3>3. u \notin Elems(drain[d].events)
      BY <1>1, <3>2 DEF Fresh
    <3> QED BY <2>2, <2>4, <3>1, <3>3 DEF Fresh
  <2>5. \A u \in Values : worked'[u] <= 1 /\ (worked'[u] = 1 => u \in file[u[2]].seen)
    BY <1>1, <2>1, <2>2 DEF Fresh
  <2>6. (\A j \in Keys : \A u \in Elems(file[j].pending) : u[2] = j /\ u \in file[j].seen /\ worked[u] = 0)'
    BY <1>1, <2>3
  <2>7. (\A e \in Drains : drain[e].pc = "index" =>
            \A u \in Elems(drain[e].events) : /\ u[2] = drain[e].key /\ u \in file[u[2]].seen /\ worked[u] = 0
                                              /\ u \notin Elems(file[u[2]].pending))'
    BY <1>1, <2>4
  <2>8. (\A u \in Values : worked[u] <= 1 /\ (worked[u] = 1 => u \in file[u[2]].seen))'
    BY <1>1, <2>5
  <2> QED BY <2>6, <2>7, <2>8 DEF Fresh
<1>5. worked' = worked \/ worked' = [v \in Values |-> worked[v] + IF v \in Elems(drain[d].events) THEN 1 ELSE 0]
  BY DEF Begin
<1> QED BY <1>3, <1>4, <1>5

\* What keeps a file's events and receipts.
LEMMA QuietFiles ==
    ASSUME TypeInv, NEW k \in Keys, NEW g \in FileType, file' = [file EXCEPT ![k] = g],
           g.pending = file[k].pending, g.seen = file[k].seen
    PROVE  \A j \in Keys : file'[j].pending = file[j].pending /\ file'[j].seen = file[j].seen
BY DEF TypeInv, Files

LEMMA QuietWork ==
    ASSUME TypeInv, NEW d \in Drains, Work(d), ~Take(d), ~Begin(d)
    PROVE  Quiet
<1>1. \A e \in Drains : drain'[e].pc = "index" => drain'[e] = drain[e]
  BY SettledByDrain DEF Settles
<1>2. worked' = worked
  BY DEF Work, Tool, ToolRow, Turned, Finish, FinishRow, Exit
<1>3. CASE file' = file
  BY <1>1, <1>2, <1>3 DEF Quiet
<1>4. CASE Tool(d) \/ Finish(d)
  <2>1. drain[d].key \in Keys /\ drain[d] \in DrainType
    BY <1>4, DrainStep DEF Tool, Finish
  <2>2. file[drain[d].key] \in FileType /\ clock \in 1..MaxTime
    BY <2>1 DEF TypeInv, Files, World
  <2>3. CASE Tool(d)
    <3>1. PICK t \in {"wait", "wake_at", "resolve", "finish", "note"} :
             file' = [file EXCEPT ![drain[d].key] = Tooled(file[drain[d].key], t)]
      BY <2>3 DEF Tool
    <3> QED BY <1>1, <1>2, <2>1, <2>2, <3>1, TooledFacts, QuietFiles DEF Quiet
  <2>4. CASE Finish(d)
    <3>1. file' = [file EXCEPT ![drain[d].key] = Finished(file[drain[d].key], drain[d].failed)]
      BY <2>4 DEF Finish
    <3>2. drain[d].failed \in BOOLEAN
      BY <2>1 DEF DrainType
    <3> QED BY <1>1, <1>2, <2>1, <2>2, <3>1, <3>2, FinishedFacts, QuietFiles DEF Quiet
  <2> QED BY <1>4, <2>3, <2>4
<1> QED BY <1>3, <1>4 DEF Work, ToolRow, Turned, FinishRow, Exit, durable

LEMMA QuietTimer ==
    ASSUME TypeInv, TimerLoop, ~TimerFile
    PROVE  Quiet
<1>1. \A e \in Drains : drain'[e].pc = "index" => drain'[e] = drain[e]
  <2>1. CASE TimerRow
    <3>1. timer.key \in Keys
      BY <2>1 DEF TypeInv, Timers, TimerRow
    <3> QED BY <2>1, <3>1, SettledBySchedule DEF TimerRow, Settles
  <2>2. CASE ~TimerRow
    <3>1. drain' = drain
      BY <2>2 DEF TimerLoop, Rebuild, Pop, Clear, ClearRow, worker
    <3> QED BY <3>1
  <2> QED BY <2>1, <2>2
<1>2. worked' = worked
  BY DEF TimerLoop, Rebuild, Pop, Clear, ClearRow, TimerRow
<1>3. CASE Clear
  <2>1. timer.key \in Keys
    BY <1>3 DEF TypeInv, Timers, Clear
  <2>2. file[timer.key] \in FileType
    BY <2>1 DEF TypeInv, Files
  <2> DEFINE g == [file[timer.key] EXCEPT !.wake = 0]
  <2>3. file' = [file EXCEPT ![timer.key] = g]
    BY <1>3 DEF Clear
  <2>4. g.pending = file[timer.key].pending /\ g.seen = file[timer.key].seen
    BY <2>2 DEF FileType
  <2>5. g \in FileType
    <3>1. 0 \in 0..(MaxTime + 1)
      BY DeskAssumption
    <3> QED BY <2>2, <3>1 DEF FileType
  <2> HIDE DEF g
  <2> QED BY <1>1, <1>2, <2>1, <2>3, <2>4, <2>5, QuietFiles DEF Quiet
<1>4. CASE ~Clear
  <2>1. file' = file
    BY <1>4 DEF TimerLoop, Rebuild, Pop, ClearRow, TimerRow, durable
  <2> QED BY <1>1, <1>2, <2>1 DEF Quiet
<1> QED BY <1>3, <1>4

\* The steps that file, take or work events, and all others.
LEMMA QuietStep ==
    ASSUME TypeInv, [Next]_vars
    PROVE  \/ Quiet \/ TimerFile
           \/ \E s \in Submits : SubmitFile(s)
           \/ \E d \in Drains : Take(d) \/ Begin(d)
<1>1. ASSUME drain' = drain, file' = file, worked' = worked PROVE Quiet
  BY <1>1 DEF Quiet
<1>2. ASSUME Settles, file' = file, worked' = worked PROVE Quiet
  BY <1>2 DEF Quiet, Settles
<1>3. ASSUME NEW s \in Submits, SubmitRow(s) PROVE Quiet
  <2>1. Settles
    BY <1>3, DeliveryTypes, SettledBySchedule DEF SubmitRow
  <2> QED BY <1>2, <1>3, <2>1 DEF SubmitRow
<1>4. ASSUME NEW d \in Drains, Work(d) PROVE Quiet \/ Take(d) \/ Begin(d)
  BY <1>4, QuietWork
<1>5. CASE TimerLoop
  BY <1>5, QuietTimer
<1>6. ASSUME Resume PROVE Quiet
  <2>1. file' = file /\ worked' = worked
    BY <1>6 DEF Resume, ResumeList, ResumeCase, durable
  <2>2. CASE drain' = drain
    BY <1>1, <2>1, <2>2
  <2>3. CASE drain' # drain
    <3>1. PICK k \in resume.todo : Schedule(k, running, again, drain)
      BY <1>6, <2>3 DEF Resume, ResumeList, ResumeCase, worker
    <3>2. k \in Keys
      BY <3>1 DEF TypeInv, Resuming
    <3> QED BY <1>2, <2>1, <3>1, <3>2, SettledBySchedule
  <2> QED BY <2>2, <2>3
<1>7. ASSUME Stop PROVE Quiet
  <2>1. \A d \in Drains : drain'[d].pc # "index"
    BY <1>7 DEF Stop, NoDrain
  <2> QED BY <1>7, <2>1 DEF Stop, durable, Quiet
<1>8. ASSUME Start \/ Tick \/ UNCHANGED vars PROVE Quiet
  <2>1. drain' = drain /\ file' = file /\ worked' = worked
    BY <1>8 DEF Start, Tick, vars, worker, durable
  <2> QED BY <1>1, <2>1
<1>9. ASSUME Fault PROVE Quiet
  <2>1. file' = file /\ worked' = worked
    BY <1>9 DEF Fault, durable
  <2>2. CASE drain' = drain
    BY <1>1, <2>1, <2>2
  <2>3. CASE drain' # drain
    <3>1. PICK d \in Drains, t \in DrainType : t.pc \in {"exit", "work"} /\ drain' = [drain EXCEPT ![d] = t]
      BY <1>9, <2>3, FaultDrains
    <3>2. \A e \in Drains : drain'[e].pc = "index" => drain'[e] = drain[e]
      BY <3>1 DEF TypeInv, Workers
    <3> QED BY <2>1, <3>2 DEF Quiet
  <2> QED BY <2>2, <2>3
<1> QED BY <1>3, <1>4, <1>5, <1>6, <1>7, <1>8, <1>9 DEF Next

LEMMA FreshStep == TypeInv /\ Fresh /\ [Next]_vars => Fresh'
<1> SUFFICES ASSUME TypeInv, Fresh, [Next]_vars PROVE Fresh'
  OBVIOUS
<1>1. CASE Quiet
  BY <1>1, FreshQuiet
<1>2. ASSUME NEW s \in Submits, SubmitFile(s) PROVE Fresh'
  <2> DEFINE e == SubmitEvent[s]
             k == EventKey[e]
  <2>1. k \in Keys /\ Sent(e) \in Values /\ Sent(e)[2] = k
    BY DeliveryTypes, ValueKeys
  <2>2. drain' = drain /\ worked' = worked
    BY <1>2 DEF SubmitFile, worker
  <2>3. CASE Admits(k, Sent(e), e \in Revivals, TRUE)
    <3>1. Sent(e) \notin file[k].seen /\ file' = [file EXCEPT ![k] = Filed(k, Sent(e))]
      BY <1>2, <2>3 DEF SubmitFile, Admits
    <3> HIDE DEF e, k
    <3> QED BY <2>1, <2>2, <3>1, FreshFiled
  <2>4. CASE ~Admits(k, Sent(e), e \in Revivals, TRUE)
    <3>1. file' = file
      BY <1>2, <2>4 DEF SubmitFile
    <3>2. Quiet
      BY <2>2, <3>1 DEF Quiet
    <3> QED BY <3>2, FreshQuiet
  <2> QED BY <2>3, <2>4
<1>3. CASE TimerFile
  <2> DEFINE k == timer.key
             v == Timer(k, timer.due)
  <2>1. k \in Keys /\ timer.due \in 1..MaxTime
    BY <1>3 DEF TypeInv, Timers, TimerFile
  <2>2. v \in Values /\ v[2] = k
    BY <2>1, DeliveryTypes, ValueKeys
  <2>3. drain' = drain /\ worked' = worked
    BY <1>3 DEF TimerFile, worker
  <2>4. CASE Admits(k, v, FALSE, FALSE)
    <3>1. v \notin file[k].seen /\ file' = [file EXCEPT ![k] = Filed(k, v)]
      BY <1>3, <2>4 DEF TimerFile, Admits
    <3> HIDE DEF v, k
    <3> QED BY <2>1, <2>2, <2>3, <3>1, FreshFiled
  <2>5. CASE ~Admits(k, v, FALSE, FALSE)
    <3>1. file' = file
      BY <1>3, <2>5 DEF TimerFile
    <3>2. Quiet
      BY <2>3, <3>1 DEF Quiet
    <3> QED BY <3>2, FreshQuiet
  <2> QED BY <2>4, <2>5
<1>4. ASSUME NEW d \in Drains, Take(d) \/ Begin(d) PROVE Fresh'
  BY <1>4, FreshTaken, FreshBegun
<1> QED BY <1>1, <1>2, <1>3, <1>4, QuietStep

\* However it is redelivered, resumed, interrupted or failed, no event is given
\* to the colleague in two turns: what waits or was taken has never been worked,
\* and what was worked stays in the receipts that keep it from being filed again.
THEOREM EventsWorkedOnce == Spec => []WorkedOnce
<1>1. Init => Fresh
  <2> SUFFICES ASSUME Init PROVE Fresh
    OBVIOUS
  <2>1. \A k \in Keys : file[k].pending = <<>>
    BY DEF Init, NoFile
  <2>2. \A d \in Drains : drain[d].pc # "index"
    BY DEF Init, NoDrain
  <2>3. \A v \in Values : worked[v] = 0
    BY DEF Init
  <2> QED BY <2>1, <2>2, <2>3 DEF Fresh, Elems
<1>2. TypeInv /\ Fresh /\ [Next]_vars => Fresh'
  BY FreshStep
<1>3. TypeInv /\ Fresh => WorkedOnce
  BY DEF Fresh, WorkedOnce
<1> QED BY <1>1, <1>2, <1>3, TypesAlways, PTL DEF Spec

-----------------------------------------------------------------------------
(* The vigil: no case is forgotten while the process runs, and none that   *)
(* holds events is missed when it resumes.                                 *)

\* A case that runs has a drain.
StaffedBy(run, tasks) == \A k \in run : \E d \in Drains : tasks[d].pc # "none" /\ tasks[d].key = k
Staffed == StaffedBy(running, drain)

\* While the process is down there is no timer loop.
Down == ~up => timer.pc = "off"

\* Timer events are about the past, and are not recorded again: neither the one
\* that rings nor the one that the file waits for.
Timely ==
    /\ \A k \in Keys, t \in 1..MaxTime : Timer(k, t) \in file[k].seen => t <= clock /\ file[k].wake # t
    /\ timer.pc \in {"clear", "cleared", "submit"} =>
          /\ timer.due <= clock /\ Timer(timer.key, timer.due) \notin file[timer.key].seen
          /\ timer.pc # "clear" => file[timer.key].wake = 0 \/ timer.due < file[timer.key].wake

\* A call of submit, or the timer, has an event in the file of case k whose work
\* it is about to schedule.
Owed(k) == \/ \E s \in Submits : sub[s].pc = "row" /\ EventKey[SubmitEvent[s]] = k
           \/ timer.pc = "submitted" /\ timer.key = k
Minded(k) == Attended(k) \/ Owed(k)

\* The timer rings for case k, and its event is still to be filed.
Ringing(k) == timer.pc \in {"clear", "cleared", "submit"} /\ timer.key = k

\* Wake-up w of the open case k is about to be indexed: by a call of submit, a
\* drain or the timer loop.
Opens(r, w) == r.wake = w /\ r.status \in OpenStates
SubmitComes(k, w) == \E s \in Submits : sub[s].pc = "row" /\ EventKey[SubmitEvent[s]] = k /\ Opens(sub[s].row, w)
DrainComes(k, w) == \E d \in Drains : /\ drain[d].pc \in {"index", "tool", "finished"} /\ drain[d].key = k
                                      /\ Opens(drain[d].row, w)
TimerComes(k, w) == timer.pc \in {"cleared", "submitted"} /\ timer.key = k /\ Opens(timer.row, w)

\* The wake-up of case k is in the agenda, about to be indexed, or ringing.
Due(k) == LET w == file[k].wake
          IN \/ <<w, k>> \in agenda
             \/ SubmitComes(k, w) \/ DrainComes(k, w) \/ TimerComes(k, w)
             \/ timer.pc = "clear" /\ timer.key = k

\* The wake-up of case k was cleared, and its event is still to be filed.
Cleared(k) == timer.pc \in {"cleared", "submit"} /\ timer.key = k

\* The case is with a turn that has not ended.
Turning(k) == \E d \in Drains : drain[d].key = k /\ drain[d].pc \in {"index", "work", "tool", "finish"}

\* Until the process first stops or a store call fails, nothing of case k is
\* forgotten: its events will be looked at; if new, it has some; if worked, it
\* has some or is with its turn; if it waits, for a wake-up that is due, and one
\* that was cleared leaves its event.
Watched(k) ==
    LET f == file[k]
    IN /\ f.pending # <<>> => Minded(k)
       /\ f.status = "new" => f.pending # <<>>
       /\ f.status = "working" => f.pending # <<>> \/ Turning(k)
       /\ f.status \in {"waiting", "resolved"} /\ f.wake = 0 => f.pending # <<>> \/ Cleared(k)
       /\ f.status \in OpenStates /\ f.wake # 0 => Due(k)

Watch == stops = 0 /\ ~faulty => \A k \in Keys : Watched(k)

\* Until a store call fails, the timer rings for a case that is open or minded.
Rung == ~faulty /\ timer.pc \in {"clear", "cleared", "submit"} =>
    file[timer.key].pending = <<>> \/ file[timer.key].status \in OpenStates \/ Minded(timer.key)

\* Until a store call fails, a case that the index lists as new or working and
\* that has events is minded, rung for, or next to be resumed.
Resumed == ~faulty /\ resume.pc = "cases" =>
    \A k \in Keys : row[k].status \in {"new", "working"} /\ file[k].pending # <<>> =>
        Minded(k) \/ Ringing(k) \/ k \in resume.todo

Vigil == Staffed /\ Down /\ Timely /\ Watch /\ Rung /\ Resumed

-----------------------------------------------------------------------------
(* Drains and scheduling.                                                  *)

\* A scheduled case is attended to, and every drain that runs goes on.
LEMMA ScheduleMinds ==
    ASSUME NEW k \in Keys, NEW run, NEW more, NEW tasks, Workers(run, more, tasks), StaffedBy(run, tasks),
           Schedule(k, run, more, tasks)
    PROVE  /\ Staffed' /\ Attended(k)' /\ more \subseteq again'
           /\ \A d \in Drains : tasks[d].pc # "none" => drain'[d] = tasks[d]
<1>1. CASE k \in run
  <2>1. running' = run /\ again' = more \cup {k} /\ drain' = tasks
    BY <1>1 DEF Schedule
  <2>2. PICK d \in Drains : tasks[d].pc # "none" /\ tasks[d].key = k
    BY <1>1 DEF StaffedBy
  <2>3. drain'[d].key = k /\ k \in again'
    BY <2>1, <2>2
  <2>4. Attended(k)'
    BY <2>3 DEF Attended
  <2> QED BY <2>1, <2>4 DEF Staffed, StaffedBy
<1>2. CASE k \notin run
  <2> DEFINE t == [NoDrain EXCEPT !.pc = "take", !.key = k]
  <2>1. t.pc = "take" /\ t.key = k
    BY DEF NoDrain
  <2>2. PICK d \in Drains : tasks[d].pc = "none" /\ drain' = [tasks EXCEPT ![d] = t]
    BY <1>2 DEF Schedule
  <2> HIDE DEF t
  <2>3. running' = run \cup {k} /\ again' = more
    BY <1>2 DEF Schedule
  <2>4. drain'[d] = t /\ \A e \in Drains \ {d} : drain'[e] = tasks[e]
    BY <2>2 DEF Workers
  <2>5. Attended(k)'
    BY <2>1, <2>4 DEF Attended
  <2>6. ASSUME NEW j \in running'
        PROVE  \E e \in Drains : drain'[e].pc # "none" /\ drain'[e].key = j
    <3>1. CASE j = k
      BY <2>1, <2>4, <3>1
    <3>2. CASE j # k
      <4>1. PICK e \in Drains : tasks[e].pc # "none" /\ tasks[e].key = j
        BY <2>3, <2>6, <3>2 DEF StaffedBy
      <4> QED BY <2>2, <2>4, <4>1
    <3> QED BY <3>1, <3>2
  <2> QED BY <2>2, <2>3, <2>4, <2>5, <2>6 DEF Staffed, StaffedBy
<1> QED BY <1>1, <1>2

\* Scheduling a case among the drains there are.
LEMMA Scheduled ==
    ASSUME TypeInv, Staffed, NEW k \in Keys, Schedule(k, running, again, drain)
    PROVE  /\ Staffed' /\ Attended(k)'
           /\ \A d \in Drains : drain[d].pc # "none" => drain'[d] = drain[d]
           /\ \A j \in Keys : Attended(j) => Attended(j)'
<1>1. /\ Staffed' /\ Attended(k)' /\ again \subseteq again'
      /\ \A d \in Drains : drain[d].pc # "none" => drain'[d] = drain[d]
  BY ScheduleMinds DEF TypeInv, Staffed
<1>2. ASSUME NEW j \in Keys, Attended(j)
      PROVE  Attended(j)'
  <2>1. PICK d \in Drains : drain[d].key = j /\ (drain[d].pc \notin {"none", "exit"} \/ j \in again)
    BY <1>2 DEF Attended
  <2>2. CASE drain[d].pc # "none"
    BY <1>1, <2>1, <2>2 DEF Attended
  <2>3. CASE drain[d].pc = "none"
    <3>1. j \in running
      BY <2>1, <2>3 DEF TypeInv, Workers
    <3>2. PICK e \in Drains : drain[e].pc # "none" /\ drain[e].key = j
      BY <3>1 DEF Staffed, StaffedBy
    <3>3. drain'[e] = drain[e] /\ j \in again'
      BY <1>1, <2>1, <2>3, <3>2
    <3> QED BY <3>2, <3>3 DEF Attended
  <2> QED BY <2>2, <2>3
<1> QED BY <1>1, <1>2

\* A drain that goes on changes its own case, and leaves the other drains alone.
LEMMA WorkFacts ==
    ASSUME TypeInv, NEW d \in Drains, Work(d), ~Exit(d)
    PROVE  /\ drain[d].pc \in {"take", "index", "work", "tool", "finish", "finished"}
           /\ drain'[d].key = drain[d].key /\ drain'[d].pc # "none"
           /\ drain'[d].pc = "exit" => Take(d) /\ file[drain[d].key].pending = <<>> /\ file' = file /\ row' = row
           /\ \A e \in Drains \ {d} : drain'[e] = drain[e]
           /\ UNCHANGED <<running, again, sub, timer, resume, clock, stops, faulty, up>>
           /\ agenda \subseteq agenda'
           /\ \A j \in Keys \ {drain[d].key} : file'[j] = file[j] /\ row'[j] = row[j]
<1>1. /\ drain \in [Drains -> DrainType] /\ file \in [Keys -> FileType] /\ row \in [Keys -> RowType]
      /\ drain[d].pc # "none" => drain[d].key \in Keys
  BY DEF TypeInv, Workers, Files
<1>2. CASE Take(d)
  <2>1. CASE file[drain[d].key].pending = <<>>
    BY <1>1, <1>2, <2>1 DEF Take, world, DrainType
  <2>2. CASE file[drain[d].key].pending # <<>>
    <3> DEFINE t == [drain[d] EXCEPT !.pc = "index", !.events = file[drain[d].key].pending, !.row = Row(file'[drain[d].key])]
    <3>1. drain' = [drain EXCEPT ![d] = t] /\ drain[d].pc = "take"
      BY <1>2, <2>2 DEF Take
    <3>2. t.pc = "index" /\ t.key = drain[d].key
      BY <1>1 DEF DrainType
    <3> HIDE DEF t
    <3>3. drain'[d] = t /\ \A e \in Drains \ {d} : drain'[e] = drain[e]
      BY <1>1, <3>1
    <3>4. \A j \in Keys \ {drain[d].key} : file'[j] = file[j]
      BY <1>1, <1>2, <2>2 DEF Take
    <3>5. UNCHANGED <<row, running, again, sub, timer, resume, agenda, clock, stops, faulty, up>>
      BY <1>2 DEF Take, world
    <3> QED BY <3>1, <3>2, <3>3, <3>4, <3>5
  <2> QED BY <2>1, <2>2
<1>3. CASE Begin(d)
  <2>1. PICK p \in {"work", "finish"} : drain' = [drain EXCEPT ![d] = [NoDrain EXCEPT !.pc = p, !.key = drain[d].key]]
    BY <1>3 DEF Begin
  <2>2. drain'[d].key = drain[d].key /\ drain'[d].pc = p
    BY <1>1, <2>1 DEF NoDrain
  <2>3. \A e \in Drains \ {d} : drain'[e] = drain[e]
    BY <1>1, <2>1
  <2>4. drain[d].pc = "index" /\ UNCHANGED <<running, again, sub, timer, resume, clock, stops, faulty, up, file>>
        /\ Index(drain[d].key, drain[d].row)
    BY <1>3 DEF Begin, world
  <2>5. agenda \subseteq agenda' /\ \A j \in Keys \ {drain[d].key} : row'[j] = row[j]
    BY <1>1, <2>4 DEF Index
  <2> QED BY <2>2, <2>3, <2>4, <2>5
<1>4. CASE Tool(d)
  <2> DEFINE t == Called(drain[d], Row(file'[drain[d].key]))
  <2>1. drain' = [drain EXCEPT ![d] = t] /\ drain[d].pc = "work"
    BY <1>4 DEF Tool
  <2>2. t.pc = "tool" /\ t.key = drain[d].key
    BY <1>1 DEF Called, DrainType
  <2> HIDE DEF t
  <2>3. drain'[d] = t /\ \A e \in Drains \ {d} : drain'[e] = drain[e]
    BY <1>1, <2>1
  <2>4. \A j \in Keys \ {drain[d].key} : file'[j] = file[j]
    BY <1>1, <1>4 DEF Tool
  <2>5. UNCHANGED <<row, running, again, sub, timer, resume, agenda, clock, stops, faulty, up>>
    BY <1>4 DEF Tool, world
  <2> QED BY <2>1, <2>2, <2>3, <2>4, <2>5
<1>5. CASE ToolRow(d)
  <2> DEFINE t == [drain[d] EXCEPT !.pc = "work", !.row = NoRow]
  <2>1. /\ drain' = [drain EXCEPT ![d] = t] /\ drain[d].pc = "tool"
        /\ UNCHANGED <<running, again, sub, timer, resume, clock, stops, faulty, up, file>>
        /\ Index(drain[d].key, drain[d].row)
    BY <1>5 DEF ToolRow, world
  <2>2. t.pc = "work" /\ t.key = drain[d].key
    BY <1>1 DEF DrainType
  <2> HIDE DEF t
  <2>3. drain'[d] = t /\ \A e \in Drains \ {d} : drain'[e] = drain[e]
    BY <1>1, <2>1
  <2>4. agenda \subseteq agenda' /\ \A j \in Keys \ {drain[d].key} : row'[j] = row[j]
    BY <1>1, <2>1 DEF Index
  <2> QED BY <2>1, <2>2, <2>3, <2>4
<1>6. CASE Turned(d)
  <2>1. PICK error \in BOOLEAN : drain' = [drain EXCEPT ![d] = [@ EXCEPT !.pc = "finish", !.failed = error]]
    BY <1>6 DEF Turned
  <2>2. drain'[d].key = drain[d].key /\ drain'[d].pc = "finish" /\ \A e \in Drains \ {d} : drain'[e] = drain[e]
    BY <1>1, <2>1 DEF DrainType
  <2> QED BY <1>6, <2>2 DEF Turned, durable, world
<1>7. CASE Finish(d)
  <2> DEFINE t == [drain[d] EXCEPT !.pc = "finished", !.row = Row(file'[drain[d].key])]
  <2>1. drain' = [drain EXCEPT ![d] = t] /\ drain[d].pc = "finish"
    BY <1>7 DEF Finish
  <2>2. t.pc = "finished" /\ t.key = drain[d].key
    BY <1>1 DEF DrainType
  <2> HIDE DEF t
  <2>3. drain'[d] = t /\ \A e \in Drains \ {d} : drain'[e] = drain[e]
    BY <1>1, <2>1
  <2>4. \A j \in Keys \ {drain[d].key} : file'[j] = file[j]
    BY <1>1, <1>7 DEF Finish
  <2>5. UNCHANGED <<row, running, again, sub, timer, resume, agenda, clock, stops, faulty, up>>
    BY <1>7 DEF Finish, world
  <2> QED BY <2>1, <2>2, <2>3, <2>4, <2>5
<1>8. CASE FinishRow(d)
  <2> DEFINE t == [NoDrain EXCEPT !.pc = "take", !.key = drain[d].key]
  <2>1. /\ drain' = [drain EXCEPT ![d] = t] /\ drain[d].pc = "finished"
        /\ UNCHANGED <<running, again, sub, timer, resume, clock, stops, faulty, up, file>>
        /\ Index(drain[d].key, drain[d].row)
    BY <1>8 DEF FinishRow, world
  <2>2. t.pc = "take" /\ t.key = drain[d].key
    BY DEF NoDrain
  <2> HIDE DEF t
  <2>3. drain'[d] = t /\ \A e \in Drains \ {d} : drain'[e] = drain[e]
    BY <1>1, <2>1
  <2>4. agenda \subseteq agenda' /\ \A j \in Keys \ {drain[d].key} : row'[j] = row[j]
    BY <1>1, <2>1 DEF Index
  <2> QED BY <2>1, <2>2, <2>3, <2>4
<1> QED BY <1>2, <1>3, <1>4, <1>5, <1>6, <1>7, <1>8 DEF Work

\* A drain that ends is gone, unless it was asked to look again.
LEMMA ExitFacts ==
    ASSUME TypeInv, Staffed, NEW d \in Drains, Exit(d)
    PROVE  /\ Staffed' /\ drain[d].pc = "exit" /\ drain[d].key \in Keys
           /\ \A k \in again : drain[d].key = k => Attended(k)'
           /\ \A e \in Drains \ {d} : drain[e].pc # "none" => drain'[e] = drain[e]
           /\ again \ {drain[d].key} \subseteq again'
           /\ UNCHANGED <<file, row, sub, timer, resume, agenda, clock, stops, faulty, up>>
<1>0. PICK k \in Keys : k = drain[d].key
  BY DrainStep DEF Exit
<1> DEFINE rest == [drain EXCEPT ![d] = NoDrain]
           run == running \ {k}
<1>1. /\ drain[d].pc = "exit" /\ Workers(running, again, drain)
      /\ UNCHANGED <<file, row, sub, timer, resume, agenda, clock, stops, faulty, up>>
  BY DEF Exit, TypeInv, durable, world
<1>2. rest[d] = NoDrain /\ NoDrain.pc = "none" /\ NoDrain \in DrainType /\ \A e \in Drains \ {d} : rest[e] = drain[e]
  BY <1>1, NoDrainType DEF NoDrain, Workers
<1>3. ASSUME NEW j \in run
      PROVE  \E e \in Drains : rest[e].pc # "none" /\ rest[e].key = j
  <2>1. PICK e \in Drains : drain[e].pc # "none" /\ drain[e].key = j
    BY <1>3 DEF Staffed, StaffedBy
  <2>2. e # d
    BY <1>0, <1>3, <2>1
  <2> QED BY <1>2, <2>1, <2>2
<1>4. StaffedBy(run, rest)
  BY <1>3 DEF StaffedBy
<1>5. CASE k \in again
  <2>1. Workers(run, again \ {k}, rest)
    BY <1>0, <1>1, <1>2 DEF Workers
  <2>2. Schedule(k, run, again \ {k}, rest)
    BY <1>0, <1>5 DEF Exit
  <2> HIDE DEF rest, run
  <2>3. /\ Staffed' /\ Attended(k)' /\ again \ {k} \subseteq again'
        /\ \A e \in Drains : rest[e].pc # "none" => drain'[e] = rest[e]
    BY <1>1, <1>4, <2>1, <2>2, ScheduleMinds
  <2> QED BY <1>0, <1>1, <1>2, <2>3
<1>6. CASE k \notin again
  <2>1. running' = run /\ drain' = rest /\ again' = again
    BY <1>0, <1>6 DEF Exit
  <2>2. Staffed'
    BY <1>4, <2>1 DEF Staffed, StaffedBy
  <2> HIDE DEF rest, run
  <2> QED BY <1>0, <1>1, <1>2, <1>6, <2>1, <2>2
<1> QED BY <1>5, <1>6

\* Every case that runs keeps its drain.
LEMMA StaffedStep == TypeInv /\ Staffed /\ [Next]_vars => Staffed'
<1> SUFFICES ASSUME TypeInv, Staffed, [Next]_vars PROVE Staffed'
  OBVIOUS
<1>0. drain \in [Drains -> DrainType]
  BY DEF TypeInv, Workers
<1>1. CASE UNCHANGED <<running, drain>>
  BY <1>1 DEF Staffed, StaffedBy
<1>2. ASSUME NEW k \in Keys, Schedule(k, running, again, drain) PROVE Staffed'
  BY <1>2, Scheduled
<1>3. ASSUME NEW s \in Submits, SubmitFile(s) \/ SubmitRow(s) PROVE Staffed'
  BY <1>1, <1>2, <1>3, DeliveryTypes DEF SubmitFile, SubmitRow, worker
<1>4. ASSUME NEW d \in Drains, Work(d) PROVE Staffed'
  <2>1. CASE Exit(d)
    BY <2>1, ExitFacts
  <2>2. CASE ~Exit(d)
    BY <1>4, <2>2, WorkFacts DEF Staffed, StaffedBy
  <2> QED BY <2>1, <2>2
<1>5. CASE TimerLoop
  <2>1. TimerRow => timer.key \in Keys
    BY DEF TypeInv, Timers, TimerRow
  <2> QED BY <1>1, <1>2, <1>5, <2>1 DEF TimerLoop, Rebuild, Pop, Clear, ClearRow, TimerFile, TimerRow, worker
<1>6. CASE Resume
  <2>1. resume.todo \subseteq Keys
    BY DEF TypeInv, Resuming
  <2> QED BY <1>1, <1>2, <1>6, <2>1 DEF Resume, ResumeList, ResumeCase, worker
<1>7. CASE Stop
  BY <1>7 DEF Stop, Staffed, StaffedBy
<1>8. CASE Fault
  <2>1. running' = running
    BY <1>8 DEF Fault
  <2>2. CASE drain' = drain
    BY <1>1, <2>1, <2>2
  <2>3. CASE drain' # drain
    <3> DEFINE Becomes(d, t) == /\ drain[d].pc # "none" /\ drain' = [drain EXCEPT ![d] = t]
                                /\ t.pc # "none" /\ t.key = drain[d].key
    <3>0. PICK d \in Drains : \E t : Becomes(d, t)
      <4>1. PICK d \in Drains :
               \/ /\ drain[d].pc # "none"
                  /\ drain' = [drain EXCEPT ![d] = [NoDrain EXCEPT !.pc = "exit", !.key = drain[d].key]]
               \/ /\ drain[d].pc # "none"
                  /\ drain' = [drain EXCEPT ![d] = [drain[d] EXCEPT !.pc = "work", !.row = NoRow]]
        BY <1>8, <2>3 DEF Fault
      <4>2. [NoDrain EXCEPT !.pc = "exit", !.key = drain[d].key].pc = "exit"
            /\ [NoDrain EXCEPT !.pc = "exit", !.key = drain[d].key].key = drain[d].key
        BY DEF NoDrain
      <4>3. [drain[d] EXCEPT !.pc = "work", !.row = NoRow].pc = "work"
            /\ [drain[d] EXCEPT !.pc = "work", !.row = NoRow].key = drain[d].key
        BY <1>0 DEF DrainType
      <4> QED BY <4>1, <4>2, <4>3
    <3>1. PICK t : Becomes(d, t)
      BY <3>0
    <3>2. drain'[d] = t /\ \A e \in Drains \ {d} : drain'[e] = drain[e]
      BY <1>0, <3>1
    <3>3. ASSUME NEW k \in running PROVE \E e \in Drains : drain'[e].pc # "none" /\ drain'[e].key = k
      <4>1. PICK e \in Drains : drain[e].pc # "none" /\ drain[e].key = k
        BY DEF Staffed, StaffedBy
      <4> QED BY <3>1, <3>2, <4>1
    <3> QED BY <2>1, <3>3 DEF Staffed, StaffedBy
  <2> QED BY <2>2, <2>3
<1>9. CASE Start \/ Tick \/ UNCHANGED vars
  BY <1>1, <1>9 DEF Start, Tick, vars, worker
<1> QED BY <1>3, <1>4, <1>5, <1>6, <1>7, <1>8, <1>9 DEF Next

\* A stopped process has no timer loop.
LEMMA DownStep == Down /\ [Next]_vars => Down'
<1> SUFFICES ASSUME Down, [Next]_vars PROVE Down'
  OBVIOUS
<1>1. ASSUME up' = up, timer' = timer \/ timer.pc # "off" PROVE Down'
  BY <1>1 DEF Down
<1>2. ASSUME NEW s \in Submits, SubmitFile(s) \/ SubmitRow(s) PROVE Down'
  BY <1>1, <1>2 DEF SubmitFile, SubmitRow, world
<1>3. ASSUME NEW d \in Drains, Work(d) PROVE Down'
  BY <1>1, <1>3 DEF Work, Take, Begin, Tool, ToolRow, Turned, Finish, FinishRow, Exit, world
<1>4. CASE TimerLoop
  BY <1>1, <1>4 DEF TimerLoop, Rebuild, Pop, Clear, ClearRow, TimerFile, TimerRow, world
<1>5. CASE Resume
  BY <1>1, <1>5 DEF Resume, ResumeList, ResumeCase, world
<1>6. CASE Stop
  BY <1>6 DEF Stop, Down, Off
<1>7. CASE Start
  BY <1>7 DEF Start, Down
<1>8. CASE Fault
  <2>1. CASE timer' = timer
    BY <1>1, <1>8, <2>1 DEF Fault
  <2>2. CASE timer' # timer
    BY <1>1, <1>8, <2>2 DEF Fault
  <2> QED BY <2>1, <2>2
<1>9. CASE Tick \/ UNCHANGED vars
  BY <1>1, <1>9 DEF Tick, vars
<1> QED BY <1>2, <1>3, <1>4, <1>5, <1>6, <1>7, <1>8, <1>9 DEF Next

-----------------------------------------------------------------------------
(* Events are minded.                                                      *)

\* An admitted event waits in the file.
LEMMA FiledHasEvents ==
    ASSUME NEW k \in Keys, NEW v \in Values, file[k] \in FileType
    PROVE  /\ Filed(k, v).pending # <<>> /\ Filed(k, v).wake = file[k].wake
           /\ Filed(k, v).status \in OpenStates
           /\ Filed(k, v).seen = file[k].seen \cup {v}
<1> DEFINE longer == Append(file[k].pending, v)
           status == CASE file[k].status = "absent" -> "new"
                       [] file[k].status \in FinalStates -> "working"
                       [] OTHER -> file[k].status
<1>1. file[k].pending \in Seq(Values) /\ MaxPending \in Nat \ {0}
  BY DeskAssumption DEF FileType
<1>2. longer \in Seq(Values) /\ Len(longer) >= 1
  BY <1>1
<1>3. status \in OpenStates
  BY DEF FileType, OpenStates, FinalStates
<1>4. LastN(longer, MaxPending) # <<>>
  <2> HIDE DEF longer
  <2>1. CASE Len(longer) <= MaxPending
    BY <1>2, <2>1 DEF LastN
  <2>2. CASE ~(Len(longer) <= MaxPending)
    <3>1. Len(longer) \in Nat
      BY <1>2
    <3>2. LastN(longer, MaxPending) = SubSeq(longer, Len(longer) - MaxPending + 1, Len(longer))
      BY <2>2 DEF LastN
    <3>3. Len(LastN(longer, MaxPending)) = MaxPending
      BY <1>1, <1>2, <2>2, <3>1, <3>2
    <3> QED BY <1>1, <3>3
  <2> QED BY <2>1, <2>2
<1> HIDE DEF longer, status
<1>5. Filed(k, v) = [file[k] EXCEPT !.status = status, !.seen = file[k].seen \cup {v},
                              !.pending = LastN(longer, MaxPending)]
  BY DEF Filed, longer, status
<1> QED BY <1>3, <1>4, <1>5 DEF FileType

\* A step of the process that neither fails nor stops.
Goes == \/ \E s \in Submits : SubmitFile(s) \/ SubmitRow(s)
        \/ \E d \in Drains : Work(d)
        \/ TimerLoop \/ Resume \/ Start \/ Tick

\* Where scheduling and timers, but no drain, changes anything, cases stay minded.
LEMMA MindedUnchanged ==
    ASSUME NEW k \in Keys, Minded(k), UNCHANGED worker, timer.pc = "submitted" => timer' = timer,
           \A s \in Submits : sub[s].pc = "row" => sub'[s] = sub[s]
    PROVE  Minded(k)'
<1>1. CASE Attended(k)
  BY <1>1 DEF Minded, Attended, worker
<1>2. CASE Owed(k)
  BY <1>2 DEF Minded, Owed
<1> QED BY <1>1, <1>2 DEF Minded

LEMMA MindedSubmit ==
    ASSUME TypeInv, Staffed, NEW s \in Submits, SubmitFile(s) \/ SubmitRow(s), NEW k \in Keys,
           file'[k].pending # <<>>, file[k].pending = <<>> \/ Minded(k)
    PROVE  Minded(k)'
<1> DEFINE j == EventKey[SubmitEvent[s]]
<1>1. j \in Keys /\ sub \in [Submits -> [pc : {"idle", "row", "done"}, row : RowType]] /\ file \in [Keys -> FileType]
  BY DeliveryTypes DEF TypeInv, Calls, Files
<1>2. CASE SubmitFile(s)
  <2>1. UNCHANGED <<worker, timer>> /\ sub[s].pc = "idle" /\ \A t \in Submits \ {s} : sub'[t] = sub[t]
    BY <1>1, <1>2 DEF SubmitFile
  <2>2. CASE k = j /\ file' # file
    <3>1. sub' = [sub EXCEPT ![s] = [pc |-> "row", row |-> Row(file'[j])]]
      BY <1>2, <2>2 DEF SubmitFile
    <3>2. sub'[s].pc = "row"
      BY <1>1, <3>1
    <3> QED BY <2>2, <3>2 DEF Minded, Owed
  <2>3. CASE k # j \/ file' = file
    <3>1. file'[k] = file[k]
      BY <1>1, <1>2, <2>3 DEF SubmitFile
    <3>2. \A t \in Submits : sub[t].pc = "row" => sub'[t] = sub[t]
      BY <2>1
    <3> QED BY <2>1, <3>1, <3>2, MindedUnchanged
  <2> QED BY <2>2, <2>3
<1>3. CASE SubmitRow(s)
  <2>1. Schedule(j, running, again, drain) /\ UNCHANGED <<file, timer>> /\ \A t \in Submits \ {s} : sub'[t] = sub[t]
    BY <1>1, <1>3 DEF SubmitRow
  <2>2. Minded(k)
    BY <2>1
  <2> HIDE DEF j
  <2>3. CASE k = j
    BY <1>1, <2>1, <2>3, Scheduled DEF Minded
  <2>4. CASE k # j /\ Attended(k)
    BY <1>1, <2>1, <2>4, Scheduled DEF Minded
  <2>5. CASE k # j /\ Owed(k)
    <3>1. CASE timer.pc = "submitted" /\ timer.key = k
      BY <2>1, <3>1 DEF Minded, Owed
    <3>2. ASSUME NEW t \in Submits, sub[t].pc = "row", EventKey[SubmitEvent[t]] = k
          PROVE  Minded(k)'
      BY <2>1, <2>5, <3>2 DEF Minded, Owed, j
    <3> QED BY <2>5, <3>1, <3>2 DEF Owed
  <2> QED BY <2>2, <2>3, <2>4, <2>5 DEF Minded
<1> QED BY <1>2, <1>3

LEMMA MindedWork ==
    ASSUME TypeInv, Staffed, NEW d \in Drains, Work(d), NEW k \in Keys,
           file'[k].pending # <<>>, file[k].pending = <<>> \/ Minded(k)
    PROVE  Minded(k)'
<1>0. Workers(running, again, drain) /\ file \in [Keys -> FileType] /\ World
  BY DEF TypeInv, Files
<1>1. UNCHANGED <<sub, timer>>
  BY WorkFacts, ExitFacts
<1>2. file[k].pending # <<>>
  <2>1. CASE drain[d].key # k
    BY <2>1, WorkFacts, ExitFacts
  <2>2. CASE drain[d].key = k
    <3>1. CASE Take(d)
      BY <1>0, <2>2, <3>1 DEF Take, FileType
    <3>2. CASE Tool(d)
      <4>1. PICK t \in {"wait", "wake_at", "resolve", "finish", "note"} : file' = [file EXCEPT ![k] = Tooled(file[k], t)]
        BY <2>2, <3>2 DEF Tool
      <4> QED BY <1>0, <4>1, TooledFacts DEF World
    <3>3. CASE Finish(d)
      <4>1. file' = [file EXCEPT ![k] = Finished(file[k], drain[d].failed)] /\ drain[d].failed \in BOOLEAN
        BY <1>0, <2>2, <3>3 DEF Finish, Workers, DrainType
      <4> QED BY <1>0, <4>1, FinishedFacts DEF World
    <3>4. CASE ~(Take(d) \/ Tool(d) \/ Finish(d))
      BY <3>4 DEF Work, Begin, ToolRow, Turned, FinishRow, Exit, durable
    <3> QED BY <3>1, <3>2, <3>3, <3>4
  <2> QED BY <2>1, <2>2
<1>3. CASE Owed(k)
  BY <1>1, <1>3 DEF Owed, Minded
<1>4. CASE Attended(k)
  <2>1. PICK e \in Drains : drain[e].key = k /\ (drain[e].pc \notin {"none", "exit"} \/ k \in again)
    BY <1>4 DEF Attended
  <2>2. PICK g \in Drains : drain[g].pc # "none" /\ drain[g].key = k /\ (drain[g].pc # "exit" \/ k \in again)
    <3>1. CASE drain[e].pc # "none"
      BY <2>1, <3>1
    <3>2. CASE drain[e].pc = "none"
      BY <1>0, <2>1, <3>2 DEF Workers, Staffed, StaffedBy
    <3> QED BY <3>1, <3>2
  <2>3. CASE ~Exit(d)
    <3>1. CASE g # d
      BY <2>2, <2>3, <3>1, WorkFacts DEF Attended, Minded
    <3>2. CASE g = d
      <4>1. drain'[d].key = k /\ drain'[d].pc # "none" /\ drain'[d].pc # "exit"
        BY <1>2, <2>2, <2>3, <3>2, WorkFacts
      <4> QED BY <4>1 DEF Attended, Minded
    <3> QED BY <3>1, <3>2
  <2>4. CASE Exit(d)
    <3>1. CASE g # d
      <4>1. drain[d].key # k /\ drain'[g] = drain[g]
        BY <1>0, <2>2, <2>4, <3>1, ExitFacts DEF Workers
      <4>2. k \in again => k \in again'
        BY <2>4, <4>1, ExitFacts
      <4> QED BY <2>2, <4>1, <4>2 DEF Attended, Minded
    <3>2. CASE g = d
      BY <2>2, <2>4, <3>2, ExitFacts DEF Minded
    <3> QED BY <3>1, <3>2
  <2> QED BY <2>3, <2>4
<1> QED BY <1>2, <1>3, <1>4 DEF Minded

LEMMA MindedTimer ==
    ASSUME TypeInv, Staffed, TimerLoop, NEW k \in Keys,
           file'[k].pending # <<>>, file[k].pending = <<>> \/ Minded(k)
    PROVE  Minded(k)'
<1>0. file \in [Keys -> FileType]
  BY DEF TypeInv, Files
<1>1. CASE Rebuild \/ Pop \/ Clear \/ ClearRow
  <2>1. UNCHANGED <<worker, sub>> /\ timer.pc # "submitted"
    BY <1>1 DEF Rebuild, Pop, Clear, ClearRow
  <2>2. file'[k].pending = file[k].pending
    <3>1. CASE Clear
      <4>1. file' = [file EXCEPT ![timer.key] = [file[timer.key] EXCEPT !.wake = 0]] /\ timer.key \in Keys
        BY <1>0, <3>1 DEF Clear, TypeInv, Timers
      <4>2. [file[timer.key] EXCEPT !.wake = 0].pending = file[timer.key].pending
        BY <1>0, <4>1 DEF FileType
      <4> QED BY <1>0, <4>1, <4>2
    <3>2. CASE ~Clear
      BY <1>1, <3>2 DEF Rebuild, Pop, ClearRow, durable
    <3> QED BY <3>1, <3>2
  <2> QED BY <2>1, <2>2, MindedUnchanged
<1>2. CASE TimerFile
  <2>1. UNCHANGED <<worker, sub>> /\ timer.pc = "submit" /\ timer.key \in Keys
    BY <1>2 DEF TimerFile, TypeInv, Timers
  <2>2. CASE k = timer.key /\ file' # file
    <3>1. timer'.pc = "submitted" /\ timer'.key = timer.key
      BY <1>2, <2>2 DEF TimerFile, TypeInv, Timers
    <3> QED BY <2>2, <3>1 DEF Minded, Owed
  <2>3. CASE k # timer.key \/ file' = file
    <3>1. file'[k] = file[k]
      BY <1>0, <1>2, <2>1, <2>3 DEF TimerFile
    <3> QED BY <2>1, <3>1, MindedUnchanged
  <2> QED BY <2>2, <2>3
<1>3. CASE TimerRow
  <2>1. PICK j \in Keys : j = timer.key
    BY <1>3 DEF TypeInv, Timers, TimerRow
  <2>2. Schedule(j, running, again, drain) /\ UNCHANGED <<file, sub>>
    BY <1>3, <2>1 DEF TimerRow
  <2>3. Minded(k)
    BY <2>2
  <2>4. CASE k = j
    BY <2>2, <2>4, Scheduled DEF Minded
  <2>5. CASE k # j
    BY <2>1, <2>2, <2>3, <2>5, Scheduled DEF Minded, Owed
  <2> QED BY <2>4, <2>5
<1> QED BY <1>1, <1>2, <1>3 DEF TimerLoop

\* Unless the store fails or the process stops, a case stays minded while it has
\* events, and its first event makes it so.
LEMMA MindedStep ==
    ASSUME TypeInv, Staffed, Down, Goes, NEW k \in Keys,
           file'[k].pending # <<>>, file[k].pending = <<>> \/ Minded(k)
    PROVE  Minded(k)'
<1>1. ASSUME NEW s \in Submits, SubmitFile(s) \/ SubmitRow(s) PROVE Minded(k)'
  BY <1>1, MindedSubmit
<1>2. ASSUME NEW d \in Drains, Work(d) PROVE Minded(k)'
  BY <1>2, MindedWork
<1>3. CASE TimerLoop
  BY <1>3, MindedTimer
<1>4. CASE Resume
  <2>1. UNCHANGED <<file, sub, timer>> /\ Minded(k)
    BY <1>4 DEF Resume, ResumeList, ResumeCase, durable
  <2>2. CASE UNCHANGED worker
    BY <2>1, <2>2, MindedUnchanged
  <2>3. CASE ~UNCHANGED worker
    <3>1. PICK j \in Keys : Schedule(j, running, again, drain)
      BY <1>4, <2>3 DEF Resume, ResumeList, ResumeCase, TypeInv, Resuming
    <3> QED BY <2>1, <3>1, Scheduled DEF Minded, Owed
  <2> QED BY <2>2, <2>3
<1>5. CASE Start \/ Tick
  <2>1. UNCHANGED <<file, worker, sub>> /\ (timer' = timer \/ timer.pc = "off")
    BY <1>5 DEF Start, Tick, durable, Down
  <2> QED BY <2>1, MindedUnchanged
<1> QED BY <1>1, <1>2, <1>3, <1>4, <1>5 DEF Goes

-----------------------------------------------------------------------------
(* Wake-ups.                                                               *)

\* What the case tools make of the status and the wake-up of a file.
LEMMA TooledWakes ==
    ASSUME NEW f \in FileType, NEW t \in {"wait", "wake_at", "resolve", "finish", "note"}, clock \in 1..MaxTime
    PROVE  LET g == Tooled(f, t)
           IN /\ g.wake \in {f.wake, 0, clock + 1} /\ g.seen = f.seen
              /\ g.status \in {"new", "working"} => g.status = f.status
              /\ g.status \in {"waiting", "resolved"} /\ g.wake = 0 => g.status = f.status /\ f.wake = 0
<1>1. \/ Tooled(f, t) = [f EXCEPT !.status = "waiting", !.wake = clock + 1]
      \/ Tooled(f, t) = [f EXCEPT !.wake = clock + 1]
      \/ Tooled(f, t) = [f EXCEPT !.status = "resolved", !.wake = clock + 1]
      \/ Tooled(f, t) = [f EXCEPT !.status = "closed", !.wake = 0]
      \/ Tooled(f, t) = f
  BY DEF Tooled, FileType
<1>2. clock + 1 # 0
  BY DeskAssumption
<1> QED BY <1>1, <1>2 DEF FileType

\* What the end of a turn makes of them: no case is left working, and none waits
\* for nothing that did not before.
LEMMA FinishedWakes ==
    ASSUME NEW f \in FileType, NEW failed \in BOOLEAN, clock \in 1..MaxTime
    PROVE  LET g == Finished(f, failed)
           IN /\ g.wake \in {f.wake, 0, clock + 1} /\ g.seen = f.seen
              /\ g.status # "working" /\ (g.status = "new" => f.status = "new")
              /\ g.status \in {"waiting", "resolved"} /\ g.wake = 0 => g.status = f.status /\ f.wake = 0
<1> DEFINE errors == IF ~failed THEN 0 ELSE IF f.errors < MaxErrors THEN f.errors + 1 ELSE MaxErrors
           counted == [f EXCEPT !.errors = errors]
<1>1. counted \in [status : {f.status}, wake : {f.wake}, seen : {f.seen}, pending : {f.pending}, errors : {errors}]
  BY DEF FileType
<1>2. \/ Finished(f, failed) = [counted EXCEPT !.status = "escalated", !.wake = 0]
      \/ Finished(f, failed) = [counted EXCEPT !.status = "waiting", !.wake = clock + 1]
      \/ Finished(f, failed) = [counted EXCEPT !.status = "waiting", !.wake = counted.wake] /\ counted.wake # 0
      \/ Finished(f, failed) = counted /\ f.status # "working"
  BY DEF Finished, counted, errors, FinalStates
<1>3. clock + 1 # 0
  BY DeskAssumption
<1> HIDE DEF counted, errors
<1> QED BY <1>1, <1>2, <1>3

LEMMA ValuesApart ==
    /\ \A e \in Events, k \in Keys, t \in 1..MaxTime : Sent(e) # Timer(k, t)
    /\ \A j, k \in Keys, s, t \in 1..MaxTime : Timer(j, s) = Timer(k, t) => j = k /\ s = t
BY DEF Sent, Timer

\* Files get no timer events, and only wake-ups of the future; the timer rings on.
Unrung ==
    /\ \A k \in Keys : /\ \A t \in 1..MaxTime : Timer(k, t) \in file'[k].seen => Timer(k, t) \in file[k].seen
                       /\ file'[k].wake \in {file[k].wake, 0, clock + 1}
    /\ clock' \in {clock, clock + 1}
    /\ timer'.pc \in {"clear", "cleared", "submit"} =>
          /\ timer.pc \in {"clear", "cleared", "submit"} /\ timer'.key = timer.key /\ timer'.due = timer.due
          /\ timer'.pc # "clear" => timer.pc # "clear" \/ file'[timer.key].wake = 0

LEMMA TimelyUnrung ==
    ASSUME TypeInv, Timely, Unrung
    PROVE  Timely'
<1>0. /\ clock \in 1..MaxTime /\ MaxTime \in Nat /\ \A k \in Keys : file[k] \in FileType
      /\ timer.pc \in {"clear", "cleared", "submit"} => timer.key \in Keys /\ timer.due \in 1..MaxTime
  BY DeskAssumption DEF TypeInv, World, Files, Timers
<1>1. ASSUME NEW k \in Keys, NEW t \in 1..MaxTime, Timer(k, t) \in file'[k].seen
      PROVE  t <= clock' /\ file'[k].wake # t
  <2>1. t <= clock /\ file[k].wake # t
    BY <1>1 DEF Unrung, Timely
  <2> QED BY <1>0, <2>1 DEF Unrung
<1>2. ASSUME timer'.pc \in {"clear", "cleared", "submit"}
      PROVE  /\ timer'.due <= clock' /\ Timer(timer'.key, timer'.due) \notin file'[timer'.key].seen
             /\ timer'.pc # "clear" => file'[timer'.key].wake = 0 \/ timer'.due < file'[timer'.key].wake
  <2>1. /\ timer.pc \in {"clear", "cleared", "submit"} /\ timer'.key = timer.key /\ timer'.due = timer.due
        /\ timer'.pc # "clear" => timer.pc # "clear" \/ file'[timer.key].wake = 0
        /\ timer.key \in Keys /\ timer.due \in 1..MaxTime
    BY <1>0, <1>2 DEF Unrung
  <2>2. /\ timer.due <= clock /\ Timer(timer.key, timer.due) \notin file[timer.key].seen
        /\ timer.pc # "clear" => file[timer.key].wake = 0 \/ timer.due < file[timer.key].wake
    BY <2>1 DEF Timely
  <2>3. timer.due < clock + 1 /\ timer.due <= clock'
    BY <1>0, <2>1, <2>2 DEF Unrung
  <2>4. file'[timer.key].wake \in {file[timer.key].wake, 0, clock + 1}
    BY <2>1 DEF Unrung
  <2>5. Timer(timer.key, timer.due) \notin file'[timer.key].seen
    BY <2>1, <2>2 DEF Unrung
  <2> QED BY <2>1, <2>2, <2>3, <2>4, <2>5
<1> QED BY <1>1, <1>2 DEF Timely

\* The timer loop records each wake-up that is due once, and clears what it records.
LEMMA TimelyTimer ==
    ASSUME TypeInv, Timely, TimerLoop
    PROVE  Timely'
<1>0. /\ clock \in 1..MaxTime /\ MaxTime \in Nat /\ file \in [Keys -> FileType] /\ clock' = clock
      /\ timer \in TimerType
      /\ timer.pc \in {"clear", "cleared", "submit"} => timer.key \in Keys /\ timer.due \in 1..MaxTime
  BY DeskAssumption DEF TypeInv, World, Files, Timers, TimerType, TimerLoop, Rebuild, Pop, Clear, ClearRow, TimerFile,
                        TimerRow, world
<1>1. CASE Rebuild \/ TimerRow \/ (TimerFile /\ file' = file)
  <2>1. file' = file /\ timer'.pc = "idle"
    <3>1. timer' = [Off EXCEPT !.pc = "idle"] \/ (TimerFile /\ file' = file)
      BY <1>1 DEF Rebuild, TimerRow
    <3>2. CASE timer' = [Off EXCEPT !.pc = "idle"]
      BY <1>1, <3>2 DEF Rebuild, TimerRow, Off, durable
    <3>3. CASE TimerFile /\ file' = file /\ ~(timer' = [Off EXCEPT !.pc = "idle"])
      <4>1. timer.key \in Keys /\ timer.due \in 1..MaxTime /\ timer.pc = "submit"
        BY <1>0, <3>3 DEF TimerFile
      <4>2. Timer(timer.key, timer.due) \notin file[timer.key].seen
        BY <4>1 DEF Timely
      <4>3. file' = [file EXCEPT ![timer.key] = Filed(timer.key, Timer(timer.key, timer.due))]
        BY <3>3 DEF TimerFile
      <4>4. Filed(timer.key, Timer(timer.key, timer.due)).seen = file[timer.key].seen \cup {Timer(timer.key, timer.due)}
        BY <1>0, <4>1, DeliveryTypes, FiledHasEvents
      <4> QED BY <1>0, <3>3, <4>1, <4>2, <4>3, <4>4
    <3> QED BY <3>1, <3>2, <3>3
  <2>2. Unrung
    BY <1>0, <2>1 DEF Unrung
  <2> QED BY <2>2, TimelyUnrung
<1>2. CASE Pop
  <2>1. PICK w \in agenda : /\ w[1] <= clock
                            /\ timer' = IF Stands(w[2], w[1]) THEN [Off EXCEPT !.pc = "clear", !.key = w[2], !.due = w[1]]
                                        ELSE timer
    BY <1>2 DEF Pop
  <2>2. file' = file /\ timer.pc = "idle"
    BY <1>2 DEF Pop, durable
  <2>3. CASE ~Stands(w[2], w[1])
    <3>1. Unrung
      BY <1>0, <2>1, <2>2, <2>3 DEF Unrung
    <3> QED BY <3>1, TimelyUnrung
  <2>4. CASE Stands(w[2], w[1])
    <3>1. PICK k \in Keys, t \in 1..MaxTime : k = w[2] /\ t = w[1]
      <4>1. w \in (1..(MaxTime + 1)) \X Keys
        BY DEF TypeInv, Agenda
      <4> QED BY <1>0, <2>1, <4>1
    <3>2. timer'.pc = "clear" /\ timer'.key = k /\ timer'.due = t
      BY <2>1, <2>4, <3>1 DEF Off
    <3>3. file[k].wake = t
      BY <2>4, <3>1 DEF Stands
    <3>4. Timer(k, t) \notin file[k].seen /\ t <= clock
      BY <2>1, <3>1, <3>3 DEF Timely
    <3> QED BY <1>0, <2>2, <3>2, <3>4 DEF Timely
  <2> QED BY <2>3, <2>4
<1>3. CASE Clear
  <2>1. timer.pc = "clear" /\ timer.key \in Keys
    BY <1>0, <1>3 DEF Clear
  <2>2. file' = [file EXCEPT ![timer.key] = [file[timer.key] EXCEPT !.wake = 0]]
    BY <1>0, <1>3 DEF Clear
  <2>3. timer'.pc = "cleared" /\ timer'.key = timer.key /\ timer'.due = timer.due
    BY <1>0, <1>3 DEF Clear, TimerType
  <2>4. /\ [file[timer.key] EXCEPT !.wake = 0].wake = 0
        /\ [file[timer.key] EXCEPT !.wake = 0].seen = file[timer.key].seen
    BY <1>0, <2>1 DEF FileType
  <2>5. Unrung
    BY <1>0, <2>1, <2>2, <2>3, <2>4 DEF Unrung
  <2> QED BY <2>5, TimelyUnrung
<1>4. CASE ClearRow
  <2>1. timer.pc = "cleared" /\ file' = file
    BY <1>4 DEF ClearRow
  <2>2. timer'.pc = "submit" /\ timer'.key = timer.key /\ timer'.due = timer.due
    BY <1>0, <1>4 DEF ClearRow, TimerType
  <2>3. Unrung
    BY <1>0, <2>1, <2>2 DEF Unrung
  <2> QED BY <2>3, TimelyUnrung
<1>5. CASE TimerFile /\ file' # file
  <2>1. PICK k \in Keys, t \in 1..MaxTime : k = timer.key /\ t = timer.due
    BY <1>0, <1>5 DEF TimerFile
  <2>2. /\ timer.pc = "submit" /\ file' = [file EXCEPT ![k] = Filed(k, Timer(k, t))]
        /\ timer' = [timer EXCEPT !.pc = "submitted", !.row = Row(file'[k])]
    BY <1>5, <2>1 DEF TimerFile
  <2>3. timer'.pc = "submitted"
    BY <1>0, <2>2 DEF TimerType
  <2>4. Filed(k, Timer(k, t)).seen = file[k].seen \cup {Timer(k, t)} /\ Filed(k, Timer(k, t)).wake = file[k].wake
    BY <1>0, DeliveryTypes, FiledHasEvents
  <2>5. t <= clock /\ (file[k].wake = 0 \/ t < file[k].wake)
    BY <2>1, <2>2 DEF Timely
  <2>6. ASSUME NEW j \in Keys, NEW s \in 1..MaxTime, Timer(j, s) \in file'[j].seen
        PROVE  s <= clock /\ file'[j].wake # s
    <3>1. CASE j # k
      BY <1>0, <2>2, <2>6, <3>1 DEF Timely
    <3>2. CASE j = k /\ s # t
      <4>1. Timer(k, s) \in file[k].seen
        BY <1>0, <2>2, <2>4, <2>6, <3>2, ValuesApart
      <4> QED BY <1>0, <2>2, <2>4, <3>2, <4>1 DEF Timely
    <3>3. CASE j = k /\ s = t
      <4>1. file[k].wake \in Nat /\ t \in 1..MaxTime
        BY <1>0 DEF FileType
      <4> QED BY <1>0, <2>2, <2>4, <2>5, <3>3, <4>1
    <3> QED BY <3>1, <3>2, <3>3
  <2> QED BY <1>0, <2>3, <2>6 DEF Timely
<1> QED BY <1>1, <1>2, <1>3, <1>4, <1>5 DEF TimerLoop

LEMMA TimelyStep == TypeInv /\ Timely /\ [Next]_vars => Timely'
<1> SUFFICES ASSUME TypeInv, Timely, [Next]_vars PROVE Timely'
  OBVIOUS
<1>0. /\ clock \in 1..MaxTime /\ file \in [Keys -> FileType] /\ Workers(running, again, drain)
  BY DEF TypeInv, World, Files
<1>1. ASSUME file' = file, clock' \in {clock, clock + 1}, timer' = timer \/ timer'.pc \notin {"clear", "cleared", "submit"}
      PROVE  Timely'
  <2>1. Unrung
    BY <1>1 DEF Unrung
  <2> QED BY <2>1, TimelyUnrung
<1>2. ASSUME NEW k \in Keys, NEW f, file' = [file EXCEPT ![k] = f], UNCHANGED <<clock, timer>>,
             \A t \in 1..MaxTime : Timer(k, t) \in f.seen => Timer(k, t) \in file[k].seen,
             f.wake \in {file[k].wake, 0, clock + 1}
      PROVE  Timely'
  <2>1. Unrung
    BY <1>0, <1>2 DEF Unrung
  <2> QED BY <2>1, TimelyUnrung
<1>3. ASSUME NEW s \in Submits, SubmitFile(s) \/ SubmitRow(s) PROVE Timely'
  <2> DEFINE k == EventKey[SubmitEvent[s]]
             v == Sent(SubmitEvent[s])
  <2>1. UNCHANGED <<clock, timer>> /\ (file' = file \/ file' = [file EXCEPT ![k] = Filed(k, v)])
    BY <1>3 DEF SubmitFile, SubmitRow, world
  <2>2. k \in Keys /\ v \in Values /\ SubmitEvent[s] \in Events
    BY DeliveryTypes, DeskAssumption
  <2>3. Filed(k, v).seen = file[k].seen \cup {v} /\ Filed(k, v).wake = file[k].wake
    BY <1>0, <2>2, FiledHasEvents
  <2>4. \A t \in 1..MaxTime : Timer(k, t) \in Filed(k, v).seen => Timer(k, t) \in file[k].seen
    BY <2>2, <2>3, ValuesApart
  <2> HIDE DEF k, v
  <2> QED BY <1>1, <1>2, <2>1, <2>2, <2>3, <2>4
<1>4. ASSUME NEW d \in Drains, Work(d) PROVE Timely'
  <2>1. UNCHANGED <<clock, timer>>
    BY <1>4, WorkFacts, ExitFacts DEF Exit, world
  <2>2. CASE file' = file
    BY <1>1, <2>1, <2>2
  <2>3. CASE file' # file
    <3>1. PICK k \in Keys : k = drain[d].key /\ drain[d].pc # "none"
      BY <1>4, <2>3, DrainStep DEF Work, Take, Begin, Tool, ToolRow, Turned, Finish, FinishRow, Exit, durable
    <3>2. CASE Take(d)
      <4> DEFINE f == [file[k] EXCEPT !.pending = <<>>,
                           !.status = IF file[k].status \in {"new", "waiting", "resolved"} THEN "working" ELSE file[k].status]
      <4>1. file' = [file EXCEPT ![k] = f]
        BY <1>0, <2>3, <3>1, <3>2 DEF Take
      <4>2. f.seen = file[k].seen /\ f.wake = file[k].wake
        BY <1>0 DEF FileType
      <4> HIDE DEF f
      <4> QED BY <1>2, <2>1, <4>1, <4>2
    <3>3. CASE Tool(d)
      <4>1. PICK t \in {"wait", "wake_at", "resolve", "finish", "note"} : file' = [file EXCEPT ![k] = Tooled(file[k], t)]
        BY <3>1, <3>3 DEF Tool
      <4>2. Tooled(file[k], t).seen = file[k].seen /\ Tooled(file[k], t).wake \in {file[k].wake, 0, clock + 1}
        BY <1>0, TooledWakes
      <4> QED BY <1>2, <2>1, <4>1, <4>2
    <3>4. CASE Finish(d)
      <4>1. file' = [file EXCEPT ![k] = Finished(file[k], drain[d].failed)] /\ drain[d].failed \in BOOLEAN
        BY <1>0, <3>1, <3>4 DEF Finish, Workers, DrainType
      <4>2. LET f == Finished(file[k], drain[d].failed)
            IN f.seen = file[k].seen /\ f.wake \in {file[k].wake, 0, clock + 1}
        BY <1>0, <4>1, FinishedWakes
      <4> QED BY <1>2, <2>1, <4>1, <4>2
    <3> QED BY <1>4, <2>3, <3>2, <3>3, <3>4 DEF Work, Begin, ToolRow, Turned, FinishRow, Exit, durable
  <2> QED BY <2>2, <2>3
<1>5. CASE TimerLoop
  BY <1>5, TimelyTimer
<1>6. CASE Resume
  BY <1>1, <1>6 DEF Resume, ResumeList, ResumeCase, durable, world
<1>7. CASE Stop
  BY <1>1, <1>7 DEF Stop, durable, Off
<1>8. CASE Start
  BY <1>1, <1>8 DEF Start, durable, Off
<1>9. CASE Fault
  <2>1. UNCHANGED <<file, clock>> /\ (timer' = timer \/ timer' = Off)
    BY <1>9 DEF Fault, durable
  <2> QED BY <1>1, <2>1 DEF Off
<1>10. CASE Tick \/ UNCHANGED vars
  BY <1>1, <1>10 DEF Tick, vars, durable
<1> QED BY <1>3, <1>4, <1>5, <1>6, <1>7, <1>8, <1>9, <1>10 DEF Next

-----------------------------------------------------------------------------
(* Nothing is forgotten while the process runs.                            *)

\* The file of case k is as it was, and so is what watches over it.
Undisturbed(k) ==
    /\ file'[k] = file[k]
    /\ Turning(k) => Turning(k)'
    /\ file[k].status \in {"waiting", "resolved"} /\ file[k].wake = 0 /\ Cleared(k) => file[k].pending # <<>> \/ Cleared(k)'
    /\ file[k].status \in OpenStates /\ file[k].wake # 0 /\ Due(k) => Due(k)'

LEMMA WatchedUndisturbed ==
    ASSUME NEW k \in Keys, Watched(k), Undisturbed(k), file'[k].pending # <<>> => Minded(k)'
    PROVE  Watched(k)'
BY DEF Watched, Undisturbed

LEMMA WatchSubmit ==
    ASSUME TypeInv, Staffed, NEW s \in Submits, SubmitFile(s) \/ SubmitRow(s), NEW k \in Keys, Watched(k),
           file'[k].pending # <<>> => Minded(k)'
    PROVE  Watched(k)'
<1>0. PICK j \in Keys : j = EventKey[SubmitEvent[s]]
  BY DeliveryTypes
<1>1. sub \in [Submits -> [pc : {"idle", "row", "done"}, row : RowType]] /\ file \in [Keys -> FileType]
  BY DEF TypeInv, Calls, Files
<1>2. CASE SubmitFile(s) /\ k = j /\ file' # file
  <2> DEFINE f == Filed(k, Sent(SubmitEvent[s]))
  <2>1. file' = [file EXCEPT ![k] = f] /\ sub' = [sub EXCEPT ![s] = [pc |-> "row", row |-> Row(file'[k])]]
    BY <1>0, <1>2 DEF SubmitFile
  <2>2. f.pending # <<>>
    BY <1>1, DeliveryTypes, FiledHasEvents
  <2> HIDE DEF f
  <2>3. file'[k] = f /\ sub'[s].pc = "row" /\ sub'[s].row = Row(file'[k])
    BY <1>1, <2>1
  <2>4. file'[k].status \in OpenStates => SubmitComes(k, file[k].wake)'
    BY <1>0, <1>2, <2>3 DEF SubmitComes, Opens, Row
  <2> QED BY <2>2, <2>3, <2>4 DEF Watched, Due
<1>3. CASE SubmitFile(s) /\ (k # j \/ file' = file)
  <2>1. file'[k] = file[k] /\ UNCHANGED <<drain, timer, agenda>>
    BY <1>0, <1>1, <1>3 DEF SubmitFile, worker
  <2>2. \A t \in Submits : sub[t].pc = "row" => sub'[t] = sub[t]
    BY <1>1, <1>3 DEF SubmitFile
  <2>3. Turning(k) => Turning(k)'
    BY <2>1 DEF Turning
  <2>4. Due(k) => Due(k)'
    BY <2>1, <2>2 DEF Due, SubmitComes, DrainComes, TimerComes
  <2> QED BY <2>1, <2>3, <2>4, WatchedUndisturbed DEF Undisturbed, Cleared
<1>4. CASE SubmitRow(s)
  <2>1. /\ Schedule(j, running, again, drain) /\ UNCHANGED <<file, timer>> /\ Index(j, sub[s].row)
        /\ \A t \in Submits \ {s} : sub'[t] = sub[t]
    BY <1>0, <1>1, <1>4 DEF SubmitRow
  <2>2. \A d \in Drains : drain[d].pc # "none" => drain'[d] = drain[d]
    BY <2>1, Scheduled
  <2>3. agenda \subseteq agenda'
    BY <2>1 DEF Index
  <2>4. Turning(k) => Turning(k)'
    BY <2>2 DEF Turning
  <2>5. ASSUME file[k].wake # 0, Due(k) PROVE Due(k)'
    <3> DEFINE w == file[k].wake
    <3>1. CASE SubmitComes(k, w)
      <4>1. PICK t \in Submits : sub[t].pc = "row" /\ EventKey[SubmitEvent[t]] = k /\ Opens(sub[t].row, w)
        BY <3>1 DEF SubmitComes
      <4>2. CASE t = s
        BY <1>0, <2>1, <2>5, <4>1, <4>2 DEF Index, Opens, Due
      <4>3. CASE t # s
        BY <2>1, <4>1, <4>3 DEF SubmitComes, Due
      <4> QED BY <4>2, <4>3
    <3>2. CASE DrainComes(k, w)
      BY <2>1, <2>2, <3>2 DEF DrainComes, Due
    <3> QED BY <2>1, <2>3, <2>5, <3>1, <3>2 DEF Due, TimerComes
  <2> QED BY <2>1, <2>4, <2>5, WatchedUndisturbed DEF Undisturbed, Cleared
<1> QED BY <1>2, <1>3, <1>4

\* What drains do: one that does not watch over the case, one that writes its
\* row or ends its turn, and one that changes its file.
LEMMA WatchAside ==
    ASSUME TypeInv, NEW d \in Drains, NEW k \in Keys, UNCHANGED <<sub, timer>>, agenda \subseteq agenda', file'[k] = file[k],
           \A e \in Drains \ {d} : drain[e].pc # "none" => drain'[e] = drain[e],
           Watched(k), file'[k].pending # <<>> => Minded(k)',
           drain[d].key # k \/ drain[d].pc \in {"take", "finished", "exit"} \/ Turning(k)',
           drain[d].key = k /\ file[k].wake # 0 /\ drain[d].pc \in {"index", "tool", "finished"}
               /\ Opens(drain[d].row, file[k].wake) => <<file[k].wake, k>> \in agenda'
    PROVE  Watched(k)'
<1>1. Turning(k) => Turning(k)'
  BY DEF Turning
<1>2. ASSUME file[k].wake # 0, Due(k) PROVE Due(k)'
  <2>1. CASE DrainComes(k, file[k].wake)
    <3>1. PICK e \in Drains : /\ drain[e].pc \in {"index", "tool", "finished"} /\ drain[e].key = k
                              /\ Opens(drain[e].row, file[k].wake)
      BY <2>1 DEF DrainComes
    <3>2. CASE e = d
      BY <1>2, <3>1, <3>2 DEF Due
    <3>3. CASE e # d
      BY <3>1, <3>3 DEF Due, DrainComes
    <3> QED BY <3>2, <3>3
  <2> QED BY <1>2, <2>1 DEF Due, SubmitComes, TimerComes
<1> QED BY <1>1, <1>2, WatchedUndisturbed DEF Undisturbed, Cleared

LEMMA WatchRows ==
    ASSUME TypeInv, Staffed, NEW d \in Drains, Begin(d) \/ ToolRow(d) \/ Turned(d) \/ FinishRow(d), NEW k \in Keys,
           drain[d].key = k, Watched(k), file'[k].pending # <<>> => Minded(k)'
    PROVE  Watched(k)'
<1>1. Work(d) /\ ~Exit(d)
  BY DEF Work, Begin, ToolRow, Turned, FinishRow, Exit
<1>2. /\ UNCHANGED <<sub, timer>> /\ agenda \subseteq agenda' /\ drain'[d].key = k
      /\ \A e \in Drains \ {d} : drain'[e] = drain[e]
  BY <1>1, WorkFacts
<1>3. file' = file /\ drain \in [Drains -> DrainType]
  BY DEF Begin, ToolRow, Turned, FinishRow, durable, TypeInv, Workers
<1>4. drain[d].pc = "finished" \/ Turning(k)'
  <2>1. CASE Begin(d)
    <3>1. drain'[d].pc \in {"work", "finish"}
      BY <1>3, <2>1 DEF Begin, NoDrain
    <3> QED BY <1>2, <3>1 DEF Turning
  <2>2. CASE ToolRow(d)
    <3>1. drain'[d].pc = "work"
      BY <1>3, <2>2 DEF ToolRow, DrainType
    <3> QED BY <1>2, <3>1 DEF Turning
  <2>3. CASE Turned(d)
    <3>1. PICK error \in BOOLEAN : drain' = [drain EXCEPT ![d] = [drain[d] EXCEPT !.pc = "finish", !.failed = error]]
      BY <2>3 DEF Turned
    <3>2. drain'[d].pc = "finish"
      BY <1>3, <3>1 DEF DrainType
    <3> QED BY <1>2, <3>2 DEF Turning
  <2>4. CASE FinishRow(d)
    BY <2>4 DEF FinishRow
  <2> QED BY <2>1, <2>2, <2>3, <2>4
<1>5. ASSUME file[k].wake # 0, drain[d].pc \in {"index", "tool", "finished"}, Opens(drain[d].row, file[k].wake)
      PROVE  <<file[k].wake, k>> \in agenda'
  <2>1. Index(k, drain[d].row)
    BY <1>5 DEF Begin, ToolRow, Turned, FinishRow
  <2> QED BY <1>5, <2>1 DEF Index, Opens
<1> QED BY <1>2, <1>3, <1>4, <1>5, WatchAside

LEMMA WatchFiles ==
    ASSUME TypeInv, Staffed, NEW d \in Drains, Take(d) \/ Tool(d) \/ Finish(d), NEW k \in Keys,
           drain[d].key = k, Watched(k), file'[k].pending # <<>> => Minded(k)'
    PROVE  Watched(k)'
<1>0. drain \in [Drains -> DrainType] /\ file \in [Keys -> FileType] /\ World
  BY DEF TypeInv, Workers, Files
<1>1. Work(d) /\ ~Exit(d)
  BY DEF Work, Take, Tool, Finish, Exit
<1>2. UNCHANGED <<sub, timer>> /\ drain'[d].key = k /\ \A e \in Drains \ {d} : drain'[e] = drain[e]
  BY <1>1, WorkFacts
<1>3. CASE Take(d) /\ file[k].pending = <<>>
  <2>1. file' = file /\ drain[d].pc = "take" /\ agenda' = agenda
    BY <1>3 DEF Take
  <2> QED BY <1>2, <2>1, WatchAside
<1>4. ASSUME drain'[d].pc \in {"index", "tool", "finished"}, drain'[d].row = Row(file'[k]), file'[k].status \in OpenStates
      PROVE  Due(k)'
  BY <1>2, <1>4 DEF Due, DrainComes, Opens, Row
<1>5. CASE Take(d) /\ file[k].pending # <<>>
  <2> DEFINE f == [file[k] EXCEPT !.pending = <<>>,
                       !.status = IF file[k].status \in {"new", "waiting", "resolved"} THEN "working" ELSE file[k].status]
             t == [drain[d] EXCEPT !.pc = "index", !.events = file[k].pending, !.row = Row(file'[k])]
  <2>1. file' = [file EXCEPT ![k] = f] /\ drain' = [drain EXCEPT ![d] = t]
    BY <1>0, <1>5 DEF Take
  <2>2. f.pending = <<>> /\ f.status \notin {"new", "waiting", "resolved"}
    BY <1>0 DEF FileType
  <2>3. t.pc = "index" /\ t.row = Row(file'[k])
    BY <1>0 DEF DrainType
  <2> HIDE DEF f, t
  <2>4. file'[k] = f /\ drain'[d] = t
    BY <1>0, <2>1
  <2>5. Turning(k)'
    BY <1>2, <2>3, <2>4 DEF Turning
  <2> QED BY <1>4, <2>2, <2>3, <2>4, <2>5 DEF Watched
<1>6. CASE Tool(d)
  <2>1. PICK t \in {"wait", "wake_at", "resolve", "finish", "note"} : file' = [file EXCEPT ![k] = Tooled(file[k], t)]
    BY <1>6 DEF Tool
  <2> DEFINE f == Tooled(file[k], t)
             u == Called(drain[d], Row(file'[k]))
  <2>2. /\ f.pending = file[k].pending
        /\ f.status \in {"new", "working"} => f.status = file[k].status
        /\ f.status \in {"waiting", "resolved"} /\ f.wake = 0 => f.status = file[k].status /\ file[k].wake = 0
    BY <1>0, TooledFacts, TooledWakes DEF World
  <2>3. drain' = [drain EXCEPT ![d] = u]
    BY <1>6 DEF Tool
  <2>4. u.pc = "tool" /\ u.row = Row(file'[k])
    BY <1>0 DEF Called, DrainType
  <2> HIDE DEF f, u
  <2>5. file'[k] = f /\ drain'[d] = u
    BY <1>0, <2>1, <2>3 DEF f
  <2>6. Turning(k)'
    BY <1>2, <2>4, <2>5 DEF Turning
  <2> QED BY <1>2, <1>4, <2>2, <2>4, <2>5, <2>6 DEF Watched, Cleared
<1>7. CASE Finish(d)
  <2> DEFINE f == Finished(file[k], drain[d].failed)
             u == [drain[d] EXCEPT !.pc = "finished", !.row = Row(file'[k])]
  <2>1. file' = [file EXCEPT ![k] = f] /\ drain' = [drain EXCEPT ![d] = u] /\ drain[d].failed \in BOOLEAN
    BY <1>0, <1>7 DEF Finish, DrainType
  <2>2. /\ f.pending = file[k].pending
        /\ f.status # "working" /\ (f.status = "new" => file[k].status = "new")
        /\ f.status \in {"waiting", "resolved"} /\ f.wake = 0 => f.status = file[k].status /\ file[k].wake = 0
    BY <1>0, <2>1, FinishedFacts, FinishedWakes DEF World
  <2>3. u.pc = "finished" /\ u.row = Row(file'[k])
    BY <1>0 DEF DrainType
  <2> HIDE DEF f, u
  <2>4. file'[k] = f /\ drain'[d] = u
    BY <1>0, <2>1
  <2> QED BY <1>2, <1>4, <2>2, <2>3, <2>4 DEF Watched, Cleared
<1> QED BY <1>3, <1>5, <1>6, <1>7

LEMMA WatchWork ==
    ASSUME TypeInv, Staffed, NEW d \in Drains, Work(d), NEW k \in Keys, Watched(k),
           file'[k].pending # <<>> => Minded(k)'
    PROVE  Watched(k)'
<1>1. CASE Exit(d)
  <2>1. /\ drain[d].pc = "exit" /\ \A e \in Drains \ {d} : drain[e].pc # "none" => drain'[e] = drain[e]
        /\ UNCHANGED <<file, sub, timer, agenda>>
    BY <1>1, ExitFacts
  <2> QED BY <2>1, WatchAside
<1>2. CASE ~Exit(d) /\ drain[d].key # k
  <2>1. /\ \A e \in Drains \ {d} : drain'[e] = drain[e]
        /\ UNCHANGED <<sub, timer>> /\ agenda \subseteq agenda' /\ file'[k] = file[k]
    BY <1>2, WorkFacts
  <2> QED BY <1>2, <2>1, WatchAside
<1>3. CASE ~Exit(d) /\ drain[d].key = k
  BY <1>3, WatchRows, WatchFiles DEF Work
<1> QED BY <1>1, <1>2, <1>3

\* The timer loop: what it does for other cases, and what it does for this one.
LEMMA WatchAlarm ==
    ASSUME NEW k \in Keys, UNCHANGED sub, file'[k] = file[k], \A d \in Drains : drain[d].pc # "none" => drain'[d] = drain[d],
           Watched(k), file'[k].pending # <<>> => Minded(k)',
           file[k].status \in {"waiting", "resolved"} /\ Cleared(k) => file[k].pending # <<>> \/ Cleared(k)',
           /\ file[k].status \in OpenStates /\ file[k].wake # 0
           /\ \/ <<file[k].wake, k>> \in agenda \/ TimerComes(k, file[k].wake)
              \/ timer.pc = "clear" /\ timer.key = k
           => Due(k)'
    PROVE  Watched(k)'
<1>1. Turning(k) => Turning(k)'
  BY DEF Turning
<1>2. ASSUME file[k].status \in OpenStates, file[k].wake # 0, Due(k) PROVE Due(k)'
  <2>1. CASE DrainComes(k, file[k].wake)
    BY <2>1 DEF DrainComes, Due
  <2>2. CASE SubmitComes(k, file[k].wake)
    BY <2>2 DEF SubmitComes, Due
  <2> QED BY <1>2, <2>1, <2>2 DEF Due
<1> QED BY <1>1, <1>2, WatchedUndisturbed DEF Undisturbed

LEMMA WatchTimer ==
    ASSUME TypeInv, Staffed, Timely, TimerLoop, NEW k \in Keys, Watched(k),
           file'[k].pending # <<>> => Minded(k)'
    PROVE  Watched(k)'
<1>0. timer \in TimerType /\ file \in [Keys -> FileType] /\ sub' = sub
  BY DEF TypeInv, Timers, TimerType, Files, TimerLoop, Rebuild, Pop, Clear, ClearRow, TimerFile, TimerRow
<1>1. CASE Rebuild
  <2>1. timer.pc = "rebuild" /\ UNCHANGED <<file, drain>> /\ agenda \subseteq agenda'
    BY <1>1 DEF Rebuild, durable, worker
  <2> QED BY <1>0, <2>1, WatchAlarm DEF Cleared, TimerComes, Due
<1>2. CASE Pop
  <2>1. timer.pc = "idle" /\ UNCHANGED <<file, drain>>
    BY <1>2 DEF Pop, durable, worker
  <2>2. ASSUME file[k].status \in OpenStates, file[k].wake # 0, <<file[k].wake, k>> \in agenda
        PROVE  Due(k)'
    <3>1. PICK w \in agenda :
             /\ agenda' = agenda \ {w}
             /\ timer' = IF Stands(w[2], w[1]) THEN [Off EXCEPT !.pc = "clear", !.key = w[2], !.due = w[1]] ELSE timer
      BY <1>2 DEF Pop
    <3>2. CASE w = <<file[k].wake, k>>
      <4>1. timer' = [Off EXCEPT !.pc = "clear", !.key = k, !.due = w[1]]
        BY <2>2, <3>1, <3>2 DEF Stands
      <4> QED BY <4>1 DEF Due, Off
    <3>3. CASE w # <<file[k].wake, k>>
      BY <2>1, <2>2, <3>1, <3>3 DEF Due
    <3> QED BY <3>2, <3>3
  <2> QED BY <1>0, <2>1, <2>2, WatchAlarm DEF Cleared, TimerComes
<1>3. CASE Clear /\ k # timer.key
  <2>1. timer.pc = "clear" /\ UNCHANGED <<agenda, drain>> /\ file'[k] = file[k]
    BY <1>0, <1>3 DEF Clear, worker
  <2> QED BY <1>0, <1>3, <2>1, WatchAlarm DEF Cleared, TimerComes, Due
<1>4. CASE Clear /\ k = timer.key
  <2>1. file' = [file EXCEPT ![k] = [file[k] EXCEPT !.wake = 0]] /\ drain' = drain
    BY <1>4 DEF Clear, worker
  <2>2. /\ file'[k].wake = 0 /\ file'[k].status = file[k].status /\ file'[k].pending = file[k].pending
    BY <1>0, <2>1 DEF FileType
  <2>3. timer'.pc = "cleared" /\ timer'.key = k
    BY <1>0, <1>4 DEF Clear, TimerType
  <2> QED BY <2>1, <2>2, <2>3 DEF Watched, Cleared, Turning
<1>5. CASE ClearRow
  <2>1. timer.pc = "cleared" /\ UNCHANGED <<file, drain>> /\ Index(timer.key, timer.row)
    BY <1>5 DEF ClearRow, worker
  <2>2. timer'.pc = "submit" /\ timer'.key = timer.key
    BY <1>0, <1>5 DEF ClearRow, TimerType
  <2>3. ASSUME file[k].wake # 0, <<file[k].wake, k>> \in agenda \/ TimerComes(k, file[k].wake) PROVE Due(k)'
    BY <2>1, <2>3 DEF Due, Index, TimerComes, Opens
  <2> QED BY <1>0, <2>1, <2>2, <2>3, WatchAlarm DEF Cleared
<1>6. CASE TimerFile /\ k = timer.key /\ file' # file
  <2>1. PICK t \in 1..MaxTime : t = timer.due /\ Timer(k, t) \in Values
    BY <1>6, DeliveryTypes DEF TypeInv, Timers, TimerFile
  <2> DEFINE f == Filed(k, Timer(k, t))
  <2>2. file' = [file EXCEPT ![k] = f] /\ timer' = [timer EXCEPT !.pc = "submitted", !.row = Row(file'[k])]
    BY <1>6, <2>1 DEF TimerFile
  <2>3. f.pending # <<>>
    BY <1>0, <2>1, FiledHasEvents
  <2> HIDE DEF f
  <2>4. file'[k] = f /\ timer'.pc = "submitted" /\ timer'.key = k /\ timer'.row = Row(file'[k])
    BY <1>0, <1>6, <2>2 DEF TimerType
  <2>5. file'[k].status \in OpenStates => Due(k)'
    BY <2>4 DEF Due, TimerComes, Opens, Row
  <2> QED BY <2>3, <2>4, <2>5 DEF Watched
<1>7. CASE TimerFile /\ (k # timer.key \/ file' = file)
  <2>1. timer.pc = "submit" /\ UNCHANGED <<drain, agenda>> /\ file'[k] = file[k]
    BY <1>0, <1>7 DEF TimerFile, worker
  <2>2. ASSUME file[k].status \in {"waiting", "resolved"}, Cleared(k) PROVE FALSE
    <3>1. timer.key = k /\ file' = file
      BY <1>7, <2>2 DEF Cleared
    <3>2. Timer(k, timer.due) \notin file[k].seen
      BY <2>1, <3>1 DEF Timely
    <3>3. Admits(k, Timer(k, timer.due), FALSE, FALSE)
      BY <2>2, <3>2 DEF Admits, FinalStates
    <3>4. file' = [file EXCEPT ![k] = Filed(k, Timer(k, timer.due))]
      BY <1>7, <3>1, <3>3 DEF TimerFile
    <3>5. PICK t \in 1..MaxTime : t = timer.due /\ Timer(k, t) \in Values
      BY <1>7, <3>1, DeliveryTypes DEF TypeInv, Timers, TimerFile
    <3>6. Timer(k, t) \in Filed(k, Timer(k, t)).seen
      BY <1>0, <3>5, FiledHasEvents
    <3> QED BY <1>0, <3>1, <3>2, <3>4, <3>5, <3>6
  <2> QED BY <1>0, <2>1, <2>2, WatchAlarm DEF TimerComes, Due
<1>8. CASE TimerRow
  <2>1. PICK j \in Keys : j = timer.key /\ timer.pc = "submitted"
    BY <1>8 DEF TypeInv, Timers, TimerRow
  <2>2. Schedule(j, running, again, drain) /\ file' = file /\ Index(j, timer.row)
    BY <1>8, <2>1 DEF TimerRow
  <2>3. ASSUME file[k].wake # 0, <<file[k].wake, k>> \in agenda \/ TimerComes(k, file[k].wake) PROVE Due(k)'
    BY <2>1, <2>2, <2>3 DEF Due, Index, TimerComes, Opens
  <2> QED BY <1>0, <2>1, <2>2, <2>3, Scheduled, WatchAlarm DEF Cleared
<1> QED BY <1>1, <1>2, <1>3, <1>4, <1>5, <1>6, <1>7, <1>8 DEF TimerLoop

\* Nothing is forgotten while the process runs and its store works.
LEMMA WatchStep == TypeInv /\ Staffed /\ Down /\ Timely /\ Watch /\ [Next]_vars => Watch'
<1> SUFFICES ASSUME TypeInv, Staffed, Down, Timely, Watch, [Next]_vars PROVE Watch'
  OBVIOUS
<1>1. CASE Goes
  <2> SUFFICES ASSUME stops' = 0, ~faulty', NEW k \in Keys PROVE Watched(k)'
    BY DEF Watch
  <2>1. UNCHANGED <<stops, faulty>>
    <3>1. CASE \E d \in Drains : Work(d)
      BY <3>1, WorkFacts, ExitFacts
    <3>2. CASE ~\E d \in Drains : Work(d)
      BY <1>1, <3>2 DEF Goes, SubmitFile, SubmitRow, TimerLoop, Rebuild, Pop, Clear, ClearRow, TimerFile, TimerRow,
                        Resume, ResumeList, ResumeCase, Start, Tick, world
    <3> QED BY <3>1, <3>2
  <2>2. Watched(k)
    BY <2>1 DEF Watch
  <2>3. file'[k].pending # <<>> => Minded(k)'
    <3>1. file[k].pending = <<>> \/ Minded(k)
      BY <2>2 DEF Watched
    <3> QED BY <1>1, <3>1, MindedStep
  <2>4. ASSUME NEW s \in Submits, SubmitFile(s) \/ SubmitRow(s) PROVE Watched(k)'
    BY <2>2, <2>3, <2>4, WatchSubmit
  <2>5. ASSUME NEW d \in Drains, Work(d) PROVE Watched(k)'
    BY <2>2, <2>3, <2>5, WatchWork
  <2>6. CASE TimerLoop
    BY <2>2, <2>3, <2>6, WatchTimer
  <2>7. CASE Resume \/ Start \/ Tick
    <3>1. UNCHANGED <<file, sub, agenda>> /\ (timer' = timer \/ timer.pc = "off")
      BY <2>7 DEF Resume, ResumeList, ResumeCase, Start, Tick, durable, Down
    <3>2. \A d \in Drains : drain[d].pc # "none" => drain'[d] = drain[d]
      <4>1. CASE drain' = drain
        BY <4>1
      <4>2. CASE drain' # drain
        <5>1. PICK j \in Keys : Schedule(j, running, again, drain)
          BY <2>7, <4>2 DEF Resume, ResumeList, ResumeCase, Start, Tick, worker, TypeInv, Resuming
        <5> QED BY <5>1, Scheduled
      <4> QED BY <4>1, <4>2
    <3> QED BY <2>2, <2>3, <3>1, <3>2, WatchAlarm DEF Cleared, TimerComes, Due
  <2> QED BY <1>1, <2>4, <2>5, <2>6, <2>7 DEF Goes
<1>2. CASE Stop
  <2>1. stops \in Nat /\ stops' = stops + 1
    BY <1>2 DEF Stop, TypeInv, World
  <2> QED BY <2>1 DEF Watch
<1>3. CASE Fault
  BY <1>3 DEF Fault, Watch
<1>4. CASE UNCHANGED vars
  <2>1. UNCHANGED <<file, sub, agenda, timer, drain, again, stops, faulty>>
    BY <1>4 DEF vars
  <2>2. ASSUME NEW k \in Keys, Watched(k) PROVE Watched(k)'
    BY <2>1, <2>2 DEF Watched, Minded, Attended, Owed, Turning, Cleared, Due, SubmitComes, DrainComes, TimerComes
  <2> QED BY <2>1, <2>2 DEF Watch
<1> QED BY <1>1, <1>2, <1>3, <1>4 DEF Next, Goes

-----------------------------------------------------------------------------
(* Timers ring for what is open, and resumption misses nothing.            *)

LEMMA GoesOn == TypeInv /\ Staffed /\ Goes => UNCHANGED <<stops, faulty>>
<1> SUFFICES ASSUME TypeInv, Staffed, Goes PROVE UNCHANGED <<stops, faulty>>
  OBVIOUS
<1>1. CASE \E d \in Drains : Work(d)
  BY <1>1, WorkFacts, ExitFacts
<1>2. CASE ~\E d \in Drains : Work(d)
  BY <1>2 DEF Goes, SubmitFile, SubmitRow, TimerLoop, Rebuild, Pop, Clear, ClearRow, TimerFile, TimerRow,
              Resume, ResumeList, ResumeCase, Start, Tick, world
<1> QED BY <1>1, <1>2

\* A drain that changes a file or a row attends to its case.
LEMMA WorkMinds ==
    ASSUME TypeInv, Staffed, NEW d \in Drains, Work(d), NEW k \in Keys, ~Minded(k)
    PROVE  file'[k] = file[k] /\ row'[k] = row[k]
<1>1. CASE Exit(d)
  BY <1>1, ExitFacts
<1>2. CASE ~Exit(d) /\ drain[d].key # k
  BY <1>2, WorkFacts
<1>3. CASE ~Exit(d) /\ drain[d].key = k
  <2>1. drain[d].pc \in {"take", "index", "work", "tool", "finish", "finished"}
    BY <1>3, WorkFacts
  <2> QED BY <1>3, <2>1 DEF Minded, Attended
<1> QED BY <1>1, <1>2, <1>3

\* An open case that no drain attends to stays open.
LEMMA StaysOpen ==
    ASSUME TypeInv, Staffed, Goes, NEW k \in Keys, ~Minded(k), file[k].status \in OpenStates
    PROVE  file'[k].status \in OpenStates
<1>0. file \in [Keys -> FileType]
  BY DEF TypeInv, Files
<1>1. ASSUME NEW s \in Submits, SubmitFile(s) \/ SubmitRow(s) PROVE file'[k].status \in OpenStates
  <2> DEFINE f == Filed(EventKey[SubmitEvent[s]], Sent(SubmitEvent[s]))
  <2>1. file' = file \/ file' = [file EXCEPT ![EventKey[SubmitEvent[s]]] = f]
    BY <1>1 DEF SubmitFile, SubmitRow
  <2>2. f.status \in OpenStates
    BY <1>0, DeliveryTypes, FiledHasEvents
  <2> HIDE DEF f
  <2> QED BY <1>0, <2>1, <2>2
<1>2. ASSUME NEW d \in Drains, Work(d) PROVE file'[k].status \in OpenStates
  BY <1>2, WorkMinds
<1>3. CASE Clear
  <2>1. file' = [file EXCEPT ![timer.key] = [file[timer.key] EXCEPT !.wake = 0]] /\ timer.key \in Keys
    BY <1>0, <1>3 DEF Clear, TypeInv, Timers
  <2>2. [file[timer.key] EXCEPT !.wake = 0].status = file[timer.key].status
    BY <1>0, <2>1 DEF FileType
  <2> QED BY <1>0, <2>1, <2>2
<1>4. CASE TimerFile
  <2>1. PICK j \in Keys, v \in Values : j = timer.key /\ v = Timer(j, timer.due)
    BY <1>4, DeliveryTypes DEF TypeInv, Timers, TimerFile
  <2>2. file' = file \/ file' = [file EXCEPT ![j] = Filed(j, v)]
    BY <1>4, <2>1 DEF TimerFile
  <2>3. Filed(j, v).status \in OpenStates
    BY <1>0, FiledHasEvents
  <2> QED BY <1>0, <2>2, <2>3
<1>5. CASE file' = file
  BY <1>5
<1> QED BY <1>1, <1>2, <1>3, <1>4, <1>5 DEF Goes, TimerLoop, Rebuild, Pop, ClearRow, TimerRow, Resume, ResumeList,
                                            ResumeCase, Start, Tick, durable

LEMMA RungStep == TypeInv /\ Staffed /\ Down /\ Rung /\ [Next]_vars => Rung'
<1> SUFFICES ASSUME TypeInv, Staffed, Down, Rung, [Next]_vars PROVE Rung'
  OBVIOUS
<1>1. CASE Goes
  <2>k. PICK k : k = timer'.key
    OBVIOUS
  <2> SUFFICES ASSUME ~faulty', timer'.pc \in {"clear", "cleared", "submit"}, file'[k].pending # <<>>, ~Minded(k)'
               PROVE  file'[k].status \in OpenStates
    BY <2>k DEF Rung, Minded, Attended, Owed
  <2>0. timer \in TimerType /\ ~faulty
    BY <1>1, GoesOn DEF TypeInv, Timers, TimerType
  <2>1. CASE timer.pc \in {"clear", "cleared", "submit"} /\ timer.key = k
    <3>1. k \in Keys
      BY <2>1 DEF TypeInv, Timers
    <3>2. file[k].pending # <<>> /\ ~Minded(k)
      BY <1>1, <3>1, MindedStep
    <3>3. file[k].status \in OpenStates
      BY <2>0, <2>1, <3>2 DEF Rung
    <3> QED BY <1>1, <3>1, <3>2, <3>3, StaysOpen
  <2>2. CASE ~(timer.pc \in {"clear", "cleared", "submit"} /\ timer.key = k)
    <3>1. timer' # timer
      BY <2>k, <2>2
    <3>2. ASSUME timer.pc \in {"clear", "cleared", "submit"}, timer'.key = timer.key PROVE FALSE
      BY <2>k, <2>2, <3>2
    <3>3. CASE Pop
      <4>1. PICK w \in agenda : Stands(w[2], w[1]) /\ timer' = [Off EXCEPT !.pc = "clear", !.key = w[2], !.due = w[1]]
        BY <3>1, <3>3 DEF Pop
      <4>2. timer'.key = w[2] /\ file' = file
        BY <3>3, <4>1 DEF Off, Pop, durable
      <4> QED BY <2>k, <4>1, <4>2 DEF Stands
    <3>4. CASE TimerLoop /\ ~Pop
      <4>1. \/ Clear /\ timer'.key = timer.key /\ timer.pc = "clear"
            \/ ClearRow /\ timer'.key = timer.key /\ timer.pc = "cleared"
            \/ timer'.pc \in {"idle", "submitted"}
        BY <2>0, <3>4 DEF TimerLoop, Rebuild, Clear, ClearRow, TimerFile, TimerRow, TimerType, Off
      <4> QED BY <3>2, <4>1
    <3>5. CASE Start
      BY <3>5 DEF Start, Off
    <3>6. CASE \E d \in Drains : Work(d)
      BY <3>1, <3>6, WorkFacts, ExitFacts
    <3> QED BY <1>1, <3>1, <3>3, <3>4, <3>5, <3>6 DEF Goes, SubmitFile, SubmitRow, Resume, ResumeList, ResumeCase, Tick
  <2> QED BY <2>1, <2>2
<1>2. CASE Stop
  BY <1>2 DEF Stop, Rung, Off
<1>3. CASE Fault
  BY <1>3 DEF Fault, Rung
<1>4. CASE UNCHANGED vars
  BY <1>4 DEF vars, Rung, Minded, Attended, Owed
<1> QED BY <1>1, <1>2, <1>3, <1>4 DEF Next, Goes

LEMMA ResumedStep == TypeInv /\ Staffed /\ Down /\ Timely /\ Rung /\ Resumed /\ [Next]_vars => Resumed'
<1> SUFFICES ASSUME TypeInv, Staffed, Down, Timely, Rung, Resumed, [Next]_vars PROVE Resumed'
  OBVIOUS
<1>1. CASE Goes
  <2> SUFFICES ASSUME ~faulty', resume'.pc = "cases", NEW k \in Keys, row'[k].status \in {"new", "working"},
                      file'[k].pending # <<>>, ~Minded(k)'
               PROVE  Ringing(k)' \/ k \in resume'.todo
    BY DEF Resumed
  <2>0. /\ timer \in TimerType /\ ~faulty /\ file \in [Keys -> FileType] /\ row \in [Keys -> RowType]
        /\ resume \in [pc : {"start", "cases", "off"}, todo : SUBSET Keys]
    BY <1>1, GoesOn DEF TypeInv, Timers, TimerType, Files, Resuming
  <2>1. file[k].pending # <<>> /\ ~Minded(k)
    BY <1>1, MindedStep
  <2>2. ASSUME resume.pc = "cases", row'[k] = row[k] PROVE Ringing(k) \/ k \in resume.todo
    BY <2>0, <2>1, <2>2 DEF Resumed
  <2>3. ASSUME NEW s \in Submits, SubmitFile(s) \/ SubmitRow(s) PROVE Ringing(k)' \/ k \in resume'.todo
    <3>1. UNCHANGED <<timer, resume>>
      BY <2>3 DEF SubmitFile, SubmitRow
    <3>2. row'[k] = row[k]
      BY <2>0, <2>1, <2>3 DEF SubmitFile, SubmitRow, Index, Minded, Owed
    <3> QED BY <2>2, <3>1, <3>2 DEF Ringing
  <2>4. ASSUME NEW d \in Drains, Work(d) PROVE Ringing(k)' \/ k \in resume'.todo
    <3>1. UNCHANGED <<timer, resume>>
      BY <2>4, WorkFacts DEF Exit
    <3> QED BY <2>1, <2>2, <2>4, <3>1, WorkMinds DEF Ringing
  <2>5. CASE Rebuild \/ Pop \/ TimerRow
    <3>1. resume' = resume /\ ~Ringing(k)
      BY <2>5 DEF Rebuild, Pop, TimerRow, Ringing
    <3>2. row'[k] = row[k]
      BY <2>0, <2>1, <2>5 DEF Rebuild, Pop, TimerRow, durable, Index, Minded, Owed
    <3> QED BY <2>2, <3>1, <3>2
  <2>6. CASE Clear \/ ClearRow
    <3>1. resume' = resume /\ (Ringing(k) => Ringing(k)')
      BY <2>0, <2>6 DEF Clear, ClearRow, Ringing, TimerType
    <3>2. row'[k] = row[k] \/ Ringing(k)
      BY <2>0, <2>6 DEF Clear, ClearRow, Index, Ringing
    <3> QED BY <2>2, <3>1, <3>2
  <2>7. CASE TimerFile
    <3>1. resume' = resume /\ row' = row
      BY <2>7 DEF TimerFile
    <3>2. ASSUME Ringing(k) PROVE FALSE
      <4>1. timer.key = k /\ timer.pc = "submit"
        BY <2>7, <3>2 DEF TimerFile, Ringing
      <4>2. Timer(k, timer.due) \notin file[k].seen
        BY <4>1 DEF Timely
      <4>3. file[k].status \in OpenStates
        BY <2>0, <2>1, <4>1 DEF Rung
      <4>4. Admits(k, Timer(k, timer.due), FALSE, FALSE)
        BY <4>2, <4>3 DEF Admits, OpenStates, FinalStates
      <4>5. timer' = [timer EXCEPT !.pc = "submitted", !.row = Row(file'[k])]
        BY <2>7, <4>1, <4>4 DEF TimerFile
      <4>6. timer'.pc = "submitted" /\ timer'.key = k
        BY <2>0, <4>1, <4>5 DEF TimerType
      <4> QED BY <4>6 DEF Minded, Owed
    <3> QED BY <2>2, <3>1, <3>2
  <2>8. CASE ResumeList
    BY <2>8 DEF ResumeList, Listed, durable
  <2>9. CASE ResumeCase
    <3>1. PICK j \in resume.todo :
            /\ resume' = [resume EXCEPT !.todo = resume.todo \ {j}]
            /\ IF file[j].pending # <<>> THEN Schedule(j, running, again, drain) ELSE UNCHANGED worker
      BY <2>9 DEF ResumeCase
    <3>2. resume'.todo = resume.todo \ {j} /\ resume.pc = "cases" /\ UNCHANGED <<timer, row>>
      BY <2>0, <2>9, <3>1 DEF ResumeCase, durable
    <3>3. k # j
      BY <2>0, <2>1, <3>1, Scheduled DEF Minded
    <3> QED BY <2>2, <3>2, <3>3 DEF Ringing
  <2>10. CASE Start
    BY <2>10 DEF Start
  <2>11. CASE Tick
    BY <2>2, <2>11 DEF Tick, durable, Ringing
  <2> QED BY <1>1, <2>3, <2>4, <2>5, <2>6, <2>7, <2>8, <2>9, <2>10, <2>11 DEF Goes, TimerLoop, Resume
<1>2. CASE Stop
  BY <1>2 DEF Stop, Resumed
<1>3. CASE Fault
  BY <1>3 DEF Fault, Resumed
<1>4. CASE UNCHANGED vars
  BY <1>4 DEF vars, Resumed, Minded, Attended, Owed, Ringing
<1> QED BY <1>1, <1>2, <1>3, <1>4 DEF Next, Goes

-----------------------------------------------------------------------------
(* The vigil over the cases.                                               *)

LEMMA VigilInit == Init => Vigil
<1> SUFFICES ASSUME Init PROVE Vigil
  OBVIOUS
<1>1. /\ \A k \in Keys : /\ file[k].pending = <<>> /\ file[k].seen = {} /\ file[k].wake = 0
                         /\ file[k].status = "absent"
      /\ running = {} /\ up = TRUE /\ timer.pc = "rebuild" /\ resume.pc = "start"
  BY DEF Init, NoFile, Off
<1> QED BY <1>1 DEF Vigil, Staffed, StaffedBy, Down, Timely, Watch, Watched, Rung, Resumed, OpenStates

LEMMA VigilStep == TypeInv /\ Vigil /\ [Next]_vars => Vigil'
BY StaffedStep, DownStep, TimelyStep, WatchStep, RungStep, ResumedStep DEF Vigil

LEMMA VigilAlways == Spec => []Vigil
<1>1. TypeInv /\ Vigil /\ [Next]_vars => TypeInv' /\ Vigil'
  BY VigilStep, TypeStep
<1> QED BY <1>1, TypeInit, VigilInit, PTL DEF Spec

\* Neither waiting events nor open cases are forgotten: until the process first
\* stops, and while its store works, a case that holds events, or is open, is
\* attended to, about to be scheduled, or waits for a wake-up in the agenda.
THEOREM AttendedHolds == Spec => []CasesAttended
<1>1. ASSUME TypeInv, Vigil PROVE CasesAttended
  <2> SUFFICES ASSUME stops = 0, ~faulty, NEW k \in Keys
               PROVE  /\ file[k].pending # <<>> => Attended(k) \/ Scheduling(k)
                      /\ file[k].status \in OpenStates =>
                            \/ Attended(k) \/ Scheduling(k)
                            \/ /\ file[k].status \in {"waiting", "resolved"} /\ file[k].wake # 0
                               /\ <<file[k].wake, k>> \in agenda
    BY DEF CasesAttended, PendingAttended, OpenAttended
  <2>1. Watched(k)
    BY <1>1 DEF Vigil, Watch
  <2>2. Minded(k) => Attended(k) \/ Scheduling(k)
    BY DEF Minded, Owed, Scheduling
  <2>3. Turning(k) => Attended(k)
    BY DEF Turning, Attended
  <2>4. Cleared(k) => Scheduling(k)
    BY DEF Cleared, Scheduling
  <2>5. Due(k) => Attended(k) \/ Scheduling(k) \/ <<file[k].wake, k>> \in agenda
    BY DEF Due, SubmitComes, DrainComes, TimerComes, Attended, Scheduling
  <2> QED BY <2>1, <2>2, <2>3, <2>4, <2>5 DEF Watched, OpenStates
<1> QED BY <1>1, TypesAlways, VigilAlways, PTL

\* After a restart, whatever failed before it, the cases that the index lists as
\* new or working and that hold events are attended to once resume_pending is
\* through, until the store fails again.
THEOREM ResumedHolds == Spec => []ResumedAttended
<1>1. ASSUME Vigil PROVE ResumedAttended
  <2>1. ASSUME NEW k \in Keys, Minded(k) \/ Ringing(k) PROVE Attended(k) \/ Scheduling(k)
    BY <2>1 DEF Minded, Owed, Ringing, Scheduling
  <2> QED BY <1>1, <2>1 DEF Vigil, Resumed, ResumedAttended
<1> QED BY <1>1, VigilAlways, PTL
=============================================================================
