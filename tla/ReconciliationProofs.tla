------------------------ MODULE ReconciliationProofs ------------------------
(* Proofs about the reconciliation sweep: the watermark is honest where the   *)
(* system's version stamps tell changes apart, and the colleague's own        *)
(* writes are no events where the server knows the integration's user.        *)
EXTENDS Reconciliation, SequenceTheorems, TLAPS

Changes == [at : 1..MaxClock, by : Authors]

LEMMA Indices == ASSUME TypeOK, NEW r \in Records
                 PROVE  /\ log[r] \in Seq(Changes) /\ Len(log[r]) \in Nat
                        /\ log[r] # <<>> <=> Len(log[r]) > 0
                        /\ \A n \in 1..Len(log[r]) : log[r][n].at \in 1..MaxClock /\ log[r][n].by \in Authors
  <1>. MaxClock \in Nat /\ log[r] \in Seq(Changes)
    BY ReconciliationAssumption DEF TypeOK, Changes
  <1>1. Len(log[r]) \in Nat /\ (log[r] # <<>> <=> Len(log[r]) > 0)
    BY EmptySeq, LenProperties
  <1>2. \A n \in 1..Len(log[r]) : log[r][n] \in Changes
    BY ElementOfSeq
  <1>. QED BY <1>1, <1>2 DEF Changes

\* One more change leaves the earlier ones as they were.
LEMMA Changed == ASSUME TypeOK, NEW r \in Records, NEW who \in Authors, Change(r, who)
                 PROVE  /\ clock' \in clock..(clock + 1) /\ clock' \in 1..MaxClock
                        /\ Len(log'[r]) = Len(log[r]) + 1
                        /\ \A n \in 1..Len(log[r]) : log'[r][n] = log[r][n]
                        /\ \A x \in Records \ {r} : log'[x] = log[x]
                        /\ log'[r][Len(log[r]) + 1] = [at |-> clock', by |-> who]
                        /\ log' \in [Records -> Seq(Changes)]
  <1>1. PICK at \in {clock + 1} \cup (IF Ties /\ clock > 0 THEN {clock} ELSE {}) :
              at <= MaxClock /\ clock' = at /\ log' = [log EXCEPT ![r] = Append(@, [at |-> at, by |-> who])]
    BY DEF Change
  <1>2. clock \in 0..MaxClock /\ MaxClock \in Nat /\ log \in [Records -> Seq(Changes)]
        /\ log[r] \in Seq(Changes) /\ Len(log[r]) \in Nat
    BY Indices, ReconciliationAssumption DEF TypeOK, Changes
  <1>3. at \in 1..MaxClock /\ at \in clock..(clock + 1)
    BY <1>1, <1>2
  <1>. DEFINE c == [at |-> at, by |-> who]
  <1>4. c \in Changes
    BY <1>3 DEF Changes
  <1>5. log'[r] = Append(log[r], c) /\ \A x \in Records \ {r} : log'[x] = log[x]
    BY <1>1, <1>2
  <1>6. /\ Append(log[r], c) \in Seq(Changes) /\ Len(Append(log[r], c)) = Len(log[r]) + 1
        /\ \A n \in 1..Len(log[r]) : Append(log[r], c)[n] = log[r][n]
        /\ Append(log[r], c)[Len(log[r]) + 1] = c
    BY <1>2, <1>4
  <1>7. log' \in [Records -> Seq(Changes)]
    <2>. HIDE DEF c
    <2>. QED BY <1>1, <1>2, <1>6 DEF c
  <1>. QED BY <1>1, <1>2, <1>3, <1>5, <1>6, <1>7

LEMMA TypeStep == TypeOK /\ [Next]_vars => TypeOK'
  <1>. SUFFICES ASSUME TypeOK, [Next]_vars PROVE TypeOK'
    OBVIOUS
  <1>0. /\ MaxClock \in Nat /\ MaxChanges \in Nat /\ MaxFaults \in Nat
        /\ log \in [Records -> Seq(Changes)] /\ \A r \in Records : Len(log[r]) <= MaxChanges
    BY ReconciliationAssumption DEF TypeOK, Changes
  <1>I. Idle \in Sweeps /\ \A m \in 0..MaxClock : [pc |-> "list", from |-> m, todo |-> {}, newest |-> 0] \in Sweeps
    <2>1. 0 \in 0..MaxClock
      BY <1>0
    <2>. QED BY <2>1 DEF Idle, Sweeps
  <1>S. sweep \in Sweeps /\ sweep.newest \in 0..MaxClock /\ sweep.from \in 0..MaxClock /\ sweep.todo \subseteq Ids
    BY DEF TypeOK, Sweeps
  <1>E. \A r \in Existing : Event(r) \in Ids /\ Version(r) \in 1..MaxClock /\ r \in Records
    BY <1>0, Indices DEF Existing, Event, Version, Ids
  <1>1. CASE UNCHANGED vars
    BY <1>1 DEF vars, TypeOK
  <1>2. ASSUME NEW r \in Records, NEW who \in Authors, Change(r, who) PROVE TypeOK'
    <2>1. UNCHANGED <<seen, mark, sweep, known, faults>> /\ pushes' \in {pushes, pushes \cup {<<r, Len(log[r]) + 1>>}}
          /\ Len(log[r]) < MaxChanges
      BY <1>2 DEF Change
    <2>2. <<r, Len(log[r]) + 1>> \in Ids
      BY <2>1, <1>0, Indices DEF Ids
    <2>3. \A x \in Records : Len(log[x])' <= MaxChanges
      <3>. SUFFICES ASSUME NEW x \in Records PROVE Len(log[x])' <= MaxChanges
        OBVIOUS
      <3>1. IF x = r THEN Len(log'[x]) = Len(log[r]) + 1 ELSE log'[x] = log[x]
        BY <1>2, Changed, Zenon
      <3>2. Len(log[r]) \in Nat /\ Len(log[x]) <= MaxChanges
        BY <1>0, Indices
      <3>. QED BY <3>1, <3>2, <2>1, <1>0
    <2>4. log' \in [Records -> Seq(Changes)] /\ clock' \in 0..MaxClock
      <3>1. log' \in [Records -> Seq(Changes)] /\ clock' \in 1..MaxClock
        BY <1>2, Changed, Zenon
      <3>. QED BY <3>1, <1>0
    <2>. QED BY <2>1, <2>2, <2>3, <2>4 DEF TypeOK, Changes
  <1>3. ASSUME NEW p \in pushes, Lose(p) \/ Deliver(p) PROVE TypeOK'
    BY <1>3 DEF Lose, Deliver, TypeOK
  <1>4. CASE Start
    BY <1>4, <1>I DEF Start, TypeOK
  <1>5. CASE List
    <2>0. PICK P \in SUBSET Existing : \E newest \in {Version(r) : r \in P} \cup {sweep.from} :
              sweep' = [sweep EXCEPT !.pc = "submit", !.newest = newest,
                                     !.todo = {Event(r) : r \in {x \in P : ~IsOwn(x, known')}}]
      BY <1>5 DEF List
    <2>1. PICK newest \in {Version(r) : r \in P} \cup {sweep.from} :
              sweep' = [sweep EXCEPT !.pc = "submit", !.newest = newest,
                                     !.todo = {Event(r) : r \in {x \in P : ~IsOwn(x, known')}}]
      BY <2>0
    <2>2. newest \in 0..MaxClock
      BY <2>1, <1>E, <1>S
    <2>3. {Event(r) : r \in {x \in P : ~IsOwn(x, known')}} \subseteq Ids
      BY <2>1, <1>E
    <2>4. known' \in {"unset", "name", "nothing"}
      BY <1>5 DEF List, Asks, TypeOK
    <2>5. sweep' \in Sweeps
      BY <2>1, <2>2, <2>3, <1>S DEF Sweeps
    <2>. QED BY <1>5, <2>4, <2>5 DEF List, TypeOK
  <1>6. CASE Submit
    <2>1. sweep' \in Sweeps
      BY <1>6, <1>S DEF Submit, Sweeps
    <2>. QED BY <1>6, <1>S, <2>1 DEF Submit, TypeOK
  <1>7. CASE Save
    BY <1>7, <1>I, <1>S DEF Save, TypeOK
  <1>8. CASE Fails
    <2>1. faults' \in 0..MaxFaults
      BY <1>8, <1>0 DEF Fails, TypeOK
    <2>2. mark' \in 0..MaxClock /\ seen' \subseteq Ids
      BY <1>8, <1>S DEF Fails, TypeOK
    <2>3. known' \in {"unset", "name", "nothing"}
      BY <1>8 DEF Fails, Asks, TypeOK
    <2>. QED BY <1>8, <1>I, <2>1, <2>2, <2>3 DEF Fails, TypeOK
  <1>. QED BY <1>1, <1>2, <1>3, <1>4, <1>5, <1>6, <1>7, <1>8 DEF Next, Sweep

\* The sweep's state is well-formed in every behaviour.
THEOREM TypesHold == Spec => []TypeOK
  <1>1. Init => TypeOK
    BY ReconciliationAssumption, EmptySeq DEF Init, Idle, Sweeps, TypeOK
  <1>. QED BY <1>1, TypeStep, PTL DEF Spec
---------------------------------------------------------------------------
(* The watermark                                                             *)

Settled(r) == Event(r) \in seen

\* Changes are not in the future, and the last ones of two records differ in
\* their version; what the sweep knows of the clock is not in the future either.
Order == /\ \A r \in Records : \A n \in 1..Len(log[r]) : log[r][n].at <= clock
         /\ \A r, s \in Existing : Version(r) = Version(s) => r = s
         /\ mark <= clock /\ sweep.newest <= clock
         /\ sweep.pc = "list" => sweep.from = mark

\* What the sweep is about to put behind the watermark is told, or to be submitted.
SweepHonest == sweep.pc = "submit" => \A r \in Existing :
    Needs(r, Len(log[r])) /\ Version(r) <= sweep.newest => Settled(r) \/ Event(r) \in sweep.todo

Inv == TypeOK /\ Order /\ MarkHonest /\ SweepHonest

LEMMA CoveredLast == ASSUME TypeOK, NEW r \in Records PROVE Covered(r, Len(log[r])) <=> Settled(r)
  <1>. Len(log[r]) \in Nat
    BY Indices
  <1>. Len(log[r])..Len(log[r]) = {Len(log[r])}
    OBVIOUS
  <1>. QED BY DEF Covered, Settled, Event

LEMMA Versions == ASSUME TypeOK, Order, NEW r \in Existing
                  PROVE  r \in Records /\ Version(r) \in 1..MaxClock /\ Version(r) <= clock
  <1>. r \in Records /\ Len(log[r]) \in 1..Len(log[r])
    BY Indices DEF Existing
  <1>. QED BY Indices DEF Version, Order

\* A step that leaves the log and the sweep's reading alone, and forgets no event.
LEMMA Kept == ASSUME Inv, UNCHANGED log, seen \subseteq seen'
              PROVE  /\ Existing' = Existing
                     /\ \A r \in Existing : /\ Version(r)' = Version(r) /\ Event(r)' = Event(r)
                                            /\ Needs(r, Len(log[r]))' <=> Needs(r, Len(log[r]))
                                            /\ Settled(r) => Settled(r)'
  BY DEF Existing, Version, Event, Needs, Settled

\* The page that a list tool returns leaves out nothing before its newest row.
LEMMA Page == ASSUME Inv, sweep.pc = "list", NEW P \in SUBSET Existing, Lists(P, sweep.from),
                     NEW newest \in {Version(r) : r \in P} \cup {sweep.from},
                     NEW r \in Existing, Needs(r, Len(log[r])), Version(r) <= newest
              PROVE  r \in P \/ Settled(r)
  <1>1. sweep.from = mark /\ mark \in Nat /\ r \in Records /\ Version(r) \in Nat
    <2>1. r \in Records /\ Version(r) \in 1..MaxClock /\ MaxClock \in Nat
      BY Versions, ReconciliationAssumption DEF Inv
    <2>2. sweep.from = mark /\ mark \in 0..MaxClock
      BY DEF Inv, Order, TypeOK
    <2>. QED BY <2>1, <2>2
  <1>2. CASE Version(r) <= mark
    BY <1>1, <1>2, CoveredLast DEF Inv, MarkHonest
  <1>3. ASSUME Version(r) > mark, r \notin P PROVE FALSE
    <2>1. newest # sweep.from
      BY <1>1, <1>3
    <2>2. PICK p \in P : newest = Version(p)
      BY <2>1
    <2>3. p \in Existing /\ Version(p) \in Nat /\ p # r
      BY <2>2, <1>3, Versions, ReconciliationAssumption DEF Inv
    <2>4. Version(p) <= Version(r)
      <3>1. CASE System = "servicenow"
        <4>1. PICK Q \in SUBSET Existing : Oldest(Q, Existing) /\ P = After(Q, sweep.from)
          BY <3>1 DEF Lists
        <4>2. p \in Q /\ r \notin Q
          BY <4>1, <1>1, <1>3, <2>2 DEF After
        <4>. QED BY <4>1, <4>2 DEF Oldest
      <3>2. CASE System # "servicenow"
        <4>1. Oldest(P, After(Existing, sweep.from))
          BY <3>2 DEF Lists
        <4>2. r \in After(Existing, sweep.from) \ P
          BY <1>1, <1>3 DEF After
        <4>. QED BY <4>1, <4>2 DEF Oldest
      <3>. QED BY <3>1, <3>2
    <2>5. Version(p) = Version(r)
      BY <2>2, <2>3, <2>4, <1>1
    <2>. QED BY <2>3, <2>5 DEF Inv, Order
  <1>. QED BY <1>1, <1>2, <1>3

\* A record that changes is ahead of every watermark.
LEMMA ChangeKept == ASSUME ~Ties, Inv, NEW r \in Records, NEW who \in Authors, Change(r, who)
                    PROVE  Order' /\ MarkHonest' /\ SweepHonest'
  <1>1. UNCHANGED <<seen, mark, sweep>> /\ clock' = clock + 1
    BY DEF Change
  <1>2. Len(log'[r]) = Len(log[r]) + 1 /\ log'[r][Len(log[r]) + 1] = [at |-> clock', by |-> who]
        /\ (\A n \in 1..Len(log[r]) : log'[r][n] = log[r][n]) /\ \A x \in Records \ {r} : log'[x] = log[x]
    BY Changed DEF Inv
  <1>3. Len(log[r]) \in Nat /\ clock \in Nat /\ mark <= clock /\ sweep.newest <= clock
        /\ mark \in Nat /\ sweep.newest \in Nat
    BY Indices, ReconciliationAssumption DEF Inv, Order, TypeOK, Sweeps
  <1>4. Version(r)' = clock + 1
    BY <1>1, <1>2 DEF Version
  <1>5. \A x \in Existing' \ {r} : /\ x \in Existing /\ Version(x)' = Version(x) /\ Version(x) \in Nat
                                   /\ Version(x) <= clock
                                   /\ Event(x)' = Event(x) /\ Needs(x, Len(log[x]))' = Needs(x, Len(log[x]))
    <2>. SUFFICES ASSUME NEW x \in Records, log'[x] # <<>>, x # r
                  PROVE  /\ x \in Existing /\ Version(x)' = Version(x) /\ Version(x) \in Nat /\ Version(x) <= clock
                         /\ Event(x)' = Event(x) /\ Needs(x, Len(log[x]))' = Needs(x, Len(log[x]))
      BY DEF Existing
    <2>1. log'[x] = log[x] /\ x \in Existing
      BY <1>2 DEF Existing
    <2>2. Version(x) \in 1..MaxClock /\ Version(x) <= clock /\ MaxClock \in Nat
      BY <2>1, Versions, ReconciliationAssumption DEF Inv
    <2>. QED BY <2>1, <2>2 DEF Version, Event, Needs
  <1>6. Order'
    <2>1. \A x \in Records : \A n \in 1..Len(log'[x]) : log'[x][n].at <= clock'
      <3>. SUFFICES ASSUME NEW x \in Records, NEW n \in 1..Len(log'[x]) PROVE log'[x][n].at <= clock'
        OBVIOUS
      <3>1. CASE x # r
        <4>1. log'[x] = log[x] /\ log[x][n].at <= clock /\ log[x][n].at \in 1..MaxClock
          BY <3>1, <1>2, Indices DEF Inv, Order
        <4>. QED BY <4>1, <1>1, <1>3, ReconciliationAssumption
      <3>2. CASE x = r /\ n # Len(log[r]) + 1
        <4>1. n \in 1..Len(log[r])
          BY <3>2, <1>2, <1>3
        <4>2. log'[r][n] = log[r][n] /\ log[r][n].at <= clock /\ log[r][n].at \in 1..MaxClock
          BY <4>1, <1>2, Indices DEF Inv, Order
        <4>. QED BY <3>2, <4>2, <1>1, <1>3, ReconciliationAssumption
      <3>3. CASE x = r /\ n = Len(log[r]) + 1
        BY <3>3, <1>1, <1>2, <1>3
      <3>. QED BY <3>1, <3>2, <3>3
    <2>2. \A x, y \in Existing' : Version(x)' = Version(y)' => x = y
      <3>. SUFFICES ASSUME NEW x \in Existing', NEW y \in Existing', Version(x)' = Version(y)', x # y PROVE FALSE
        OBVIOUS
      <3>1. CASE x = r
        <4>1. Version(x)' = clock + 1 /\ y \in Existing' \ {r}
          BY <3>1, <1>4
        <4>2. Version(y)' \in Nat /\ Version(y)' <= clock
          BY <4>1, <1>5
        <4>. QED BY <4>1, <4>2, <1>3
      <3>2. CASE y = r
        <4>1. Version(y)' = clock + 1 /\ x \in Existing' \ {r}
          BY <3>2, <1>4
        <4>2. Version(x)' \in Nat /\ Version(x)' <= clock
          BY <4>1, <1>5
        <4>. QED BY <4>1, <4>2, <1>3
      <3>3. CASE x # r /\ y # r
        <4>1. x \in Existing /\ y \in Existing /\ Version(x)' = Version(x) /\ Version(y)' = Version(y)
          BY <3>3, <1>5
        <4>. QED BY <4>1 DEF Inv, Order
      <3>. QED BY <3>1, <3>2, <3>3
    <2>3. mark' <= clock' /\ sweep'.newest <= clock' /\ (sweep'.pc = "list" => sweep'.from = mark')
      BY <1>1, <1>3 DEF Inv, Order
    <2>. QED BY <2>1, <2>2, <2>3 DEF Order
  <1>7. MarkHonest'
    <2>. SUFFICES ASSUME NEW x \in Existing', Needs(x, Len(log[x]))', Version(x)' <= mark'
                  PROVE  Covered(x, Len(log[x]))'
      BY DEF MarkHonest
    <2>1. x # r
      BY <1>1, <1>3, <1>4
    <2>2. x \in Existing /\ Needs(x, Len(log[x])) /\ Version(x) <= mark /\ x \in Records /\ log'[x] = log[x]
      BY <2>1, <1>1, <1>2, <1>5 DEF Existing
    <2>3. Covered(x, Len(log[x]))
      BY <2>2 DEF Inv, MarkHonest
    <2>. QED BY <2>2, <2>3, <1>1 DEF Covered
  <1>8. SweepHonest'
    <2>. SUFFICES ASSUME sweep'.pc = "submit", NEW x \in Existing', Needs(x, Len(log[x]))', Version(x)' <= sweep'.newest
                  PROVE  Settled(x)' \/ Event(x)' \in sweep'.todo
      BY DEF SweepHonest
    <2>1. x # r
      BY <1>1, <1>3, <1>4
    <2>2. x \in Existing /\ Needs(x, Len(log[x])) /\ Version(x) <= sweep.newest /\ Event(x)' = Event(x)
      BY <2>1, <1>1, <1>5
    <2>. QED BY <2>2, <1>1 DEF Inv, SweepHonest, Settled
  <1>. QED BY <1>6, <1>7, <1>8

\* The steps of the desk.
LEMMA DeskKept == ASSUME Inv, UNCHANGED <<log, clock>>, seen \subseteq seen',
                         \/ UNCHANGED <<mark, sweep>>
                         \/ mark' \in {mark, sweep.newest} /\ sweep' = Idle /\ sweep.pc = "submit" /\ (mark' = mark \/ sweep.todo = {})
                         \/ mark' = mark /\ sweep' = Idle
                  PROVE  Order' /\ MarkHonest' /\ SweepHonest'
  <1>1. /\ Existing' = Existing
        /\ \A r \in Existing : /\ Version(r)' = Version(r) /\ Event(r)' = Event(r)
                               /\ Needs(r, Len(log[r]))' <=> Needs(r, Len(log[r]))
                               /\ Settled(r) => Settled(r)'
    BY Kept
  <1>2. clock \in Nat /\ 0 <= clock
    BY ReconciliationAssumption DEF Inv, TypeOK
  <1>3. mark' <= clock' /\ sweep'.newest <= clock' /\ (sweep'.pc = "list" => sweep'.from = mark')
    BY <1>2 DEF Inv, Order, Idle
  <1>4. Order'
    BY <1>1, <1>3 DEF Inv, Order
  <1>5. MarkHonest'
    <2>. SUFFICES ASSUME NEW r \in Existing, Needs(r, Len(log[r])), Version(r) <= mark' PROVE Settled(r)'
      <3>1. \A r \in Existing : Covered(r, Len(log[r]))' <=> Settled(r)'
        BY <1>1, CoveredLast DEF Existing, Inv, Covered, Settled, Event
      <3>. QED BY <1>1, <3>1 DEF MarkHonest
    <2>1. CASE mark' = mark
      BY <2>1, <1>1, CoveredLast DEF Inv, MarkHonest, Existing
    <2>2. CASE mark' = sweep.newest /\ sweep.pc = "submit" /\ sweep.todo = {}
      BY <2>2, <1>1 DEF Inv, SweepHonest
    <2>. QED BY <2>1, <2>2
  <1>6. SweepHonest'
    BY <1>1 DEF Inv, SweepHonest, Idle
  <1>. QED BY <1>4, <1>5, <1>6

LEMMA InvStep == ASSUME ~Ties, Inv, [Next]_vars PROVE Inv'
  <1>0. TypeOK'
    BY TypeStep DEF Inv
  <1>1. CASE UNCHANGED vars
    BY <1>0, <1>1, DeskKept DEF vars, Inv
  <1>2. ASSUME NEW r \in Records, NEW who \in Authors, Change(r, who) PROVE Inv'
    BY <1>0, <1>2, ChangeKept DEF Inv
  <1>3. ASSUME NEW p \in pushes, Lose(p) \/ Deliver(p) PROVE Inv'
    <2>1. UNCHANGED <<log, clock, mark, sweep>> /\ seen \subseteq seen'
      BY <1>3 DEF Lose, Deliver
    <2>. QED BY <1>0, <2>1, DeskKept DEF Inv
  <1>4. CASE Start
    <2>1. UNCHANGED <<log, clock, mark, seen>> /\ sweep' = [pc |-> "list", from |-> mark, todo |-> {}, newest |-> 0]
      BY <1>4 DEF Start
    <2>2. clock \in Nat /\ 0 <= clock
      BY ReconciliationAssumption DEF Inv, TypeOK
    <2>3. Order'
      BY <2>1, <2>2 DEF Inv, Order, Existing, Version
    <2>4. MarkHonest'
      BY <2>1 DEF Inv, MarkHonest, Existing, Version, Needs, Covered
    <2>5. SweepHonest'
      BY <2>1 DEF SweepHonest
    <2>. QED BY <1>0, <2>3, <2>4, <2>5 DEF Inv
  <1>5. CASE List
    <2>0. PICK P \in SUBSET Existing :
              /\ Lists(P, sweep.from)
              /\ \E newest \in {Version(r) : r \in P} \cup {sweep.from} :
                     sweep' = [sweep EXCEPT !.pc = "submit", !.newest = newest,
                                            !.todo = {Event(r) : r \in {x \in P : ~IsOwn(x, known')}}]
      BY <1>5 DEF List
    <2>1. PICK newest \in {Version(r) : r \in P} \cup {sweep.from} :
              sweep' = [sweep EXCEPT !.pc = "submit", !.newest = newest,
                                     !.todo = {Event(r) : r \in {x \in P : ~IsOwn(x, known')}}]
      BY <2>0
    <2>2. UNCHANGED <<log, clock, mark, seen>> /\ sweep.pc = "list"
      BY <1>5 DEF List
    <2>3. sweep'.pc = "submit" /\ sweep'.newest = newest
          /\ sweep'.todo = {Event(r) : r \in {x \in P : ~IsOwn(x, known')}}
      BY <2>1 DEF Inv, TypeOK, Sweeps
    <2>4. newest <= clock
      BY <2>0, <2>1, <2>2, Versions DEF Inv, Order
    <2>5. Order'
      BY <2>2, <2>3, <2>4 DEF Inv, Order, Existing, Version
    <2>6. MarkHonest'
      BY <2>2 DEF Inv, MarkHonest, Existing, Version, Needs, Covered
    <2>7. \A r \in Existing : Needs(r, Len(log[r])) /\ Version(r) <= newest => Settled(r) \/ Event(r) \in sweep'.todo
      <3>. SUFFICES ASSUME NEW r \in Existing, Needs(r, Len(log[r])), Version(r) <= newest, r \in P
                    PROVE  Event(r) \in sweep'.todo
        BY <2>0, <2>2, Page
      <3>. QED BY <2>3 DEF IsOwn
    <2>8. SweepHonest'
      BY <2>2, <2>3, <2>7 DEF SweepHonest, Existing, Version, Needs, Settled, Event
    <2>. QED BY <1>0, <2>5, <2>6, <2>8 DEF Inv
  <1>6. CASE Submit
    <2>1. PICK e \in sweep.todo : seen' = seen \cup {e} /\ sweep' = [sweep EXCEPT !.todo = @ \ {e}]
      BY <1>6 DEF Submit
    <2>2. UNCHANGED <<log, clock, mark>> /\ sweep.pc = "submit"
      BY <1>6 DEF Submit
    <2>3. sweep'.pc = sweep.pc /\ sweep'.newest = sweep.newest /\ sweep'.todo = sweep.todo \ {e}
      BY <2>1 DEF Inv, TypeOK, Sweeps
    <2>4. Order'
      BY <2>2, <2>3 DEF Inv, Order, Existing, Version
    <2>5. MarkHonest'
      BY <2>1, <2>2 DEF Inv, MarkHonest, Existing, Version, Needs, Covered
    <2>6. SweepHonest'
      BY <2>1, <2>2, <2>3 DEF Inv, SweepHonest, Existing, Version, Needs, Settled, Event
    <2>. QED BY <1>0, <2>4, <2>5, <2>6 DEF Inv
  <1>7. CASE Save
    <2>1. UNCHANGED <<log, clock, seen>> /\ mark' = sweep.newest /\ sweep' = Idle /\ sweep.pc = "submit" /\ sweep.todo = {}
      BY <1>7 DEF Save
    <2>. QED BY <1>0, <2>1, DeskKept DEF Inv
  <1>8. CASE Fails
    <2>1. UNCHANGED <<log, clock>> /\ sweep' = Idle /\ seen \subseteq seen'
      BY <1>8 DEF Fails
    <2>2. mark' = mark \/ (mark' = sweep.newest /\ sweep.pc = "submit" /\ sweep.todo = {})
      BY <1>8 DEF Fails
    <2>. QED BY <1>0, <2>1, <2>2, DeskKept DEF Inv
  <1>. QED BY <1>1, <1>2, <1>3, <1>4, <1>5, <1>6, <1>7, <1>8 DEF Next, Sweep

\* Where version stamps tell changes apart, no watermark is ever ahead of a
\* last change that needs the desk and that the desk does not know, for any
\* system, any page size and any failures.
THEOREM MarkHolds == ASSUME ~Ties PROVE Spec => []MarkHonest
  <1>1. Init => Inv
    <2>. SUFFICES ASSUME Init PROVE Inv
      OBVIOUS
    <2>1. TypeOK
      BY ReconciliationAssumption, EmptySeq DEF Init, Idle, Sweeps, TypeOK
    <2>2. Existing = {} /\ \A r \in Records : Len(log[r]) = 0
      BY EmptySeq DEF Init, Existing
    <2>3. Order
      BY <2>2 DEF Init, Order, Idle
    <2>. QED BY <2>1, <2>2, <2>3 DEF Inv, MarkHonest, SweepHonest, Init, Idle
  <1>2. Inv /\ [Next]_vars => Inv'
    BY InvStep
  <1>3. Inv => MarkHonest
    BY DEF Inv
  <1>. QED BY <1>1, <1>2, <1>3, PTL DEF Spec

---------------------------------------------------------------------------
(* Echoes                                                                    *)

\* What the sweep is to submit, and what the desk has seen, needed the desk.
Real(e) == e[1] \in Records /\ e[2] \in 1..Len(log[e[1]]) /\ Needs(e[1], e[2])

Wanted == /\ \A p \in pushes : p[1] \in Records /\ p[2] \in 1..Len(log[p[1]])
          /\ \A e \in seen \cup sweep.todo : Real(e)
          /\ known # "nothing"

LEMMA WantedStep == ASSUME ~UserinfoFails, System # "coupa", TypeOK, Wanted, [Next]_vars PROVE Wanted'
  <1>1. CASE UNCHANGED vars
    BY <1>1 DEF vars, Wanted, Real, Needs
  <1>2. ASSUME NEW r \in Records, NEW who \in Authors, Change(r, who) PROVE Wanted'
    <2>1. UNCHANGED <<seen, sweep, known>> /\ pushes' \subseteq pushes \cup {<<r, Len(log[r]) + 1>>}
      BY <1>2 DEF Change
    <2>2. Len(log'[r]) = Len(log[r]) + 1 /\ (\A n \in 1..Len(log[r]) : log'[r][n] = log[r][n])
          /\ \A x \in Records \ {r} : log'[x] = log[x]
      BY <1>2, Changed
    <2>3. Len(log[r]) \in Nat
      BY Indices
    <2>4. ASSUME NEW x \in Records, NEW n \in 1..Len(log[x])
          PROVE  n \in 1..Len(log'[x]) /\ log'[x][n] = log[x][n]
      BY <2>2, <2>3
    <2>5. ASSUME NEW e, Real(e) PROVE Real(e)'
      <3>1. e[1] \in Records /\ e[2] \in 1..Len(log'[e[1]]) /\ log'[e[1]][e[2]] = log[e[1]][e[2]]
        BY <2>4, <2>5 DEF Real
      <3>. QED BY <2>5, <3>1 DEF Real, Needs
    <2>6. \A p \in pushes' : p[1] \in Records /\ p[2] \in 1..Len(log'[p[1]])
      <3>. SUFFICES ASSUME NEW p \in pushes' PROVE p[1] \in Records /\ p[2] \in 1..Len(log'[p[1]])
        OBVIOUS
      <3>1. CASE p \in pushes
        BY <3>1, <2>4 DEF Wanted
      <3>2. CASE p = <<r, Len(log[r]) + 1>>
        BY <3>2, <2>2, <2>3
      <3>. QED BY <2>1, <3>1, <3>2
    <2>. QED BY <2>1, <2>5, <2>6 DEF Wanted
  <1>3. ASSUME NEW p \in pushes, Lose(p) \/ Deliver(p) PROVE Wanted'
    <2>1. UNCHANGED <<log, sweep, known>> /\ pushes' \subseteq pushes
          /\ (seen' = seen \/ (Needs(p[1], p[2]) /\ seen' = seen \cup {p}))
      BY <1>3 DEF Lose, Deliver
    <2>. QED BY <2>1 DEF Wanted, Real, Needs
  <1>4. CASE Start
    BY <1>4 DEF Start, Wanted, Real, Needs
  <1>5. CASE List
    <2>0. PICK P \in SUBSET Existing : \E newest \in {Version(r) : r \in P} \cup {sweep.from} :
              sweep' = [sweep EXCEPT !.pc = "submit", !.newest = newest,
                                     !.todo = {Event(r) : r \in {x \in P : ~IsOwn(x, known')}}]
      BY <1>5 DEF List
    <2>1. sweep'.todo = {Event(r) : r \in {x \in P : ~IsOwn(x, known')}}
      BY <2>0 DEF TypeOK, Sweeps
    <2>2. UNCHANGED <<log, pushes, seen>> /\ known' # "nothing" /\ (System = "salesforce" => known' = "name")
      BY <1>5 DEF List, Asks, Wanted, TypeOK
    <2>3. \A r \in P : ~IsOwn(r, known') => Real(Event(r))
      <3>. SUFFICES ASSUME NEW r \in Existing, ~IsOwn(r, known') PROVE Real(Event(r))
        OBVIOUS
      <3>1. r \in Records /\ Len(log[r]) \in 1..Len(log[r])
        BY Indices DEF Existing
      <3>2. Needs(r, Len(log[r]))
        BY <2>2 DEF IsOwn
      <3>. QED BY <3>1, <3>2 DEF Real, Event
    <2>. QED BY <2>1, <2>2, <2>3 DEF Wanted, Real, Needs
  <1>6. CASE Submit
    <2>1. PICK e \in sweep.todo : seen' = seen \cup {e} /\ sweep' = [sweep EXCEPT !.todo = @ \ {e}]
      BY <1>6 DEF Submit
    <2>2. sweep'.todo \subseteq sweep.todo /\ UNCHANGED <<log, pushes, known>>
      BY <1>6, <2>1 DEF TypeOK, Sweeps, Submit
    <2>. QED BY <2>1, <2>2 DEF Wanted, Real, Needs
  <1>7. CASE Save
    BY <1>7 DEF Save, Idle, Wanted, Real, Needs
  <1>8. CASE Fails
    <2>1. UNCHANGED <<log, pushes>> /\ sweep'.todo = {} /\ seen' \subseteq seen \cup sweep.todo
      BY <1>8 DEF Fails, Idle
    <2>2. known' # "nothing"
      BY <1>8 DEF Fails, Asks, Wanted
    <2>. QED BY <2>1, <2>2 DEF Wanted, Real, Needs
  <1>. QED BY <1>1, <1>2, <1>3, <1>4, <1>5, <1>6, <1>7, <1>8 DEF Next, Sweep

\* Where every answer about the integration's user names it, the colleague's
\* own changes are no events of ServiceNow's or Salesforce's, whichever of the
\* push and the sweep reports them, and whenever they fall.
THEOREM EchoHolds == ASSUME ~UserinfoFails, System # "coupa" PROVE Spec => []NoEcho
  <1>1. Init => Wanted
    BY DEF Init, Idle, Wanted
  <1>2. TypeOK /\ Wanted /\ [Next]_vars => Wanted'
    BY WantedStep
  <1>3. Wanted => NoEcho
    BY DEF Wanted, Real, NoEcho
  <1>. QED BY <1>1, <1>2, <1>3, TypesHold, PTL DEF Spec
=============================================================================
