---------------------- MODULE ComplianceServiceProofs ----------------------
(***************************************************************************)
(* Proofs about ComplianceService: its types, that no external write is    *)
(* attempted twice or out of order, that only owners drive, and that the   *)
(* books are kept: the index stays readable, queued replies are attended,  *)
(* closure is claimed on the answered and a closed case is settled.        *)
(***************************************************************************)
EXTENDS ComplianceService, FiniteSetTheorems, TLAPS

\* The call has the result of its round's investigation.
Investigated(l) == l.gen \in Generations /\ l.verdict # "none"

\* What a call knows at each of its steps: emails their case, replies nothing
\* but themselves, a call that works on a round or writes for one, the round and
\* what its investigation came to.
Knows(c, l) ==
    /\ l.pc \notin {"idle", "interpret", "accept", "abort", "done", "lost"} => l.key \in Keys
    /\ l.pc = "admit" => c \in EmailCalls
    /\ l.pc \in {"interpret", "accept"} => c \in ReplyCalls
    /\ l.pc = "investigate" => l.gen \in Generations
    /\ l.pc \in {"record", "chat", "deliver"} => Investigated(l)
    /\ l.pc \in {"claim", "invoke", "complete"} /\ l.name[1] \in {"chat", "update", "delivery"} =>
          Investigated(l)

TypeInv == TypeOK /\ \A c \in Calls : Knows(c, call[c])

-----------------------------------------------------------------------------
(* Names of writes, and locals.                                            *)

\* The name of a write determines its kind, the status that announces it and
\* the step that follows it.
LEMMA NameFacts ==
    /\ 0 \in Generations
    /\ Create \in Names /\ Chat \in Names /\ Close \in Names /\ ClosedDelivery \in Names
    /\ \A g \in Generations : Update(g) \in Names /\ Delivery(g) \in Names
    /\ \A n \in Names : /\ n[1] \in {"create", "chat", "update", "delivery", "close", "closed_delivery"}
                        /\ n[1] = "create" => n = Create
                        /\ n[1] = "closed_delivery" => n = ClosedDelivery
                        /\ PendingStatus(n) \in Statuses \ {"absent"}
                        /\ AfterWrite(n) \in Driving
    /\ Create[1] = "create" /\ Chat[1] = "chat" /\ Close[1] = "close" /\ ClosedDelivery[1] = "closed_delivery"
    /\ \A g \in Generations : Update(g)[1] = "update" /\ Delivery(g)[1] = "delivery"
<1>1. 0 \in Generations
  BY ServiceAssumption DEF Generations
<1>2. /\ Create \in Names /\ Chat \in Names /\ Close \in Names /\ ClosedDelivery \in Names
      /\ \A g \in Generations : Update(g) \in Names /\ Delivery(g) \in Names
  BY DEF Names, Create, Chat, Close, ClosedDelivery, Update, Delivery
<1>3. ASSUME NEW n \in Names
      PROVE  /\ n[1] \in {"create", "chat", "update", "delivery", "close", "closed_delivery"}
             /\ n[1] = "create" => n = Create
             /\ n[1] = "closed_delivery" => n = ClosedDelivery
  BY DEF Names, Create, Chat, Close, ClosedDelivery
<1>4. ASSUME NEW n \in Names
      PROVE  PendingStatus(n) \in Statuses \ {"absent"} /\ AfterWrite(n) \in Driving
  BY <1>3 DEF PendingStatus, AfterWrite, Statuses, Driving
<1>5. /\ Create[1] = "create" /\ Chat[1] = "chat" /\ Close[1] = "close"
      /\ ClosedDelivery[1] = "closed_delivery"
      /\ \A g \in Generations : Update(g)[1] = "update" /\ Delivery(g)[1] = "delivery"
  BY DEF Create, Chat, Close, ClosedDelivery, Update, Delivery
<1> QED BY <1>1, <1>2, <1>3, <1>4, <1>5

\* The locals of a call that is not running.
LEMMA IdleFacts == /\ Idle \in Local
                   /\ Idle.pc = "idle" /\ Idle.key = None
                   /\ \A k \in Keys \cup {None} : [Idle EXCEPT !.pc = "abort", !.key = k] \in Local
<1>1. Idle \in Local /\ Idle.pc = "idle" /\ Idle.key = None
  BY NameFacts DEF Idle, Local, Pcs
<1>2. ASSUME NEW k \in Keys \cup {None}
      PROVE  [Idle EXCEPT !.pc = "abort", !.key = k] \in Local
  <2> DEFINE i == [Idle EXCEPT !.pc = "abort"]
  <2>1. i \in Local
    BY <1>1 DEF Local, Pcs
  <2>2. [i EXCEPT !.key = k] \in Local
    <3> HIDE DEF i
    <3> QED BY <2>1 DEF Local
  <2>3. [Idle EXCEPT !.pc = "abort", !.key = k] = [i EXCEPT !.key = k]
    OBVIOUS
  <2> QED BY <2>2, <2>3
<1> QED BY <1>1, <1>2

\* Going on at p keeps the type of the locals and, while the call runs, all of them.
LEMMA LocalsFacts ==
    ASSUME NEW l \in Local, NEW p \in Pcs
    PROVE  /\ Locals(l, p) \in Local
           /\ Locals(l, p).pc = p
           /\ p \notin {"done", "lost"} => Locals(l, p).key = l.key
           /\ p \notin {"done", "lost", "abort"} => Locals(l, p) = [l EXCEPT !.pc = p]
<1>1. CASE p \in {"done", "lost"}
  <2>1. Locals(l, p) = [Idle EXCEPT !.pc = p]
    BY <1>1 DEF Locals
  <2>2. Idle \in Local
    BY IdleFacts
  <2>3. Locals(l, p) \in Local /\ Locals(l, p).pc = p
    BY <2>1, <2>2 DEF Local
  <2> QED BY <1>1, <2>3
<1>2. CASE p = "abort"
  <2>1. Locals(l, p) = [Idle EXCEPT !.pc = "abort", !.key = l.key]
    BY <1>2 DEF Locals
  <2>2. l.key \in Keys \cup {None}
    BY DEF Local
  <2>3. Locals(l, p) \in Local
    BY <2>1, <2>2, IdleFacts
  <2>4. Locals(l, p).pc = "abort"
    BY <2>1 DEF Idle
  <2>5. Locals(l, p).key = l.key
    BY <2>1 DEF Idle
  <2> QED BY <1>2, <2>3, <2>4, <2>5
<1>3. CASE p \notin {"done", "lost", "abort"}
  BY <1>3 DEF Locals, Local
<1> QED BY <1>1, <1>2, <1>3
-----------------------------------------------------------------------------
(* Types.                                                                  *)

\* The calls are typed and know what their steps need.
CallsTyped == call \in [Calls -> Local] /\ \A c \in Calls : Knows(c, call[c])

\* A call that changes its own locals for good ones leaves all calls typed.
LEMMA CallTyped ==
    ASSUME CallsTyped, NEW c \in Calls, NEW l \in Local, Knows(c, l), call' = [call EXCEPT ![c] = l]
    PROVE  CallsTyped'
<1>1. call' \in [Calls -> Local]
  BY DEF CallsTyped
<1>2. ASSUME NEW d \in Calls
      PROVE  Knows(d, call'[d])
  <2>1. CASE d = c
    BY <2>1 DEF CallsTyped
  <2>2. CASE d # c
    BY <2>2 DEF CallsTyped
  <2> QED BY <2>1, <2>2
<1>3. \A d \in Calls : Knows(d, call[d])'
  BY <1>2 DEF Knows
<1> QED BY <1>1, <1>3 DEF CallsTyped

\* A call may always stop or raise.
LEMMA StopTyped ==
    ASSUME CallsTyped, NEW c \in Calls, NEW p \in {"abort", "done", "lost"}, Goto(c, p)
    PROVE  CallsTyped'
<1>1. call[c] \in Local /\ p \in Pcs
  BY DEF CallsTyped, Pcs
<1>2. Locals(call[c], p) \in Local /\ Locals(call[c], p).pc = p
  BY <1>1, LocalsFacts
<1>3. Knows(c, Locals(call[c], p))
  BY <1>2 DEF Knows
<1>4. call' = [call EXCEPT ![c] = Locals(call[c], p)]
  BY DEF Goto
<1> QED BY <1>2, <1>3, <1>4, CallTyped

\* An owner's edit keeps the types, and so does losing the ownership.
LEMMA EditTyped ==
    ASSUME CallsTyped, cases \in [Keys -> Case], NEW c \in Calls, call[c].key \in Keys,
           NEW r \in Case, NEW l \in Local, Knows(c, l), Edit(c, r, l)
    PROVE  CallsTyped' /\ cases' \in [Keys -> Case]
<1>1. CASE cases[call[c].key].owner = c
  <2>1. cases' = [cases EXCEPT ![call[c].key] = r] /\ call' = [call EXCEPT ![c] = l]
    BY <1>1 DEF Edit
  <2> QED BY <2>1, CallTyped
<1>2. CASE cases[call[c].key].owner # c
  <2>1. Goto(c, "abort") /\ UNCHANGED cases
    BY <1>2 DEF Edit
  <2> QED BY <2>1, StopTyped
<1> QED BY <1>1, <1>2

\* A typed call knows, and a running one has its case.
LEMMA CallFacts ==
    ASSUME CallsTyped, NEW c \in Calls
    PROVE  /\ call[c] \in Local /\ Knows(c, call[c])
           /\ call[c].pc \in Driving => call[c].key \in Keys
BY DEF CallsTyped, Knows, Driving

\* Going on at another step of the same case and round.
LEMMA OnFacts ==
    ASSUME CallsTyped, NEW c \in Calls, call[c].pc \in Driving, NEW p \in Pcs
    PROVE  /\ On(c, p) \in Local /\ On(c, p).pc = p
           /\ p \in {"take", "verify", "readback", "closed", "notified", "register", "block",
                     "abort", "done", "lost"} => Knows(c, On(c, p))
           /\ p \notin {"done", "lost", "abort"} => On(c, p) = [call[c] EXCEPT !.pc = p]
<1>1. call[c] \in Local /\ Knows(c, call[c]) /\ call[c].key \in Keys
  BY CallFacts
<1>2. /\ On(c, p) \in Local /\ On(c, p).pc = p
      /\ p \notin {"done", "lost"} => On(c, p).key = call[c].key
      /\ p \notin {"done", "lost", "abort"} => On(c, p) = [call[c] EXCEPT !.pc = p]
  BY <1>1, LocalsFacts DEF On
<1>3. p \in {"take", "verify", "readback", "closed", "notified", "register", "block",
             "abort", "done", "lost"} => Knows(c, On(c, p))
  BY <1>1, <1>2 DEF Knows
<1> QED BY <1>2, <1>3

\* Going on to a write: one that is not about a round, or one about the call's.
LEMMA OnWriteFacts ==
    ASSUME CallsTyped, NEW c \in Calls, call[c].pc \in Driving, NEW n \in Names,
           n[1] \in {"chat", "update", "delivery"} => Investigated(call[c])
    PROVE  OnWrite(c, n) \in Local /\ Knows(c, OnWrite(c, n))
<1>1. call[c] \in Local /\ call[c].key \in Keys
  BY CallFacts
<1>2. OnWrite(c, n) \in Local
  BY <1>1 DEF OnWrite, Local, Pcs
<1>3. /\ OnWrite(c, n).pc = "claim" /\ OnWrite(c, n).name = n
      /\ OnWrite(c, n).gen = call[c].gen /\ OnWrite(c, n).key = call[c].key
      /\ OnWrite(c, n).verdict = call[c].verdict
  BY <1>1 DEF OnWrite, Local
<1>4. n[1] \in {"chat", "update", "delivery"} => Investigated(OnWrite(c, n))
  BY <1>3 DEF Investigated
<1> QED BY <1>1, <1>2, <1>3, <1>4 DEF Knows

\* The documents are typed.
RecordsTyped ==
    /\ cases \in [Keys -> Case]
    /\ writes \in [Keys -> [Names -> [status : {"none", "claimed", "completed", "unknown"},
                                      by : Calls \cup {None}, at : Nat]]]
    /\ clock \in Nat
    /\ effects \in [Keys -> [Names -> Nat]]
    /\ heard \in [Keys -> SUBSET ReplyCalls]
    /\ answered \in [Keys -> SUBSET ReplyCalls]

LEMMA TypeParts == TypeInv <=> RecordsTyped /\ CallsTyped
BY DEF TypeInv, TypeOK, RecordsTyped, CallsTyped

LEMMA TypeInit == Init => TypeInv
<1> SUFFICES ASSUME Init PROVE RecordsTyped /\ CallsTyped
  BY TypeParts
<1>1. Absent \in Case
  BY NameFacts DEF Absent, NoResult, Case, Statuses
<1>2. NoWrite \in [status : {"none", "claimed", "completed", "unknown"}, by : Calls \cup {None}, at : Nat]
  BY DEF NoWrite
<1>3. RecordsTyped
  BY <1>1, <1>2 DEF RecordsTyped, Init
<1>4. CallsTyped
  BY IdleFacts DEF CallsTyped, Init, Knows
<1> QED BY <1>3, <1>4

\* The steps of receive_email that precede the first write, and registration.
LEMMA TypesAdmit ==
    ASSUME RecordsTyped, CallsTyped, NEW c \in Calls, Receive(c) \/ Admit(c) \/ Register(c)
    PROVE  RecordsTyped' /\ CallsTyped'
<1>0. call[c] \in Local /\ Knows(c, call[c]) /\ (call[c].pc \in Driving => call[c].key \in Keys)
  BY CallFacts
<1>1. CASE Receive(c)
  <2> DEFINE l == [call[c] EXCEPT !.pc = "admit", !.key = EmailKey[c], !.at = clock']
  <2>1. c \in EmailCalls /\ EmailKey[c] \in Keys /\ clock' \in Nat
    BY <1>1, ServiceAssumption DEF Receive, RecordsTyped
  <2>2. call' = [call EXCEPT ![c] = l]
    BY <1>1 DEF Receive, CallsTyped
  <2>3. l \in Local /\ l.pc = "admit" /\ l.key \in Keys
    BY <1>0, <2>1 DEF Local, Pcs
  <2>4. Knows(c, l)
    BY <2>1, <2>3 DEF Knows
  <2>5. CallsTyped'
    <3> HIDE DEF l
    <3> QED BY <2>2, <2>3, <2>4, CallTyped
  <2>6. RecordsTyped'
    BY <1>1, <2>1 DEF Receive, RecordsTyped, history
  <2> QED BY <2>5, <2>6
<1>2. CASE Admit(c)
  <2> DEFINE k == EmailKey[c]
             l == [Idle EXCEPT !.pc = "claim", !.key = k, !.name = Create]
             r == [Absent EXCEPT !.status = "received", !.owner = c, !.pending = <<0>>, !.contact = call[c].at]
  <2>1. c \in EmailCalls /\ k \in Keys
    BY <1>0, <1>2, ServiceAssumption DEF Admit, At, Knows
  <2>2. CASE cases' = [cases EXCEPT ![k] = r] /\ call' = [call EXCEPT ![c] = l]
    <3>1. l \in Local /\ l.pc = "claim" /\ l.key \in Keys /\ l.name = Create
      BY <2>1, NameFacts DEF Idle, Local, Pcs
    <3>2. Knows(c, l)
      BY <3>1, NameFacts DEF Knows
    <3>3. CallsTyped'
      <4> HIDE DEF l
      <4> QED BY <2>2, <3>1, <3>2, CallTyped
    <3>4. <<0>> \in Seq(Generations) /\ call[c].at \in Nat
      BY <1>0, NameFacts DEF Local
    <3>5. r \in Case
      BY <3>4, NameFacts DEF Absent, NoResult, Case, Statuses
    <3>6. RecordsTyped'
      <4> HIDE DEF r
      <4> QED BY <1>2, <2>2, <3>5 DEF RecordsTyped, Admit, history
    <3> QED BY <3>3, <3>6
  <2>3. CASE (Goto(c, "done") \/ Goto(c, "abort")) /\ UNCHANGED cases
    <3>1. CallsTyped'
      BY <2>3, StopTyped
    <3>2. RecordsTyped'
      BY <1>2, <2>3 DEF RecordsTyped, Admit, history
    <3> QED BY <3>1, <3>2
  <2> QED BY <1>2, <2>2, <2>3 DEF Admit
<1>3. CASE Register(c)
  <2> DEFINE k == call[c].key
             collision == Collides(k, call[c].number)
             r == [cases[k] EXCEPT !.number = call[c].number,
                                   !.status = IF collision THEN "write_outcome_unknown" ELSE "investigating",
                                   !.suspended = collision]
             p == IF collision THEN "abort" ELSE "take"
  <2>1. k \in Keys /\ call[c].pc \in Driving
    BY <1>0, <1>3 DEF Register, At, Driving
  <2>2. collision \in BOOLEAN
    BY DEF Collides
  <2>3. r \in Case
    <3>1. cases[k] \in Case /\ call[c].number \in Numbers \cup {None}
      BY <1>0, <2>1 DEF RecordsTyped, Local
    <3> HIDE DEF collision, k
    <3> QED BY <2>2, <3>1 DEF Case, Statuses
  <2>4. p \in Pcs /\ p \in {"abort", "take"}
    BY DEF Pcs
  <2>5. On(c, p) \in Local /\ Knows(c, On(c, p))
    BY <2>1, <2>4, OnFacts
  <2>6. Edit(c, r, On(c, p)) /\ UNCHANGED <<writes, clock, history>>
    BY <1>3 DEF Register
  <2>7. CallsTyped' /\ cases' \in [Keys -> Case]
    <3> HIDE DEF r, p
    <3> QED BY <2>1, <2>3, <2>5, <2>6, EditTyped DEF RecordsTyped
  <2> QED BY <2>6, <2>7 DEF RecordsTyped, history
<1> QED BY <1>1, <1>2, <1>3

\* The steps of an external write.
LEMMA TypesWrite ==
    ASSUME RecordsTyped, CallsTyped, NEW c \in Calls,
           Claim(c) \/ ClaimRefused(c) \/ Invoke(c) \/ Complete(c)
    PROVE  RecordsTyped' /\ CallsTyped'
<1> DEFINE k == call[c].key
           n == call[c].name
<1>0. /\ call[c] \in Local /\ Knows(c, call[c]) /\ call[c].pc \in Driving
      /\ k \in Keys /\ n \in Names /\ cases[k] \in Case
      /\ writes[k][n] \in [status : {"none", "claimed", "completed", "unknown"}, by : Calls \cup {None}, at : Nat]
  <2>1. call[c].pc \in Driving
    BY DEF Claim, ClaimRefused, Invoke, Complete, At, Driving
  <2>2. call[c] \in Local /\ Knows(c, call[c]) /\ k \in Keys
    BY <2>1, CallFacts
  <2> QED BY <2>1, <2>2 DEF Local, RecordsTyped
<1>1. CASE Claim(c)
  <2>1. [status |-> "claimed", by |-> c, at |-> 0] \in
            [status : {"none", "claimed", "completed", "unknown"}, by : Calls \cup {None}, at : Nat]
    OBVIOUS
  <2>2. PendingStatus(n) \in Statuses
    BY <1>0, NameFacts
  <2>3. [cases[k] EXCEPT !.status = PendingStatus(n)] \in Case
    BY <1>0, <2>2 DEF Case
  <2>4. RecordsTyped'
    BY <1>0, <1>1, <2>1, <2>3 DEF RecordsTyped, Claim, history
  <2>5. "invoke" \in Pcs /\ Locals(call[c], "invoke") = [call[c] EXCEPT !.pc = "invoke"]
    BY <1>0, LocalsFacts DEF Pcs
  <2>6. Knows(c, Locals(call[c], "invoke")) /\ Locals(call[c], "invoke") \in Local
    BY <1>0, <1>1, <2>5 DEF Knows, Claim, At, Local, Investigated
  <2>7. call' = [call EXCEPT ![c] = Locals(call[c], "invoke")]
    BY <1>1 DEF Claim, Goto
  <2> QED BY <2>4, <2>6, <2>7, CallTyped
<1>2. CASE ClaimRefused(c)
  <2>1. PICK p \in {"abort", "notified", "take"} : Goto(c, p)
    BY <1>2 DEF ClaimRefused
  <2>2. call' = [call EXCEPT ![c] = On(c, p)] /\ p \in Pcs
    BY <2>1 DEF Goto, On, Pcs
  <2>3. On(c, p) \in Local /\ Knows(c, On(c, p))
    BY <1>0, <2>2, OnFacts
  <2>4. CallsTyped'
    BY <2>2, <2>3, CallTyped
  <2> QED BY <1>2, <2>4 DEF ClaimRefused, RecordsTyped, history
<1>3. CASE Invoke(c)
  <2>1. PICK x \in Numbers \cup {None} :
            call' = [call EXCEPT ![c].pc = "complete", ![c].number = x, ![c].at = clock']
    BY <1>0, <1>3 DEF Invoke, Local
  <2>2. clock' \in Nat
    <3>1. clock \in Nat
      BY DEF RecordsTyped
    <3>2. clock' = clock \/ clock' = clock + 1
      BY <1>3 DEF Invoke
    <3> QED BY <3>1, <3>2
  <2> DEFINE l == [call[c] EXCEPT !.pc = "complete", !.number = x, !.at = clock']
  <2>3. call' = [call EXCEPT ![c] = l]
    BY <2>1 DEF CallsTyped
  <2>4. l \in Local /\ l.pc = "complete" /\ l.key = call[c].key /\ l.gen = call[c].gen /\ l.name = call[c].name
        /\ l.verdict = call[c].verdict
    BY <1>0, <2>2 DEF Local, Pcs
  <2>5. Knows(c, l)
    BY <1>0, <1>3, <2>4 DEF Knows, Invoke, At, Investigated
  <2>6. CallsTyped'
    <3> HIDE DEF l
    <3> QED BY <2>3, <2>4, <2>5, CallTyped
  <2>7. effects' \in [Keys -> [Names -> Nat]]
    <3>1. effects[k] \in [Names -> Nat] /\ effects[k][n] + 1 \in Nat
      BY <1>0 DEF RecordsTyped
    <3> QED BY <1>0, <1>3, <3>1 DEF Invoke, RecordsTyped
  <2> QED BY <1>3, <2>2, <2>6, <2>7 DEF Invoke, RecordsTyped
<1>4. CASE Complete(c)
  <2> DEFINE mine == cases[k].owner = c /\ writes[k][n].by = c /\ writes[k][n].status = "claimed"
             m == IF n[1] = "update" THEN Delivery(call[c].gen) ELSE n
             l == [call[c] EXCEPT !.pc = IF mine THEN AfterWrite(n) ELSE "abort",
                                  !.name = m, !.at = 0, !.sent = n = ClosedDelivery]
  <2>1. call' = [call EXCEPT ![c] = l]
    BY <1>4 DEF Complete, CallsTyped
  <2>2. AfterWrite(n) \in Driving /\ AfterWrite(n) \in Pcs
    BY <1>0, NameFacts DEF Driving, Pcs
  <2>3. n[1] \in {"chat", "update", "delivery"} => Investigated(call[c])
    BY <1>0, <1>4 DEF Knows, Complete, At
  <2>4. m \in Names /\ (m[1] \in {"chat", "update", "delivery"} => Investigated(call[c]))
    BY <1>0, <2>3, NameFacts DEF Investigated
  <2>5. /\ l \in Local /\ l.pc = IF mine THEN AfterWrite(n) ELSE "abort"
        /\ l.key = k /\ l.gen = call[c].gen /\ l.name = m /\ l.verdict = call[c].verdict
    <3>1. (n = ClosedDelivery) \in BOOLEAN /\ "abort" \in Pcs
      BY DEF Pcs
    <3> HIDE DEF m, mine, k, n
    <3> QED BY <1>0, <2>2, <2>4, <3>1 DEF Local, k, n
  <2>6. Knows(c, l)
    <3>1. n[1] \notin {"chat", "update", "delivery"} =>
              AfterWrite(n) \notin {"chat", "deliver", "claim", "investigate", "record", "invoke", "complete"}
      BY <1>0, NameFacts DEF AfterWrite
    <3>2. AfterWrite(n) \notin {"idle", "admit", "interpret", "accept", "abort", "done", "lost"}
      BY <2>2 DEF Driving
    <3> HIDE DEF m, mine, l
    <3> QED BY <1>0, <2>3, <2>4, <2>5, <3>1, <3>2 DEF Knows, Investigated
  <2>7. CallsTyped'
    <3> HIDE DEF l
    <3> QED BY <2>1, <2>5, <2>6, CallTyped
  <2>8. call[c].at \in Nat
    BY <1>0 DEF Local
  <2>9. [writes[k][n] EXCEPT !.status = "completed", !.at = call[c].at] \in
            [status : {"none", "claimed", "completed", "unknown"}, by : Calls \cup {None}, at : Nat]
    BY <1>0, <2>8
  <2>10. RecordsTyped'
    BY <1>0, <1>4, <2>9 DEF Complete, RecordsTyped, history
  <2> QED BY <2>7, <2>10
<1> QED BY <1>1, <1>2, <1>3, <1>4

\* The steps of the owner's loop.
LEMMA TypesDrive ==
    ASSUME RecordsTyped, CallsTyped, NEW c \in Calls,
           Take(c) \/ Investigate(c) \/ Record(c) \/ Block(c) \/ ChatReady(c) \/ Delivered(c)
    PROVE  RecordsTyped' /\ CallsTyped'
<1> DEFINE k == call[c].key
           r == cases[k]
<1>0. /\ call[c] \in Local /\ Knows(c, call[c]) /\ call[c].pc \in Driving
      /\ k \in Keys /\ r \in Case
  <2>1. call[c].pc \in Driving
    BY DEF Take, Investigate, Record, Block, ChatReady, Delivered, At, Driving
  <2>2. call[c] \in Local /\ Knows(c, call[c]) /\ k \in Keys
    BY <2>1, CallFacts
  <2> QED BY <2>1, <2>2 DEF RecordsTyped
<1>a. ASSUME UNCHANGED <<writes, clock, effects, heard>>, cases' \in [Keys -> Case],
             answered' \in [Keys -> SUBSET ReplyCalls]
      PROVE  RecordsTyped'
  BY <1>a DEF RecordsTyped
<1>b. answered \in [Keys -> SUBSET ReplyCalls] /\ cases \in [Keys -> Case]
  BY DEF RecordsTyped
<1>c. ASSUME NEW x \in Case, NEW l \in Local, Knows(c, l), Edit(c, x, l)
      PROVE  CallsTyped' /\ cases' \in [Keys -> Case]
  BY <1>0, <1>b, <1>c, EditTyped
<1>1. CASE Take(c)
  <2> DEFINE g == Head(r.pending)
             p == IF g = r.generation THEN "investigate" ELSE "take"
             l == [On(c, p) EXCEPT !.gen = g, !.whole = r.complete, !.context = heard[k]]
             x == [r EXCEPT !.pending = Tail(@), !.status = "investigating", !.resolution = NoGen]
  <2>0. UNCHANGED <<writes, clock, history>>
    BY <1>1 DEF Take
  <2>1. CASE r.suspended \/ r.closed \/ r.pending = <<>>
    <3>1. Edit(c, Released(r), On(c, "done"))
      BY <1>1, <2>1 DEF Take
    <3>2. Released(r) \in Case
      BY <1>0 DEF Released, Case
    <3>3. On(c, "done") \in Local /\ Knows(c, On(c, "done"))
      BY <1>0, OnFacts DEF Pcs
    <3> QED BY <2>0, <3>1, <3>2, <3>3, <1>a, <1>b, <1>c DEF history
  <2>2. CASE ~(r.suspended \/ r.closed \/ r.pending = <<>>)
    <3>1. Edit(c, x, l)
      BY <1>1, <2>2 DEF Take
    <3>2. r.pending \in Seq(Generations) /\ r.pending # <<>> /\ r.complete \in BOOLEAN
      BY <1>0, <2>2 DEF Case
    <3>3. g \in Generations /\ Tail(r.pending) \in Seq(Generations)
      BY <3>2
    <3>4. x \in Case
      BY <1>0, <3>3 DEF Case, Statuses
    <3>5. p \in Pcs /\ p \in {"take", "investigate"}
      BY DEF Pcs
    <3>6. On(c, p) = [call[c] EXCEPT !.pc = p] /\ On(c, p) \in Local
      BY <1>0, <3>5, OnFacts
    <3>7. heard[k] \in SUBSET ReplyCalls
      BY <1>0 DEF RecordsTyped
    <3>8. l \in Local /\ l.pc = p /\ l.gen = g /\ l.key = k
      <4> HIDE DEF p, g
      <4> QED BY <1>0, <3>2, <3>3, <3>6, <3>7 DEF Local
    <3>9. Knows(c, l)
      <4> HIDE DEF l, p, g
      <4> QED BY <1>0, <3>3, <3>5, <3>8 DEF Knows
    <3>10. CallsTyped' /\ cases' \in [Keys -> Case]
      <4> HIDE DEF l, x
      <4> QED BY <3>1, <3>4, <3>8, <3>9, <1>c
    <3> QED BY <2>0, <3>10, <1>a, <1>b DEF history
  <2> QED BY <2>1, <2>2
<1>2. CASE Investigate(c)
  <2>0. RecordsTyped'
    BY <1>2, <1>a, <1>b DEF Investigate, history
  <2>1. CASE Goto(c, "block")
    <3>1. call' = [call EXCEPT ![c] = On(c, "block")]
      BY <2>1 DEF Goto, On
    <3>2. On(c, "block") \in Local /\ Knows(c, On(c, "block"))
      BY <1>0, OnFacts DEF Pcs
    <3> QED BY <2>0, <3>1, <3>2, CallTyped
  <2>2. ASSUME NEW v \in Verdicts \ {"failed"}, call' = [call EXCEPT ![c].pc = "record", ![c].verdict = v]
        PROVE  CallsTyped'
    <3> DEFINE l == [call[c] EXCEPT !.pc = "record", !.verdict = v]
    <3>1. call' = [call EXCEPT ![c] = l]
      BY <2>2 DEF CallsTyped
    <3>2. v \in {"ready", "questions", "blockers"} /\ "record" \in Pcs
      BY ServiceAssumption DEF Pcs
    <3>3. l \in Local /\ l.pc = "record" /\ l.key = k /\ l.gen = call[c].gen /\ l.verdict = v
      BY <1>0, <3>2 DEF Local
    <3>4. Knows(c, l)
      BY <1>0, <1>2, <3>2, <3>3 DEF Knows, Investigate, At, Investigated
    <3> HIDE DEF l
    <3> QED BY <3>1, <3>3, <3>4, CallTyped
  <2> QED BY <1>2, <2>0, <2>1, <2>2 DEF Investigate
<1>3. CASE Record(c)
  <2> DEFINE g == call[c].gen
             x == [r EXCEPT !.investigation = [gen |-> g, verdict |-> call[c].verdict]]
             n == IF r.chat THEN Update(g) ELSE Chat
  <2>0. UNCHANGED <<writes, clock, history>> /\ Investigated(call[c]) /\ g \in Generations
    BY <1>0, <1>3 DEF Record, At, Knows, Investigated
  <2>1. CASE Edit(c, r, On(c, "take"))
    <3>1. On(c, "take") \in Local /\ Knows(c, On(c, "take"))
      BY <1>0, OnFacts DEF Pcs
    <3> QED BY <1>0, <2>0, <2>1, <3>1, <1>a, <1>b, <1>c DEF history
  <2>2. CASE Edit(c, x, OnWrite(c, n))
    <3>1. n \in Names
      BY <2>0, NameFacts
    <3>2. OnWrite(c, n) \in Local /\ Knows(c, OnWrite(c, n))
      BY <1>0, <2>0, <3>1, OnWriteFacts
    <3>3. [gen |-> g, verdict |-> call[c].verdict] \in
              [gen : Generations \cup {NoGen}, verdict : {"none", "ready", "questions", "blockers"}]
      BY <1>0, <2>0 DEF Local
    <3>4. x \in Case
      BY <1>0, <3>3 DEF Case
    <3>5. CallsTyped' /\ cases' \in [Keys -> Case]
      <4> HIDE DEF x, n
      <4> QED BY <2>2, <3>2, <3>4, <1>c
    <3> QED BY <2>0, <3>5, <1>a, <1>b DEF history
  <2> QED BY <1>3, <2>1, <2>2 DEF Record
<1>4. CASE Block(c)
  <2> DEFINE x == [r EXCEPT !.status = "needs_specialist_review", !.owner = None, !.resolution = NoGen]
  <2>1. Edit(c, x, On(c, "abort")) /\ UNCHANGED <<writes, clock, history>>
    BY <1>4 DEF Block
  <2>2. x \in Case
    BY <1>0 DEF Case, Statuses
  <2>3. On(c, "abort") \in Local /\ Knows(c, On(c, "abort"))
    BY <1>0, OnFacts DEF Pcs
  <2> HIDE DEF x
  <2> QED BY <2>1, <2>2, <2>3, <1>a, <1>b, <1>c DEF history
<1>5. CASE ChatReady(c)
  <2> DEFINE x == [r EXCEPT !.chat = TRUE]
             n == Update(call[c].gen)
  <2>1. Edit(c, x, OnWrite(c, n)) /\ UNCHANGED <<writes, clock, history>> /\ Investigated(call[c])
    BY <1>0, <1>5 DEF ChatReady, At, Knows
  <2>2. x \in Case
    BY <1>0 DEF Case
  <2>3. n \in Names
    BY <2>1, NameFacts DEF Investigated
  <2>4. OnWrite(c, n) \in Local /\ Knows(c, OnWrite(c, n))
    BY <1>0, <2>1, <2>3, OnWriteFacts
  <2> HIDE DEF x, n
  <2> QED BY <2>1, <2>2, <2>4, <1>a, <1>b, <1>c DEF history
<1>6. CASE Delivered(c)
  <2> DEFINE g == call[c].gen
             current == r.generation = g /\ ~r.suspended
             ready == call[c].verdict = "ready"
             s == CASE ~current -> r.status
                    [] current /\ ready -> "awaiting_confirmation"
                    [] current /\ call[c].verdict = "questions" -> "waiting_for_requester"
                    [] current /\ call[c].verdict = "blockers" -> "needs_specialist_review"
             x == [r EXCEPT !.contact = writes[k][Delivery(g)].at,
                            !.resolution = IF current /\ ready THEN g ELSE NoGen,
                            !.status = s]
  <2>1. Edit(c, x, On(c, "take")) /\ UNCHANGED <<writes, clock, effects, heard>> /\ Investigated(call[c]) /\ g \in Generations
    BY <1>0, <1>6 DEF Delivered, At, Knows, Investigated
  <2>2. x \in Case
    <3>1. writes[k][Delivery(g)].at \in Nat
      BY <1>0, <2>1, NameFacts DEF RecordsTyped
    <3>2. s \in Statuses
      <4>1. r.status \in Statuses
        BY <1>0 DEF Case
      <4>2. call[c].verdict \in {"ready", "questions", "blockers"}
        BY <1>0, <2>1 DEF Local, Investigated
      <4> QED BY <4>1, <4>2 DEF Statuses
    <3>3. (IF current /\ ready THEN g ELSE NoGen) \in Generations \cup {NoGen}
      BY <2>1
    <3> HIDE DEF s, current, ready, g
    <3> QED BY <1>0, <3>1, <3>2, <3>3 DEF Case
  <2>3. On(c, "take") \in Local /\ Knows(c, On(c, "take"))
    BY <1>0, OnFacts DEF Pcs
  <2>4. answered' \in [Keys -> SUBSET ReplyCalls]
    <3>1. call[c].context \in SUBSET ReplyCalls
      BY <1>0 DEF Local
    <3> QED BY <1>0, <1>b, <1>6, <3>1 DEF Delivered
  <2> HIDE DEF x
  <2> QED BY <2>1, <2>2, <2>3, <2>4, <1>a, <1>c
<1> QED BY <1>1, <1>2, <1>3, <1>4, <1>5, <1>6

\* The case a reply is about is an admitted one, or none.
LEMMA TargetFacts ==
    ASSUME NEW form \in {"plain", "malformed", "marker", "resolve"}, NEW number
    PROVE  Target(form, number) \in Admitted \cup {None} /\ Admitted \subseteq Keys
<1> DEFINE chats == {k \in Admitted : cases[k].chat}
           numbered == {k \in chats : cases[k].number = number}
           open == {k \in chats : ~cases[k].closed}
           latest == {k \in open : \A j \in open : cases[j].contact <= cases[k].contact}
           found == CASE form \in {"marker", "resolve"} -> numbered
                      [] form = "malformed" -> chats
                      [] form = "plain" -> IF Cardinality(chats) > 1 THEN latest ELSE chats
<1>1. chats \subseteq Admitted /\ numbered \subseteq Admitted /\ latest \subseteq Admitted
  OBVIOUS
<1>2. found \subseteq Admitted
  <2> HIDE DEF chats, numbered, latest
  <2> QED BY <1>1
<1>3. Target(form, number) = IF Cardinality(found) = 1 THEN CHOOSE k \in found : TRUE ELSE None
  BY DEF Target
<1>4. ASSUME Cardinality(found) = 1
      PROVE  (CHOOSE k \in found : TRUE) \in Admitted
  <2> HIDE DEF found
  <2>1. found # {}
    BY <1>4, FS_EmptySet
  <2> QED BY <1>2, <2>1
<1> HIDE DEF found
<1> QED BY <1>3, <1>4 DEF Admitted

\* The steps of handle_reply up to its edit of the case.
LEMMA TypesReply ==
    ASSUME RecordsTyped, CallsTyped, NEW c \in Calls,
           ReceiveReply(c) \/ Interpret(c) \/ AcceptNothing(c)
    PROVE  RecordsTyped' /\ CallsTyped'
<1>0. call[c] \in Local /\ Knows(c, call[c])
  BY CallFacts
<1>a. RecordsTyped'
  BY DEF ReceiveReply, Interpret, AcceptNothing, RecordsTyped, history
<1>1. CASE ReceiveReply(c)
  <2>1. PICK f \in Forms, n \in Numbers \cup {None} :
            call' = [call EXCEPT ![c].pc = "interpret", ![c].at = clock, ![c].form = f, ![c].number = n]
    BY <1>1 DEF ReceiveReply
  <2> DEFINE l == [call[c] EXCEPT !.pc = "interpret", !.at = clock, !.form = f, !.number = n]
  <2>2. call' = [call EXCEPT ![c] = l]
    BY <2>1 DEF CallsTyped
  <2>3. clock \in Nat /\ f \in {"plain", "malformed", "marker", "resolve"} /\ "interpret" \in Pcs
    BY ServiceAssumption DEF RecordsTyped, Pcs
  <2>4. l \in Local /\ l.pc = "interpret"
    BY <1>0, <2>3 DEF Local
  <2>5. Knows(c, l)
    BY <1>1, <2>4 DEF Knows, ReceiveReply
  <2> HIDE DEF l
  <2> QED BY <1>a, <2>2, <2>4, <2>5, CallTyped
<1>2. CASE Interpret(c)
  <2> DEFINE k == Target(call[c].form, call[c].number)
             j == IF call[c].form = "resolve" THEN None ELSE k
  <2>1. PICK i \in Intents \cup {"information"} :
            call' = [call EXCEPT ![c].pc = "accept", ![c].intent = i, ![c].intentKey = j]
    BY <1>2 DEF Interpret
  <2> DEFINE l == [call[c] EXCEPT !.pc = "accept", !.intent = i, !.intentKey = j]
  <2>2. call' = [call EXCEPT ![c] = l]
    BY <2>1 DEF CallsTyped
  <2>3. j \in Keys \cup {None} /\ i \in {"information", "confirm", "chat"} /\ "accept" \in Pcs
    <3>1. call[c].form \in {"plain", "malformed", "marker", "resolve"}
      BY <1>0 DEF Local
    <3>2. k \in Keys \cup {None}
      BY <3>1, TargetFacts
    <3> QED BY <3>2, ServiceAssumption DEF Pcs
  <2>4. l \in Local /\ l.pc = "accept"
    <3> HIDE DEF j
    <3> QED BY <1>0, <2>3 DEF Local
  <2>5. Knows(c, l)
    BY <1>0, <1>2, <2>4 DEF Knows, Interpret, At
  <2> HIDE DEF l
  <2> QED BY <1>a, <2>2, <2>4, <2>5, CallTyped
<1>3. CASE AcceptNothing(c)
  <2>1. Goto(c, "done")
    BY <1>3 DEF AcceptNothing
  <2> QED BY <1>a, <2>1, StopTyped
<1> QED BY <1>1, <1>2, <1>3

\* The edits of handle_reply.
LEMMA TypesAccept ==
    ASSUME RecordsTyped, CallsTyped, NEW c \in Calls, NEW k \in Keys,
           AcceptFull(c, k) \/ AcceptRejected(c, k) \/ AcceptClose(c, k) \/ AcceptChat(c, k)
              \/ AcceptMaterial(c, k)
    PROVE  RecordsTyped' /\ CallsTyped'
<1> DEFINE r == cases[k]
           as == r.activities \cup {Activity[c]}
<1>0. call[c] \in Local /\ r \in Case /\ c \in ReplyCalls
  <2>1. call[c] \in Local /\ Knows(c, call[c])
    BY CallFacts
  <2>2. call[c].pc = "accept"
    BY DEF AcceptFull, AcceptRejected, AcceptClose, AcceptChat, AcceptMaterial, Room, Accepting, At
  <2> QED BY <2>1, <2>2 DEF Knows, RecordsTyped
<1>a. as \subseteq Activities
  BY <1>0 DEF Case, Activities
<1>b. cases \in [Keys -> Case]
  BY DEF RecordsTyped
<1>c. ASSUME UNCHANGED <<writes, clock, history>>, cases' \in [Keys -> Case]
      PROVE  RecordsTyped'
  BY <1>c DEF RecordsTyped, history
<1>1. CASE AcceptFull(c, k)
  <2> DEFINE x == [r EXCEPT !.suspended = TRUE, !.resolution = NoGen, !.status = Specialist(r.status)]
  <2>1. cases' = [cases EXCEPT ![k] = x] /\ UNCHANGED <<writes, clock, history>> /\ Goto(c, "done")
    BY <1>1, <1>b DEF AcceptFull
  <2>2. x \in Case
    <3>1. Specialist(r.status) \in Statuses
      BY <1>0 DEF Case, Specialist, Statuses
    <3> QED BY <1>0, <3>1 DEF Case
  <2>3. cases' \in [Keys -> Case]
    BY <1>b, <2>1, <2>2
  <2> QED BY <2>1, <2>3, <1>c, StopTyped
<1>2. CASE AcceptRejected(c, k) \/ AcceptChat(c, k)
  <2> DEFINE x == [r EXCEPT !.activities = as]
  <2>1. cases' = [cases EXCEPT ![k] = x] /\ UNCHANGED <<writes, clock, history>> /\ Goto(c, "done")
    BY <1>2, <1>b DEF AcceptRejected, AcceptChat
  <2>2. x \in Case
    BY <1>0, <1>a DEF Case
  <2>3. cases' \in [Keys -> Case]
    BY <1>b, <2>1, <2>2
  <2> QED BY <2>1, <2>3, <1>c, StopTyped
<1>3. CASE AcceptClose(c, k)
  <2> DEFINE x == [r EXCEPT !.activities = as, !.owner = c, !.status = "closing"]
             l == [Idle EXCEPT !.pc = "claim", !.key = k, !.name = Close, !.gen = r.generation]
  <2>1. /\ cases' = [cases EXCEPT ![k] = x] /\ UNCHANGED <<writes, clock, history>>
        /\ call' = [call EXCEPT ![c] = l]
    BY <1>3, <1>b DEF AcceptClose
  <2>2. x \in Case
    BY <1>0, <1>a DEF Case, Statuses
  <2>3. cases' \in [Keys -> Case]
    BY <1>b, <2>1, <2>2
  <2>4. r.generation \in Generations
    BY <1>0 DEF Case
  <2>5. l \in Local /\ l.pc = "claim" /\ l.key = k /\ l.name = Close
    BY <2>4, NameFacts DEF Idle, Local, Pcs
  <2>6. Knows(c, l)
    BY <2>5, NameFacts DEF Knows
  <2>7. CallsTyped'
    <3> HIDE DEF l
    <3> QED BY <2>1, <2>5, <2>6, CallTyped
  <2> QED BY <2>1, <2>3, <2>7, <1>c
<1>4. CASE AcceptMaterial(c, k)
  <2> DEFINE queued == ~Full(r) /\ ~r.suspended
             stopped == Full(r) \/ r.suspended \/ r.closed
             g == IF queued THEN r.generation + 1 ELSE r.generation
             mine == ~stopped /\ Free(r)
             p == IF mine THEN "take" ELSE "done"
             i == [Idle EXCEPT !.key = k]
             whole == r.complete /\ c \notin Truncated
             waiting == IF queued THEN Append(r.pending, g) ELSE r.pending
             status == IF stopped THEN Specialist(r.status) ELSE "investigating"
             owner == IF mine THEN c ELSE r.owner
             x == [r EXCEPT !.activities = as, !.resolution = NoGen, !.investigation = NoResult,
                            !.complete = whole, !.generation = g, !.pending = waiting,
                            !.suspended = stopped, !.status = status, !.owner = owner]
  <2>1. /\ cases' = [cases EXCEPT ![k] = x]
        /\ call' = [call EXCEPT ![c] = Locals(i, p)]
        /\ heard' = [heard EXCEPT ![k] = @ \cup {c}]
        /\ UNCHANGED <<writes, clock, effects, answered>>
    BY <1>4, <1>b DEF AcceptMaterial
  <2>2. g \in Generations
    <3>1. r.generation \in 0..(MaxTurns - 1)
      BY <1>0 DEF Case, Generations
    <3>2. queued => ~(r.generation >= MaxTurns - 1)
      BY DEF Full
    <3> QED BY <3>1, <3>2, ServiceAssumption DEF Generations
  <2>3. stopped \in BOOLEAN
    BY <1>0 DEF Case, Full
  <2>4. x \in Case
    <3>1. waiting \in Seq(Generations)
      <4>1. r.pending \in Seq(Generations)
        BY <1>0 DEF Case
      <4> HIDE DEF queued, g
      <4> QED BY <2>2, <4>1
    <3>2. /\ whole \in BOOLEAN
          /\ NoResult \in [gen : Generations \cup {NoGen}, verdict : {"none", "ready", "questions", "blockers"}]
          /\ owner \in Calls \cup {None}
          /\ status \in Statuses
      BY <1>0 DEF Case, NoResult, Specialist, Statuses
    <3> HIDE DEF waiting, stopped, g, whole, status, owner, as
    <3> QED BY <1>0, <1>a, <2>2, <2>3, <3>1, <3>2 DEF Case
  <2>5. cases' \in [Keys -> Case]
    <3> HIDE DEF x
    <3> QED BY <1>b, <2>1, <2>4
  <2>6. i \in Local /\ i.key = k /\ p \in Pcs /\ p \in {"take", "done"}
    BY NameFacts DEF Idle, Local, Pcs
  <2>7. Locals(i, p) \in Local /\ Locals(i, p).pc = p /\ (p = "take" => Locals(i, p).key = k)
    <3> HIDE DEF i, p
    <3> QED BY <2>6, LocalsFacts
  <2>8. Knows(c, Locals(i, p))
    <3> HIDE DEF i, p
    <3> QED BY <2>6, <2>7 DEF Knows
  <2>9. CallsTyped'
    <3> HIDE DEF i, p
    <3> QED BY <2>1, <2>7, <2>8, CallTyped
  <2>10. heard' \in [Keys -> SUBSET ReplyCalls]
    BY <1>0, <2>1 DEF RecordsTyped
  <2>11. RecordsTyped'
    BY <2>1, <2>5, <2>10 DEF RecordsTyped
  <2> QED BY <2>9, <2>11
<1> QED BY <1>1, <1>2, <1>3, <1>4

\* The steps of _close_case after the closure itself, and of interruption.
LEMMA TypesClose ==
    ASSUME RecordsTyped, CallsTyped, NEW c \in Calls,
           Verify(c) \/ Readback(c) \/ Closed(c) \/ Notified(c)
    PROVE  RecordsTyped' /\ CallsTyped'
<1> DEFINE k == call[c].key
           r == cases[k]
<1>0. call[c] \in Local /\ call[c].pc \in Driving /\ k \in Keys /\ r \in Case
  <2>1. call[c].pc \in Driving
    BY DEF Verify, Readback, Closed, Notified, At, Driving
  <2>2. call[c] \in Local /\ k \in Keys
    BY <2>1, CallFacts
  <2> QED BY <2>1, <2>2 DEF RecordsTyped
<1>a. UNCHANGED <<writes, clock, history>>
  BY DEF Verify, Readback, Closed, Notified
<1>b. ASSUME NEW x \in Case, NEW l \in Local, Knows(c, l), Edit(c, x, l)
      PROVE  RecordsTyped' /\ CallsTyped'
  <2>1. CallsTyped' /\ cases' \in [Keys -> Case]
    BY <1>0, <1>b, EditTyped DEF RecordsTyped
  <2> QED BY <1>a, <2>1 DEF RecordsTyped, history
<1>c. ASSUME NEW p \in {"take", "readback", "closed", "notified", "abort", "done"}
      PROVE  On(c, p) \in Local /\ Knows(c, On(c, p))
  BY <1>0, OnFacts DEF Pcs
<1>1. CASE Verify(c)
  <2>1. [r EXCEPT !.status = "verifying_close"] \in Case
    BY <1>0 DEF Case, Statuses
  <2>2. Edit(c, [r EXCEPT !.status = "verifying_close"], On(c, "readback"))
    BY <1>1 DEF Verify
  <2> QED BY <1>b, <1>c, <2>1, <2>2
<1>2. CASE Readback(c)
  <2>1. PICK s \in {"Closed", "other"} :
            Edit(c, [r EXCEPT !.readback = s], On(c, IF s = "Closed" THEN "closed" ELSE "abort"))
    BY <1>2 DEF Readback
  <2>2. [r EXCEPT !.readback = s] \in Case
    BY <1>0 DEF Case
  <2>3. CASE s = "Closed"
    <3>1. Edit(c, [r EXCEPT !.readback = s], On(c, "closed"))
      BY <2>1, <2>3
    <3> QED BY <1>b, <1>c, <2>2, <3>1
  <2>4. CASE s # "Closed"
    <3>1. Edit(c, [r EXCEPT !.readback = s], On(c, "abort"))
      BY <2>1, <2>4
    <3> QED BY <1>b, <1>c, <2>2, <3>1
  <2> QED BY <2>3, <2>4
<1>3. CASE Closed(c)
  <2> DEFINE overtaken == Overtaken(c, r)
             x == [r EXCEPT !.closed = TRUE, !.resolution = NoGen, !.suspended = overtaken,
                            !.status = IF overtaken THEN "needs_specialist_review" ELSE "closed",
                            !.owner = IF overtaken THEN None ELSE @]
  <2>1. Edit(c, x, IF overtaken THEN On(c, "done") ELSE OnWrite(c, ClosedDelivery))
    BY <1>3 DEF Closed
  <2>2. overtaken \in BOOLEAN
    BY <1>0 DEF Overtaken, Case
  <2>3. x \in Case
    <3>1. r.owner \in Calls \cup {None}
      BY <1>0 DEF Case
    <3> HIDE DEF overtaken
    <3> QED BY <1>0, <2>2, <3>1 DEF Case, Statuses
  <2>4. OnWrite(c, ClosedDelivery) \in Local /\ Knows(c, OnWrite(c, ClosedDelivery))
    BY <1>0, NameFacts, OnWriteFacts
  <2>5. CASE overtaken
    <3>1. Edit(c, x, On(c, "done"))
      BY <2>1, <2>5
    <3> HIDE DEF x
    <3> QED BY <1>b, <1>c, <2>3, <3>1
  <2>6. CASE ~overtaken
    <3>1. Edit(c, x, OnWrite(c, ClosedDelivery))
      BY <2>1, <2>6
    <3> HIDE DEF x
    <3> QED BY <1>b, <2>3, <2>4, <3>1
  <2> QED BY <2>5, <2>6
<1>4. CASE Notified(c)
  <2> DEFINE good == r.generation = call[c].gen /\ ~r.suspended /\ call[c].sent
             x == [r EXCEPT !.owner = None, !.suspended = ~good,
                            !.status = IF good THEN "closed" ELSE "needs_specialist_review"]
  <2>1. Edit(c, x, On(c, "done"))
    BY <1>4 DEF Notified
  <2>2. x \in Case
    <3>1. good \in BOOLEAN
      OBVIOUS
    <3> HIDE DEF good
    <3> QED BY <1>0, <3>1 DEF Case, Statuses
  <2> HIDE DEF x
  <2> QED BY <1>b, <1>c, <2>1, <2>2
<1> QED BY <1>1, <1>2, <1>3, <1>4

LEMMA TypesInterrupt ==
    ASSUME RecordsTyped, CallsTyped, NEW c \in Calls, Interrupt(c) \/ Abort(c) \/ Die(c)
    PROVE  RecordsTyped' /\ CallsTyped'
<1>1. CallsTyped'
  <2>1. Goto(c, "abort") \/ Goto(c, "lost")
    BY DEF Interrupt, Abort, Die
  <2> QED BY <2>1, StopTyped
<1>2. CASE UNCHANGED <<cases, writes>>
  <2>1. UNCHANGED <<clock, history>>
    BY DEF Interrupt, Abort, Die
  <2>2. RecordsTyped'
    BY <1>2, <2>1 DEF RecordsTyped, history
  <2> QED BY <1>1, <2>2
<1>3. CASE Abort(c) /\ ~UNCHANGED <<cases, writes>>
  <2> DEFINE k == call[c].key
             ws == [n \in Names |-> IF writes[k][n].status = "claimed" /\ writes[k][n].by = c
                                    THEN [writes[k][n] EXCEPT !.status = "unknown"] ELSE writes[k][n]]
             x == [cases[k] EXCEPT !.status = "write_outcome_unknown", !.suspended = TRUE, !.resolution = NoGen]
  <2>1. k # None /\ UNCHANGED <<clock, history>>
    BY <1>3 DEF Abort
  <2>2. k \in Keys
    BY <2>1, CallFacts DEF Local
  <2>3. cases' = [cases EXCEPT ![k] = x] /\ writes' = [writes EXCEPT ![k] = ws]
    BY <1>3, <2>2 DEF Abort, RecordsTyped
  <2>4. x \in Case
    <3>1. cases[k] \in Case
      BY <2>2 DEF RecordsTyped
    <3> QED BY <3>1 DEF Case, Statuses
  <2>5. ws \in [Names -> [status : {"none", "claimed", "completed", "unknown"}, by : Calls \cup {None}, at : Nat]]
    <3>1. ASSUME NEW n \in Names
          PROVE  ws[n] \in [status : {"none", "claimed", "completed", "unknown"}, by : Calls \cup {None}, at : Nat]
      <4>1. writes[k][n] \in [status : {"none", "claimed", "completed", "unknown"}, by : Calls \cup {None}, at : Nat]
        BY <2>2 DEF RecordsTyped
      <4> QED BY <4>1
    <3>2. ws = [n \in Names |-> ws[n]]
      OBVIOUS
    <3> HIDE DEF ws
    <3> QED BY <3>1, <3>2
  <2> HIDE DEF ws, x
  <2>6. RecordsTyped'
    BY <2>1, <2>2, <2>3, <2>4, <2>5 DEF RecordsTyped, history
  <2> QED BY <1>1, <2>6
<1>4. Abort(c) \/ UNCHANGED <<cases, writes>>
  BY DEF Interrupt, Die
<1> QED BY <1>1, <1>2, <1>3, <1>4

LEMMA TypeStep == TypeInv /\ [Next]_vars => TypeInv'
<1> SUFFICES ASSUME RecordsTyped, CallsTyped, [Next]_vars
             PROVE  RecordsTyped' /\ CallsTyped'
  <2>1. TypeInv' <=> RecordsTyped' /\ CallsTyped'
    BY DEF TypeInv, TypeOK, RecordsTyped, CallsTyped
  <2> QED BY <2>1, TypeParts
<1>1. CASE UNCHANGED vars
  BY <1>1 DEF vars, RecordsTyped, CallsTyped, Knows, Investigated
<1>2. ASSUME NEW c \in Calls,
             Receive(c) \/ ReceiveReply(c) \/ Interpret(c) \/ Accept(c) \/ Drive(c) \/ Interrupt(c) \/ Die(c)
      PROVE  RecordsTyped' /\ CallsTyped'
  BY <1>2, TypesAdmit, TypesWrite, TypesDrive, TypesReply, TypesAccept, TypesClose, TypesInterrupt
     DEF Accept, Drive
<1> QED BY <1>1, <1>2 DEF Next

\* Every state of the service is typed: for any number of cases, calls, rounds
\* and receipts, no edit of the CAS document ever leaves its schema.
THEOREM ServiceTypes == Spec => []TypeOK
<1>1. TypeInv => TypeOK
  BY DEF TypeInv
<1> QED BY <1>1, TypeInit, TypeStep, PTL DEF Spec

-----------------------------------------------------------------------------
(* External writes are attempted once, and in order.                       *)

\* A call about to write has its own claim, has not written yet, and every other
\* write of the case is either untouched or has its receipt.
Poised(c) ==
    LET k == call[c].key
        n == call[c].name
    IN /\ writes[k][n].status = "claimed" /\ writes[k][n].by = c
       /\ effects[k][n] = 0
       /\ \A m \in Names \ {n} : writes[k][m].status \in {"none", "completed"}

\* What was attempted was claimed and never unclaimed, and an attempt that has not
\* been made yet has nothing unsettled beside it.
WriteInv ==
    /\ \A k \in Keys, n \in Names : effects[k][n] # 0 => effects[k][n] = 1 /\ writes[k][n].status # "none"
    /\ \A c \in Calls : call[c].pc = "invoke" => Poised(c)

\* A call with these locals was brought there neither by its claim or its attempt,
\* nor by the receipt of a stored answer.
Plain(l) == l.pc \notin {"invoke", "complete"} /\ (l.pc = "claim" => l.name[1] # "delivery")

\* The steps that neither claim, attempt nor settle anything.
Quiet(c) == /\ UNCHANGED <<writes, effects>>
            /\ \E l : Plain(l) /\ call' = [call EXCEPT ![c] = l]

\* The steps at which a call has nothing claimed.
Aside == Pcs \ {"claim", "invoke", "complete"}

LEMMA QuietEdit ==
    ASSUME CallsTyped, NEW c \in Calls, NEW r, NEW l, Plain(l), Edit(c, r, l), UNCHANGED <<writes, effects>>
    PROVE  Quiet(c)
<1>1. call[c] \in Local /\ "abort" \in Pcs
  BY CallFacts DEF Pcs
<1>2. Locals(call[c], "abort").pc = "abort"
  BY <1>1, LocalsFacts
<1> QED BY <1>2 DEF Quiet, Plain, Edit, Goto

LEMMA QuietGoto ==
    ASSUME CallsTyped, NEW c \in Calls, NEW p \in Aside, Goto(c, p), UNCHANGED <<writes, effects>>
    PROVE  Quiet(c)
<1>1. call[c] \in Local
  BY CallFacts
<1>2. Locals(call[c], p).pc = p
  BY <1>1, LocalsFacts DEF Aside
<1> QED BY <1>2 DEF Quiet, Plain, Aside, Goto

LEMMA QuietSteps ==
    ASSUME CallsTyped, NEW c \in Calls,
           \/ Receive(c) \/ Admit(c) \/ Register(c) \/ ClaimRefused(c)
           \/ Take(c) \/ Investigate(c) \/ Record(c) \/ Block(c) \/ ChatReady(c) \/ Delivered(c)
           \/ ReceiveReply(c) \/ Interpret(c) \/ Accept(c)
           \/ Verify(c) \/ Readback(c) \/ Closed(c) \/ Notified(c)
           \/ Interrupt(c) \/ Die(c)
    PROVE  Quiet(c)
<1>0. call[c] \in Local
  BY CallFacts
<1>a. ASSUME NEW p \in Aside
      PROVE  Plain(On(c, p))
  BY <1>0, LocalsFacts DEF On, Aside, Plain
<1>b. ASSUME NEW n, n[1] # "delivery"
      PROVE  Plain(OnWrite(c, n))
  <2>1. OnWrite(c, n).pc = "claim" /\ OnWrite(c, n).name = n
    BY <1>0 DEF OnWrite, Local
  <2> QED BY <1>b, <2>1 DEF Plain
<1>c. {"abort", "done", "lost", "take", "notified", "block", "readback", "closed", "investigate"}
          \subseteq Aside
  BY DEF Pcs, Aside
<1>d. Chat[1] # "delivery" /\ ClosedDelivery[1] # "delivery" /\ \A g : Update(g)[1] # "delivery"
  BY DEF Chat, ClosedDelivery, Update
<1>1. CASE Receive(c)
  <2> DEFINE l == [call[c] EXCEPT !.pc = "admit", !.key = EmailKey[c], !.at = clock']
  <2>1. call' = [call EXCEPT ![c] = l] /\ UNCHANGED <<writes, effects>>
    BY <1>1 DEF Receive, history, CallsTyped
  <2>2. Plain(l)
    BY <1>0 DEF Local, Plain
  <2> HIDE DEF l
  <2> QED BY <2>1, <2>2 DEF Quiet
<1>2. CASE Admit(c)
  <2> DEFINE l == [Idle EXCEPT !.pc = "claim", !.key = EmailKey[c], !.name = Create]
  <2>1. UNCHANGED <<writes, effects>>
    BY <1>2 DEF Admit, history
  <2>2. Plain(l)
    BY DEF Idle, Plain, Create
  <2>3. CASE call' = [call EXCEPT ![c] = l]
    <3> HIDE DEF l
    <3> QED BY <2>1, <2>2, <2>3 DEF Quiet
  <2>4. CASE Goto(c, "done") \/ Goto(c, "abort")
    BY <1>c, <2>1, <2>4, QuietGoto
  <2> QED BY <1>2, <2>3, <2>4 DEF Admit
<1>3. CASE Register(c)
  BY <1>3, <1>a, <1>c, QuietEdit DEF Register, history
<1>4. CASE ClaimRefused(c)
  BY <1>4, <1>c, QuietGoto DEF ClaimRefused, history
<1>5. CASE Take(c)
  <2>1. UNCHANGED <<writes, effects>>
    BY <1>5 DEF Take, history
  <2> DEFINE r == cases[call[c].key]
             g == Head(r.pending)
             p == IF g = r.generation THEN "investigate" ELSE "take"
             l == [On(c, p) EXCEPT !.gen = g, !.whole = r.complete, !.context = heard[call[c].key]]
  <2>2. p \in Aside /\ "done" \in Aside
    BY <1>c
  <2>3. On(c, p).pc = p /\ On(c, p) \in Local /\ Plain(On(c, "done"))
    BY <1>0, <1>a, <2>2, LocalsFacts DEF On, Aside
  <2>4. Plain(l)
    BY <2>2, <2>3 DEF Local, Plain, Aside
  <2>5. \/ Edit(c, Released(r), On(c, "done"))
        \/ \E x : Edit(c, x, l)
    BY <1>5 DEF Take
  <2> HIDE DEF l, p
  <2> QED BY <2>1, <2>3, <2>4, <2>5, QuietEdit
<1>6. CASE Investigate(c)
  <2>1. UNCHANGED <<writes, effects>>
    BY <1>6 DEF Investigate, history
  <2>2. CASE Goto(c, "block")
    BY <1>c, <2>1, <2>2, QuietGoto
  <2>3. ASSUME NEW v, call' = [call EXCEPT ![c].pc = "record", ![c].verdict = v]
        PROVE  Quiet(c)
    <3> DEFINE l == [call[c] EXCEPT !.pc = "record", !.verdict = v]
    <3>1. call' = [call EXCEPT ![c] = l]
      BY <2>3 DEF CallsTyped
    <3>2. Plain(l)
      BY <1>0 DEF Local, Plain
    <3> HIDE DEF l
    <3> QED BY <2>1, <3>1, <3>2 DEF Quiet
  <2> QED BY <1>6, <2>2, <2>3 DEF Investigate
<1>7. CASE Record(c)
  BY <1>7, <1>a, <1>b, <1>c, <1>d, QuietEdit DEF Record, history
<1>8. CASE Block(c)
  BY <1>8, <1>a, <1>c, QuietEdit DEF Block, history
<1>9. CASE ChatReady(c)
  BY <1>9, <1>b, <1>d, QuietEdit DEF ChatReady, history
<1>10. CASE Delivered(c)
  BY <1>10, <1>a, <1>c, QuietEdit DEF Delivered
<1>11. CASE ReceiveReply(c)
  <2>1. PICK f, n : call' = [call EXCEPT ![c].pc = "interpret", ![c].at = clock, ![c].form = f, ![c].number = n]
    BY <1>11 DEF ReceiveReply
  <2> DEFINE l == [call[c] EXCEPT !.pc = "interpret", !.at = clock, !.form = f, !.number = n]
  <2>2. call' = [call EXCEPT ![c] = l] /\ UNCHANGED <<writes, effects>>
    BY <1>11, <2>1 DEF CallsTyped, ReceiveReply, history
  <2>3. Plain(l)
    BY <1>0 DEF Local, Plain
  <2> HIDE DEF l
  <2> QED BY <2>2, <2>3 DEF Quiet
<1>12. CASE Interpret(c)
  <2>1. PICK i, j : call' = [call EXCEPT ![c].pc = "accept", ![c].intent = i, ![c].intentKey = j]
    BY <1>12 DEF Interpret
  <2> DEFINE l == [call[c] EXCEPT !.pc = "accept", !.intent = i, !.intentKey = j]
  <2>2. call' = [call EXCEPT ![c] = l] /\ UNCHANGED <<writes, effects>>
    BY <1>12, <2>1 DEF CallsTyped, Interpret, history
  <2>3. Plain(l)
    BY <1>0 DEF Local, Plain
  <2> HIDE DEF l
  <2> QED BY <2>2, <2>3 DEF Quiet
<1>13. CASE Accept(c)
  <2>1. CASE AcceptNothing(c)
    BY <1>c, <2>1, QuietGoto DEF AcceptNothing, history
  <2>2. ASSUME NEW k \in Keys, AcceptFull(c, k) \/ AcceptRejected(c, k) \/ AcceptChat(c, k)
        PROVE  Quiet(c)
    BY <1>c, <2>2, QuietGoto DEF AcceptFull, AcceptRejected, AcceptChat, history
  <2>3. ASSUME NEW k \in Keys, AcceptClose(c, k)
        PROVE  Quiet(c)
    <3> DEFINE l == [Idle EXCEPT !.pc = "claim", !.key = k, !.name = Close, !.gen = cases[k].generation]
    <3>1. call' = [call EXCEPT ![c] = l] /\ UNCHANGED <<writes, effects>>
      BY <2>3 DEF AcceptClose, history
    <3>2. Plain(l)
      BY DEF Idle, Plain, Close
    <3> HIDE DEF l
    <3> QED BY <3>1, <3>2 DEF Quiet
  <2>4. ASSUME NEW k \in Keys, AcceptMaterial(c, k)
        PROVE  Quiet(c)
    <3>1. PICK p \in {"take", "done"} : call' = [call EXCEPT ![c] = Locals([Idle EXCEPT !.key = k], p)]
      BY <2>4 DEF AcceptMaterial
    <3>2. [Idle EXCEPT !.key = k] \in Local
      BY NameFacts DEF Idle, Local, Pcs
    <3>3. Plain(Locals([Idle EXCEPT !.key = k], p))
      BY <1>c, <3>2, LocalsFacts DEF Aside, Plain
    <3>4. UNCHANGED <<writes, effects>>
      BY <2>4 DEF AcceptMaterial
    <3> QED BY <3>1, <3>3, <3>4 DEF Quiet
  <2> QED BY <1>13, <2>1, <2>2, <2>3, <2>4 DEF Accept
<1>14. CASE Verify(c)
  BY <1>14, <1>a, <1>c, QuietEdit DEF Verify, history
<1>15. CASE Readback(c)
  <2>1. PICK p \in {"closed", "abort"} : \E x : Edit(c, x, On(c, p))
    BY <1>15 DEF Readback
  <2> QED BY <1>15, <1>a, <1>c, <2>1, QuietEdit DEF Readback, history
<1>16. CASE Closed(c)
  <2>1. PICK l \in {On(c, "done"), OnWrite(c, ClosedDelivery)} : \E x : Edit(c, x, l)
    BY <1>16 DEF Closed
  <2>2. Plain(l)
    BY <1>a, <1>b, <1>c, <1>d
  <2> QED BY <1>16, <2>1, <2>2, QuietEdit DEF Closed, history
<1>17. CASE Notified(c)
  BY <1>17, <1>a, <1>c, QuietEdit DEF Notified, history
<1>18. CASE Interrupt(c) \/ Die(c)
  BY <1>18, <1>c, QuietGoto DEF Interrupt, Die, history
<1> QED BY <1>1, <1>2, <1>3, <1>4, <1>5, <1>6, <1>7, <1>8, <1>9, <1>10, <1>11, <1>12, <1>13, <1>14,
           <1>15, <1>16, <1>17, <1>18

LEMMA WriteInit == Init => WriteInv
BY DEF Init, WriteInv, Idle

LEMMA WriteQuiet ==
    ASSUME CallsTyped, WriteInv, NEW c \in Calls, Quiet(c)
    PROVE  WriteInv'
<1>1. PICK l : l.pc # "invoke" /\ call' = [call EXCEPT ![c] = l]
  BY DEF Quiet, Plain
<1>2. ASSUME NEW d \in Calls, call'[d].pc = "invoke"
      PROVE  call'[d] = call[d]
  BY <1>1, <1>2 DEF CallsTyped
<1> QED BY <1>2 DEF WriteInv, Poised, Quiet

LEMMA WriteClaim ==
    ASSUME RecordsTyped, CallsTyped, WriteInv, NEW c \in Calls, Claim(c)
    PROVE  WriteInv'
<1> DEFINE k == call[c].key
           n == call[c].name
           w == [status |-> "claimed", by |-> c, at |-> 0]
<1>0. k \in Keys /\ n \in Names /\ call[c] \in Local
  BY CallFacts DEF Claim, At, Driving, Local
<1>1. /\ writes' = [writes EXCEPT ![k][n] = w] /\ UNCHANGED effects
      /\ writes[k][n].status = "none"
      /\ \A m \in Names : writes[k][m].status \in {"none", "completed"}
  BY DEF Claim, Unclaimed, history
<1>2. call' = [call EXCEPT ![c] = [call[c] EXCEPT !.pc = "invoke"]]
  <2>1. Locals(call[c], "invoke") = [call[c] EXCEPT !.pc = "invoke"]
    BY <1>0, LocalsFacts DEF Pcs
  <2> QED BY <2>1 DEF Claim, Goto
<1>3. /\ writes'[k][n] = w
      /\ \A j \in Keys, m \in Names : <<j, m>> # <<k, n>> => writes'[j][m] = writes[j][m]
  BY <1>0, <1>1 DEF RecordsTyped
<1>4. ASSUME NEW j \in Keys, NEW m \in Names, effects'[j][m] # 0
      PROVE  effects'[j][m] = 1 /\ writes'[j][m].status # "none"
  BY <1>1, <1>3, <1>4 DEF WriteInv
<1>5. ASSUME NEW d \in Calls, call'[d].pc = "invoke"
      PROVE  Poised(d)'
  <2>1. CASE d = c
    <3>1. call'[d].key = k /\ call'[d].name = n
      BY <1>0, <1>2, <2>1 DEF CallsTyped, Local
    <3>2. effects[k][n] = 0
      BY <1>0, <1>1 DEF WriteInv
    <3>3. /\ writes'[k][n].status = "claimed" /\ writes'[k][n].by = d
          /\ \A m \in Names \ {n} : writes'[k][m].status \in {"none", "completed"}
      BY <1>0, <1>1, <1>3, <2>1
    <3> QED BY <1>1, <3>1, <3>2, <3>3 DEF Poised
  <2>2. CASE d # c
    <3> DEFINE j == call[d].key
               m == call[d].name
    <3>1. call'[d] = call[d]
      BY <1>2, <2>2 DEF CallsTyped
    <3>2. Poised(d) /\ j \in Keys /\ m \in Names
      BY <1>5, <3>1, CallFacts DEF WriteInv, Driving, Local
    <3>3. writes[j][m].status = "claimed"
      BY <3>2 DEF Poised
    <3>4. j # k
      BY <1>1, <3>2, <3>3
    <3>5. \A x \in Names : writes'[j][x] = writes[j][x]
      BY <1>3, <3>2, <3>4
    <3> QED BY <1>1, <3>1, <3>2, <3>5 DEF Poised
  <2> QED BY <2>1, <2>2
<1> QED BY <1>4, <1>5 DEF WriteInv

LEMMA WriteInvoke ==
    ASSUME RecordsTyped, CallsTyped, WriteInv, NEW c \in Calls, Invoke(c)
    PROVE  WriteInv'
<1> DEFINE k == call[c].key
           n == call[c].name
<1>0. k \in Keys /\ n \in Names /\ call[c] \in Local /\ Poised(c)
  BY CallFacts DEF Invoke, At, Driving, Local, WriteInv
<1>1. effects' = [effects EXCEPT ![k][n] = @ + 1] /\ UNCHANGED writes
  BY DEF Invoke
<1>2. PICK x : call' = [call EXCEPT ![c].pc = "complete", ![c].number = x, ![c].at = clock']
  BY DEF Invoke
<1>3. call'[c].pc = "complete" /\ \A d \in Calls \ {c} : call'[d] = call[d]
  BY <1>0, <1>2 DEF CallsTyped, Local
<1>4. /\ effects'[k][n] = 1
      /\ \A j \in Keys, m \in Names : <<j, m>> # <<k, n>> => effects'[j][m] = effects[j][m]
  <2>1. effects[k][n] = 0
    BY <1>0 DEF Poised
  <2> QED BY <1>0, <1>1, <2>1 DEF RecordsTyped
<1>5. writes[k][n].status = "claimed" /\ writes[k][n].by = c
  BY <1>0 DEF Poised
<1>6. ASSUME NEW j \in Keys, NEW m \in Names, effects'[j][m] # 0
      PROVE  effects'[j][m] = 1 /\ writes'[j][m].status # "none"
  BY <1>1, <1>4, <1>5, <1>6 DEF WriteInv
<1>7. ASSUME NEW d \in Calls, call'[d].pc = "invoke"
      PROVE  Poised(d)'
  <2>1. d # c /\ call'[d] = call[d]
    BY <1>3, <1>7
  <2>2. Poised(d) /\ call[d].key \in Keys /\ call[d].name \in Names
    BY <1>7, <2>1, CallFacts DEF WriteInv, Driving, Local
  <2>3. <<call[d].key, call[d].name>> # <<k, n>>
    BY <1>5, <2>1, <2>2 DEF Poised
  <2>4. effects'[call[d].key][call[d].name] = effects[call[d].key][call[d].name]
    BY <1>4, <2>2, <2>3
  <2> QED BY <1>1, <2>1, <2>2, <2>4 DEF Poised
<1> QED BY <1>6, <1>7 DEF WriteInv

\* A receipt, or the marker of an interrupted claim, changes only claims of the
\* call itself, and makes none of them unclaimed.
LEMMA WriteSettled ==
    ASSUME CallsTyped, WriteInv, NEW c \in Calls, UNCHANGED effects,
           call'[c].pc # "invoke", \A d \in Calls \ {c} : call'[d] = call[d],
           \A j \in Keys, m \in Names :
               \/ writes'[j][m] = writes[j][m]
               \/ /\ writes[j][m].by = c /\ writes[j][m].status = "claimed"
                  /\ writes'[j][m].status # "none"
    PROVE  WriteInv'
<1>1. ASSUME NEW j \in Keys, NEW m \in Names, effects'[j][m] # 0
      PROVE  effects'[j][m] = 1 /\ writes'[j][m].status # "none"
  BY <1>1 DEF WriteInv
<1>2. ASSUME NEW d \in Calls, call'[d].pc = "invoke"
      PROVE  Poised(d)'
  <2>1. d # c /\ call'[d] = call[d]
    BY <1>2
  <2>2. Poised(d) /\ call[d].key \in Keys /\ call[d].name \in Names
    BY <1>2, <2>1, CallFacts DEF WriteInv, Driving, Local
  <2> DEFINE k == call[d].key
             n == call[d].name
  <2>3. writes'[k][n] = writes[k][n]
    BY <2>1, <2>2 DEF Poised
  <2>4. \A m \in Names \ {n} : writes'[k][m] = writes[k][m]
    BY <2>1, <2>2 DEF Poised
  <2> QED BY <2>1, <2>2, <2>3, <2>4 DEF Poised
<1> QED BY <1>1, <1>2 DEF WriteInv

LEMMA WriteReceipt ==
    ASSUME RecordsTyped, CallsTyped, WriteInv, NEW c \in Calls, Complete(c) \/ Abort(c)
    PROVE  WriteInv'
<1>1. CASE Complete(c)
  <2> DEFINE k == call[c].key
             n == call[c].name
             mine == cases[k].owner = c /\ writes[k][n].by = c /\ writes[k][n].status = "claimed"
             l == [call[c] EXCEPT !.pc = IF mine THEN AfterWrite(n) ELSE "abort",
                                  !.name = IF n[1] = "update" THEN Delivery(call[c].gen) ELSE n,
                                  !.at = 0, !.sent = n = ClosedDelivery]
  <2>0. k \in Keys /\ n \in Names /\ call[c] \in Local
    BY <1>1, CallFacts DEF Complete, At, Driving, Local
  <2>1. call' = [call EXCEPT ![c] = l] /\ UNCHANGED effects
    BY <1>1 DEF Complete, CallsTyped, history
  <2>2. l.pc # "invoke"
    <3>1. AfterWrite(n) # "invoke"
      BY <2>0, NameFacts DEF AfterWrite
    <3>2. l.pc = IF mine THEN AfterWrite(n) ELSE "abort"
      BY <2>0 DEF Local
    <3> HIDE DEF l, mine
    <3> QED BY <3>1, <3>2
  <2>3. call'[c].pc # "invoke" /\ \A d \in Calls \ {c} : call'[d] = call[d]
    <3> HIDE DEF l
    <3> QED BY <2>1, <2>2 DEF CallsTyped
  <2>4. CASE mine
    <3>1. writes' = [writes EXCEPT ![k][n].status = "completed", ![k][n].at = call[c].at]
      BY <1>1, <2>4 DEF Complete
    <3>2. writes'[k][n].status = "completed"
      <4> DEFINE w == writes[k][n]
                 Write == [status : {"none", "claimed", "completed", "unknown"}, by : Calls \cup {None}, at : Nat]
      <4>1. w \in Write /\ writes \in [Keys -> [Names -> Write]]
        BY <2>0 DEF RecordsTyped
      <4>2. writes'[k][n] = [w EXCEPT !.status = "completed", !.at = call[c].at]
        <5> HIDE DEF Write
        <5> QED BY <2>0, <3>1, <4>1
      <4>3. [w EXCEPT !.status = "completed", !.at = call[c].at].status = "completed"
        <5> HIDE DEF w
        <5> QED BY <4>1
      <4> QED BY <4>2, <4>3
    <3>3. \A j \in Keys, m \in Names : <<j, m>> # <<k, n>> => writes'[j][m] = writes[j][m]
      BY <2>0, <3>1 DEF RecordsTyped
    <3> QED BY <2>0, <2>1, <2>3, <2>4, <3>2, <3>3, WriteSettled
  <2>5. CASE ~mine
    <3>1. writes' = writes
      BY <1>1, <2>5 DEF Complete
    <3> QED BY <2>1, <2>3, <3>1, WriteSettled
  <2> QED BY <2>4, <2>5
<1>2. CASE Abort(c)
  <2>1. call[c] \in Local /\ UNCHANGED effects /\ Goto(c, "lost")
    BY <1>2, CallFacts DEF Abort, history
  <2>2. Locals(call[c], "lost").pc = "lost"
    BY <2>1, LocalsFacts DEF Pcs
  <2>3. call'[c].pc # "invoke" /\ \A d \in Calls \ {c} : call'[d] = call[d]
    BY <2>1, <2>2 DEF Goto, CallsTyped
  <2>4. CASE writes' = writes
    BY <2>1, <2>3, <2>4, WriteSettled
  <2>5. CASE writes' # writes
    <3> DEFINE k == call[c].key
    <3>1. k # None /\ writes' = [writes EXCEPT ![k] = [n \in Names |->
                          IF writes[k][n].status = "claimed" /\ writes[k][n].by = c
                          THEN [writes[k][n] EXCEPT !.status = "unknown"] ELSE writes[k][n]]]
      BY <1>2, <2>5 DEF Abort
    <3>2. k \in Keys
      BY <2>1, <3>1 DEF Local
    <3>3. ASSUME NEW j \in Keys, NEW m \in Names
          PROVE  \/ writes'[j][m] = writes[j][m]
                 \/ /\ writes[j][m].by = c /\ writes[j][m].status = "claimed"
                    /\ writes'[j][m].status # "none"
      <4>1. CASE j # k
        BY <3>1, <4>1 DEF RecordsTyped
      <4>2. CASE j = k
        <5>1. writes'[j][m] = IF writes[k][m].status = "claimed" /\ writes[k][m].by = c
                              THEN [writes[k][m] EXCEPT !.status = "unknown"] ELSE writes[k][m]
          BY <3>1, <3>2, <4>2 DEF RecordsTyped
        <5> QED BY <3>2, <4>2, <5>1 DEF RecordsTyped
      <4> QED BY <4>1, <4>2
    <3> QED BY <2>1, <2>3, <3>3, WriteSettled
  <2> QED BY <2>4, <2>5
<1> QED BY <1>1, <1>2

LEMMA WriteStep == TypeInv /\ WriteInv /\ [Next]_vars => WriteInv'
<1> SUFFICES ASSUME RecordsTyped, CallsTyped, WriteInv, [Next]_vars
             PROVE  WriteInv'
  BY TypeParts
<1>1. CASE UNCHANGED vars
  BY <1>1 DEF vars, WriteInv, Poised
<1>2. ASSUME NEW c \in Calls,
             Receive(c) \/ ReceiveReply(c) \/ Interpret(c) \/ Accept(c) \/ Drive(c) \/ Interrupt(c) \/ Die(c)
      PROVE  WriteInv'
  <2>1. CASE Claim(c) \/ Invoke(c) \/ Complete(c) \/ Abort(c)
    BY <2>1, WriteClaim, WriteInvoke, WriteReceipt
  <2>2. CASE ~(Claim(c) \/ Invoke(c) \/ Complete(c) \/ Abort(c))
    <3>1. Quiet(c)
      BY <1>2, <2>2, QuietSteps DEF Drive
    <3> QED BY <3>1, WriteQuiet
  <2> QED BY <2>1, <2>2
<1> QED BY <1>1, <1>2 DEF Next

\* "Claims are never [...] retried": however calls interleave, fail, die or are
\* repeated, _write attempts no external write of a case a second time.
THEOREM WritesAttemptedOnce == Spec => []EffectsOnce
<1>1. TypeInv /\ WriteInv => EffectsOnce
  <2> SUFFICES ASSUME RecordsTyped, WriteInv, NEW k \in Keys, NEW n \in Names
               PROVE  effects[k][n] <= 1
    BY TypeParts DEF EffectsOnce
  <2>1. effects[k][n] \in Nat
    BY DEF RecordsTyped
  <2> QED BY <2>1 DEF WriteInv
<1> QED BY <1>1, TypeInit, TypeStep, WriteInit, WriteStep, PTL DEF Spec

\* Every attempt of _write finds the receipts of all earlier ones stored: no
\* external write is ever built on one whose outcome is not known.
THEOREM WritesAttemptedInOrder == Spec => EffectsInOrder
<1> DEFINE Ordered == \A k \in Keys, n \in Names : effects'[k][n] # effects[k][n] =>
                         \A m \in Names \ {n} : effects[k][m] > 0 => writes[k][m].status = "completed"
<1>1. TypeInv /\ WriteInv /\ [Next]_vars => [Ordered]_vars
  <2> SUFFICES ASSUME RecordsTyped, CallsTyped, WriteInv, Next,
                      NEW k \in Keys, NEW n \in Names, effects'[k][n] # effects[k][n]
               PROVE  \A m \in Names \ {n} : effects[k][m] > 0 => writes[k][m].status = "completed"
    BY TypeParts
  <2>1. PICK c \in Calls : Receive(c) \/ ReceiveReply(c) \/ Interpret(c) \/ Accept(c) \/ Drive(c)
                              \/ Interrupt(c) \/ Die(c)
    BY DEF Next
  <2>2. Invoke(c)
    <3>1. CASE Claim(c) \/ Complete(c) \/ Abort(c)
      BY <3>1 DEF Claim, Complete, Abort, history
    <3>2. CASE Quiet(c)
      BY <3>2 DEF Quiet
    <3> QED BY <2>1, <3>1, <3>2, QuietSteps DEF Drive
  <2>3. Poised(c) /\ effects' = [effects EXCEPT ![call[c].key][call[c].name] = @ + 1]
    BY <2>2 DEF Invoke, At, WriteInv
  <2>4. call[c].key \in Keys /\ call[c].name \in Names
    BY <2>2, CallFacts DEF Invoke, At, Driving, Local
  <2>5. k = call[c].key /\ n = call[c].name
    BY <2>3, <2>4 DEF RecordsTyped
  <2> SUFFICES ASSUME NEW m \in Names \ {n}, effects[k][m] > 0
               PROVE  writes[k][m].status = "completed"
    OBVIOUS
  <2>6. writes[k][m].status \in {"none", "completed"}
    BY <2>3, <2>5 DEF Poised
  <2>7. writes[k][m].status # "none"
    BY DEF WriteInv
  <2> QED BY <2>6, <2>7
<1> QED BY <1>1, TypeInit, TypeStep, WriteInit, WriteStep, PTL DEF Spec, EffectsInOrder

-----------------------------------------------------------------------------
(* Only owners drive.                                                      *)

\* A running call owns its case; a case nobody admitted is nobody's.
OwnerInv ==
    /\ OwnersDrive
    /\ \A k \in Keys : cases[k].status = "absent" => cases[k].owner = None

LEMMA OwnerInit == Init => OwnerInv
BY DEF Init, OwnerInv, OwnersDrive, Idle, Driving, Absent

\* A call may take a free case, or give up its own; nobody else notices.
LEMMA OwnerTakes ==
    ASSUME RecordsTyped, CallsTyped, OwnerInv, NEW c \in Calls, NEW k \in Keys, NEW x \in Case, NEW l,
           cases' = [cases EXCEPT ![k] = x], call' = [call EXCEPT ![c] = l],
           x.status # "absent",
           cases[k].owner \in {c, None} \/ x.owner = cases[k].owner,
           l.pc \in Driving => l.key = k /\ x.owner = c
    PROVE  OwnerInv'
<1>1. cases \in [Keys -> Case] /\ None \notin Calls
  BY ServiceAssumption DEF RecordsTyped
<1>2. cases'[k] = x /\ \A j \in Keys \ {k} : cases'[j] = cases[j]
  BY <1>1
<1>3. call'[c] = l /\ \A d \in Calls \ {c} : call'[d] = call[d]
  BY DEF CallsTyped
<1>4. ASSUME NEW d \in Calls, call'[d].pc \in Driving
      PROVE  cases'[call'[d].key].owner = d
  <2>1. CASE d = c
    BY <1>2, <1>3, <1>4, <2>1
  <2>2. CASE d # c
    <3>1. call'[d] = call[d] /\ cases[call[d].key].owner = d /\ call[d].key \in Keys
      BY <1>3, <1>4, <2>2, CallFacts DEF OwnerInv, OwnersDrive
    <3>2. call[d].key = k => x.owner = d
      BY <1>1, <2>2, <3>1
    <3> QED BY <1>2, <3>1, <3>2
  <2> QED BY <2>1, <2>2
<1>5. OwnersDrive'
  BY <1>4 DEF OwnersDrive
<1>6. ASSUME NEW j \in Keys, cases'[j].status = "absent"
      PROVE  cases'[j].owner = None
  BY <1>2, <1>6 DEF OwnerInv
<1> QED BY <1>5, <1>6 DEF OwnerInv

\* A call that stops, or runs on, and leaves the cases alone.
LEMMA OwnerRuns ==
    ASSUME CallsTyped, OwnerInv, NEW c \in Calls, NEW l, call' = [call EXCEPT ![c] = l], UNCHANGED cases,
           l.pc \in Driving => call[c].pc \in Driving /\ l.key = call[c].key
    PROVE  OwnerInv'
<1>1. call'[c] = l /\ \A d \in Calls \ {c} : call'[d] = call[d]
  BY DEF CallsTyped
<1>2. ASSUME NEW d \in Calls, call'[d].pc \in Driving
      PROVE  cases'[call'[d].key].owner = d
  <2>1. CASE d = c
    BY <1>1, <1>2, <2>1 DEF OwnerInv, OwnersDrive
  <2>2. CASE d # c
    BY <1>1, <1>2, <2>2 DEF OwnerInv, OwnersDrive
  <2> QED BY <2>1, <2>2
<1>3. OwnersDrive'
  BY <1>2 DEF OwnersDrive
<1> QED BY <1>3 DEF OwnerInv

LEMMA OwnerStops ==
    ASSUME CallsTyped, OwnerInv, NEW c \in Calls, NEW p \in {"abort", "done", "lost"}, Goto(c, p), UNCHANGED cases
    PROVE  OwnerInv'
<1>1. call[c] \in Local /\ p \in Pcs /\ p \notin Driving
  BY CallFacts DEF Pcs, Driving
<1>2. Locals(call[c], p).pc = p
  BY <1>1, LocalsFacts
<1> QED BY <1>1, <1>2, OwnerRuns DEF Goto

\* The edits of a running call: it owns the case, so the edit takes place.
LEMMA OwnerEdits ==
    ASSUME RecordsTyped, CallsTyped, OwnerInv, NEW c \in Calls, call[c].pc \in Driving,
           NEW x \in Case, NEW l, Edit(c, x, l), x.status # "absent",
           l.pc \in Driving => l.key = call[c].key /\ x.owner = c
    PROVE  OwnerInv'
<1>1. cases[call[c].key].owner = c /\ call[c].key \in Keys
  BY CallFacts DEF OwnerInv, OwnersDrive
<1>2. cases' = [cases EXCEPT ![call[c].key] = x] /\ call' = [call EXCEPT ![c] = l]
  BY <1>1 DEF Edit
<1> QED BY <1>1, <1>2, OwnerTakes

LEMMA OwnerEmail ==
    ASSUME RecordsTyped, CallsTyped, OwnerInv, NEW c \in Calls, Receive(c) \/ Admit(c)
    PROVE  OwnerInv'
<1>0. call[c] \in Local /\ Knows(c, call[c])
  BY CallFacts
<1>1. CASE Receive(c)
  <2> DEFINE l == [call[c] EXCEPT !.pc = "admit", !.key = EmailKey[c], !.at = clock']
  <2>1. call' = [call EXCEPT ![c] = l] /\ UNCHANGED cases
    BY <1>1 DEF Receive, CallsTyped
  <2>2. l.pc \notin Driving
    BY <1>0 DEF Local, Driving
  <2> HIDE DEF l
  <2> QED BY <2>1, <2>2, OwnerRuns
<1>2. CASE Admit(c)
  <2> DEFINE k == EmailKey[c]
             l == [Idle EXCEPT !.pc = "claim", !.key = k, !.name = Create]
             x == [Absent EXCEPT !.status = "received", !.owner = c, !.pending = <<0>>, !.contact = call[c].at]
  <2>1. k \in Keys
    BY <1>0, <1>2, ServiceAssumption DEF Admit, At, Knows
  <2>2. CASE k \notin Admitted /\ cases' = [cases EXCEPT ![k] = x] /\ call' = [call EXCEPT ![c] = l]
    <3>1. x \in Case /\ x.status # "absent" /\ x.owner = c
      <4>1. <<0>> \in Seq(Generations) /\ call[c].at \in Nat
        BY <1>0, NameFacts DEF Local
      <4> QED BY <4>1, NameFacts DEF Absent, NoResult, Case, Statuses
    <3>2. l.key = k
      BY DEF Idle
    <3>3. cases[k].owner = None
      BY <2>1, <2>2 DEF Admitted, OwnerInv
    <3> HIDE DEF l, x
    <3> QED BY <2>1, <2>2, <3>1, <3>2, <3>3, OwnerTakes
  <2>3. CASE (Goto(c, "done") \/ Goto(c, "abort")) /\ UNCHANGED cases
    BY <2>3, OwnerStops
  <2> QED BY <1>2, <2>2, <2>3 DEF Admit
<1> QED BY <1>1, <1>2

LEMMA OwnerWrite ==
    ASSUME RecordsTyped, CallsTyped, OwnerInv, NEW c \in Calls,
           Register(c) \/ Claim(c) \/ ClaimRefused(c) \/ Invoke(c) \/ Complete(c)
    PROVE  OwnerInv'
<1> DEFINE k == call[c].key
           n == call[c].name
           r == cases[k]
<1>0. call[c].pc \in Driving /\ call[c] \in Local /\ k \in Keys /\ n \in Names /\ r \in Case /\ r.owner = c
  <2>1. call[c].pc \in Driving
    BY DEF Register, Claim, ClaimRefused, Invoke, Complete, At, Driving
  <2> QED BY <2>1, CallFacts DEF Local, RecordsTyped, OwnerInv, OwnersDrive
<1>1. CASE Register(c)
  <2> DEFINE collision == Collides(k, call[c].number)
             status == IF collision THEN "write_outcome_unknown" ELSE "investigating"
             p == IF collision THEN "abort" ELSE "take"
             x == [r EXCEPT !.number = call[c].number, !.status = status, !.suspended = collision]
  <2>1. Edit(c, x, On(c, p))
    BY <1>1 DEF Register
  <2>2. call[c].number \in Numbers \cup {None} /\ collision \in BOOLEAN
    BY <1>0 DEF Local, Collides
  <2>3. status \in Statuses \ {"absent"}
    BY DEF Statuses
  <2>4. x \in Case /\ x.status = status /\ x.owner = c
    <3> HIDE DEF collision, status
    <3> QED BY <1>0, <2>2, <2>3 DEF Case
  <2>5. p \in Pcs /\ p \in {"abort", "take"}
    BY DEF Pcs
  <2>6. On(c, p).pc = p /\ On(c, p).key = k
    <3> HIDE DEF p
    <3> QED BY <1>0, <2>5, LocalsFacts DEF On
  <2> HIDE DEF x, p, status
  <2> QED BY <1>0, <2>1, <2>3, <2>4, <2>6, OwnerEdits
<1>2. CASE Claim(c)
  <2> DEFINE x == [r EXCEPT !.status = PendingStatus(n)]
  <2>1. cases' = [cases EXCEPT ![k] = x]
    BY <1>2 DEF Claim, RecordsTyped
  <2>2. PendingStatus(n) \in Statuses \ {"absent"}
    BY <1>0, NameFacts
  <2>3. x \in Case /\ x.status # "absent" /\ x.owner = c
    BY <1>0, <2>2 DEF Case
  <2>4. /\ call' = [call EXCEPT ![c] = Locals(call[c], "invoke")]
        /\ Locals(call[c], "invoke").key = k
    BY <1>0, <1>2, LocalsFacts DEF Claim, Goto, Pcs
  <2> HIDE DEF x
  <2> QED BY <1>0, <2>1, <2>3, <2>4, OwnerTakes
<1>3. CASE ClaimRefused(c)
  <2>1. PICK p \in {"abort", "notified", "take"} : Goto(c, p)
    BY <1>3 DEF ClaimRefused
  <2>2. p \in Pcs /\ UNCHANGED cases
    BY <1>3 DEF Pcs, ClaimRefused
  <2>3. Locals(call[c], p).pc = p /\ Locals(call[c], p).key = k
    BY <1>0, <2>2, LocalsFacts
  <2> QED BY <1>0, <2>1, <2>2, <2>3, OwnerRuns DEF Goto
<1>4. CASE Invoke(c)
  <2>1. PICK y : call' = [call EXCEPT ![c].pc = "complete", ![c].number = y, ![c].at = clock']
    BY <1>4 DEF Invoke
  <2> DEFINE l == [call[c] EXCEPT !.pc = "complete", !.number = y, !.at = clock']
  <2>2. call' = [call EXCEPT ![c] = l] /\ UNCHANGED cases
    BY <1>4, <2>1 DEF CallsTyped, Invoke
  <2>3. l.key = k
    BY <1>0 DEF Local
  <2> HIDE DEF l
  <2> QED BY <1>0, <2>2, <2>3, OwnerRuns
<1>5. CASE Complete(c)
  <2> DEFINE mine == r.owner = c /\ writes[k][n].by = c /\ writes[k][n].status = "claimed"
             l == [call[c] EXCEPT !.pc = IF mine THEN AfterWrite(n) ELSE "abort",
                                  !.name = IF n[1] = "update" THEN Delivery(call[c].gen) ELSE n,
                                  !.at = 0, !.sent = n = ClosedDelivery]
  <2>1. call' = [call EXCEPT ![c] = l] /\ UNCHANGED cases
    BY <1>5 DEF Complete, CallsTyped
  <2>2. l.key = k
    BY <1>0 DEF Local
  <2> HIDE DEF l
  <2> QED BY <1>0, <2>1, <2>2, OwnerRuns
<1> QED BY <1>1, <1>2, <1>3, <1>4, <1>5

LEMMA OwnerDrive ==
    ASSUME RecordsTyped, CallsTyped, OwnerInv, NEW c \in Calls,
           \/ Take(c) \/ Investigate(c) \/ Record(c) \/ Block(c) \/ ChatReady(c) \/ Delivered(c)
           \/ Verify(c) \/ Readback(c) \/ Closed(c) \/ Notified(c)
    PROVE  OwnerInv'
<1> DEFINE k == call[c].key
           r == cases[k]
<1>0. call[c].pc \in Driving /\ call[c] \in Local /\ k \in Keys /\ r \in Case /\ r.owner = c /\ r.status # "absent"
  <2>1. call[c].pc \in Driving
    BY DEF Take, Investigate, Record, Block, ChatReady, Delivered, Verify, Readback, Closed, Notified, At, Driving
  <2>2. call[c] \in Local /\ k \in Keys /\ r \in Case /\ r.owner = c
    BY <2>1, CallFacts DEF RecordsTyped, OwnerInv, OwnersDrive
  <2>3. r.status # "absent"
    BY <2>2, ServiceAssumption DEF OwnerInv
  <2> QED BY <2>1, <2>2, <2>3
<1>a. ASSUME NEW p \in {"take", "readback", "closed", "investigate", "block"}
      PROVE  On(c, p) \in Local /\ On(c, p).key = k
  BY <1>0, LocalsFacts DEF On, Pcs
<1>b. ASSUME NEW n
      PROVE  OnWrite(c, n).key = k
  BY <1>0 DEF OnWrite, Local
<1>c. ASSUME NEW p \in {"abort", "done"}
      PROVE  On(c, p).pc = p /\ p \notin Driving
  BY <1>0, LocalsFacts DEF On, Pcs, Driving
<1>1. CASE Take(c)
  <2> DEFINE g == Head(r.pending)
             p == IF g = r.generation THEN "investigate" ELSE "take"
             l == [On(c, p) EXCEPT !.gen = g, !.whole = r.complete, !.context = heard[k]]
             x == [r EXCEPT !.pending = Tail(@), !.status = "investigating", !.resolution = NoGen]
  <2>1. CASE r.suspended \/ r.closed \/ r.pending = <<>>
    <3>1. Edit(c, Released(r), On(c, "done"))
      BY <1>1, <2>1 DEF Take
    <3>2. Released(r) \in Case /\ Released(r).status # "absent"
      BY <1>0 DEF Released, Case
    <3> QED BY <1>0, <1>c, <3>1, <3>2, OwnerEdits
  <2>2. CASE ~(r.suspended \/ r.closed \/ r.pending = <<>>)
    <3>1. Edit(c, x, l)
      BY <1>1, <2>2 DEF Take
    <3>2. r.pending \in Seq(Generations) /\ r.pending # <<>>
      BY <1>0, <2>2 DEF Case
    <3>3. Tail(r.pending) \in Seq(Generations)
      BY <3>2
    <3>4. x \in Case /\ x.status # "absent" /\ x.owner = c
      BY <1>0, <3>3 DEF Case, Statuses
    <3>5. l.key = k
      <4>1. p \in {"take", "investigate"}
        OBVIOUS
      <4>2. On(c, p) \in Local /\ On(c, p).key = k
        <5> HIDE DEF p
        <5> QED BY <4>1, <1>a
      <4> HIDE DEF p, g
      <4> QED BY <4>2 DEF Local
    <3> HIDE DEF x, l
    <3> QED BY <1>0, <3>1, <3>4, <3>5, OwnerEdits
  <2> QED BY <2>1, <2>2
<1>2. CASE Investigate(c)
  <2>1. UNCHANGED cases
    BY <1>2 DEF Investigate
  <2>2. CASE Goto(c, "block")
    <3>1. call' = [call EXCEPT ![c] = On(c, "block")]
      BY <2>2 DEF Goto, On
    <3> QED BY <1>0, <1>a, <2>1, <3>1, OwnerRuns
  <2>3. ASSUME NEW v, call' = [call EXCEPT ![c].pc = "record", ![c].verdict = v]
        PROVE  OwnerInv'
    <3> DEFINE l == [call[c] EXCEPT !.pc = "record", !.verdict = v]
    <3>1. call' = [call EXCEPT ![c] = l]
      BY <2>3 DEF CallsTyped
    <3>2. l.key = k
      BY <1>0 DEF Local
    <3> HIDE DEF l
    <3> QED BY <1>0, <2>1, <3>1, <3>2, OwnerRuns
  <2> QED BY <1>2, <2>2, <2>3 DEF Investigate
<1>3. CASE Record(c)
  <2> DEFINE i == [gen |-> call[c].gen, verdict |-> call[c].verdict]
             x == [r EXCEPT !.investigation = i]
  <2>1. Edit(c, r, On(c, "take")) \/ \E n : Edit(c, x, OnWrite(c, n))
    BY <1>3 DEF Record
  <2>2. i \in [gen : Generations \cup {NoGen}, verdict : {"none", "ready", "questions", "blockers"}]
    BY <1>0 DEF Local
  <2>3. x \in Case /\ x.status # "absent" /\ x.owner = c
    <3> HIDE DEF i
    <3> QED BY <1>0, <2>2 DEF Case
  <2> HIDE DEF x
  <2> QED BY <1>0, <1>a, <1>b, <2>1, <2>3, OwnerEdits
<1>4. CASE Block(c)
  <2> DEFINE x == [r EXCEPT !.status = "needs_specialist_review", !.owner = None, !.resolution = NoGen]
  <2>1. Edit(c, x, On(c, "abort"))
    BY <1>4 DEF Block
  <2>2. x \in Case /\ x.status # "absent"
    BY <1>0 DEF Case, Statuses
  <2> HIDE DEF x
  <2> QED BY <1>0, <1>c, <2>1, <2>2, OwnerEdits
<1>5. CASE ChatReady(c)
  <2>1. Edit(c, [r EXCEPT !.chat = TRUE], OnWrite(c, Update(call[c].gen)))
    BY <1>5 DEF ChatReady
  <2>2. /\ [r EXCEPT !.chat = TRUE] \in Case
        /\ [r EXCEPT !.chat = TRUE].status # "absent" /\ [r EXCEPT !.chat = TRUE].owner = c
    BY <1>0 DEF Case
  <2> QED BY <1>0, <1>b, <2>1, <2>2, OwnerEdits
<1>6. CASE Delivered(c)
  <2> DEFINE g == call[c].gen
             current == r.generation = g /\ ~r.suspended
             ready == call[c].verdict = "ready"
             status == CASE ~current -> r.status
                         [] current /\ ready -> "awaiting_confirmation"
                         [] current /\ call[c].verdict = "questions" -> "waiting_for_requester"
                         [] current /\ call[c].verdict = "blockers" -> "needs_specialist_review"
             at == writes[k][Delivery(g)].at
             resolution == IF current /\ ready THEN g ELSE NoGen
             x == [r EXCEPT !.contact = at, !.resolution = resolution, !.status = status]
  <2>1. Edit(c, x, On(c, "take")) /\ Investigated(call[c]) /\ g \in Generations
    BY <1>0, <1>6, CallFacts DEF Delivered, At, Knows, Investigated
  <2>2. at \in Nat
    BY <1>0, <2>1, NameFacts DEF RecordsTyped
  <2>3. status \in Statuses \ {"absent"}
    <3>1. r.status \in Statuses \ {"absent"}
      BY <1>0 DEF Case
    <3>2. call[c].verdict \in {"ready", "questions", "blockers"}
      BY <1>0, <2>1 DEF Local, Investigated
    <3> QED BY <3>1, <3>2 DEF Statuses
  <2>4. resolution \in Generations \cup {NoGen}
    BY <2>1
  <2>5. x \in Case /\ x.status # "absent" /\ x.owner = c
    <3> HIDE DEF at, status, resolution
    <3> QED BY <1>0, <2>2, <2>3, <2>4 DEF Case
  <2> HIDE DEF x
  <2> QED BY <1>0, <1>a, <2>1, <2>5, OwnerEdits
<1>7. CASE Verify(c)
  <2> DEFINE x == [r EXCEPT !.status = "verifying_close"]
  <2>1. Edit(c, x, On(c, "readback"))
    BY <1>7 DEF Verify
  <2>2. x \in Case /\ x.status # "absent" /\ x.owner = c
    BY <1>0 DEF Case, Statuses
  <2> HIDE DEF x
  <2> QED BY <1>0, <1>a, <2>1, <2>2, OwnerEdits
<1>8. CASE Readback(c)
  <2>1. PICK s \in {"Closed", "other"}, p \in {"closed", "abort"} : Edit(c, [r EXCEPT !.readback = s], On(c, p))
    BY <1>8 DEF Readback
  <2> DEFINE x == [r EXCEPT !.readback = s]
  <2>2. x \in Case /\ x.status # "absent" /\ x.owner = c
    BY <1>0 DEF Case
  <2>3. On(c, p).pc \in Driving => On(c, p).key = k
    BY <1>a, <1>c
  <2> HIDE DEF x
  <2> QED BY <1>0, <2>1, <2>2, <2>3, OwnerEdits DEF x
<1>9. CASE Closed(c)
  <2> DEFINE overtaken == Overtaken(c, r)
             status == IF overtaken THEN "needs_specialist_review" ELSE "closed"
             owner == IF overtaken THEN None ELSE c
             x == [r EXCEPT !.closed = TRUE, !.resolution = NoGen, !.suspended = overtaken,
                            !.status = status, !.owner = owner]
  <2>1. Edit(c, x, IF overtaken THEN On(c, "done") ELSE OnWrite(c, ClosedDelivery))
    BY <1>0, <1>9 DEF Closed
  <2>2. overtaken \in BOOLEAN
    BY <1>0 DEF Overtaken, Case
  <2>3. x \in Case /\ x.status # "absent" /\ x.owner = owner
    <3>1. status \in Statuses \ {"absent"} /\ owner \in Calls \cup {None}
      BY DEF Statuses
    <3> HIDE DEF overtaken, status, owner
    <3> QED BY <1>0, <2>2, <3>1 DEF Case
  <2>4. CASE overtaken
    <3>1. Edit(c, x, On(c, "done"))
      BY <2>1, <2>4
    <3> HIDE DEF x
    <3> QED BY <1>0, <1>c, <2>3, <3>1, OwnerEdits
  <2>5. CASE ~overtaken
    <3>1. Edit(c, x, OnWrite(c, ClosedDelivery)) /\ x.owner = c
      BY <2>1, <2>3, <2>5
    <3> HIDE DEF x
    <3> QED BY <1>0, <1>b, <2>3, <3>1, OwnerEdits
  <2> QED BY <2>4, <2>5
<1>10. CASE Notified(c)
  <2> DEFINE good == r.generation = call[c].gen /\ ~r.suspended /\ call[c].sent
             status == IF good THEN "closed" ELSE "needs_specialist_review"
             x == [r EXCEPT !.owner = None, !.suspended = ~good, !.status = status]
  <2>1. Edit(c, x, On(c, "done"))
    BY <1>10 DEF Notified
  <2>2. x \in Case /\ x.status # "absent"
    <3>1. good \in BOOLEAN /\ status \in Statuses \ {"absent"}
      BY DEF Statuses
    <3> HIDE DEF good, status
    <3> QED BY <1>0, <3>1 DEF Case
  <2> HIDE DEF x
  <2> QED BY <1>0, <1>c, <2>1, <2>2, OwnerEdits
<1> QED BY <1>1, <1>2, <1>3, <1>4, <1>5, <1>6, <1>7, <1>8, <1>9, <1>10

LEMMA OwnerReply ==
    ASSUME RecordsTyped, CallsTyped, OwnerInv, NEW c \in Calls, ReceiveReply(c) \/ Interpret(c) \/ Accept(c)
    PROVE  OwnerInv'
<1>0. call[c] \in Local
  BY CallFacts
<1>1. CASE ReceiveReply(c)
  <2>1. PICK f, n : call' = [call EXCEPT ![c].pc = "interpret", ![c].at = clock, ![c].form = f, ![c].number = n]
    BY <1>1 DEF ReceiveReply
  <2> DEFINE l == [call[c] EXCEPT !.pc = "interpret", !.at = clock, !.form = f, !.number = n]
  <2>2. call' = [call EXCEPT ![c] = l] /\ UNCHANGED cases
    BY <1>1, <2>1 DEF CallsTyped, ReceiveReply
  <2>3. l.pc \notin Driving
    BY <1>0 DEF Local, Driving
  <2> HIDE DEF l
  <2> QED BY <2>2, <2>3, OwnerRuns
<1>2. CASE Interpret(c)
  <2>1. PICK i, j : call' = [call EXCEPT ![c].pc = "accept", ![c].intent = i, ![c].intentKey = j]
    BY <1>2 DEF Interpret
  <2> DEFINE l == [call[c] EXCEPT !.pc = "accept", !.intent = i, !.intentKey = j]
  <2>2. call' = [call EXCEPT ![c] = l] /\ UNCHANGED cases
    BY <1>2, <2>1 DEF CallsTyped, Interpret
  <2>3. l.pc \notin Driving
    BY <1>0 DEF Local, Driving
  <2> HIDE DEF l
  <2> QED BY <2>2, <2>3, OwnerRuns
<1>3. CASE AcceptNothing(c)
  BY <1>3, OwnerStops DEF AcceptNothing
<1>4. ASSUME NEW k \in Keys,
             AcceptFull(c, k) \/ AcceptRejected(c, k) \/ AcceptClose(c, k) \/ AcceptChat(c, k)
                \/ AcceptMaterial(c, k)
      PROVE  OwnerInv'
  <2> DEFINE r == cases[k]
             as == r.activities \cup {Activity[c]}
  <2>1. At(c, "accept") /\ k = Target(call[c].form, call[c].number)
    BY <1>4 DEF AcceptFull, AcceptRejected, AcceptClose, AcceptChat, AcceptMaterial, Room, Accepting
  <2>2. c \in ReplyCalls /\ r \in Case /\ r.status # "absent" /\ cases \in [Keys -> Case]
    <3>1. call[c].form \in {"plain", "malformed", "marker", "resolve"}
      BY <1>0 DEF Local
    <3>2. k \in Admitted
      BY <2>1, <3>1, TargetFacts, ServiceAssumption
    <3> QED BY <2>1, <3>2, CallFacts DEF At, Knows, Admitted, RecordsTyped
  <2>3. as \in SUBSET Activities
    BY <2>2 DEF Case, Activities
  <2>4. ASSUME Goto(c, "done"), NEW x \in Case, x.status # "absent", x.owner = r.owner,
               cases' = [cases EXCEPT ![k] = x]
        PROVE  OwnerInv'
    <3>1. Locals(call[c], "done").pc \notin Driving
      BY <1>0, LocalsFacts DEF Pcs, Driving
    <3> QED BY <2>4, <3>1, OwnerTakes DEF Goto
  <2>5. CASE AcceptFull(c, k)
    <3> DEFINE x == [r EXCEPT !.suspended = TRUE, !.resolution = NoGen, !.status = Specialist(r.status)]
    <3>1. cases' = [cases EXCEPT ![k] = x] /\ Goto(c, "done")
      BY <2>2, <2>5 DEF AcceptFull
    <3>2. Specialist(r.status) \in Statuses \ {"absent"}
      BY <2>2 DEF Specialist, Case, Statuses
    <3>3. x \in Case /\ x.status # "absent" /\ x.owner = r.owner
      BY <2>2, <3>2 DEF Case
    <3> HIDE DEF x
    <3> QED BY <2>4, <3>1, <3>3
  <2>6. CASE AcceptRejected(c, k) \/ AcceptChat(c, k)
    <3> DEFINE x == [r EXCEPT !.activities = as]
    <3>1. cases' = [cases EXCEPT ![k] = x] /\ Goto(c, "done")
      BY <2>2, <2>6 DEF AcceptRejected, AcceptChat
    <3>2. x \in Case /\ x.status # "absent" /\ x.owner = r.owner
      BY <2>2, <2>3 DEF Case
    <3> HIDE DEF x
    <3> QED BY <2>4, <3>1, <3>2
  <2>7. CASE AcceptClose(c, k)
    <3> DEFINE x == [r EXCEPT !.activities = as, !.owner = c, !.status = "closing"]
               l == [Idle EXCEPT !.pc = "claim", !.key = k, !.name = Close, !.gen = r.generation]
    <3>1. cases' = [cases EXCEPT ![k] = x] /\ call' = [call EXCEPT ![c] = l] /\ r.owner = None
      BY <2>2, <2>7 DEF AcceptClose, CanResolve
    <3>2. x \in Case /\ x.status # "absent" /\ x.owner = c
      BY <2>2, <2>3 DEF Case, Statuses
    <3>3. l.key = k
      BY DEF Idle
    <3> HIDE DEF x, l
    <3> QED BY <3>1, <3>2, <3>3, OwnerTakes
  <2>8. CASE AcceptMaterial(c, k)
    <3> DEFINE stopped == Full(r) \/ r.suspended \/ r.closed
               mine == ~stopped /\ Free(r)
               p == IF mine THEN "take" ELSE "done"
               i == [Idle EXCEPT !.key = k]
    <3>1. cases' = [cases EXCEPT ![k] = cases'[k]] /\ call' = [call EXCEPT ![c] = Locals(i, p)]
      BY <2>2, <2>8 DEF AcceptMaterial
    <3>2. cases'[k] \in Case
      BY <1>4, TypesAccept DEF RecordsTyped
    <3>3. cases'[k].owner = IF mine THEN c ELSE r.owner
      BY <2>2, <2>8 DEF AcceptMaterial, Case
    <3>4. cases'[k].status # "absent"
      BY <2>2, <2>8 DEF AcceptMaterial, Case, Specialist
    <3>5. i \in Local /\ i.key = k /\ p \in Pcs /\ p \in {"take", "done"}
      BY NameFacts DEF Idle, Local, Pcs
    <3>6. Locals(i, p).pc = p /\ (p = "take" => Locals(i, p).key = k)
      <4> HIDE DEF i, p
      <4> QED BY <3>5, LocalsFacts
    <3>7. CASE mine
      <4>1. r.owner = None /\ cases'[k].owner = c /\ p = "take"
        BY <3>3, <3>7 DEF Free
      <4> HIDE DEF i, p
      <4> QED BY <3>1, <3>2, <3>4, <3>6, <4>1, OwnerTakes
    <3>8. CASE ~mine
      <4>1. cases'[k].owner = r.owner /\ p \notin Driving
        BY <3>3, <3>8 DEF Driving
      <4> HIDE DEF i, p
      <4> QED BY <3>1, <3>2, <3>4, <3>6, <4>1, OwnerTakes
    <3> QED BY <3>7, <3>8
  <2> QED BY <1>4, <2>5, <2>6, <2>7, <2>8
<1> QED BY <1>1, <1>2, <1>3, <1>4 DEF Accept

LEMMA OwnerInterrupt ==
    ASSUME RecordsTyped, CallsTyped, OwnerInv, NEW c \in Calls, Interrupt(c) \/ Abort(c) \/ Die(c)
    PROVE  OwnerInv'
<1>1. CASE UNCHANGED cases
  BY <1>1, OwnerStops DEF Interrupt, Abort, Die
<1>2. CASE Abort(c) /\ ~UNCHANGED cases
  <2> DEFINE k == call[c].key
             x == [cases[k] EXCEPT !.status = "write_outcome_unknown", !.suspended = TRUE, !.resolution = NoGen]
  <2>1. k # None /\ Goto(c, "lost") /\ call[c] \in Local
    BY <1>2, CallFacts DEF Abort
  <2>2. k \in Keys /\ cases[k] \in Case
    BY <2>1 DEF Local, RecordsTyped
  <2>3. cases' = [cases EXCEPT ![k] = x]
    BY <1>2, <2>2 DEF Abort, RecordsTyped
  <2>4. x \in Case /\ x.status # "absent" /\ x.owner = cases[k].owner
    BY <2>2 DEF Case, Statuses
  <2>5. Locals(call[c], "lost").pc \notin Driving
    BY <2>1, LocalsFacts DEF Pcs, Driving
  <2> HIDE DEF x
  <2> QED BY <2>1, <2>2, <2>3, <2>4, <2>5, OwnerTakes DEF Goto
<1> QED BY <1>1, <1>2 DEF Interrupt, Die

LEMMA OwnerStep == TypeInv /\ OwnerInv /\ [Next]_vars => OwnerInv'
<1> SUFFICES ASSUME RecordsTyped, CallsTyped, OwnerInv, [Next]_vars
             PROVE  OwnerInv'
  BY TypeParts
<1>1. CASE UNCHANGED vars
  BY <1>1 DEF vars, OwnerInv, OwnersDrive
<1>2. ASSUME NEW c \in Calls,
             Receive(c) \/ ReceiveReply(c) \/ Interpret(c) \/ Accept(c) \/ Drive(c) \/ Interrupt(c) \/ Die(c)
      PROVE  OwnerInv'
  BY <1>2, OwnerEmail, OwnerWrite, OwnerDrive, OwnerReply, OwnerInterrupt DEF Drive
<1> QED BY <1>1, <1>2 DEF Next

\* A call that drives a case owns it at every step until it lets go: _edit never
\* raises _OwnershipLost in the middle of a call, however many calls race.
THEOREM CallsOwnTheirCase == Spec => []OwnersDrive
<1>1. OwnerInv => OwnersDrive
  BY DEF OwnerInv
<1> QED BY <1>1, TypeInit, TypeStep, OwnerInit, OwnerStep, PTL DEF Spec

-----------------------------------------------------------------------------
(* The books: what is true of a case, and what the call that drives it may *)
(* rely on.                                                                *)

\* Where a driving call is: at a write, at the case's registration, at a round of
\* the loop, at the closure, at the notice of it, and where there is a chat.
Writing(l) == l.pc \in {"claim", "invoke", "complete"}
Registering(l) == l.pc = "register" \/ (Writing(l) /\ l.name = Create)
InRound(l) == \/ l.pc \in {"investigate", "record", "chat", "deliver"}
              \/ Writing(l) /\ l.name[1] \in {"chat", "update", "delivery"}
Closing(l) == l.pc \in {"verify", "readback", "closed"} \/ (Writing(l) /\ l.name = Close)
Finishing(l) == l.pc = "notified" \/ (Writing(l) /\ l.name = ClosedDelivery)
Answering(l) == Writing(l) /\ l.name[1] \in {"update", "delivery"}

\* What a call with locals l relies on while it drives a case with record r,
\* writes w, and the material h, of which the delivered answer took a into account.
Sound(l, r, w, h, a) ==
    /\ r.closed <=> Finishing(l)
    /\ ~Registering(l) => r.number # None
    /\ l.pc = "register" \/ (l.pc = "complete" /\ l.name = Create) => l.number # None
    /\ l.pc = "register" => w[Create].status = "completed"
    /\ l.pc = "chat" => w[Chat].status = "completed"
    /\ l.pc \in {"verify", "readback", "closed"} => w[Close].status = "completed"
    /\ l.pc = "closed" => r.readback = "Closed"
    /\ l.pc = "deliver" \/ Answering(l) \/ Closing(l) \/ Finishing(l) => r.chat
    /\ Answering(l) => l.name[2] = l.gen
    /\ InRound(l) => l.gen <= r.generation /\ (l.gen = r.generation /\ ~r.suspended => l.context = h)
    /\ Closing(l) => /\ l.gen \in Generations /\ l.gen <= r.generation
                     /\ w[Delivery(l.gen)].status = "completed"
                     /\ l.gen = r.generation /\ ~r.suspended => h = a
    /\ r.status = "verifying_close" => l.pc \in {"readback", "closed"}

Stopped == {"needs_specialist_review", "write_outcome_unknown"}

\* What is true of a case, whoever drives it.
Kept(r, w, h, a) ==
    /\ IsFiniteSet(r.activities) /\ Cardinality(r.activities) <= MaxReceipts /\ Len(r.pending) <= MaxPending
    /\ \A n \in Names : w[n].status # "none" =>
          /\ n[2] <= r.generation
          /\ r.number = None => n = Create
          /\ ~r.chat => n[1] # "delivery" /\ n # Close /\ n # ClosedDelivery
    /\ r.status = "absent" => r.number = None /\ r.activities = {}
    /\ r.number # None => w[Create].status = "completed"
    /\ r.chat => w[Chat].status = "completed" /\ r.number # None
    /\ r.closed => w[Close].status = "completed" /\ r.readback = "Closed"
    /\ r.closed /\ ~r.suspended => r.pending = <<>> /\ h = a
    /\ r.status = "closed" => r.closed /\ ~r.suspended
    /\ r.resolution # NoGen => h = a
    /\ r.suspended => r.status \in Stopped \/ (r.status = "verifying_close" /\ r.owner # None)
    /\ r.pending # <<>> /\ r.owner = None => r.status \in Stopped

\* The index has room, no two cases have an activity in common, every case is
\* kept, and every driving call may rely on its.
Books ==
    /\ IsFiniteSet(Admitted) /\ Cardinality(Admitted) <= MaxCases
    /\ \A j, k \in Keys : j # k => cases[j].activities \cap cases[k].activities = {}
    /\ \A k \in Keys : Kept(cases[k], writes[k], heard[k], answered[k])
    /\ \A c \in Calls : call[c].pc \in Driving =>
          LET k == call[c].key IN Sound(call[c], cases[k], writes[k], heard[k], answered[k])

-----------------------------------------------------------------------------
(* What a step has to show.                                                *)

WriteType == [status : {"none", "claimed", "completed", "unknown"}, by : Calls \cup {None}, at : Nat]

\* The kinds of writes, and the rounds in their names.
LEMMA NameKinds ==
    \A n \in Names :
        /\ n = Create <=> n[1] = "create"
        /\ n = Chat <=> n[1] = "chat"
        /\ n = Close <=> n[1] = "close"
        /\ n = ClosedDelivery <=> n[1] = "closed_delivery"
        /\ n[1] = "delivery" => n = Delivery(n[2])
        /\ n[1] \in {"update", "delivery"} => n[2] \in Generations
        /\ n[1] \notin {"update", "delivery"} => n[2] = 0
<1> SUFFICES ASSUME NEW n \in Names
             PROVE  /\ n = Create <=> n[1] = "create"
                    /\ n = Chat <=> n[1] = "chat"
                    /\ n = Close <=> n[1] = "close"
                    /\ n = ClosedDelivery <=> n[1] = "closed_delivery"
                    /\ n[1] = "delivery" => n = Delivery(n[2])
                    /\ n[1] \in {"update", "delivery"} => n[2] \in Generations
                    /\ n[1] \notin {"update", "delivery"} => n[2] = 0
  OBVIOUS
<1>1. CASE n \in {Create, Chat, Close, ClosedDelivery}
  BY <1>1 DEF Create, Chat, Close, ClosedDelivery
<1>2. CASE n \in {"update", "delivery"} \X Generations
  <2>1. n[1] \in {"update", "delivery"} /\ n[2] \in Generations /\ n = <<n[1], n[2]>>
    BY <1>2
  <2> QED BY <2>1 DEF Create, Chat, Close, ClosedDelivery, Delivery
<1> QED BY <1>1, <1>2 DEF Names

\* What is known of a call that drives a case.
LEMMA Drives ==
    ASSUME RecordsTyped, CallsTyped, OwnerInv, Books, NEW c \in Calls, call[c].pc \in Driving
    PROVE  LET k == call[c].key IN
           /\ call[c] \in Local /\ Knows(c, call[c]) /\ call[c].name \in Names
           /\ k \in Keys /\ cases[k] \in Case /\ writes[k] \in [Names -> WriteType]
           /\ cases[k].owner = c /\ c # None /\ cases[k].status # "absent"
           /\ Kept(cases[k], writes[k], heard[k], answered[k])
           /\ Sound(call[c], cases[k], writes[k], heard[k], answered[k])
           /\ cases = [cases EXCEPT ![k] = cases[k]] /\ writes = [writes EXCEPT ![k] = writes[k]]
           /\ answered = [answered EXCEPT ![k] = answered[k]]
<1> DEFINE k == call[c].key
<1>1. call[c] \in Local /\ Knows(c, call[c]) /\ k \in Keys
  BY CallFacts
<1>2. cases[k] \in Case /\ writes[k] \in [Names -> WriteType] /\ call[c].name \in Names
  BY <1>1 DEF RecordsTyped, WriteType, Local
<1>3. cases[k].owner = c /\ c # None
  BY ServiceAssumption DEF OwnerInv, OwnersDrive
<1>4. cases[k].status # "absent"
  BY <1>1, <1>3 DEF OwnerInv
<1>5. Kept(cases[k], writes[k], heard[k], answered[k]) /\ Sound(call[c], cases[k], writes[k], heard[k], answered[k])
  BY <1>1 DEF Books
<1>6. /\ cases = [cases EXCEPT ![k] = cases[k]] /\ writes = [writes EXCEPT ![k] = writes[k]]
      /\ answered = [answered EXCEPT ![k] = answered[k]]
  BY <1>1 DEF RecordsTyped
<1> QED BY <1>1, <1>2, <1>3, <1>4, <1>5, <1>6

\* The index is as full as it was.
LEMMA SameIndex ==
    ASSUME RecordsTyped, NEW k \in Keys, NEW x, cases' = [cases EXCEPT ![k] = x],
           x.status = "absent" <=> cases[k].status = "absent"
    PROVE  Admitted' = Admitted
BY DEF RecordsTyped, Admitted

\* A call changes one case, which stays kept, and the calls that drive it may
\* still rely on it; what it adds to the case's activities no case has.
Changes(c, k, x, w, h, a, l) ==
    /\ cases' = [cases EXCEPT ![k] = x] /\ writes' = [writes EXCEPT ![k] = w]
    /\ heard' = [heard EXCEPT ![k] = h] /\ answered' = [answered EXCEPT ![k] = a]
    /\ call' = [call EXCEPT ![c] = l]
    /\ IsFiniteSet(Admitted') /\ Cardinality(Admitted') <= MaxCases
    /\ \A n \in x.activities : n \in cases[k].activities \/ \A j \in Keys : n \notin cases[j].activities
    /\ Kept(x, w, h, a)
    /\ l.pc \in Driving => l.key = k /\ Sound(l, x, w, h, a)
    /\ \A d \in Calls \ {c} : call[d].pc \in Driving /\ call[d].key = k => Sound(call[d], x, w, h, a)

LEMMA BooksChange ==
    ASSUME RecordsTyped, CallsTyped, Books, NEW c \in Calls, NEW k \in Keys, NEW x, NEW w, NEW h, NEW a, NEW l,
           Changes(c, k, x, w, h, a, l)
    PROVE  Books'
<1>1. /\ cases'[k] = x /\ writes'[k] = w /\ heard'[k] = h /\ answered'[k] = a
      /\ \A j \in Keys \ {k} : /\ cases'[j] = cases[j] /\ writes'[j] = writes[j]
                               /\ heard'[j] = heard[j] /\ answered'[j] = answered[j]
  BY DEF RecordsTyped, Changes
<1>2. call'[c] = l /\ \A d \in Calls \ {c} : call'[d] = call[d]
  BY DEF CallsTyped, Changes
<1>3. ASSUME NEW j \in Keys PROVE Kept(cases'[j], writes'[j], heard'[j], answered'[j])
  <2>1. CASE j = k
    BY <1>1, <2>1 DEF Changes
  <2>2. CASE j # k
    BY <1>1, <2>2 DEF Books
  <2> QED BY <2>1, <2>2
<1>4. ASSUME NEW d \in Calls, call'[d].pc \in Driving
      PROVE  Sound(call'[d], cases'[call'[d].key], writes'[call'[d].key], heard'[call'[d].key], answered'[call'[d].key])
  <2>1. CASE d = c
    BY <1>1, <1>2, <1>4, <2>1 DEF Changes
  <2>2. CASE d # c
    <3>1. /\ call'[d] = call[d] /\ call[d].key \in Keys
          /\ Sound(call[d], cases[call[d].key], writes[call[d].key], heard[call[d].key], answered[call[d].key])
      BY <1>2, <1>4, <2>2, CallFacts DEF Books
    <3>2. CASE call[d].key = k
      BY <1>1, <1>4, <2>2, <3>1, <3>2 DEF Changes
    <3>3. CASE call[d].key # k
      BY <1>1, <3>1, <3>3
    <3> QED BY <3>2, <3>3
  <2> QED BY <2>1, <2>2
<1>5. ASSUME NEW i \in Keys, NEW j \in Keys, i # j PROVE cases'[i].activities \cap cases'[j].activities = {}
  <2>1. cases[i].activities \cap cases[j].activities = {}
    BY <1>5 DEF Books
  <2>2. CASE i = k
    BY <1>1, <1>5, <2>1, <2>2 DEF Changes
  <2>3. CASE j = k
    BY <1>1, <1>5, <2>1, <2>3 DEF Changes
  <2>4. CASE i # k /\ j # k
    BY <1>1, <2>1, <2>4
  <2> QED BY <2>2, <2>3, <2>4
<1> QED BY <1>3, <1>4, <1>5 DEF Books, Changes

\* The call that drives the case changes it: nobody else does.
Moves(c, k, x, w, a, l) ==
    /\ cases' = [cases EXCEPT ![k] = x] /\ writes' = [writes EXCEPT ![k] = w]
    /\ answered' = [answered EXCEPT ![k] = a] /\ heard' = heard /\ call' = [call EXCEPT ![c] = l]
    /\ x.status # "absent" /\ x.activities = cases[k].activities
    /\ Kept(x, w, heard[k], a)
    /\ l.pc \in Driving => l.key = k /\ Sound(l, x, w, heard[k], a)

LEMMA BooksDriven ==
    ASSUME RecordsTyped, CallsTyped, OwnerInv, Books, NEW c \in Calls, call[c].pc \in Driving,
           NEW x, NEW w, NEW a, NEW l, Moves(c, call[c].key, x, w, a, l)
    PROVE  Books'
<1> DEFINE k == call[c].key
<1>1. k \in Keys /\ cases[k].owner = c /\ cases[k].status # "absent"
  BY Drives
<1>2. heard' = [heard EXCEPT ![k] = heard[k]]
  BY <1>1 DEF RecordsTyped, Moves
<1>3. Admitted' = Admitted
  BY <1>1, SameIndex DEF Moves
<1>4. \A d \in Calls \ {c} : call[d].pc \in Driving => call[d].key # k
  BY <1>1 DEF OwnerInv, OwnersDrive
<1>5. IsFiniteSet(Admitted') /\ Cardinality(Admitted') <= MaxCases
  BY <1>3 DEF Books
<1>6. /\ cases' = [cases EXCEPT ![k] = x] /\ writes' = [writes EXCEPT ![k] = w]
      /\ answered' = [answered EXCEPT ![k] = a] /\ Kept(x, w, heard[k], a)
      /\ l.pc \in Driving => l.key = k /\ Sound(l, x, w, heard[k], a)
      /\ \A n \in x.activities : n \in cases[k].activities \/ \A j \in Keys : n \notin cases[j].activities
  BY DEF Moves
<1>7. \A d \in Calls \ {c} : call[d].pc \in Driving /\ call[d].key = k => Sound(call[d], x, w, heard[k], a)
  BY <1>4
<1>8. Changes(c, k, x, w, heard[k], a, l)
  BY <1>2, <1>5, <1>6, <1>7 DEF Changes, Moves
<1> QED BY <1>1, <1>8, BooksChange

\* The edit of a call that drives the case.
LEMMA BooksEdit ==
    ASSUME RecordsTyped, CallsTyped, OwnerInv, Books, NEW c \in Calls, call[c].pc \in Driving,
           NEW x, NEW l, Edit(c, x, l), UNCHANGED <<writes, heard, answered>>,
           x.status # "absent", x.activities = cases[call[c].key].activities,
           Kept(x, writes[call[c].key], heard[call[c].key], answered[call[c].key]),
           l.pc \in Driving =>
               /\ l.key = call[c].key
               /\ Sound(l, x, writes[call[c].key], heard[call[c].key], answered[call[c].key])
    PROVE  Books'
<1>1. cases' = [cases EXCEPT ![call[c].key] = x] /\ call' = [call EXCEPT ![c] = l]
  BY Drives DEF Edit
<1>2. /\ writes' = [writes EXCEPT ![call[c].key] = writes[call[c].key]]
      /\ answered' = [answered EXCEPT ![call[c].key] = answered[call[c].key]]
  BY Drives
<1>3. Moves(c, call[c].key, x, writes[call[c].key], answered[call[c].key], l)
  BY <1>1, <1>2 DEF Moves
<1> QED BY <1>3, BooksDriven

\* The call goes on, and changes nothing else.
LEMMA BooksRuns ==
    ASSUME RecordsTyped, CallsTyped, Books, NEW c \in Calls, NEW l, call' = [call EXCEPT ![c] = l],
           UNCHANGED <<cases, writes, heard, answered>>,
           l.pc \in Driving => Sound(l, cases[l.key], writes[l.key], heard[l.key], answered[l.key])
    PROVE  Books'
<1>1. call'[c] = l /\ \A d \in Calls \ {c} : call'[d] = call[d]
  BY DEF CallsTyped
<1>2. ASSUME NEW d \in Calls, call'[d].pc \in Driving
      PROVE  Sound(call'[d], cases[call'[d].key], writes[call'[d].key], heard[call'[d].key], answered[call'[d].key])
  BY <1>1, <1>2 DEF Books
<1>3. Admitted' = Admitted
  BY DEF Admitted
<1> QED BY <1>2, <1>3 DEF Books

\* The call stops.
LEMMA BooksStops ==
    ASSUME RecordsTyped, CallsTyped, Books, NEW c \in Calls, NEW p \in {"abort", "done", "lost"}, Goto(c, p),
           UNCHANGED <<cases, writes, heard, answered>>
    PROVE  Books'
<1>1. Locals(call[c], p).pc = p /\ p \notin Driving
  BY CallFacts, LocalsFacts DEF Pcs, Driving
<1> QED BY <1>1, BooksRuns DEF Goto

-----------------------------------------------------------------------------
(* Each step keeps the books.                                              *)

\* Registration, and the claim of a write.
LEMMA BooksRegister ==
    ASSUME RecordsTyped, CallsTyped, OwnerInv, Books, NEW c \in Calls, Register(c)
    PROVE  Books'
<1> DEFINE k == call[c].key
           r == cases[k]
           collision == Collides(k, call[c].number)
           status == IF collision THEN "write_outcome_unknown" ELSE "investigating"
           p == IF collision THEN "abort" ELSE "take"
           x == [r EXCEPT !.number = call[c].number, !.status = status, !.suspended = collision]
<1>1. call[c].pc = "register" /\ call[c].pc \in Driving
  BY DEF Register, At, Driving
<1>2. /\ call[c] \in Local /\ k \in Keys /\ r \in Case /\ r.owner = c /\ c # None /\ r.status # "absent"
      /\ Kept(r, writes[k], heard[k], answered[k]) /\ Sound(call[c], r, writes[k], heard[k], answered[k])
  BY <1>1, Drives
<1>3. Edit(c, x, On(c, p)) /\ UNCHANGED <<writes, heard, answered>>
  BY DEF Register, history
<1>4. /\ x.number = call[c].number /\ x.status = status /\ x.suspended = collision /\ x.owner = c
      /\ x.activities = r.activities /\ x.pending = r.pending /\ x.generation = r.generation
      /\ x.chat = r.chat /\ x.closed = r.closed /\ x.readback = r.readback /\ x.resolution = r.resolution
  BY <1>2 DEF Case
<1>5. collision \in BOOLEAN /\ p \in {"abort", "take"} /\ (p = "take" => ~collision)
  BY DEF Collides
<1>6. On(c, p).pc = p /\ On(c, p).key = k
  <2> HIDE DEF p
  <2> QED BY <1>2, <1>5, LocalsFacts DEF On, Pcs
<1>7. r.closed = FALSE /\ x.number # None /\ writes[k][Create].status = "completed"
  BY <1>1, <1>2, <1>4 DEF Sound, Finishing, Writing, Case
<1> HIDE DEF x, p, collision
<1>8. Kept(x, writes[k], heard[k], answered[k])
  BY <1>2, <1>4, <1>5, <1>7 DEF Kept, Stopped
<1>9. On(c, p).pc \in Driving => Sound(On(c, p), x, writes[k], heard[k], answered[k])
  BY <1>4, <1>5, <1>6, <1>7 DEF Sound, Finishing, Writing, Registering, Answering, Closing, InRound, Driving
<1>10. x.status # "absent"
  BY <1>4
<1> QED BY <1>1, <1>3, <1>4, <1>6, <1>8, <1>9, <1>10, BooksEdit

LEMMA BooksClaim ==
    ASSUME RecordsTyped, CallsTyped, OwnerInv, Books, NEW c \in Calls, Claim(c)
    PROVE  Books'
<1> DEFINE k == call[c].key
           n == call[c].name
           r == cases[k]
           x == [r EXCEPT !.status = PendingStatus(n)]
           w == [writes[k] EXCEPT ![n] = [status |-> "claimed", by |-> c, at |-> 0]]
           l == Locals(call[c], "invoke")
<1>1. call[c].pc = "claim" /\ call[c].pc \in Driving
  BY DEF Claim, At, Driving
<1>2. /\ call[c] \in Local /\ Knows(c, call[c]) /\ n \in Names /\ k \in Keys
      /\ r \in Case /\ r.owner = c /\ c # None /\ r.status # "absent" /\ writes[k] \in [Names -> WriteType]
      /\ Kept(r, writes[k], heard[k], answered[k]) /\ Sound(call[c], r, writes[k], heard[k], answered[k])
      /\ answered = [answered EXCEPT ![k] = answered[k]]
  BY <1>1, Drives
<1>3. /\ ~r.suspended /\ (n # Create => r.generation = call[c].gen)
      /\ writes[k][n].status = "none"
  BY DEF Claim, Authorised, Unclaimed
<1>4. /\ cases' = [cases EXCEPT ![k] = x] /\ writes' = [writes EXCEPT ![k] = w]
      /\ answered' = [answered EXCEPT ![k] = answered[k]] /\ heard' = heard /\ call' = [call EXCEPT ![c] = l]
  BY <1>2 DEF Claim, Goto, history, RecordsTyped
<1>5. /\ x.status = PendingStatus(n) /\ x.number = r.number /\ x.suspended = r.suspended /\ x.owner = c
      /\ x.activities = r.activities /\ x.pending = r.pending /\ x.generation = r.generation
      /\ x.chat = r.chat /\ x.closed = r.closed /\ x.readback = r.readback /\ x.resolution = r.resolution
  BY <1>2 DEF Case
<1>6. PendingStatus(n) \notin {"absent", "verifying_close", "closed"} \cup Stopped
  BY <1>2, NameFacts DEF PendingStatus, Stopped
<1>7. /\ w[n].status = "claimed" /\ \A m \in Names \ {n} : w[m] = writes[k][m]
      /\ \A m \in Names : writes[k][m].status = "completed" => w[m].status = "completed"
  BY <1>2, <1>3
<1>8. l = [call[c] EXCEPT !.pc = "invoke"] /\ l.key = k /\ l.pc = "invoke" /\ l.name = n /\ l.gen = call[c].gen
      /\ l.context = call[c].context /\ l.number = call[c].number
  BY <1>2, LocalsFacts DEF Pcs, Local
<1> HIDE DEF x, w, l
<1>9. /\ n[2] <= r.generation
      /\ r.number = None => n = Create
      /\ ~r.chat => n[1] # "delivery" /\ n # Close /\ n # ClosedDelivery
  <2>1. r.generation \in Nat
    BY <1>2 DEF Case, Generations
  <2>2. n[1] \in {"update", "delivery"} => n[2] = r.generation
    BY <1>1, <1>2, <1>3, NameKinds DEF Sound, Answering, Writing
  <2>3. n[1] \notin {"update", "delivery"} => n[2] = 0
    BY <1>2, NameKinds
  <2>4. r.number = None => n = Create
    BY <1>1, <1>2 DEF Sound, Registering, Writing
  <2>5. ~r.chat => n[1] # "delivery" /\ n # Close /\ n # ClosedDelivery
    BY <1>1, <1>2 DEF Sound, Answering, Closing, Finishing, Writing
  <2> QED BY <2>1, <2>2, <2>3, <2>4, <2>5
<1>10. Kept(x, w, heard[k], answered[k])
  <2>1. Create \in Names /\ Chat \in Names /\ Close \in Names
    BY NameFacts
  <2>2. ASSUME NEW m \in Names, w[m].status # "none"
        PROVE  /\ m[2] <= r.generation
               /\ r.number = None => m = Create
               /\ ~r.chat => m[1] # "delivery" /\ m # Close /\ m # ClosedDelivery
    <3>1. CASE m = n
      BY <1>9, <3>1
    <3>2. CASE m # n
      BY <1>2, <1>7, <2>2, <3>2 DEF Kept
    <3> QED BY <3>1, <3>2
  <2>3. /\ r.number # None => w[Create].status = "completed"
        /\ r.chat => w[Chat].status = "completed" /\ r.number # None
        /\ r.closed => w[Close].status = "completed" /\ r.readback = "Closed"
    BY <1>2, <1>7, <2>1 DEF Kept
  <2>4. /\ IsFiniteSet(x.activities) /\ Cardinality(x.activities) <= MaxReceipts /\ Len(x.pending) <= MaxPending
        /\ x.closed /\ ~x.suspended => x.pending = <<>> /\ heard[k] = answered[k]
        /\ x.resolution # NoGen => heard[k] = answered[k]
    BY <1>2, <1>5 DEF Kept
  <2>5. x.status # "absent" /\ x.status # "closed" /\ ~x.suspended /\ x.owner # None
    BY <1>2, <1>3, <1>5, <1>6
  <2> QED BY <1>5, <2>2, <2>3, <2>4, <2>5 DEF Kept
<1>11. Sound(l, x, w, heard[k], answered[k])
  <2>1. /\ Registering(l) <=> Registering(call[c])
        /\ InRound(l) <=> InRound(call[c])
        /\ Closing(l) <=> Closing(call[c])
        /\ Finishing(l) <=> Finishing(call[c])
        /\ Answering(l) <=> Answering(call[c])
    BY <1>1, <1>8 DEF Writing, Registering, InRound, Closing, Finishing, Answering
  <2>2. /\ call[c].gen \in Generations => Delivery(call[c].gen) \in Names
        /\ Create \in Names /\ Chat \in Names /\ Close \in Names
    BY NameFacts
  <2>3. Closing(l) => /\ l.gen \in Generations /\ l.gen <= x.generation
                      /\ w[Delivery(l.gen)].status = "completed"
                      /\ l.gen = x.generation /\ ~x.suspended => heard[k] = answered[k]
    BY <1>2, <1>5, <1>7, <1>8, <2>1, <2>2 DEF Sound
  <2>4. /\ x.closed <=> Finishing(l)
        /\ ~Registering(l) => x.number # None
        /\ Answering(l) \/ Closing(l) \/ Finishing(l) => x.chat
        /\ Answering(l) => l.name[2] = l.gen
        /\ InRound(l) => l.gen <= x.generation /\ (l.gen = x.generation /\ ~x.suspended => l.context = heard[k])
    BY <1>2, <1>5, <1>8, <2>1 DEF Sound
  <2>5. x.status # "verifying_close"
    BY <1>5, <1>6
  <2> QED BY <1>8, <2>3, <2>4, <2>5 DEF Sound
<1>12. x.status # "absent"
  BY <1>5, <1>6
<1>13. Moves(c, k, x, w, answered[k], l)
  BY <1>4, <1>5, <1>8, <1>10, <1>11, <1>12 DEF Moves
<1> QED BY <1>1, <1>13, BooksDriven

\* A claim that comes too late, and the write.
LEMMA BooksRefused ==
    ASSUME RecordsTyped, CallsTyped, OwnerInv, Books, NEW c \in Calls, ClaimRefused(c)
    PROVE  Books'
<1> DEFINE k == call[c].key
           n == call[c].name
           r == cases[k]
<1>1. call[c].pc = "claim" /\ call[c].pc \in Driving
  BY DEF ClaimRefused, At, Driving
<1>2. /\ call[c] \in Local /\ n \in Names /\ k \in Keys /\ r \in Case
      /\ Sound(call[c], r, writes[k], heard[k], answered[k])
  BY <1>1, Drives
<1>3. UNCHANGED <<cases, writes, heard, answered>>
  BY DEF ClaimRefused, history
<1>4. CASE Goto(c, "abort")
  BY <1>3, <1>4, BooksStops
<1>5. ASSUME NEW p \in {"notified", "take"}, Goto(c, p), IF p = "notified" THEN n = ClosedDelivery
                                                          ELSE n # ClosedDelivery /\ n # Create
      PROVE  Books'
  <2>1. call' = [call EXCEPT ![c] = On(c, p)] /\ On(c, p).pc = p /\ On(c, p).key = k
    BY <1>2, <1>5, LocalsFacts DEF Goto, On, Pcs
  <2>2. r.status # "verifying_close" /\ (r.closed <=> n = ClosedDelivery) /\ (n # Create => r.number # None)
    BY <1>1, <1>2 DEF Sound, Finishing, Registering, Writing
  <2>3. n = ClosedDelivery => r.chat
    BY <1>1, <1>2 DEF Sound, Finishing, Writing
  <2>4. ClosedDelivery # Create
    BY NameFacts
  <2>5. Sound(On(c, p), r, writes[k], heard[k], answered[k])
    BY <1>5, <2>1, <2>2, <2>3, <2>4 DEF Sound, Finishing, Writing, Registering, Answering, Closing, InRound
  <2> QED BY <1>3, <2>1, <2>5, BooksRuns
<1> QED BY <1>4, <1>5 DEF ClaimRefused

LEMMA BooksInvoke ==
    ASSUME RecordsTyped, CallsTyped, OwnerInv, Books, NEW c \in Calls, Invoke(c)
    PROVE  Books'
<1> DEFINE k == call[c].key
           n == call[c].name
           r == cases[k]
<1>1. call[c].pc = "invoke" /\ call[c].pc \in Driving /\ UNCHANGED <<cases, writes, heard, answered>>
  BY DEF Invoke, At, Driving
<1>2. call[c] \in Local /\ Sound(call[c], r, writes[k], heard[k], answered[k])
  BY <1>1, Drives
<1>3. PICK y \in IF n = Create THEN Numbers ELSE {call[c].number} :
          call' = [call EXCEPT ![c].pc = "complete", ![c].number = y, ![c].at = clock']
  BY DEF Invoke
<1> DEFINE l == [call[c] EXCEPT !.pc = "complete", !.number = y, !.at = clock']
<1>4. call' = [call EXCEPT ![c] = l]
  BY <1>3 DEF CallsTyped
<1>5. l.pc = "complete" /\ l.key = k /\ l.name = n /\ l.gen = call[c].gen /\ l.context = call[c].context /\ l.number = y
  BY <1>2 DEF Local
<1> HIDE DEF l
<1>6. n = Create => y # None
  BY <1>3, ServiceAssumption
<1>7. /\ Registering(l) <=> Registering(call[c])
      /\ InRound(l) <=> InRound(call[c])
      /\ Closing(l) <=> Closing(call[c])
      /\ Finishing(l) <=> Finishing(call[c])
      /\ Answering(l) <=> Answering(call[c])
  BY <1>1, <1>5 DEF Writing, Registering, InRound, Closing, Finishing, Answering
<1>8. Sound(l, r, writes[k], heard[k], answered[k])
  BY <1>1, <1>2, <1>5, <1>6, <1>7 DEF Sound
<1> QED BY <1>1, <1>4, <1>5, <1>8, BooksRuns

\* The receipt of a write.
LEMMA BooksReceipt ==
    ASSUME RecordsTyped, CallsTyped, OwnerInv, Books, NEW c \in Calls, Complete(c)
    PROVE  Books'
<1> DEFINE k == call[c].key
           n == call[c].name
           r == cases[k]
           mine == r.owner = c /\ writes[k][n].by = c /\ writes[k][n].status = "claimed"
           name == IF n[1] = "update" THEN Delivery(call[c].gen) ELSE n
           p == IF mine THEN AfterWrite(n) ELSE "abort"
           l == [call[c] EXCEPT !.pc = p, !.name = name, !.at = 0, !.sent = n = ClosedDelivery]
           w == [writes[k] EXCEPT ![n].status = "completed", ![n].at = call[c].at]
<1>1. call[c].pc = "complete" /\ call[c].pc \in Driving
  BY DEF Complete, At, Driving
<1>2. /\ call[c] \in Local /\ Knows(c, call[c]) /\ n \in Names /\ k \in Keys
      /\ r \in Case /\ r.status # "absent" /\ writes[k] \in [Names -> WriteType]
      /\ Kept(r, writes[k], heard[k], answered[k]) /\ Sound(call[c], r, writes[k], heard[k], answered[k])
      /\ cases = [cases EXCEPT ![k] = r] /\ answered = [answered EXCEPT ![k] = answered[k]]
  BY <1>1, Drives
<1>3. call' = [call EXCEPT ![c] = l] /\ UNCHANGED <<cases, heard, answered>>
  BY DEF Complete, CallsTyped, history
<1>4. /\ l.pc = p /\ l.key = k /\ l.name = name /\ l.gen = call[c].gen /\ l.context = call[c].context
      /\ l.number = call[c].number
  BY <1>2 DEF Local
<1>5. CASE ~mine
  <2>1. UNCHANGED writes /\ l.pc \notin Driving
    <3>1. UNCHANGED writes
      BY <1>5 DEF Complete
    <3>2. l.pc = "abort"
      BY <1>4, <1>5
    <3> QED BY <3>1, <3>2 DEF Driving
  <2> HIDE DEF l
  <2> QED BY <1>3, <2>1, BooksRuns
<1>6. CASE mine
  <2>1. writes' = [writes EXCEPT ![k] = w]
    BY <1>2, <1>6 DEF Complete, RecordsTyped
  <2>2. /\ w[n].status = "completed" /\ \A m \in Names \ {n} : w[m] = writes[k][m]
        /\ \A m \in Names : writes[k][m].status = "completed" => w[m].status = "completed"
        /\ \A m \in Names : w[m].status # "none" => writes[k][m].status # "none"
    BY <1>2, <1>6 DEF WriteType
  <2>3. l.pc = AfterWrite(n)
    BY <1>4, <1>6
  <2> HIDE DEF w, l, mine, p
  <2>4. Kept(r, w, heard[k], answered[k])
    <3>1. Create \in Names /\ Chat \in Names /\ Close \in Names
      BY NameFacts
    <3> QED BY <1>2, <2>2, <3>1 DEF Kept
  <2>5. /\ Create \in Names /\ Chat \in Names /\ Close \in Names
        /\ call[c].gen \in Generations =>
              /\ Delivery(call[c].gen) \in Names /\ Delivery(call[c].gen)[1] = "delivery"
              /\ Delivery(call[c].gen)[2] = call[c].gen
    BY NameFacts DEF Delivery
  <2>6. r.status # "verifying_close"
    BY <1>1, <1>2 DEF Sound
  <2>7. Sound(l, r, w, heard[k], answered[k])
    <3>1. CASE n[1] = "create"
      <4>1. l.pc = "register" /\ n = Create /\ w[Create].status = "completed" /\ l.number # None
        BY <1>1, <1>2, <1>4, <2>2, <2>3, <3>1, NameKinds DEF AfterWrite, Sound
      <4>2. r.closed = FALSE
        BY <1>1, <1>2, <3>1, NameKinds DEF Sound, Finishing, Case
      <4> QED BY <2>6, <4>1, <4>2 DEF Sound, Finishing, Registering, Answering, Closing, InRound, Writing
    <3>2. CASE n[1] = "chat"
      <4>1. l.pc = "chat" /\ n = Chat /\ w[Chat].status = "completed" /\ n # Create /\ n # ClosedDelivery
        BY <1>2, <2>2, <2>3, <3>2, NameKinds DEF AfterWrite
      <4>2. /\ r.closed = FALSE /\ r.number # None
            /\ l.gen <= r.generation /\ (l.gen = r.generation /\ ~r.suspended => l.context = heard[k])
        BY <1>1, <1>2, <1>4, <3>2, <4>1 DEF Sound, Finishing, Registering, InRound, Writing, Case
      <4> QED BY <2>6, <4>1, <4>2 DEF Sound, Finishing, Registering, Answering, Closing, InRound, Writing
    <3>3. CASE n[1] = "update"
      <4>1. /\ l.pc = "claim" /\ l.name = Delivery(l.gen) /\ l.name[1] = "delivery" /\ l.name[2] = l.gen
            /\ l.name # Create /\ l.name # Close /\ l.name # ClosedDelivery /\ n # Create /\ n # ClosedDelivery
        <5>1. call[c].gen \in Generations
          BY <1>1, <1>2, <3>3 DEF Knows, Investigated
        <5> QED BY <1>2, <1>4, <2>3, <2>5, <3>3, <5>1, NameKinds DEF AfterWrite
      <4>2. /\ r.closed = FALSE /\ r.number # None /\ r.chat
            /\ l.gen <= r.generation /\ (l.gen = r.generation /\ ~r.suspended => l.context = heard[k])
        BY <1>1, <1>2, <1>4, <3>3, <4>1 DEF Sound, Finishing, Registering, InRound, Answering, Writing, Case
      <4> QED BY <2>6, <4>1, <4>2 DEF Sound, Finishing, Registering, Answering, Closing, InRound, Writing
    <3>4. CASE n[1] = "delivery"
      <4>1. l.pc = "deliver" /\ n # Create /\ n # ClosedDelivery
        BY <1>2, <2>3, <3>4, NameKinds DEF AfterWrite
      <4>2. /\ r.closed = FALSE /\ r.number # None /\ r.chat
            /\ l.gen <= r.generation /\ (l.gen = r.generation /\ ~r.suspended => l.context = heard[k])
        BY <1>1, <1>2, <1>4, <3>4, <4>1 DEF Sound, Finishing, Registering, InRound, Answering, Writing, Case
      <4> QED BY <2>6, <4>1, <4>2 DEF Sound, Finishing, Registering, Answering, Closing, InRound, Writing
    <3>5. CASE n[1] = "close"
      <4>1. l.pc = "verify" /\ n = Close /\ w[Close].status = "completed" /\ n # Create /\ n # ClosedDelivery
        BY <1>2, <2>2, <2>3, <3>5, NameKinds DEF AfterWrite
      <4>2. /\ r.closed = FALSE /\ r.number # None /\ r.chat
            /\ l.gen \in Generations /\ l.gen <= r.generation /\ w[Delivery(l.gen)].status = "completed"
            /\ l.gen = r.generation /\ ~r.suspended => heard[k] = answered[k]
        <5>1. Closing(call[c]) /\ ~Finishing(call[c]) /\ ~Registering(call[c])
          BY <1>1, <4>1 DEF Closing, Finishing, Registering, Writing
        <5> QED BY <1>2, <1>4, <2>2, <2>5, <5>1 DEF Sound, Case
      <4> QED BY <2>6, <4>1, <4>2 DEF Sound, Finishing, Registering, Answering, Closing, InRound, Writing
    <3>6. CASE n[1] = "closed_delivery"
      <4>1. l.pc = "notified" /\ n = ClosedDelivery /\ n # Create
        BY <1>2, <2>3, <3>6, NameKinds DEF AfterWrite
      <4>2. r.closed /\ r.number # None /\ r.chat
        BY <1>1, <1>2, <4>1 DEF Sound, Finishing, Registering, Writing
      <4> QED BY <2>6, <4>1, <4>2 DEF Sound, Finishing, Registering, Answering, Closing, InRound, Writing
    <3> QED BY <1>2, <3>1, <3>2, <3>3, <3>4, <3>5, <3>6, NameFacts
  <2>8. Moves(c, k, r, w, answered[k], l)
    <3>1. /\ cases' = [cases EXCEPT ![k] = r] /\ answered' = [answered EXCEPT ![k] = answered[k]]
          /\ heard' = heard /\ r.activities = cases[k].activities /\ l.key = k
      BY <1>2, <1>3, <1>4
    <3> HIDE DEF r, k
    <3> QED BY <1>2, <1>3, <2>1, <2>4, <2>7, <3>1 DEF Moves
  <2> QED BY <1>1, <2>8, BooksDriven
<1> QED BY <1>5, <1>6

\* The loop of a case's owner.
LEMMA BooksTake ==
    ASSUME RecordsTyped, CallsTyped, OwnerInv, Books, NEW c \in Calls, Take(c)
    PROVE  Books'
<1> DEFINE k == call[c].key
           r == cases[k]
<1>1. call[c].pc = "take" /\ call[c].pc \in Driving /\ UNCHANGED <<writes, heard, answered>>
  BY DEF Take, At, Driving, history
<1>2. /\ call[c] \in Local /\ k \in Keys /\ r \in Case /\ r.owner = c /\ c # None /\ r.status # "absent"
      /\ Kept(r, writes[k], heard[k], answered[k]) /\ Sound(call[c], r, writes[k], heard[k], answered[k])
  BY <1>1, Drives
<1>3. r.closed = FALSE /\ r.number # None /\ r.status # "verifying_close"
  BY <1>1, <1>2 DEF Sound, Finishing, Registering, Writing, Case
<1>4. CASE r.suspended \/ r.pending = <<>>
  <2> DEFINE x == Released(r)
  <2>1. Edit(c, x, On(c, "done"))
    BY <1>1, <1>4 DEF Take
  <2>2. /\ x.number = r.number /\ x.status = r.status /\ x.suspended = r.suspended /\ x.owner = None
        /\ x.activities = r.activities /\ x.pending = r.pending /\ x.generation = r.generation
        /\ x.chat = r.chat /\ x.closed = r.closed /\ x.readback = r.readback /\ x.resolution = r.resolution
    BY <1>2 DEF Case, Released
  <2>3. On(c, "done").pc = "done" /\ "done" \notin Driving
    BY <1>2, LocalsFacts DEF On, Pcs, Driving
  <2> HIDE DEF x
  <2>4. Kept(x, writes[k], heard[k], answered[k])
    BY <1>2, <1>3, <1>4, <2>2 DEF Kept
  <2> QED BY <1>1, <1>2, <2>1, <2>2, <2>3, <2>4, BooksEdit
<1>5. CASE ~r.suspended /\ r.pending # <<>>
  <2> DEFINE g == Head(r.pending)
             p == IF g = r.generation THEN "investigate" ELSE "take"
             x == [r EXCEPT !.pending = Tail(@), !.status = "investigating", !.resolution = NoGen]
             l == [On(c, p) EXCEPT !.gen = g, !.whole = r.complete, !.context = heard[k]]
  <2>1. Edit(c, x, l)
    BY <1>3, <1>5 DEF Take
  <2>2. /\ x.number = r.number /\ x.status = "investigating" /\ x.suspended = r.suspended /\ x.owner = c
        /\ x.activities = r.activities /\ x.pending = Tail(r.pending) /\ x.generation = r.generation
        /\ x.chat = r.chat /\ x.closed = r.closed /\ x.readback = r.readback /\ x.resolution = NoGen
    BY <1>2 DEF Case
  <2>3. Len(x.pending) <= MaxPending
    <3>1. r.pending \in Seq(Generations) /\ Len(r.pending) <= MaxPending /\ MaxPending \in Nat
      BY <1>2, ServiceAssumption DEF Case, Kept
    <3>2. Len(Tail(r.pending)) = Len(r.pending) - 1 /\ Len(r.pending) \in Nat
      BY <1>5, <3>1
    <3> QED BY <2>2, <3>1, <3>2
  <2>4. l.pc = p /\ l.key = k /\ l.gen = g /\ l.context = heard[k]
    <3>1. p \in {"take", "investigate"}
      OBVIOUS
    <3>2. On(c, p) \in Local /\ On(c, p).pc = p /\ On(c, p).key = k
      <4> HIDE DEF p
      <4> QED BY <1>2, <3>1, LocalsFacts DEF On, Pcs
    <3> HIDE DEF p, g
    <3> QED BY <3>2 DEF Local
  <2>5. p = "take" \/ (p = "investigate" /\ g = r.generation)
    OBVIOUS
  <2>6. r.generation \in Nat
    BY <1>2 DEF Case, Generations
  <2> HIDE DEF x, l, p, g
  <2>7. Kept(x, writes[k], heard[k], answered[k])
    BY <1>2, <1>3, <1>5, <2>2, <2>3 DEF Kept
  <2>8. Sound(l, x, writes[k], heard[k], answered[k])
    BY <1>3, <2>2, <2>4, <2>5, <2>6 DEF Sound, Finishing, Registering, Answering, Closing, InRound, Writing
  <2> QED BY <1>1, <1>2, <2>1, <2>2, <2>4, <2>7, <2>8, BooksEdit
<1> QED BY <1>4, <1>5

\* A round's investigation and its result, and the answer's delivery.
LEMMA BooksRound ==
    ASSUME RecordsTyped, CallsTyped, OwnerInv, Books, NEW c \in Calls,
           Investigate(c) \/ Record(c) \/ Block(c) \/ ChatReady(c)
    PROVE  Books'
<1> DEFINE k == call[c].key
           r == cases[k]
           g == call[c].gen
<1>1. /\ call[c].pc \in {"investigate", "record", "block", "chat"} /\ call[c].pc \in Driving
      /\ UNCHANGED <<writes, heard, answered>>
  BY DEF Investigate, Record, Block, ChatReady, At, Driving, history
<1>2. /\ call[c] \in Local /\ Knows(c, call[c]) /\ k \in Keys
      /\ r \in Case /\ r.owner = c /\ c # None /\ r.status # "absent"
      /\ Kept(r, writes[k], heard[k], answered[k]) /\ Sound(call[c], r, writes[k], heard[k], answered[k])
  BY <1>1, Drives
<1>3. r.closed = FALSE /\ r.number # None /\ r.status # "verifying_close"
  BY <1>1, <1>2 DEF Sound, Finishing, Registering, Writing, Case
<1>4. call[c].pc # "block" => g <= r.generation /\ (g = r.generation /\ ~r.suspended => call[c].context = heard[k])
  BY <1>1, <1>2 DEF Sound, InRound
<1>5. ASSUME NEW p \in {"abort", "take", "block"} PROVE On(c, p).pc = p /\ On(c, p).key = k
  BY <1>2, LocalsFacts DEF On, Pcs
<1>6. ASSUME NEW n
      PROVE  /\ OnWrite(c, n).pc = "claim" /\ OnWrite(c, n).name = n /\ OnWrite(c, n).key = k
             /\ OnWrite(c, n).gen = g /\ OnWrite(c, n).context = call[c].context
  BY <1>2 DEF OnWrite, Local
<1>7. CASE Investigate(c)
  <2>1. UNCHANGED cases
    BY <1>7 DEF Investigate
  <2>2. CASE Goto(c, "block")
    <3>1. call' = [call EXCEPT ![c] = On(c, "block")]
      BY <2>2 DEF Goto, On
    <3>2. Sound(On(c, "block"), r, writes[k], heard[k], answered[k])
      BY <1>3, <1>5 DEF Sound, Finishing, Registering, Answering, Closing, InRound, Writing
    <3> QED BY <1>1, <1>5, <2>1, <3>1, <3>2, BooksRuns
  <2>3. ASSUME NEW v, call' = [call EXCEPT ![c].pc = "record", ![c].verdict = v]
        PROVE  Books'
    <3> DEFINE l == [call[c] EXCEPT !.pc = "record", !.verdict = v]
    <3>1. call' = [call EXCEPT ![c] = l]
      BY <2>3 DEF CallsTyped
    <3>2. l.pc = "record" /\ l.key = k /\ l.gen = g /\ l.context = call[c].context
      BY <1>2 DEF Local
    <3>3. call[c].pc = "investigate"
      BY <1>7 DEF Investigate, At
    <3> HIDE DEF l
    <3>4. Sound(l, r, writes[k], heard[k], answered[k])
      BY <1>3, <1>4, <3>2, <3>3 DEF Sound, Finishing, Registering, Answering, Closing, InRound, Writing
    <3> QED BY <1>1, <2>1, <3>1, <3>2, <3>4, BooksRuns
  <2> QED BY <1>7, <2>2, <2>3 DEF Investigate
<1>8. CASE Record(c)
  <2> DEFINE i == [gen |-> g, verdict |-> call[c].verdict]
             n == IF r.chat THEN Update(g) ELSE Chat
             x == [r EXCEPT !.investigation = i]
  <2>1. CASE Edit(c, r, On(c, "take"))
    <3>1. Sound(On(c, "take"), r, writes[k], heard[k], answered[k])
      BY <1>3, <1>5 DEF Sound, Finishing, Registering, Answering, Closing, InRound, Writing
    <3> QED BY <1>1, <1>2, <1>5, <2>1, <3>1, BooksEdit
  <2>2. CASE Edit(c, x, OnWrite(c, n))
    <3>1. /\ x.number = r.number /\ x.status = r.status /\ x.suspended = r.suspended /\ x.owner = c
          /\ x.activities = r.activities /\ x.pending = r.pending /\ x.generation = r.generation
          /\ x.chat = r.chat /\ x.closed = r.closed /\ x.readback = r.readback /\ x.resolution = r.resolution
      BY <1>2 DEF Case
    <3>2. call[c].pc = "record" /\ g \in Generations
      BY <1>2, <1>8 DEF Record, At, Knows, Investigated
    <3>3. /\ n[1] \in {"chat", "update"} /\ (n[1] = "update" => n[2] = g /\ r.chat)
          /\ n # Create /\ n # Close /\ n # ClosedDelivery
      BY <3>2 DEF Update, Chat, Create, Close, ClosedDelivery
    <3> HIDE DEF x, i, n
    <3>4. Kept(x, writes[k], heard[k], answered[k])
      BY <1>2, <3>1 DEF Kept
    <3>5. Sound(OnWrite(c, n), x, writes[k], heard[k], answered[k])
      BY <1>3, <1>4, <1>6, <3>1, <3>2, <3>3 DEF Sound, Finishing, Registering, Answering, Closing, InRound, Writing
    <3> QED BY <1>1, <1>2, <1>6, <2>2, <3>1, <3>4, <3>5, BooksEdit
  <2> QED BY <1>8, <2>1, <2>2 DEF Record
<1>9. CASE Block(c)
  <2> DEFINE x == [r EXCEPT !.status = "needs_specialist_review", !.owner = None, !.resolution = NoGen]
  <2>1. Edit(c, x, On(c, "abort"))
    BY <1>9 DEF Block
  <2>2. /\ x.number = r.number /\ x.status = "needs_specialist_review" /\ x.suspended = r.suspended /\ x.owner = None
        /\ x.activities = r.activities /\ x.pending = r.pending /\ x.generation = r.generation
        /\ x.chat = r.chat /\ x.closed = r.closed /\ x.readback = r.readback /\ x.resolution = NoGen
    BY <1>2 DEF Case
  <2>3. On(c, "abort").pc \notin Driving
    BY <1>5 DEF Driving
  <2> HIDE DEF x
  <2>4. Kept(x, writes[k], heard[k], answered[k])
    BY <1>2, <1>3, <2>2 DEF Kept, Stopped
  <2> QED BY <1>1, <2>1, <2>2, <2>3, <2>4, BooksEdit
<1>10. CASE ChatReady(c)
  <2> DEFINE x == [r EXCEPT !.chat = TRUE]
             n == Update(g)
  <2>1. Edit(c, x, OnWrite(c, n))
    BY <1>10 DEF ChatReady
  <2>2. /\ x.number = r.number /\ x.status = r.status /\ x.suspended = r.suspended /\ x.owner = c
        /\ x.activities = r.activities /\ x.pending = r.pending /\ x.generation = r.generation
        /\ x.chat = TRUE /\ x.closed = r.closed /\ x.readback = r.readback /\ x.resolution = r.resolution
    BY <1>2 DEF Case
  <2>3. call[c].pc = "chat" /\ writes[k][Chat].status = "completed"
    BY <1>2, <1>10 DEF ChatReady, At, Sound
  <2>4. n[1] = "update" /\ n[2] = g /\ n # Create /\ n # Close /\ n # ClosedDelivery
    BY DEF Update, Create, Close, ClosedDelivery
  <2> HIDE DEF x, n
  <2>5. Kept(x, writes[k], heard[k], answered[k])
    BY <1>2, <1>3, <2>2, <2>3 DEF Kept
  <2>6. Sound(OnWrite(c, n), x, writes[k], heard[k], answered[k])
    BY <1>3, <1>4, <1>6, <2>2, <2>3, <2>4 DEF Sound, Finishing, Registering, Answering, Closing, InRound, Writing
  <2> QED BY <1>1, <1>2, <1>6, <2>1, <2>2, <2>5, <2>6, BooksEdit
<1> QED BY <1>7, <1>8, <1>9, <1>10

LEMMA BooksDelivered ==
    ASSUME RecordsTyped, CallsTyped, OwnerInv, Books, NEW c \in Calls, Delivered(c)
    PROVE  Books'
<1> DEFINE k == call[c].key
           r == cases[k]
           g == call[c].gen
           current == r.generation = g /\ ~r.suspended
           ready == call[c].verdict = "ready"
           status == CASE ~current -> r.status
                       [] current /\ ready -> "awaiting_confirmation"
                       [] current /\ call[c].verdict = "questions" -> "waiting_for_requester"
                       [] current /\ call[c].verdict = "blockers" -> "needs_specialist_review"
           resolution == IF current /\ ready THEN g ELSE NoGen
           a == IF current /\ ready THEN call[c].context ELSE answered[k]
           x == [r EXCEPT !.contact = writes[k][Delivery(g)].at, !.resolution = resolution, !.status = status]
           l == On(c, "take")
<1>1. call[c].pc = "deliver" /\ call[c].pc \in Driving /\ UNCHANGED <<writes, heard>>
  BY DEF Delivered, At, Driving
<1>2. /\ call[c] \in Local /\ Knows(c, call[c]) /\ k \in Keys
      /\ r \in Case /\ r.owner = c /\ c # None /\ r.status # "absent"
      /\ Kept(r, writes[k], heard[k], answered[k]) /\ Sound(call[c], r, writes[k], heard[k], answered[k])
      /\ writes = [writes EXCEPT ![k] = writes[k]] /\ answered = [answered EXCEPT ![k] = answered[k]]
  BY <1>1, Drives
<1>3. /\ r.closed = FALSE /\ r.number # None /\ r.status # "verifying_close"
      /\ current => call[c].context = heard[k]
  BY <1>1, <1>2 DEF Sound, Finishing, Registering, InRound, Writing, Case
<1>4. cases' = [cases EXCEPT ![k] = x] /\ call' = [call EXCEPT ![c] = l]
  BY <1>2 DEF Delivered, Edit
<1>5. answered' = [answered EXCEPT ![k] = a]
  BY <1>2 DEF Delivered
<1>6. /\ x.number = r.number /\ x.status = status /\ x.suspended = r.suspended /\ x.owner = c
      /\ x.activities = r.activities /\ x.pending = r.pending /\ x.generation = r.generation
      /\ x.chat = r.chat /\ x.closed = r.closed /\ x.readback = r.readback /\ x.resolution = resolution
  BY <1>2 DEF Case
<1>7. /\ r.suspended => status = r.status
      /\ status = r.status \/ status \in {"awaiting_confirmation", "waiting_for_requester", "needs_specialist_review"}
  <2>1. call[c].verdict \in {"ready", "questions", "blockers"}
    BY <1>1, <1>2 DEF Knows, Investigated, Local
  <2> QED BY <2>1
<1>8. resolution # NoGen => heard[k] = a
  BY <1>3
<1>9. l.pc = "take" /\ l.key = k
  BY <1>2, LocalsFacts DEF On, Pcs
<1> HIDE DEF x, status, resolution, a, l
<1>10. Kept(x, writes[k], heard[k], a)
  BY <1>2, <1>3, <1>6, <1>7, <1>8 DEF Kept
<1>11. Sound(l, x, writes[k], heard[k], a)
  BY <1>3, <1>6, <1>7, <1>9 DEF Sound, Finishing, Registering, Answering, Closing, InRound, Writing
<1>12. Moves(c, k, x, writes[k], a, l)
  <2>1. writes' = [writes EXCEPT ![k] = writes[k]] /\ x.status # "absent"
    BY <1>1, <1>2, <1>6, <1>7
  <2> HIDE DEF k
  <2> QED BY <1>1, <1>4, <1>5, <1>6, <1>9, <1>10, <1>11, <2>1 DEF Moves
<1> QED BY <1>1, <1>12, BooksDriven

\* The closure, its confirmation and its notice.
LEMMA BooksClose ==
    ASSUME RecordsTyped, CallsTyped, OwnerInv, Books, NEW c \in Calls, Verify(c) \/ Readback(c) \/ Closed(c)
    PROVE  Books'
<1> DEFINE k == call[c].key
           r == cases[k]
<1>1. /\ call[c].pc \in {"verify", "readback", "closed"} /\ call[c].pc \in Driving
      /\ UNCHANGED <<writes, heard, answered>>
  BY DEF Verify, Readback, Closed, At, Driving, history
<1>2. /\ call[c] \in Local /\ k \in Keys
      /\ r \in Case /\ r.owner = c /\ c # None /\ r.status # "absent"
      /\ Kept(r, writes[k], heard[k], answered[k]) /\ Sound(call[c], r, writes[k], heard[k], answered[k])
  BY <1>1, Drives
<1>3. /\ r.closed = FALSE /\ r.number # None /\ r.chat /\ writes[k][Close].status = "completed"
      /\ call[c].gen \in Generations /\ call[c].gen <= r.generation
      /\ writes[k][Delivery(call[c].gen)].status = "completed"
      /\ call[c].gen = r.generation /\ ~r.suspended => heard[k] = answered[k]
  BY <1>1, <1>2 DEF Sound, Finishing, Registering, Closing, Writing, Case
<1>4. ASSUME NEW p \in {"abort", "done", "readback", "closed"}
      PROVE  /\ On(c, p).pc = p
             /\ p \in {"readback", "closed"} => On(c, p).key = k /\ On(c, p).gen = call[c].gen
  BY <1>2, LocalsFacts DEF On, Pcs, Local
<1>5. CASE Verify(c)
  <2> DEFINE x == [r EXCEPT !.status = "verifying_close"]
  <2>1. Edit(c, x, On(c, "readback"))
    BY <1>5 DEF Verify
  <2>2. /\ x.number = r.number /\ x.status = "verifying_close" /\ x.suspended = r.suspended /\ x.owner = c
        /\ x.activities = r.activities /\ x.pending = r.pending /\ x.generation = r.generation
        /\ x.chat = r.chat /\ x.closed = r.closed /\ x.readback = r.readback /\ x.resolution = r.resolution
    BY <1>2 DEF Case
  <2> HIDE DEF x
  <2>3. Kept(x, writes[k], heard[k], answered[k])
    BY <1>2, <1>3, <2>2 DEF Kept
  <2>4. Sound(On(c, "readback"), x, writes[k], heard[k], answered[k])
    BY <1>3, <1>4, <2>2 DEF Sound, Finishing, Registering, Answering, Closing, InRound, Writing
  <2> QED BY <1>1, <1>4, <2>1, <2>2, <2>3, <2>4, BooksEdit
<1>6. CASE Readback(c)
  <2>1. PICK s \in {"Closed", "other"} :
            Edit(c, [r EXCEPT !.readback = s], On(c, IF s = "Closed" THEN "closed" ELSE "abort"))
    BY <1>6 DEF Readback
  <2> DEFINE x == [r EXCEPT !.readback = s]
             p == IF s = "Closed" THEN "closed" ELSE "abort"
  <2>2. /\ x.number = r.number /\ x.status = r.status /\ x.suspended = r.suspended /\ x.owner = c
        /\ x.activities = r.activities /\ x.pending = r.pending /\ x.generation = r.generation
        /\ x.chat = r.chat /\ x.closed = r.closed /\ x.readback = s /\ x.resolution = r.resolution
    BY <1>2 DEF Case
  <2>3. Edit(c, x, On(c, p)) /\ (p = "abort" \/ (p = "closed" /\ s = "Closed"))
    BY <2>1
  <2> HIDE DEF x, p
  <2>4. On(c, p).pc = p /\ (p = "closed" => On(c, p).key = k /\ On(c, p).gen = call[c].gen)
    BY <1>4, <2>3
  <2>5. Kept(x, writes[k], heard[k], answered[k])
    BY <1>2, <1>3, <2>2 DEF Kept
  <2>6. On(c, p).pc \in Driving => On(c, p).key = k /\ Sound(On(c, p), x, writes[k], heard[k], answered[k])
    BY <1>3, <2>2, <2>3, <2>4 DEF Sound, Finishing, Registering, Answering, Closing, InRound, Writing, Driving
  <2> QED BY <1>1, <1>2, <2>2, <2>3, <2>5, <2>6, BooksEdit
<1>7. CASE Closed(c)
  <2> DEFINE overtaken == Overtaken(c, r)
             status == IF overtaken THEN "needs_specialist_review" ELSE "closed"
             owner == IF overtaken THEN None ELSE r.owner
             x == [r EXCEPT !.closed = TRUE, !.resolution = NoGen, !.suspended = overtaken,
                            !.status = status, !.owner = owner]
  <2>1. Edit(c, x, IF overtaken THEN On(c, "done") ELSE OnWrite(c, ClosedDelivery))
    BY <1>7 DEF Closed
  <2>2. /\ x.number = r.number /\ x.status = status /\ x.suspended = overtaken /\ x.owner = owner
        /\ x.activities = r.activities /\ x.pending = r.pending /\ x.generation = r.generation
        /\ x.chat = r.chat /\ x.closed = TRUE /\ x.readback = r.readback /\ x.resolution = NoGen
    BY <1>2 DEF Case
  <2>3. r.readback = "Closed" /\ overtaken \in BOOLEAN
    BY <1>2, <1>7 DEF Closed, At, Sound, Overtaken, Case
  <2>4. ~overtaken => r.pending = <<>> /\ heard[k] = answered[k]
    BY <1>3 DEF Overtaken
  <2> HIDE DEF x, overtaken
  <2>5. Kept(x, writes[k], heard[k], answered[k])
    BY <1>2, <1>3, <2>2, <2>3, <2>4 DEF Kept, Stopped
  <2>6. x.status # "absent"
    BY <2>2
  <2>7. CASE overtaken
    <3>1. Edit(c, x, On(c, "done")) /\ On(c, "done").pc \notin Driving
      BY <1>4, <2>1, <2>7 DEF Driving
    <3> QED BY <1>1, <2>2, <2>5, <2>6, <3>1, BooksEdit
  <2>8. CASE ~overtaken
    <3> DEFINE l == OnWrite(c, ClosedDelivery)
    <3>1. Edit(c, x, l)
      BY <2>1, <2>8
    <3>2. l.pc = "claim" /\ l.name = ClosedDelivery /\ l.key = k
      BY <1>2 DEF OnWrite, Local
    <3>3. ClosedDelivery[1] = "closed_delivery" /\ ClosedDelivery # Create /\ ClosedDelivery # Close
      BY DEF ClosedDelivery, Create, Close
    <3> HIDE DEF l
    <3>4. Sound(l, x, writes[k], heard[k], answered[k])
      BY <1>3, <2>2, <2>8, <3>2, <3>3 DEF Sound, Finishing, Registering, Answering, Closing, InRound, Writing
    <3> QED BY <1>1, <2>2, <2>5, <2>6, <3>1, <3>2, <3>4, BooksEdit
  <2> QED BY <2>7, <2>8
<1> QED BY <1>5, <1>6, <1>7

LEMMA BooksNotified ==
    ASSUME RecordsTyped, CallsTyped, OwnerInv, Books, NEW c \in Calls, Notified(c)
    PROVE  Books'
<1> DEFINE k == call[c].key
           r == cases[k]
           good == r.generation = call[c].gen /\ ~r.suspended /\ call[c].sent
           status == IF good THEN "closed" ELSE "needs_specialist_review"
           x == [r EXCEPT !.owner = None, !.suspended = ~good, !.status = status]
<1>1. call[c].pc = "notified" /\ call[c].pc \in Driving /\ UNCHANGED <<writes, heard, answered>>
  BY DEF Notified, At, Driving, history
<1>2. /\ call[c] \in Local /\ k \in Keys /\ r \in Case
      /\ Kept(r, writes[k], heard[k], answered[k]) /\ Sound(call[c], r, writes[k], heard[k], answered[k])
  BY <1>1, Drives
<1>3. r.closed
  BY <1>1, <1>2 DEF Sound, Finishing
<1>4. Edit(c, x, On(c, "done"))
  BY DEF Notified
<1>5. /\ x.number = r.number /\ x.status = status /\ x.suspended = ~good /\ x.owner = None
      /\ x.activities = r.activities /\ x.pending = r.pending /\ x.generation = r.generation
      /\ x.chat = r.chat /\ x.closed = r.closed /\ x.readback = r.readback /\ x.resolution = r.resolution
  BY <1>2 DEF Case
<1>6. On(c, "done").pc = "done" /\ "done" \notin Driving
  BY <1>2, LocalsFacts DEF On, Pcs, Driving
<1>7. good => r.pending = <<>> /\ heard[k] = answered[k]
  BY <1>2, <1>3 DEF Kept
<1> HIDE DEF x, good
<1>8. Kept(x, writes[k], heard[k], answered[k])
  BY <1>2, <1>3, <1>5, <1>7 DEF Kept, Stopped
<1>9. x.status # "absent"
  BY <1>5
<1> QED BY <1>1, <1>4, <1>5, <1>6, <1>8, <1>9, BooksEdit

\* What a call does before it has a case.
LEMMA BooksArrives ==
    ASSUME RecordsTyped, CallsTyped, OwnerInv, Books, NEW c \in Calls,
           Receive(c) \/ ReceiveReply(c) \/ Interpret(c) \/ AcceptNothing(c)
    PROVE  Books'
<1>0. call[c] \in Local
  BY CallFacts
<1>1. UNCHANGED <<cases, writes, heard, answered>>
  BY DEF Receive, ReceiveReply, Interpret, AcceptNothing, history
<1>2. CASE AcceptNothing(c)
  BY <1>1, <1>2, BooksStops DEF AcceptNothing
<1>3. CASE Receive(c)
  <2> DEFINE l == [call[c] EXCEPT !.pc = "admit", !.key = EmailKey[c], !.at = clock']
  <2>1. call' = [call EXCEPT ![c] = l]
    BY <1>3 DEF Receive, CallsTyped
  <2>2. l.pc = "admit" /\ "admit" \notin Driving
    BY <1>0 DEF Local, Driving
  <2> HIDE DEF l
  <2> QED BY <1>1, <2>1, <2>2, BooksRuns
<1>4. CASE ReceiveReply(c)
  <2>1. PICK f, n : call' = [call EXCEPT ![c].pc = "interpret", ![c].at = clock, ![c].form = f, ![c].number = n]
    BY <1>4 DEF ReceiveReply
  <2> DEFINE l == [call[c] EXCEPT !.pc = "interpret", !.at = clock, !.form = f, !.number = n]
  <2>2. call' = [call EXCEPT ![c] = l]
    BY <2>1 DEF CallsTyped
  <2>3. l.pc = "interpret" /\ "interpret" \notin Driving
    BY <1>0 DEF Local, Driving
  <2> HIDE DEF l
  <2> QED BY <1>1, <2>2, <2>3, BooksRuns
<1>5. CASE Interpret(c)
  <2>1. PICK i, j : call' = [call EXCEPT ![c].pc = "accept", ![c].intent = i, ![c].intentKey = j]
    BY <1>5 DEF Interpret
  <2> DEFINE l == [call[c] EXCEPT !.pc = "accept", !.intent = i, !.intentKey = j]
  <2>2. call' = [call EXCEPT ![c] = l]
    BY <2>1 DEF CallsTyped
  <2>3. l.pc = "accept" /\ "accept" \notin Driving
    BY <1>0 DEF Local, Driving
  <2> HIDE DEF l
  <2> QED BY <1>1, <2>2, <2>3, BooksRuns
<1> QED BY <1>2, <1>3, <1>4, <1>5

\* A new case.
LEMMA BooksAdmit ==
    ASSUME RecordsTyped, CallsTyped, OwnerInv, Books, NEW c \in Calls, Admit(c)
    PROVE  Books'
<1> DEFINE k == EmailKey[c]
           x == [Absent EXCEPT !.status = "received", !.owner = c, !.pending = <<0>>, !.contact = call[c].at]
           l == [Idle EXCEPT !.pc = "claim", !.key = k, !.name = Create]
<1>0. call[c] \in Local /\ k \in Keys /\ UNCHANGED <<writes, heard, answered>>
  <2>1. c \in EmailCalls
    BY CallFacts DEF Admit, At, Knows
  <2> QED BY <2>1, CallFacts, ServiceAssumption DEF Admit, history
<1>1. CASE UNCHANGED cases /\ (Goto(c, "done") \/ Goto(c, "abort"))
  BY <1>0, <1>1, BooksStops
<1>2. CASE /\ k \notin Admitted /\ Cardinality(Admitted) < MaxCases
           /\ cases' = [cases EXCEPT ![k] = x] /\ call' = [call EXCEPT ![c] = l]
  <2>1. /\ x.number = None /\ x.status = "received" /\ x.suspended = FALSE /\ x.owner = c
        /\ x.activities = {} /\ x.pending = <<0>> /\ x.generation = 0
        /\ x.chat = FALSE /\ x.closed = FALSE /\ x.readback = "none" /\ x.resolution = NoGen
    BY DEF Absent
  <2>2. l.pc = "claim" /\ l.key = k /\ l.name = Create
    BY DEF Idle
  <2>3. cases[k].status = "absent" /\ cases[k].number = None /\ cases[k].owner = None
    BY <1>0, <1>2 DEF Admitted, Books, Kept, OwnerInv
  <2>4. Admitted' = Admitted \cup {k}
    BY <1>0, <1>2, <2>1 DEF Admitted, RecordsTyped
  <2>5. IsFiniteSet(Admitted') /\ Cardinality(Admitted') <= MaxCases
    <3>1. IsFiniteSet(Admitted) /\ Cardinality(Admitted) \in Nat
      BY FS_CardinalityType DEF Books
    <3>2. IsFiniteSet(Admitted \cup {k}) /\ Cardinality(Admitted \cup {k}) <= Cardinality(Admitted) + 1
      BY <1>2, <3>1, FS_AddElement
    <3>3. Cardinality(Admitted \cup {k}) \in Nat
      BY <3>2, FS_CardinalityType
    <3> QED BY <1>2, <2>4, <3>1, <3>2, <3>3, ServiceAssumption
  <2>6. Create # Chat /\ Create # Close /\ Create # ClosedDelivery /\ Create[1] = "create" /\ Create[2] = 0
    BY DEF Create, Chat, Close, ClosedDelivery
  <2> HIDE DEF x, l
  <2>7. Kept(x, writes[k], heard[k], answered[k])
    <3>1. \A n \in Names : writes[k][n].status # "none" => n = Create
      BY <1>0, <2>3 DEF Books, Kept
    <3>2. IsFiniteSet({}) /\ Cardinality({}) = 0 /\ Len(<<0>>) = 1
      BY FS_EmptySet
    <3>3. 0 <= MaxReceipts /\ 1 <= MaxPending
      BY ServiceAssumption
    <3> QED BY <2>1, <2>6, <3>1, <3>2, <3>3, ServiceAssumption DEF Kept
  <2>8. Sound(l, x, writes[k], heard[k], answered[k])
    BY <2>1, <2>2, <2>6 DEF Sound, Finishing, Registering, Answering, Closing, InRound, Writing
  <2>9. \A d \in Calls \ {c} : call[d].pc \in Driving /\ call[d].key = k => Sound(call[d], x, writes[k], heard[k], answered[k])
    BY <2>3, ServiceAssumption DEF OwnerInv, OwnersDrive
  <2>10. /\ writes' = [writes EXCEPT ![k] = writes[k]] /\ heard' = [heard EXCEPT ![k] = heard[k]]
         /\ answered' = [answered EXCEPT ![k] = answered[k]]
    BY <1>0 DEF RecordsTyped
  <2> HIDE DEF k
  <2>11. Changes(c, k, x, writes[k], heard[k], answered[k], l)
    BY <1>2, <2>1, <2>2, <2>5, <2>7, <2>8, <2>9, <2>10 DEF Changes
  <2> QED BY <1>0, <2>11, BooksChange
<1> QED BY <1>1, <1>2 DEF Admit

\* The case a reply is about has its chat.
LEMMA TargetChat ==
    ASSUME NEW form \in {"plain", "malformed", "marker", "resolve"}, NEW number, Target(form, number) # None
    PROVE  cases[Target(form, number)].chat
<1> DEFINE chats == {k \in Admitted : cases[k].chat}
           numbered == {k \in chats : cases[k].number = number}
           open == {k \in chats : ~cases[k].closed}
           latest == {k \in open : \A j \in open : cases[j].contact <= cases[k].contact}
           found == CASE form \in {"marker", "resolve"} -> numbered
                      [] form = "malformed" -> chats
                      [] form = "plain" -> IF Cardinality(chats) > 1 THEN latest ELSE chats
<1>1. numbered \subseteq chats /\ latest \subseteq chats
  OBVIOUS
<1>2. found \subseteq chats
  <2> HIDE DEF chats, numbered, latest
  <2> QED BY <1>1
<1>3. Target(form, number) = IF Cardinality(found) = 1 THEN CHOOSE k \in found : TRUE ELSE None
  BY DEF Target
<1>4. Cardinality(found) = 1 => found # {}
  <2> HIDE DEF found
  <2>1. Cardinality({}) = 0
    BY FS_EmptySet
  <2> QED BY <2>1
<1>5. Target(form, number) \in chats
  <2> HIDE DEF found, chats
  <2> QED BY <1>2, <1>3, <1>4
<1> QED BY <1>5

\* What is accepted on a case does not disturb the call that drives it.
LEMMA DriverUndisturbed ==
    ASSUME NEW l \in Local, NEW r \in Case, NEW x \in Case, NEW w, NEW h, NEW i, NEW a, Sound(l, r, w, h, a),
           x.closed = r.closed, x.number = r.number, x.chat = r.chat, x.readback = r.readback,
           r.generation <= x.generation,
           x.generation = r.generation /\ ~x.suspended => ~r.suspended /\ i = h,
           x.status = "verifying_close" => r.status = "verifying_close"
    PROVE  Sound(l, x, w, i, a)
<1>1. r.generation \in Int /\ x.generation \in Int /\ l.gen \in Int
  BY ServiceAssumption DEF Case, Local, Generations, NoGen
<1>2. l.gen <= r.generation => /\ l.gen <= x.generation
                               /\ l.gen = x.generation /\ ~x.suspended => l.gen = r.generation /\ ~r.suspended /\ i = h
  BY <1>1
<1> QED BY <1>2 DEF Sound

\* What is accepted changes one case of the index, and nothing else.
Accepts(c, k, x, h, l) ==
    LET r == cases[k]
    IN /\ x.status # "absent" /\ x.closed = r.closed /\ x.number = r.number /\ x.chat = r.chat
       /\ x.readback = r.readback /\ r.generation <= x.generation
       /\ x.generation = r.generation /\ ~x.suspended => ~r.suspended /\ h = heard[k]
       /\ x.status = "verifying_close" => r.status = "verifying_close"
       /\ \A n \in x.activities : n \in r.activities \/ \A j \in Keys : n \notin cases[j].activities
       /\ Kept(x, writes[k], h, answered[k])
       /\ l.pc \in Driving => l.key = k /\ Sound(l, x, writes[k], h, answered[k])
       /\ cases' = [cases EXCEPT ![k] = x] /\ UNCHANGED <<writes, answered>>
       /\ heard' = [heard EXCEPT ![k] = h] /\ call' = [call EXCEPT ![c] = l]

LEMMA BooksAccepts ==
    ASSUME RecordsTyped, CallsTyped, Books, NEW c \in Calls, NEW k \in Keys, cases[k].status # "absent",
           NEW x \in Case, NEW h, NEW l, Accepts(c, k, x, h, l)
    PROVE  Books'
<1> DEFINE r == cases[k]
<1>1. r \in Case /\ writes = [writes EXCEPT ![k] = writes[k]] /\ answered = [answered EXCEPT ![k] = answered[k]]
  BY DEF RecordsTyped
<1>2. ASSUME NEW d \in Calls \ {c}, call[d].pc \in Driving, call[d].key = k
      PROVE  Sound(call[d], x, writes[k], h, answered[k])
  <2>1. call[d] \in Local /\ Sound(call[d], r, writes[k], heard[k], answered[k])
    BY <1>2, CallFacts DEF Books
  <2> QED BY <1>1, <2>1, DriverUndisturbed DEF Accepts
<1>3. Admitted' = Admitted
  BY SameIndex DEF Accepts
<1>4. IsFiniteSet(Admitted') /\ Cardinality(Admitted') <= MaxCases
  BY <1>3 DEF Books
<1>5. Changes(c, k, x, writes[k], h, answered[k], l)
  BY <1>1, <1>2, <1>4 DEF Changes, Accepts
<1> QED BY <1>5, BooksChange

\* What is accepted on a case.
LEMMA BooksAccept ==
    ASSUME RecordsTyped, CallsTyped, OwnerInv, Books, NEW c \in Calls, NEW k \in Keys,
           AcceptFull(c, k) \/ AcceptRejected(c, k) \/ AcceptClose(c, k) \/ AcceptChat(c, k) \/ AcceptMaterial(c, k)
    PROVE  Books'
<1> DEFINE r == cases[k]
           as == r.activities \cup {Activity[c]}
<1>0. /\ call[c] \in Local /\ r \in Case /\ Kept(r, writes[k], heard[k], answered[k])
      /\ cases \in [Keys -> Case] /\ writes = [writes EXCEPT ![k] = writes[k]]
      /\ heard = [heard EXCEPT ![k] = heard[k]] /\ answered = [answered EXCEPT ![k] = answered[k]]
  BY CallFacts DEF RecordsTyped, Books
<1>1. /\ k = Target(call[c].form, call[c].number) /\ ~Replayed(c) /\ c \in ReplyCalls
      /\ call[c].form \in {"plain", "malformed", "marker", "resolve"}
  <2>1. At(c, "accept") /\ k = Target(call[c].form, call[c].number) /\ ~Replayed(c)
    BY DEF AcceptFull, AcceptRejected, AcceptClose, AcceptChat, AcceptMaterial, Room, Accepting
  <2> QED BY <2>1, CallFacts DEF At, Knows, Local
<1>2. r.status # "absent" /\ r.chat /\ r.number # None
  <2>1. k \in Admitted /\ r.chat
    BY <1>1, TargetFacts, TargetChat, ServiceAssumption
  <2> QED BY <1>0, <2>1 DEF Kept, Admitted
<1>3. \A j \in Keys : Activity[c] \notin cases[j].activities
  BY <1>1 DEF Replayed, Admitted, Books, Kept
<1>4. /\ \A n \in as : n \in r.activities \/ \A j \in Keys : n \notin cases[j].activities
      /\ Cardinality(r.activities) < MaxReceipts => IsFiniteSet(as) /\ Cardinality(as) <= MaxReceipts
      /\ as \in SUBSET Activities
  <2>1. IsFiniteSet(r.activities) /\ Cardinality(r.activities) \in Nat
    BY <1>0, FS_CardinalityType DEF Kept
  <2>2. IsFiniteSet(as) /\ Cardinality(as) <= Cardinality(r.activities) + 1 /\ Cardinality(as) \in Nat
    <3>1. /\ IsFiniteSet(as)
          /\ Cardinality(as) = IF Activity[c] \in r.activities THEN Cardinality(r.activities)
                               ELSE Cardinality(r.activities) + 1
      BY <2>1, FS_AddElement
    <3> QED BY <2>1, <3>1
  <2>3. Cardinality(r.activities) < MaxReceipts => Cardinality(as) <= MaxReceipts
    BY <2>1, <2>2, ServiceAssumption
  <2>4. as \in SUBSET Activities
    BY <1>0, <1>1 DEF Case, Activities
  <2>5. \A n \in as : n \in r.activities \/ \A j \in Keys : n \notin cases[j].activities
    BY <1>3
  <2> QED BY <2>2, <2>3, <2>4, <2>5
<1>6. Locals(call[c], "done").pc \notin Driving
  BY <1>0, LocalsFacts DEF Pcs, Driving
<1>7. CASE AcceptFull(c, k)
  <2> DEFINE x == [r EXCEPT !.suspended = TRUE, !.resolution = NoGen, !.status = Specialist(r.status)]
  <2>1. /\ cases' = [cases EXCEPT ![k] = x] /\ UNCHANGED <<writes, heard, answered>>
        /\ call' = [call EXCEPT ![c] = Locals(call[c], "done")]
    BY <1>0, <1>7 DEF AcceptFull, Goto, history
  <2>2. Specialist(r.status) \in Stopped /\ Stopped \subseteq Statuses \ {"absent", "verifying_close", "closed"}
    BY DEF Specialist, Stopped, Statuses
  <2>3. /\ x.number = r.number /\ x.status = Specialist(r.status) /\ x.suspended = TRUE /\ x.owner = r.owner
        /\ x.activities = r.activities /\ x.pending = r.pending /\ x.generation = r.generation
        /\ x.chat = r.chat /\ x.closed = r.closed /\ x.readback = r.readback /\ x.resolution = NoGen
    BY <1>0 DEF Case
  <2>4. x \in Case
    BY <1>0, <2>2 DEF Case
  <2>5. r.generation <= r.generation
    BY <1>0 DEF Case, Generations
  <2> HIDE DEF x
  <2>6. Kept(x, writes[k], heard[k], answered[k])
    BY <1>0, <1>2, <2>2, <2>3 DEF Kept
  <2>7. Accepts(c, k, x, heard[k], Locals(call[c], "done"))
    BY <1>0, <1>6, <2>1, <2>2, <2>3, <2>5, <2>6 DEF Accepts
  <2> QED BY <1>2, <2>4, <2>7, BooksAccepts
<1>8. CASE AcceptRejected(c, k) \/ AcceptChat(c, k)
  <2> DEFINE x == [r EXCEPT !.activities = as]
  <2>1. /\ cases' = [cases EXCEPT ![k] = x] /\ UNCHANGED <<writes, heard, answered>>
        /\ call' = [call EXCEPT ![c] = Locals(call[c], "done")]
        /\ Cardinality(r.activities) < MaxReceipts
    BY <1>0, <1>8 DEF AcceptRejected, AcceptChat, Room, Goto, history
  <2>2. /\ x.number = r.number /\ x.status = r.status /\ x.suspended = r.suspended /\ x.owner = r.owner
        /\ x.activities = as /\ x.pending = r.pending /\ x.generation = r.generation
        /\ x.chat = r.chat /\ x.closed = r.closed /\ x.readback = r.readback /\ x.resolution = r.resolution
    BY <1>0 DEF Case
  <2>3. x \in Case
    BY <1>0, <1>4 DEF Case
  <2>4. r.generation <= r.generation
    BY <1>0 DEF Case, Generations
  <2> HIDE DEF x, as
  <2>5. Kept(x, writes[k], heard[k], answered[k])
    BY <1>0, <1>2, <1>4, <2>1, <2>2 DEF Kept
  <2>6. \A n \in x.activities : n \in r.activities \/ \A j \in Keys : n \notin cases[j].activities
    BY <1>4, <2>2
  <2>7. Accepts(c, k, x, heard[k], Locals(call[c], "done"))
    BY <1>0, <1>2, <1>6, <2>1, <2>2, <2>4, <2>5, <2>6 DEF Accepts
  <2> QED BY <1>2, <2>3, <2>7, BooksAccepts
<1>9. CASE AcceptClose(c, k)
  <2> DEFINE x == [r EXCEPT !.activities = as, !.owner = c, !.status = "closing"]
             l == [Idle EXCEPT !.pc = "claim", !.key = k, !.name = Close, !.gen = r.generation]
  <2>1. /\ cases' = [cases EXCEPT ![k] = x] /\ UNCHANGED <<writes, heard, answered>>
        /\ call' = [call EXCEPT ![c] = l] /\ Cardinality(r.activities) < MaxReceipts
    BY <1>0, <1>9 DEF AcceptClose, Room, history
  <2>2. /\ r.owner = None /\ ~r.suspended /\ ~r.closed /\ r.resolution = r.generation
        /\ writes[k][Delivery(r.generation)].status = "completed"
    BY <1>9 DEF AcceptClose, CanResolve
  <2>3. /\ x.number = r.number /\ x.status = "closing" /\ x.suspended = r.suspended /\ x.owner = c
        /\ x.activities = as /\ x.pending = r.pending /\ x.generation = r.generation
        /\ x.chat = r.chat /\ x.closed = r.closed /\ x.readback = r.readback /\ x.resolution = r.resolution
    BY <1>0 DEF Case
  <2>4. x \in Case
    BY <1>0, <1>4 DEF Case, Statuses
  <2>5. r.generation \in Generations /\ r.generation # NoGen /\ r.generation <= r.generation
    BY <1>0 DEF Case, Generations, NoGen
  <2>6. l.pc = "claim" /\ l.key = k /\ l.name = Close /\ l.gen = r.generation
    BY DEF Idle
  <2>7. /\ c # None /\ Close # Create /\ Close # ClosedDelivery
        /\ Close[1] = "close" /\ heard[k] = answered[k]
    BY <1>0, <2>2, <2>5, ServiceAssumption DEF Close, Create, ClosedDelivery, Kept
  <2> HIDE DEF x, l, as
  <2>8. Kept(x, writes[k], heard[k], answered[k])
    BY <1>0, <1>2, <1>4, <2>1, <2>2, <2>3, <2>7 DEF Kept
  <2>9. Sound(l, x, writes[k], heard[k], answered[k])
    BY <1>2, <2>2, <2>3, <2>5, <2>6, <2>7 DEF Sound, Finishing, Registering, Answering, Closing, InRound, Writing
  <2>10. \A n \in x.activities : n \in r.activities \/ \A j \in Keys : n \notin cases[j].activities
    BY <1>4, <2>3
  <2>11. Accepts(c, k, x, heard[k], l)
    BY <1>0, <2>1, <2>2, <2>3, <2>5, <2>6, <2>8, <2>9, <2>10 DEF Accepts
  <2> QED BY <1>2, <2>4, <2>11, BooksAccepts
<1>10. CASE AcceptMaterial(c, k)
  <2> DEFINE queued == ~Full(r) /\ ~r.suspended
             stopped == Full(r) \/ r.suspended \/ r.closed
             g == IF queued THEN r.generation + 1 ELSE r.generation
             mine == ~stopped /\ Free(r)
             p == IF mine THEN "take" ELSE "done"
             i == [Idle EXCEPT !.key = k]
             l == Locals(i, p)
             x == cases'[k]
             h == heard[k] \cup {c}
  <2>1. /\ cases' = [cases EXCEPT ![k] = x] /\ heard' = [heard EXCEPT ![k] = h] /\ UNCHANGED <<writes, answered>>
        /\ call' = [call EXCEPT ![c] = l]
        /\ Cardinality(r.activities) < MaxReceipts
    BY <1>0, <1>10 DEF AcceptMaterial, Room
  <2>2. x \in Case
    BY <1>10, TypesAccept DEF RecordsTyped
  <2>3. /\ x.number = r.number /\ x.status = (IF stopped THEN Specialist(r.status) ELSE "investigating")
        /\ x.suspended = stopped /\ x.owner = (IF mine THEN c ELSE r.owner)
        /\ x.activities = as /\ x.pending = (IF queued THEN Append(r.pending, g) ELSE r.pending) /\ x.generation = g
        /\ x.chat = r.chat /\ x.closed = r.closed /\ x.readback = r.readback /\ x.resolution = NoGen
    BY <1>0, <1>10 DEF AcceptMaterial, Case
  <2>4. Specialist(r.status) \in Stopped /\ Stopped \subseteq Statuses \ {"absent", "verifying_close", "closed"}
    BY DEF Specialist, Stopped, Statuses
  <2>5. /\ r.generation \in Nat /\ r.generation <= g /\ (g = r.generation => ~queued) /\ (~queued => stopped)
        /\ stopped \in BOOLEAN
    BY <1>0 DEF Case, Generations, Full
  <2>6. Len(x.pending) <= MaxPending
    <3>1. r.pending \in Seq(Generations) /\ Len(r.pending) <= MaxPending
      BY <1>0 DEF Case, Kept
    <3>2. CASE queued
      <4>1. ~(Len(r.pending) >= MaxPending)
        BY <3>2 DEF Full
      <4>2. x.pending = Append(r.pending, g)
        BY <2>3, <3>2
      <4>3. Len(x.pending) = Len(r.pending) + 1
        <5> HIDE DEF g, x
        <5> QED BY <3>1, <4>2
      <4> HIDE DEF x
      <4> QED BY <3>1, <4>1, <4>3, ServiceAssumption
    <3>3. CASE ~queued
      <4>1. x.pending = r.pending
        BY <2>3, <3>3
      <4> HIDE DEF x
      <4> QED BY <3>1, <4>1
    <3> QED BY <3>2, <3>3
  <2>7. p \in {"take", "done"} /\ (p = "take" <=> mine)
    OBVIOUS
  <2>8. l.pc = p /\ (p = "take" => l.key = k)
    <3>1. i \in Local /\ i.key = k
      BY IdleFacts DEF Idle, Local
    <3> HIDE DEF i, p
    <3> QED BY <2>7, <3>1, LocalsFacts DEF Pcs
  <2>9. c # None /\ (mine => r.owner = None /\ ~stopped) /\ (~stopped => r.closed = FALSE /\ ~r.suspended)
        /\ (~stopped /\ ~mine => r.owner # None)
    BY <1>0, ServiceAssumption DEF Free, Case
  <2> HIDE DEF x, l, as, h, p, g, queued, stopped, mine
  <2>10. Kept(x, writes[k], h, answered[k])
    <3>1. ASSUME NEW n \in Names, writes[k][n].status # "none"
          PROVE  n[2] <= x.generation /\ x.number # None /\ x.chat
      <4>1. n[2] <= r.generation
        BY <1>0, <3>1 DEF Kept
      <4>2. n[2] \in Int /\ x.generation \in Int
        BY <2>2, NameKinds DEF Case, Generations
      <4> QED BY <1>2, <2>3, <2>5, <4>1, <4>2
    <3>2. IsFiniteSet(x.activities) /\ Cardinality(x.activities) <= MaxReceipts
      BY <1>4, <2>1, <2>3
    <3>3. x.closed /\ ~x.suspended => FALSE
      BY <2>3, <2>9
    <3>4. x.status # "absent" /\ x.status # "closed" /\ x.resolution = NoGen
      BY <2>3, <2>4
    <3>5. x.suspended => x.status \in Stopped
      BY <2>3, <2>4
    <3>6. x.owner = None => x.status \in Stopped
      BY <2>3, <2>4, <2>9
    <3> QED BY <1>0, <1>2, <2>3, <2>6, <3>1, <3>2, <3>3, <3>4, <3>5, <3>6 DEF Kept
  <2>11. l.pc \in Driving => l.key = k /\ Sound(l, x, writes[k], h, answered[k])
    <3>1. CASE mine
      BY <1>2, <2>3, <2>7, <2>8, <2>9, <3>1 DEF Sound, Finishing, Registering, Answering, Closing, InRound, Writing
    <3>2. CASE ~mine
      BY <2>7, <2>8, <3>2 DEF Driving
    <3> QED BY <3>1, <3>2
  <2>12. \A n \in x.activities : n \in r.activities \/ \A j \in Keys : n \notin cases[j].activities
    BY <1>4, <2>3
  <2>13. x.generation = r.generation /\ ~x.suspended => FALSE
    BY <2>3, <2>5
  <2>14. x.status # "absent" /\ (x.status = "verifying_close" => r.status = "verifying_close")
    BY <2>3, <2>4
  <2>15. Accepts(c, k, x, h, l)
    BY <2>1, <2>3, <2>5, <2>10, <2>11, <2>12, <2>13, <2>14 DEF Accepts
  <2> QED BY <1>2, <2>2, <2>15, BooksAccepts
<1> QED BY <1>7, <1>8, <1>9, <1>10

\* A call that fails, and what it leaves.
LEMMA BooksInterrupt ==
    ASSUME RecordsTyped, CallsTyped, OwnerInv, Books, NEW c \in Calls, Interrupt(c) \/ Abort(c) \/ Die(c)
    PROVE  Books'
<1>1. CASE UNCHANGED <<cases, writes>>
  BY <1>1, BooksStops DEF Interrupt, Abort, Die, history
<1>2. CASE Abort(c) /\ ~UNCHANGED <<cases, writes>>
  <2> DEFINE k == call[c].key
             r == cases[k]
             x == [r EXCEPT !.status = "write_outcome_unknown", !.suspended = TRUE, !.resolution = NoGen]
             w == [n \in Names |-> IF writes[k][n].status = "claimed" /\ writes[k][n].by = c
                                   THEN [writes[k][n] EXCEPT !.status = "unknown"] ELSE writes[k][n]]
             l == Locals(call[c], "lost")
  <2>1. k # None /\ r.owner = c /\ Goto(c, "lost") /\ call[c] \in Local /\ UNCHANGED <<heard, answered>>
    BY <1>2, CallFacts DEF Abort, history
  <2>2. k \in Keys /\ r \in Case /\ writes[k] \in [Names -> WriteType] /\ c # None
    BY <2>1, ServiceAssumption DEF Local, RecordsTyped, WriteType
  <2>3. /\ cases' = [cases EXCEPT ![k] = x] /\ writes' = [writes EXCEPT ![k] = w] /\ call' = [call EXCEPT ![c] = l]
        /\ heard' = [heard EXCEPT ![k] = heard[k]] /\ answered' = [answered EXCEPT ![k] = answered[k]]
    BY <1>2, <2>1, <2>2 DEF Abort, RecordsTyped, Goto
  <2>4. /\ x.number = r.number /\ x.status = "write_outcome_unknown" /\ x.suspended = TRUE /\ x.owner = c
        /\ x.activities = r.activities /\ x.pending = r.pending /\ x.generation = r.generation
        /\ x.chat = r.chat /\ x.closed = r.closed /\ x.readback = r.readback /\ x.resolution = NoGen
    BY <2>1, <2>2 DEF Case
  <2>5. \A n \in Names : /\ w[n].status = "none" <=> writes[k][n].status = "none"
                         /\ writes[k][n].status = "completed" => w[n].status = "completed"
    BY <2>2 DEF WriteType
  <2>6. l.pc \notin Driving
    BY <2>1, LocalsFacts DEF Pcs, Driving
  <2>7. r.status # "absent" /\ Kept(r, writes[k], heard[k], answered[k])
    BY <2>1, <2>2 DEF OwnerInv, Books
  <2>8. Create \in Names /\ Chat \in Names /\ Close \in Names
    BY NameFacts
  <2>9. Admitted' = Admitted
    <3> HIDE DEF x
    <3> QED BY <2>2, <2>3, <2>4, <2>7, SameIndex
  <2> HIDE DEF x, w, l
  <2>10. Kept(x, w, heard[k], answered[k])
    BY <2>4, <2>5, <2>7, <2>8 DEF Kept, Stopped
  <2>11. \A d \in Calls \ {c} : call[d].pc \in Driving => call[d].key # k
    BY <2>1 DEF OwnerInv, OwnersDrive
  <2>12. IsFiniteSet(Admitted') /\ Cardinality(Admitted') <= MaxCases
    BY <2>9 DEF Books
  <2>13. Changes(c, k, x, w, heard[k], answered[k], l)
    BY <2>3, <2>4, <2>6, <2>10, <2>11, <2>12 DEF Changes
  <2> QED BY <2>2, <2>13, BooksChange
<1> QED BY <1>1, <1>2 DEF Interrupt, Die

LEMMA BooksInit == Init => Books
<1> SUFFICES ASSUME Init
             PROVE  Books
  OBVIOUS
<1>1. /\ cases = [k \in Keys |-> Absent] /\ writes = [k \in Keys |-> [n \in Names |-> NoWrite]]
      /\ call = [c \in Calls |-> Idle] /\ heard = [k \in Keys |-> {}] /\ answered = [k \in Keys |-> {}]
  BY DEF Init
<1>2. Admitted = {}
  BY <1>1 DEF Admitted, Absent
<1>3. IsFiniteSet({}) /\ Cardinality({}) = 0
  BY FS_EmptySet
<1>4. /\ Absent.number = None /\ Absent.status = "absent" /\ Absent.suspended = FALSE /\ Absent.owner = None
      /\ Absent.activities = {} /\ Absent.pending = <<>> /\ Absent.generation = 0
      /\ Absent.chat = FALSE /\ Absent.closed = FALSE /\ Absent.resolution = NoGen
  BY DEF Absent
<1>5. ASSUME NEW k \in Keys
      PROVE  Kept(cases[k], writes[k], heard[k], answered[k])
  <2>1. cases[k] = Absent /\ \A n \in Names : writes[k][n].status = "none"
    BY <1>1 DEF NoWrite
  <2>2. 0 <= MaxReceipts /\ Len(<<>>) <= MaxPending
    BY ServiceAssumption
  <2> QED BY <1>3, <1>4, <2>1, <2>2 DEF Kept
<1>6. \A c \in Calls : call[c].pc \notin Driving
  BY <1>1 DEF Idle, Driving
<1>7. \A j, k \in Keys : cases[j].activities \cap cases[k].activities = {}
  BY <1>1, <1>4
<1>8. IsFiniteSet(Admitted) /\ Cardinality(Admitted) <= MaxCases
  BY <1>2, <1>3, ServiceAssumption
<1> QED BY <1>5, <1>6, <1>7, <1>8 DEF Books

LEMMA BooksStep == TypeInv /\ OwnerInv /\ Books /\ [Next]_vars => Books'
<1> SUFFICES ASSUME RecordsTyped, CallsTyped, OwnerInv, Books, [Next]_vars
             PROVE  Books'
  BY TypeParts
<1>1. CASE UNCHANGED vars
  <2>1. UNCHANGED <<cases, writes, call, heard, answered>> /\ Admitted' = Admitted
    BY <1>1 DEF vars, Admitted
  <2> QED BY <2>1 DEF Books
<1>2. ASSUME NEW c \in Calls,
             Receive(c) \/ ReceiveReply(c) \/ Interpret(c) \/ Accept(c) \/ Drive(c) \/ Interrupt(c) \/ Die(c)
      PROVE  Books'
  <2>1. CASE Receive(c) \/ ReceiveReply(c) \/ Interpret(c) \/ Accept(c) \/ Admit(c)
    BY <2>1, BooksArrives, BooksAccept, BooksAdmit DEF Accept
  <2>2. CASE Register(c) \/ Claim(c) \/ ClaimRefused(c) \/ Invoke(c) \/ Complete(c)
    BY <2>2, BooksRegister, BooksClaim, BooksRefused, BooksInvoke, BooksReceipt
  <2>3. CASE Take(c) \/ Investigate(c) \/ Record(c) \/ Block(c) \/ ChatReady(c) \/ Delivered(c)
    BY <2>3, BooksTake, BooksRound, BooksDelivered
  <2>4. CASE Verify(c) \/ Readback(c) \/ Closed(c) \/ Notified(c)
    BY <2>4, BooksClose, BooksNotified
  <2>5. CASE Interrupt(c) \/ Abort(c) \/ Die(c)
    BY <2>5, BooksInterrupt
  <2> QED BY <1>2, <2>1, <2>2, <2>3, <2>4, <2>5 DEF Drive
<1> QED BY <1>1, <1>2 DEF Next

\* The books are kept.
LEMMA BooksHold == Spec => [](TypeInv /\ OwnerInv /\ Books)
BY TypeInit, TypeStep, OwnerInit, OwnerStep, BooksInit, BooksStep, PTL DEF Spec

\* A case that shows closed was closed in Salesforce and read back, with nothing
\* queued and nothing said that the delivered answer did not take into account.
THEOREM SettledHolds == Spec => []ClosedSettled
<1>1. Books => ClosedSettled
  BY DEF Books, Kept, ClosedSettled
<1> QED BY <1>1, BooksHold, PTL

\* Queued replies never wait unseen: somebody drives their case, or it says that
\* it needs a specialist or a reconciliation.
THEOREM QueueHolds == Spec => []QueueAttended
<1>1. Books => QueueAttended
  BY DEF Books, Kept, QueueAttended, Stopped
<1> QED BY <1>1, BooksHold, PTL

\* No sequence of calls and failures leaves an index that _index refuses to read.
THEOREM IndexHolds == Spec => []IndexValid
<1>1. Books => IndexValid
  <2> SUFFICES ASSUME Books
               PROVE  IndexValid
    OBVIOUS
  <2>1. ASSUME NEW k \in Admitted
        PROVE  LET r == cases[k]
                   claimed == {n \in Names : writes[k][n].status # "none"}
               IN /\ Cardinality(r.activities) <= MaxReceipts /\ Len(r.pending) <= MaxPending
                  /\ \A n \in claimed : n[2] <= r.generation
                  /\ IF r.number # None THEN writes[k][Create].status = "completed" ELSE claimed \subseteq {Create}
                  /\ IF r.chat THEN writes[k][Chat].status = "completed"
                     ELSE \A n \in claimed : n[1] # "delivery" /\ n \notin {Close, ClosedDelivery}
                  /\ r.status = "closed" => r.closed
                  /\ r.closed => writes[k][Close].status = "completed" /\ r.readback = "Closed"
    <3>1. Kept(cases[k], writes[k], heard[k], answered[k])
      BY DEF Admitted, Books
    <3> QED BY <3>1 DEF Kept
  <2> QED BY <2>1 DEF IndexValid, Books
<1> QED BY <1>1, BooksHold, PTL

\* The Activity whose replays name different cases is recorded on one of them.
THEOREM ActivitiesApart == Spec => []ActivityOnce
<1>1. Books => ActivityOnce
  <2> SUFFICES ASSUME Books, NEW a \in Activities
               PROVE  Cardinality({k \in Keys : a \in cases[k].activities}) <= 1
    BY DEF ActivityOnce
  <2> DEFINE S == {k \in Keys : a \in cases[k].activities}
  <2>1. \A j, k \in S : j = k
    BY DEF Books
  <2>2. S = {} => Cardinality(S) <= 1
    <3>1. Cardinality({}) = 0
      BY FS_EmptySet
    <3> HIDE DEF S
    <3> QED BY <3>1
  <2>3. ASSUME NEW k \in S
        PROVE  Cardinality(S) <= 1
    <3>1. S = {k}
      BY <2>1, <2>3
    <3>2. Cardinality({k}) = 1
      BY FS_Singleton
    <3> HIDE DEF S
    <3>3. Cardinality(S) = 1
      BY <3>1, <3>2
    <3> QED BY <3>3
  <2> HIDE DEF S
  <2>4. Cardinality(S) <= 1
    <3>1. CASE S = {}
      BY <2>2, <3>1
    <3>2. CASE S # {}
      BY <2>3, <3>2
    <3> QED BY <3>1, <3>2
  <2> QED BY <2>4 DEF S
<1> QED BY <1>1, BooksHold, PTL

\* Closure is claimed only on an answer that was delivered and that took into
\* account everything the requester had said by then.
THEOREM AnswerHolds == Spec => ClosesOnAnswered
<1> DEFINE Answered == \A k \in Keys : writes'[k][Close] # writes[k][Close] /\ writes[k][Close].status = "none" =>
                           /\ heard[k] = answered[k]
                           /\ writes[k][Delivery(cases[k].generation)].status = "completed"
<1>1. TypeInv /\ OwnerInv /\ Books /\ [Next]_vars => [Answered]_vars
  <2> SUFFICES ASSUME RecordsTyped, CallsTyped, OwnerInv, Books, Next, NEW k \in Keys,
                      writes'[k][Close] # writes[k][Close], writes[k][Close].status = "none"
               PROVE  /\ heard[k] = answered[k]
                      /\ writes[k][Delivery(cases[k].generation)].status = "completed"
    BY TypeParts
  <2>1. PICK c \in Calls : Receive(c) \/ ReceiveReply(c) \/ Interpret(c) \/ Accept(c) \/ Drive(c)
                              \/ Interrupt(c) \/ Die(c)
    BY DEF Next
  <2>2. Close \in Names
    BY NameFacts
  <2>3. Claim(c)
    <3>1. CASE Invoke(c)
      BY <3>1 DEF Invoke
    <3>2. CASE Quiet(c)
      BY <3>2 DEF Quiet
    <3>3. CASE Complete(c)
      <4> DEFINE j == call[c].key
                 n == call[c].name
      <4>1. j \in Keys /\ n \in Names /\ writes[j][n].status = "claimed"
            /\ writes' = [writes EXCEPT ![j][n].status = "completed", ![j][n].at = call[c].at]
        BY <3>3, CallFacts DEF Complete, At, Driving, Local
      <4>2. j = k /\ n = Close
        BY <2>2, <4>1 DEF RecordsTyped
      <4> QED BY <4>1, <4>2
    <3>4. CASE Abort(c)
      <4> DEFINE j == call[c].key
                 w == [n \in Names |-> IF writes[j][n].status = "claimed" /\ writes[j][n].by = c
                                       THEN [writes[j][n] EXCEPT !.status = "unknown"] ELSE writes[j][n]]
      <4>1. j \in Keys /\ writes' = [writes EXCEPT ![j] = w]
        BY <3>4, CallFacts DEF Abort, RecordsTyped, Local
      <4>2. j = k
        BY <4>1 DEF RecordsTyped
      <4>3. writes'[k] = w
        BY <4>1, <4>2 DEF RecordsTyped
      <4> QED BY <2>2, <4>2, <4>3
    <3> QED BY <2>1, <3>1, <3>2, <3>3, <3>4, QuietSteps DEF Drive
  <2> DEFINE j == call[c].key
             n == call[c].name
  <2>4. call[c].pc = "claim" /\ call[c].pc \in Driving
    BY <2>3 DEF Claim, At, Driving
  <2>5. j \in Keys /\ n \in Names /\ cases[j] \in Case /\ Sound(call[c], cases[j], writes[j], heard[j], answered[j])
    BY <2>4, Drives
  <2>6. writes' = [writes EXCEPT ![j][n] = [status |-> "claimed", by |-> c, at |-> 0]] /\ Authorised(c, n)
    BY <2>3 DEF Claim
  <2>7. j = k /\ n = Close
    BY <2>2, <2>5, <2>6 DEF RecordsTyped
  <2>8. Close # Create
    BY NameFacts
  <2>9. ~cases[k].suspended /\ cases[k].generation = call[c].gen
    BY <2>6, <2>7, <2>8 DEF Authorised
  <2> QED BY <2>4, <2>5, <2>7, <2>9 DEF Sound, Closing, Writing
<1> QED BY <1>1, BooksHold, PTL DEF Spec, ClosesOnAnswered

-----------------------------------------------------------------------------
(* The claim protocol.                                                     *)

\* The write was claimed, and has no receipt.
Open(w) == w.status \in {"claimed", "unknown"}

\* One write of a case at most is open; a call that has its attempt behind it made
\* it; and an answer is delivered only once it is stored with the case.
ReceiptInv ==
    /\ \A k \in Keys : \A m, n \in Names : Open(writes[k][m]) /\ Open(writes[k][n]) => m = n
    /\ \A c \in Calls : LET l == call[c] IN
          /\ l.pc = "complete" => effects[l.key][l.name] = 1
          /\ l.pc = "claim" /\ l.name[1] = "delivery" => writes[l.key][Update(l.name[2])].status = "completed"

LEMMA ReceiptInit == Init => ReceiptInv
BY DEF Init, ReceiptInv, Open, NoWrite, Idle

LEMMA ReceiptQuiet ==
    ASSUME CallsTyped, ReceiptInv, NEW c \in Calls, Quiet(c)
    PROVE  ReceiptInv'
<1>1. PICK l : Plain(l) /\ call' = [call EXCEPT ![c] = l]
  BY DEF Quiet
<1>2. ASSUME NEW d \in Calls
      PROVE  call'[d] = call[d] \/ Plain(call'[d])
  BY <1>1 DEF CallsTyped
<1> QED BY <1>2 DEF ReceiptInv, Plain, Quiet

\* What a claiming call finds, and what its claim does.
LEMMA ClaimDoes ==
    ASSUME RecordsTyped, CallsTyped, NEW c \in Calls, Claim(c)
    PROVE  LET k == call[c].key
               n == call[c].name
           IN /\ k \in Keys /\ n \in Names /\ UNCHANGED effects
              /\ \A m \in Names : ~Open(writes[k][m])
              /\ writes[k][n].status = "none" /\ writes'[k][n].status = "claimed"
              /\ \A j \in Keys, m \in Names : <<j, m>> # <<k, n>> => writes'[j][m] = writes[j][m]
              /\ call'[c].pc = "invoke" /\ \A d \in Calls \ {c} : call'[d] = call[d]
<1> DEFINE k == call[c].key
           n == call[c].name
<1>1. k \in Keys /\ n \in Names /\ call[c] \in Local
  BY CallFacts DEF Claim, At, Driving, Local
<1>2. Locals(call[c], "invoke").pc = "invoke"
  BY <1>1, LocalsFacts DEF Pcs
<1>3. call'[c].pc = "invoke" /\ \A d \in Calls \ {c} : call'[d] = call[d]
  BY <1>2 DEF Claim, Goto, CallsTyped
<1>4. writes' = [writes EXCEPT ![k][n] = [status |-> "claimed", by |-> c, at |-> 0]]
  BY DEF Claim
<1>5. /\ writes'[k][n].status = "claimed"
      /\ \A j \in Keys, m \in Names : <<j, m>> # <<k, n>> => writes'[j][m] = writes[j][m]
  BY <1>1, <1>4 DEF RecordsTyped
<1>6. UNCHANGED effects /\ writes[k][n].status = "none" /\ \A m \in Names : ~Open(writes[k][m])
  BY DEF Claim, Unclaimed, history, Open
<1> QED BY <1>1, <1>3, <1>5, <1>6

LEMMA ReceiptClaim ==
    ASSUME RecordsTyped, CallsTyped, WriteInv, ReceiptInv, NEW c \in Calls, Claim(c)
    PROVE  ReceiptInv'
<1> DEFINE k == call[c].key
           n == call[c].name
<1>1. /\ k \in Keys /\ n \in Names /\ UNCHANGED effects
      /\ \A m \in Names : ~Open(writes[k][m])
      /\ writes[k][n].status = "none"
      /\ \A j \in Keys, m \in Names : <<j, m>> # <<k, n>> => writes'[j][m] = writes[j][m]
      /\ call'[c].pc = "invoke" /\ \A d \in Calls \ {c} : call'[d] = call[d]
  BY ClaimDoes
<1>2. ASSUME NEW j \in Keys, NEW m \in Names, NEW x \in Names, Open(writes'[j][m]), Open(writes'[j][x])
      PROVE  m = x
  BY <1>1, <1>2 DEF ReceiptInv
<1>3. ASSUME NEW d \in Calls, call'[d].pc = "complete"
      PROVE  effects'[call'[d].key][call'[d].name] = 1
  BY <1>1, <1>3 DEF ReceiptInv
<1>4. ASSUME NEW d \in Calls, call'[d].pc = "claim", call'[d].name[1] = "delivery"
      PROVE  writes'[call'[d].key][Update(call'[d].name[2])].status = "completed"
  <2> DEFINE j == call[d].key
             m == Update(call[d].name[2])
  <2>1. call'[d] = call[d] /\ writes[j][m].status = "completed"
    BY <1>1, <1>4 DEF ReceiptInv
  <2>2. j \in Keys /\ call[d].name \in Names
    BY <1>4, <2>1, CallFacts DEF Driving, Local
  <2>3. m \in Names
    BY <1>4, <2>1, <2>2, NameKinds, NameFacts
  <2>4. <<j, m>> # <<k, n>>
    BY <1>1, <2>1
  <2>5. writes'[j][m] = writes[j][m]
    BY <1>1, <2>2, <2>3, <2>4
  <2> QED BY <2>1, <2>5
<1> QED BY <1>2, <1>3, <1>4 DEF ReceiptInv

\* What an attempt finds, and what it does.
LEMMA InvokeDoes ==
    ASSUME RecordsTyped, CallsTyped, WriteInv, NEW c \in Calls, Invoke(c)
    PROVE  LET k == call[c].key
               n == call[c].name
           IN /\ k \in Keys /\ n \in Names /\ UNCHANGED writes
              /\ writes[k][n].status = "claimed" /\ writes[k][n].by = c /\ effects[k][n] = 0
              /\ effects' = [effects EXCEPT ![k][n] = 1]
              /\ call'[c].pc = "complete" /\ call'[c].key = k /\ call'[c].name = n
              /\ \A d \in Calls \ {c} : call'[d] = call[d]
<1> DEFINE k == call[c].key
           n == call[c].name
<1>1. k \in Keys /\ n \in Names /\ call[c] \in Local /\ Poised(c)
  BY CallFacts DEF Invoke, At, Driving, Local, WriteInv
<1>2. effects' = [effects EXCEPT ![k][n] = @ + 1] /\ UNCHANGED writes
  BY DEF Invoke
<1>3. effects' = [effects EXCEPT ![k][n] = 1]
  BY <1>1, <1>2 DEF Poised, RecordsTyped
<1>4. PICK x : call' = [call EXCEPT ![c].pc = "complete", ![c].number = x, ![c].at = clock']
  BY DEF Invoke
<1>5. call'[c].pc = "complete" /\ call'[c].key = k /\ call'[c].name = n /\ \A d \in Calls \ {c} : call'[d] = call[d]
  BY <1>1, <1>4 DEF CallsTyped, Local
<1> QED BY <1>1, <1>2, <1>3, <1>5 DEF Poised

LEMMA ReceiptInvoke ==
    ASSUME RecordsTyped, CallsTyped, WriteInv, ReceiptInv, NEW c \in Calls, Invoke(c)
    PROVE  ReceiptInv'
<1> DEFINE k == call[c].key
           n == call[c].name
<1>1. /\ k \in Keys /\ n \in Names /\ UNCHANGED writes
      /\ effects' = [effects EXCEPT ![k][n] = 1]
      /\ call'[c].pc = "complete" /\ call'[c].key = k /\ call'[c].name = n
      /\ \A d \in Calls \ {c} : call'[d] = call[d]
  BY InvokeDoes
<1>2. \A j \in Keys, m \in Names : effects'[j][m] = IF j = k /\ m = n THEN 1 ELSE effects[j][m]
  BY <1>1 DEF RecordsTyped
<1>3. ASSUME NEW d \in Calls, call'[d].pc = "complete"
      PROVE  effects'[call'[d].key][call'[d].name] = 1
  <2>1. CASE d = c
    BY <1>1, <1>2, <2>1
  <2>2. CASE d # c
    <3>1. call'[d] = call[d] /\ effects[call[d].key][call[d].name] = 1
      BY <1>1, <1>3, <2>2 DEF ReceiptInv
    <3>2. call[d].key \in Keys /\ call[d].name \in Names
      BY <1>3, <3>1, CallFacts DEF Driving, Local
    <3> QED BY <1>2, <3>1, <3>2
  <2> QED BY <2>1, <2>2
<1>4. ASSUME NEW d \in Calls, call'[d].pc = "claim", call'[d].name[1] = "delivery"
      PROVE  writes'[call'[d].key][Update(call'[d].name[2])].status = "completed"
  BY <1>1, <1>4 DEF ReceiptInv
<1> QED BY <1>1, <1>3, <1>4 DEF ReceiptInv

\* What a receipt finds, and what it does: it is stored, or the claim was lost.
LEMMA CompleteDoes ==
    ASSUME RecordsTyped, CallsTyped, NEW c \in Calls, Complete(c)
    PROVE  LET k == call[c].key
               n == call[c].name
               mine == cases[k].owner = c /\ writes[k][n].by = c /\ writes[k][n].status = "claimed"
           IN /\ k \in Keys /\ n \in Names /\ UNCHANGED effects
              /\ mine => /\ writes'[k][n].status = "completed"
                         /\ \A j \in Keys, m \in Names : <<j, m>> # <<k, n>> => writes'[j][m] = writes[j][m]
              /\ ~mine => writes' = writes
              /\ call'[c].pc = IF mine THEN AfterWrite(n) ELSE "abort"
              /\ call'[c].name = IF n[1] = "update" THEN Delivery(call[c].gen) ELSE n
              /\ call'[c].key = k
              /\ \A d \in Calls \ {c} : call'[d] = call[d]
<1> DEFINE k == call[c].key
           n == call[c].name
           mine == cases[k].owner = c /\ writes[k][n].by = c /\ writes[k][n].status = "claimed"
           p == IF mine THEN AfterWrite(n) ELSE "abort"
           x == IF n[1] = "update" THEN Delivery(call[c].gen) ELSE n
           s == n = ClosedDelivery
<1>1. k \in Keys /\ n \in Names /\ call[c] \in Local
  BY CallFacts DEF Complete, At, Driving, Local
<1>2. call' = [call EXCEPT ![c].pc = p, ![c].name = x, ![c].at = 0, ![c].sent = s]
  BY DEF Complete
<1>3. call'[c].pc = p /\ call'[c].name = x /\ call'[c].key = k /\ \A d \in Calls \ {c} : call'[d] = call[d]
  <2> HIDE DEF p, x, s
  <2> QED BY <1>1, <1>2 DEF CallsTyped, Local
<1>4. CASE mine
  <2>1. writes' = [writes EXCEPT ![k][n].status = "completed", ![k][n].at = call[c].at]
    BY <1>4 DEF Complete
  <2> DEFINE w == writes[k][n]
  <2>2. w \in WriteType /\ writes \in [Keys -> [Names -> WriteType]]
    BY <1>1 DEF RecordsTyped, WriteType
  <2>3. writes'[k][n] = [w EXCEPT !.status = "completed", !.at = call[c].at]
    BY <1>1, <2>1, <2>2
  <2>4. [w EXCEPT !.status = "completed", !.at = call[c].at].status = "completed"
    <3> HIDE DEF w
    <3> QED BY <2>2 DEF WriteType
  <2>5. \A j \in Keys, m \in Names : <<j, m>> # <<k, n>> => writes'[j][m] = writes[j][m]
    BY <1>1, <2>1, <2>2
  <2> QED BY <1>1, <1>3, <1>4, <2>3, <2>4, <2>5 DEF Complete, history
<1>5. CASE ~mine
  BY <1>1, <1>3, <1>5 DEF Complete, history
<1> QED BY <1>4, <1>5

LEMMA ReceiptComplete ==
    ASSUME RecordsTyped, CallsTyped, OwnerInv, Books, ReceiptInv, NEW c \in Calls, Complete(c)
    PROVE  ReceiptInv'
<1> DEFINE k == call[c].key
           n == call[c].name
           mine == cases[k].owner = c /\ writes[k][n].by = c /\ writes[k][n].status = "claimed"
<1>1. /\ k \in Keys /\ n \in Names /\ UNCHANGED effects
      /\ mine => /\ writes'[k][n].status = "completed"
                 /\ \A j \in Keys, m \in Names : <<j, m>> # <<k, n>> => writes'[j][m] = writes[j][m]
      /\ ~mine => writes' = writes
      /\ call'[c].pc = IF mine THEN AfterWrite(n) ELSE "abort"
      /\ call'[c].name = IF n[1] = "update" THEN Delivery(call[c].gen) ELSE n
      /\ call'[c].key = k
      /\ \A d \in Calls \ {c} : call'[d] = call[d]
  BY CompleteDoes
<1>2. \A j \in Keys, m \in Names : /\ Open(writes'[j][m]) => Open(writes[j][m])
                                   /\ writes[j][m].status = "completed" => writes'[j][m].status = "completed"
  <2>1. CASE mine
    BY <1>1, <2>1 DEF Open
  <2>2. CASE ~mine
    BY <1>1, <2>2
  <2> QED BY <2>1, <2>2
<1>3. AfterWrite(n) # "complete" /\ (AfterWrite(n) = "claim" => n[1] = "update")
  BY <1>1, NameFacts DEF AfterWrite
<1>4. ASSUME NEW d \in Calls, call'[d].pc = "complete"
      PROVE  effects'[call'[d].key][call'[d].name] = 1
  <2>1. d # c
    BY <1>1, <1>3, <1>4
  <2> QED BY <1>1, <1>4, <2>1 DEF ReceiptInv
<1>5. ASSUME NEW d \in Calls, call'[d].pc = "claim", call'[d].name[1] = "delivery"
      PROVE  writes'[call'[d].key][Update(call'[d].name[2])].status = "completed"
  <2>1. CASE d = c
    <3>1. mine /\ n[1] = "update" /\ call'[c].name = Delivery(call[c].gen)
      BY <1>1, <1>3, <1>5, <2>1
    <3>2. n[2] = call[c].gen
      <4>1. Sound(call[c], cases[k], writes[k], heard[k], answered[k])
        BY Drives DEF Complete, At, Driving
      <4> QED BY <3>1, <4>1 DEF Sound, Answering, Writing, Complete, At
    <3>3. n = Update(call'[c].name[2])
      BY <1>1, <3>1, <3>2 DEF Names, Create, Chat, Close, ClosedDelivery, Update, Delivery
    <3> QED BY <1>1, <2>1, <3>1, <3>3
  <2>2. CASE d # c
    <3> DEFINE j == call[d].key
               m == Update(call[d].name[2])
    <3>1. call'[d] = call[d] /\ writes[j][m].status = "completed"
      BY <1>1, <1>5, <2>2 DEF ReceiptInv
    <3>2. j \in Keys /\ call[d].name \in Names
      BY <1>5, <3>1, CallFacts DEF Driving, Local
    <3>3. m \in Names
      BY <1>5, <3>1, <3>2, NameKinds, NameFacts
    <3> QED BY <1>2, <3>1, <3>2, <3>3
  <2> QED BY <2>1, <2>2
<1> QED BY <1>2, <1>4, <1>5 DEF ReceiptInv

\* The marker of an interruption: claims of the call become unknown, nothing else
\* of any write changes.
LEMMA AbortDoes ==
    ASSUME RecordsTyped, CallsTyped, NEW c \in Calls, Abort(c)
    PROVE  /\ UNCHANGED effects
           /\ \A j \in Keys, m \in Names :
                 \/ writes'[j][m] = writes[j][m]
                 \/ writes[j][m].status = "claimed" /\ writes'[j][m].status = "unknown"
           /\ \A j \in Keys : j # call[c].key => writes'[j] = writes[j]
           /\ writes' \in [Keys -> [Names -> WriteType]]
           /\ call'[c].pc = "lost" /\ \A d \in Calls \ {c} : call'[d] = call[d]
<1>1. call[c] \in Local /\ UNCHANGED effects /\ Goto(c, "lost")
  BY CallFacts DEF Abort, history
<1>2. Locals(call[c], "lost").pc = "lost"
  BY <1>1, LocalsFacts DEF Pcs
<1>3. call'[c].pc = "lost" /\ \A d \in Calls \ {c} : call'[d] = call[d]
  BY <1>1, <1>2 DEF Goto, CallsTyped
<1>0. writes \in [Keys -> [Names -> WriteType]]
  BY DEF RecordsTyped, WriteType
<1>4. CASE writes' = writes
  BY <1>0, <1>1, <1>3, <1>4
<1>5. CASE writes' # writes
  <2> DEFINE k == call[c].key
             w == [n \in Names |-> IF writes[k][n].status = "claimed" /\ writes[k][n].by = c
                                   THEN [writes[k][n] EXCEPT !.status = "unknown"] ELSE writes[k][n]]
  <2>1. k # None /\ writes' = [writes EXCEPT ![k] = w]
    BY <1>5 DEF Abort
  <2>2. k \in Keys
    BY <1>1, <2>1 DEF Local
  <2>3. \A m \in Names : /\ w[m] \in WriteType
                         /\ \/ w[m] = writes[k][m]
                            \/ writes[k][m].status = "claimed" /\ w[m].status = "unknown"
    BY <1>0, <2>2 DEF WriteType
  <2>4. w \in [Names -> WriteType]
    BY <2>3
  <2> HIDE DEF w
  <2>5. writes' \in [Keys -> [Names -> WriteType]]
    BY <1>0, <2>1, <2>2, <2>4
  <2>6. ASSUME NEW j \in Keys, NEW m \in Names
        PROVE  \/ writes'[j][m] = writes[j][m]
               \/ writes[j][m].status = "claimed" /\ writes'[j][m].status = "unknown"
    BY <1>0, <2>1, <2>2, <2>3
  <2>7. \A j \in Keys : j # k => writes'[j] = writes[j]
    BY <1>0, <2>1, <2>2
  <2> QED BY <1>1, <1>3, <2>5, <2>6, <2>7
<1> QED BY <1>4, <1>5

LEMMA ReceiptAbort ==
    ASSUME RecordsTyped, CallsTyped, ReceiptInv, NEW c \in Calls, Abort(c)
    PROVE  ReceiptInv'
<1>1. /\ UNCHANGED effects
      /\ \A j \in Keys, m \in Names :
            \/ writes'[j][m] = writes[j][m]
            \/ writes[j][m].status = "claimed" /\ writes'[j][m].status = "unknown"
      /\ call'[c].pc = "lost" /\ \A d \in Calls \ {c} : call'[d] = call[d]
  BY AbortDoes
<1>2. \A j \in Keys, m \in Names : /\ Open(writes'[j][m]) => Open(writes[j][m])
                                   /\ writes[j][m].status = "completed" => writes'[j][m].status = "completed"
  BY <1>1 DEF Open
<1>3. ASSUME NEW d \in Calls, call'[d].pc = "complete"
      PROVE  effects'[call'[d].key][call'[d].name] = 1
  BY <1>1, <1>3 DEF ReceiptInv
<1>4. ASSUME NEW d \in Calls, call'[d].pc = "claim", call'[d].name[1] = "delivery"
      PROVE  writes'[call'[d].key][Update(call'[d].name[2])].status = "completed"
  <2> DEFINE j == call[d].key
             m == Update(call[d].name[2])
  <2>1. call'[d] = call[d] /\ writes[j][m].status = "completed"
    BY <1>1, <1>4 DEF ReceiptInv
  <2>2. j \in Keys /\ call[d].name \in Names
    BY <1>4, <2>1, CallFacts DEF Driving, Local
  <2>3. m \in Names
    BY <1>4, <2>1, <2>2, NameKinds, NameFacts
  <2> QED BY <1>2, <2>1, <2>2, <2>3
<1> QED BY <1>2, <1>3, <1>4 DEF ReceiptInv

LEMMA ReceiptStep == TypeInv /\ WriteInv /\ OwnerInv /\ Books /\ ReceiptInv /\ [Next]_vars => ReceiptInv'
<1> SUFFICES ASSUME RecordsTyped, CallsTyped, WriteInv, OwnerInv, Books, ReceiptInv, [Next]_vars
             PROVE  ReceiptInv'
  BY TypeParts
<1>1. CASE UNCHANGED vars
  BY <1>1 DEF vars, ReceiptInv
<1>2. ASSUME NEW c \in Calls,
             Receive(c) \/ ReceiveReply(c) \/ Interpret(c) \/ Accept(c) \/ Drive(c) \/ Interrupt(c) \/ Die(c)
      PROVE  ReceiptInv'
  <2>1. CASE Claim(c) \/ Invoke(c) \/ Complete(c) \/ Abort(c)
    BY <2>1, ReceiptClaim, ReceiptInvoke, ReceiptComplete, ReceiptAbort
  <2>2. CASE ~(Claim(c) \/ Invoke(c) \/ Complete(c) \/ Abort(c))
    <3>1. Quiet(c)
      BY <1>2, <2>2, QuietSteps DEF Drive
    <3> QED BY <3>1, ReceiptQuiet
  <2> QED BY <2>1, <2>2
<1> QED BY <1>1, <1>2 DEF Next

\* What a claim stands on: the writes it follows have their receipts.
LEMMA ClaimFollows ==
    ASSUME RecordsTyped, CallsTyped, OwnerInv, Books, ReceiptInv, NEW c \in Calls, Claim(c)
    PROVE  Follows(call[c].name, {m \in Names : writes[call[c].key][m].status = "completed"})
<1> DEFINE l == call[c]
           k == call[c].key
           n == call[c].name
           C == {m \in Names : writes[k][m].status = "completed"}
<1>1. l.pc = "claim" /\ l.pc \in Driving
  BY DEF Claim, At, Driving
<1>2. /\ n \in Names /\ k \in Keys /\ l \in Local /\ Kept(cases[k], writes[k], heard[k], answered[k])
      /\ Sound(l, cases[k], writes[k], heard[k], answered[k])
  BY <1>1, Drives
<1>3. CASE n = Create
  BY <1>3, NameFacts DEF Follows
<1>4. CASE n = Chat
  <2>1. cases[k].number # None
    BY <1>1, <1>2, <1>4, NameFacts DEF Sound, Registering, Writing
  <2>2. Create \in C
    BY <1>2, <2>1, NameFacts DEF Kept
  <2> QED BY <1>4, <2>2, NameFacts DEF Follows
<1>5. CASE n[1] = "update"
  <2>1. cases[k].chat
    BY <1>1, <1>2, <1>5 DEF Sound, Answering, Writing
  <2>2. Chat \in C
    BY <1>2, <2>1, NameFacts DEF Kept
  <2> QED BY <1>5, <2>2, NameFacts DEF Follows
<1>6. CASE n[1] = "delivery"
  <2>1. writes[k][Update(n[2])].status = "completed"
    BY <1>1, <1>6 DEF ReceiptInv
  <2>2. Update(n[2]) \in C
    BY <1>2, <1>6, <2>1, NameKinds, NameFacts
  <2> QED BY <1>6, <2>2, NameFacts DEF Follows
<1>7. CASE n = Close
  <2>1. l.gen \in Generations /\ writes[k][Delivery(l.gen)].status = "completed"
    BY <1>1, <1>2, <1>7 DEF Sound, Closing, Writing
  <2>2. Delivery(l.gen) \in C
    BY <2>1, NameFacts
  <2> QED BY <1>7, <2>1, <2>2, NameFacts DEF Follows
<1>8. CASE n = ClosedDelivery
  <2>1. cases[k].closed
    BY <1>1, <1>2, <1>8 DEF Sound, Finishing, Writing
  <2>2. Close \in C
    BY <1>2, <2>1, NameFacts DEF Kept
  <2> QED BY <1>8, <2>2, NameFacts DEF Follows
<1> QED BY <1>2, <1>3, <1>4, <1>5, <1>6, <1>7, <1>8, NameKinds, NameFacts

\* What the claim protocol sees of the writes.
Recorded == [k \in Keys |-> [n \in Names |-> writes[k][n].status]]

\* A step that changes one status.
LEMMA OneStatus ==
    ASSUME NEW k \in Keys, NEW n \in Names, NEW x, writes'[k][n].status = x,
           \A j \in Keys, m \in Names : <<j, m>> # <<k, n>> => writes'[j][m].status = writes[j][m].status
    PROVE  Recorded' = [Recorded EXCEPT ![k][n] = x]
<1> DEFINE P == [j \in Keys |-> [m \in Names |-> writes[j][m].status]]
           Q == [j \in Keys |-> [m \in Names |-> writes'[j][m].status]]
           E == [P EXCEPT ![k] = [P[k] EXCEPT ![n] = x]]
<1>1. Q[k] = [P[k] EXCEPT ![n] = x]
  OBVIOUS
<1>2. \A j \in Keys \ {k} : Q[j] = P[j]
  OBVIOUS
<1>3. E = [j \in Keys |-> IF j = k THEN [P[k] EXCEPT ![n] = x] ELSE P[j]]
  OBVIOUS
<1>4. Q = [j \in Keys |-> Q[j]]
  OBVIOUS
<1>5. Q = E
  <2> HIDE DEF P, Q, E
  <2> QED BY <1>1, <1>2, <1>3, <1>4
<1> QED BY <1>5 DEF Recorded

\* ComplianceService implements the claim protocol, with what each write follows:
\* a claim before the attempt and none beside it, one attempt, its receipt or its
\* doubt, and no other change of any write, whatever calls interleave, fail or die.
THEOREM WritesKeepClaims == Spec => WritesClaimed
<1>1. Init => Claims!Init
  BY DEF Init, Claims!Init, NoWrite
<1>2. TypeInv /\ WriteInv /\ OwnerInv /\ Books /\ ReceiptInv /\ [Next]_vars => [Claims!Next]_(Claims!claims)
  <2> SUFFICES ASSUME RecordsTyped, CallsTyped, WriteInv, OwnerInv, Books, ReceiptInv, [Next]_vars
               PROVE  Claims!Next \/ (Recorded' = Recorded /\ effects' = effects)
    BY TypeParts DEF Claims!claims, Recorded
  <2>1. CASE UNCHANGED <<writes, effects>>
    BY <2>1 DEF Recorded
  <2>2. ASSUME NEW c \in Calls, Claim(c)
        PROVE  Claims!Next
    <3>0. PICK k, n : k = call[c].key /\ n = call[c].name
      OBVIOUS
    <3>1. /\ k \in Keys /\ n \in Names /\ UNCHANGED effects
          /\ \A m \in Names : ~Open(writes[k][m])
          /\ writes[k][n].status = "none" /\ writes'[k][n].status = "claimed"
          /\ \A j \in Keys, m \in Names : <<j, m>> # <<k, n>> => writes'[j][m] = writes[j][m]
      BY <2>2, <3>0, ClaimDoes
    <3>2. Recorded' = [Recorded EXCEPT ![k][n] = "claimed"]
      BY <3>1, OneStatus
    <3>3. Recorded' # Recorded
      BY <3>1, <3>2 DEF Recorded
    <3>4. Follows(n, {m \in Names : Recorded[k][m] = "completed"})
      <4>1. {m \in Names : Recorded[k][m] = "completed"} = {m \in Names : writes[k][m].status = "completed"}
        BY <3>1 DEF Recorded
      <4> QED BY <2>2, <3>0, <4>1, ClaimFollows
    <3>5. \A m \in Names : Recorded[k][m] \notin {"claimed", "unknown"}
      BY <3>1 DEF Open, Recorded
    <3>6. Recorded[k][n] = "none"
      BY <3>1 DEF Recorded
    <3>7. Claims!Claim(k, n)
      BY <3>2, <3>4, <3>5, <3>6 DEF Claims!Claim, Claims!Settled, Claims!Completed, Recorded
    <3> QED BY <3>1, <3>3, <3>7 DEF Claims!Next
  <2>3. ASSUME NEW c \in Calls, Invoke(c)
        PROVE  Claims!Next
    <3>0. PICK k, n : k = call[c].key /\ n = call[c].name
      OBVIOUS
    <3>1. /\ k \in Keys /\ n \in Names /\ UNCHANGED writes
          /\ writes[k][n].status = "claimed" /\ effects[k][n] = 0
          /\ effects' = [effects EXCEPT ![k][n] = 1]
      BY <2>3, <3>0, InvokeDoes
    <3>2. effects' # effects /\ Recorded' = Recorded
      BY <3>1 DEF RecordsTyped, Recorded
    <3>3. Claims!Attempt(k, n)
      BY <3>1 DEF Claims!Attempt
    <3> QED BY <3>1, <3>2, <3>3 DEF Claims!Next
  <2>4. ASSUME NEW c \in Calls, Complete(c), writes' # writes
        PROVE  Claims!Next
    <3>0. PICK k, n : k = call[c].key /\ n = call[c].name
      OBVIOUS
    <3>1. /\ k \in Keys /\ n \in Names /\ UNCHANGED effects
          /\ writes[k][n].status = "claimed" /\ writes'[k][n].status = "completed"
          /\ \A j \in Keys, m \in Names : <<j, m>> # <<k, n>> => writes'[j][m] = writes[j][m]
      BY <2>4, <3>0, CompleteDoes
    <3>2. Recorded' = [Recorded EXCEPT ![k][n] = "completed"]
      BY <3>1, OneStatus
    <3>3. Recorded' # Recorded /\ Recorded[k][n] = "claimed"
      BY <3>1, <3>2 DEF Recorded
    <3>4. effects[k][n] = 1
      BY <2>4, <3>0 DEF Complete, At, ReceiptInv
    <3>5. Claims!Complete(k, n)
      BY <3>2, <3>3, <3>4 DEF Claims!Complete, Recorded
    <3> QED BY <3>1, <3>3, <3>5 DEF Claims!Next
  <2>5. ASSUME NEW c \in Calls, Abort(c), Recorded' # Recorded
        PROVE  Claims!Next
    <3>1. /\ UNCHANGED effects
          /\ \A j \in Keys, m \in Names :
                \/ writes'[j][m] = writes[j][m]
                \/ writes[j][m].status = "claimed" /\ writes'[j][m].status = "unknown"
          /\ \A j \in Keys : j # call[c].key => writes'[j] = writes[j]
      BY <2>5, AbortDoes
    <3>2. PICK k \in Keys, n \in Names : writes'[k][n].status # writes[k][n].status
      BY <2>5 DEF Recorded
    <3>3. writes[k][n].status = "claimed" /\ writes'[k][n].status = "unknown" /\ k = call[c].key
      BY <3>1, <3>2
    <3>4. ASSUME NEW j \in Keys, NEW m \in Names, <<j, m>> # <<k, n>>
          PROVE  writes'[j][m].status = writes[j][m].status
      BY <3>1, <3>3, <3>4 DEF ReceiptInv, Open
    <3>5. Recorded' = [Recorded EXCEPT ![k][n] = "unknown"]
      BY <3>2, <3>3, <3>4, OneStatus
    <3>6. Claims!Doubt(k, n)
      BY <3>3, <3>5 DEF Claims!Doubt, Recorded
    <3> QED BY <2>5, <3>1, <3>2, <3>6 DEF Claims!Next
  <2>6. CASE UNCHANGED vars
    BY <2>6, <2>1 DEF vars
  <2>7. CASE Next
    <3>1. PICK c \in Calls : \/ Receive(c) \/ ReceiveReply(c) \/ Interpret(c) \/ Accept(c) \/ Drive(c)
                             \/ Interrupt(c) \/ Die(c)
      BY <2>7 DEF Next
    <3>2. CASE Claim(c) \/ Invoke(c)
      BY <3>2, <2>2, <2>3
    <3>3. CASE Complete(c)
      <4>1. UNCHANGED effects
        BY <3>3, CompleteDoes
      <4> QED BY <3>3, <4>1, <2>1, <2>4
    <3>4. CASE Abort(c)
      <4>1. UNCHANGED effects
        BY <3>4, AbortDoes
      <4> QED BY <3>4, <4>1, <2>5
    <3>5. CASE ~(Claim(c) \/ Invoke(c) \/ Complete(c) \/ Abort(c))
      <4>1. Quiet(c)
        BY <3>1, <3>5, QuietSteps DEF Drive
      <4> QED BY <4>1, <2>1 DEF Quiet
    <3> QED BY <3>2, <3>3, <3>4, <3>5
  <2> QED BY <2>6, <2>7
<1> QED BY <1>1, <1>2, TypeInit, TypeStep, WriteInit, WriteStep, OwnerInit, OwnerStep, BooksInit, BooksStep,
           ReceiptInit, ReceiptStep, PTL DEF Spec, WritesClaimed, Claims!Spec

\* The protocol's own theorems, about the writes.
Protocol == INSTANCE ClaimedEffectsProofs WITH
    Objects <- Keys, Effects <- Names, Ready <- Follows,
    record <- [k \in Keys |-> [n \in Names |-> writes[k][n].status]], done <- effects

LEMMA ProtocolKept == Spec => Protocol!Spec
<1>1. Claims!Init => Protocol!Init
  BY DEF Claims!Init, Protocol!Init
<1>2. [Claims!Next]_(Claims!claims) => [Protocol!Next]_(Protocol!claims)
  BY DEF Claims!Next, Protocol!Next, Claims!claims, Protocol!claims, Claims!Claim, Protocol!Claim,
         Claims!Attempt, Protocol!Attempt, Claims!Complete, Protocol!Complete, Claims!Doubt, Protocol!Doubt,
         Claims!Refuse, Protocol!Refuse, Claims!Settled, Protocol!Settled, Claims!Completed, Protocol!Completed
<1> QED BY <1>1, <1>2, WritesKeepClaims, PTL DEF Claims!Spec, Protocol!Spec, WritesClaimed

\* A write whose outcome is unknown stops its case: no other write of the case is
\* attempted ever again, by whatever call.
THEOREM DoubtStopsCase == Spec => Claims!NothingBuiltOnDoubt
<1>1. Protocol!NothingBuiltOnDoubt => Claims!NothingBuiltOnDoubt
  BY PTL DEF Protocol!NothingBuiltOnDoubt, Claims!NothingBuiltOnDoubt, Protocol!claims, Claims!claims
<1> QED BY <1>1, ProtocolKept, Protocol!DoubtStops, PTL

\* Whatever was claimed, and whatever became of it, the writes that it waits for
\* have their receipts: no answer is delivered that is not stored with its case, and
\* no case closed without an answer that was delivered.
THEOREM WritesFollow == Spec => []Claims!FollowsCompleted
<1>1. \A n \in Names : \A C, D \in SUBSET Names : C \subseteq D /\ Follows(n, C) => Follows(n, D)
  <2> SUFFICES ASSUME NEW n \in Names, NEW C \in SUBSET Names, NEW D \in SUBSET Names, C \subseteq D, Follows(n, C)
               PROVE  Follows(n, D)
    OBVIOUS
  <2>1. CASE n \in {Create, Chat, Close, ClosedDelivery}
    BY <2>1, NameFacts DEF Follows, Create, Chat, Close, ClosedDelivery
  <2>2. CASE n[1] = "update" \/ n[1] = "delivery"
    BY <2>2, NameFacts DEF Follows, Create, Chat, Close, ClosedDelivery
  <2> QED BY <2>1, <2>2 DEF Names
<1>2. Protocol!Spec => []Protocol!FollowsCompleted
  BY <1>1, Protocol!OrderHolds
<1>3. Protocol!FollowsCompleted => Claims!FollowsCompleted
  BY DEF Protocol!FollowsCompleted, Claims!FollowsCompleted, Protocol!Completed, Claims!Completed
<1> QED BY <1>2, <1>3, ProtocolKept, PTL
=============================================================================
