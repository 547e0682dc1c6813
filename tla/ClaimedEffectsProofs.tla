-------------------------- MODULE ClaimedEffectsProofs --------------------------
(* What the claim protocol guarantees whoever keeps to it: the record is true,   *)
(* one effect at most is open, an uncertain one stops its object, and every      *)
(* effect follows completed ones.                                                *)
EXTENDS ClaimedEffects, TLAPS

Protocol == TypeOK /\ RecordTrue /\ OneOpen

\* A step changes one effect of the record, or turns some down that were not
\* attempted, or attempts one.
LEMMA StepKinds ==
    ASSUME TypeOK, Next
    PROVE  \/ /\ UNCHANGED done
              /\ \E o \in Objects, e \in Effects, x \in {"claimed", "completed", "unknown"} :
                    /\ record' = [record EXCEPT ![o][e] = x]
                    /\ x = "claimed" => record[o][e] = "none" /\ Settled(o) /\ Ready(e, Completed(o))
                    /\ x # "claimed" => record[o][e] = "claimed"
                    /\ x = "completed" => done[o][e] = 1
           \/ Refuse /\ UNCHANGED done
           \/ /\ UNCHANGED record
              /\ \E o \in Objects, e \in Effects :
                    record[o][e] = "claimed" /\ done[o][e] = 0 /\ done' = [done EXCEPT ![o][e] = 1]
<1>1. ASSUME NEW o \in Objects, NEW e \in Effects, UNCHANGED done, Claim(o, e) \/ Complete(o, e) \/ Doubt(o, e)
      PROVE  \E x \in {"claimed", "completed", "unknown"} :
                 /\ record' = [record EXCEPT ![o][e] = x]
                 /\ x = "claimed" => record[o][e] = "none" /\ Settled(o) /\ Ready(e, Completed(o))
                 /\ x # "claimed" => record[o][e] = "claimed"
                 /\ x = "completed" => done[o][e] = 1
  <2>1. CASE Claim(o, e)
    BY <2>1 DEF Claim
  <2>2. CASE Complete(o, e)
    BY <2>2 DEF Complete
  <2>3. CASE Doubt(o, e)
    BY <2>3 DEF Doubt
  <2> QED BY <1>1, <2>1, <2>2, <2>3
<1> QED BY <1>1 DEF Next, Attempt

LEMMA ProtocolInit == Init => Protocol
BY DEF Init, Protocol, TypeOK, Statuses, RecordTrue, OneOpen

\* What a step of the record does to each effect.
LEMMA RecordStep ==
    ASSUME TypeOK, NEW o \in Objects, NEW e \in Effects, NEW x \in {"claimed", "completed", "unknown"},
           record' = [record EXCEPT ![o][e] = x]
    PROVE  /\ record' \in [Objects -> [Effects -> Statuses]]
           /\ \A p \in Objects, f \in Effects : record'[p][f] = IF p = o /\ f = e THEN x ELSE record[p][f]
BY DEF TypeOK, Statuses

LEMMA ProtocolStep == Protocol /\ [Next]_claims => Protocol'
<1> SUFFICES ASSUME TypeOK, RecordTrue, OneOpen, [Next]_claims PROVE Protocol'
  BY DEF Protocol
<1>1. CASE UNCHANGED claims
  BY <1>1 DEF claims, Protocol, TypeOK, RecordTrue, OneOpen
<1>2. ASSUME NEW o \in Objects, NEW e \in Effects, NEW x \in {"claimed", "completed", "unknown"}, UNCHANGED done,
             record' = [record EXCEPT ![o][e] = x],
             x = "claimed" => record[o][e] = "none" /\ Settled(o),
             x # "claimed" => record[o][e] = "claimed",
             x = "completed" => done[o][e] = 1
      PROVE  Protocol'
  <2>1. /\ record' \in [Objects -> [Effects -> Statuses]]
        /\ \A p \in Objects, f \in Effects : record'[p][f] = IF p = o /\ f = e THEN x ELSE record[p][f]
    <3>1. record' = [record EXCEPT ![o][e] = x]
      BY <1>2
    <3> QED BY <3>1 DEF TypeOK, Statuses
  <2>2. TypeOK'
    BY <1>2, <2>1 DEF TypeOK
  <2>3. RecordTrue'
    BY <1>2, <2>1 DEF RecordTrue
  <2>4. OneOpen'
    BY <1>2, <2>1 DEF OneOpen, Settled
  <2> QED BY <2>2, <2>3, <2>4 DEF Protocol
<1>3. CASE Refuse /\ UNCHANGED done
  <2>1. record' \in [Objects -> [Effects -> Statuses]]
    BY <1>3 DEF Refuse, Statuses
  <2>2. \A p \in Objects, f \in Effects : record'[p][f] = record[p][f] \/ (record'[p][f] = "refused" /\ done[p][f] = 0)
    BY <1>3 DEF Refuse
  <2> QED BY <1>3, <2>1, <2>2 DEF Protocol, TypeOK, RecordTrue, OneOpen
<1>4. ASSUME NEW o \in Objects, NEW e \in Effects, UNCHANGED record,
             record[o][e] = "claimed", done[o][e] = 0, done' = [done EXCEPT ![o][e] = 1]
      PROVE  Protocol'
  <2>1. \A p \in Objects, f \in Effects : done'[p][f] = IF p = o /\ f = e THEN 1 ELSE done[p][f]
    BY <1>4 DEF TypeOK
  <2>2. done' \in [Objects -> [Effects -> 0..1]]
    BY <1>4 DEF TypeOK
  <2> QED BY <1>4, <2>1, <2>2 DEF Protocol, TypeOK, RecordTrue, OneOpen
<1> QED BY <1>1, <1>2, <1>3, <1>4, StepKinds

\* Whoever keeps to the protocol keeps a true record: what is not claimed or was
\* refused was not attempted, what has a receipt was, and one effect of an object at
\* most is claimed or uncertain.
THEOREM ProtocolHolds == Spec => [](TypeOK /\ RecordTrue /\ OneOpen)
<1>1. Protocol => TypeOK /\ RecordTrue /\ OneOpen
  BY DEF Protocol
<1> QED BY <1>1, ProtocolInit, ProtocolStep, PTL DEF Spec

\* Once an outcome is uncertain, no effect of its object is attempted ever again; and
\* what was attempted is never attempted again, nor forgotten.
THEOREM DoubtStops == Spec => NothingBuiltOnDoubt
<1> DEFINE Stops == \A o \in Objects, e \in Effects :
                       /\ done[o][e] > 0 => record'[o][e] # "none" /\ done'[o][e] = done[o][e]
                       /\ record[o][e] = "unknown" => UNCHANGED <<record[o][e], done[o]>>
<1>1. ASSUME TypeOK, RecordTrue, OneOpen, Next PROVE Stops
  <2> SUFFICES ASSUME NEW p \in Objects, NEW f \in Effects
               PROVE  /\ done[p][f] > 0 => record'[p][f] # "none" /\ done'[p][f] = done[p][f]
                      /\ record[p][f] = "unknown" => record'[p][f] = record[p][f] /\ done'[p] = done[p]
    OBVIOUS
  <2>0. done[p][f] \in 0..1 /\ (done[p][f] > 0 => record[p][f] # "none")
    BY <1>1 DEF TypeOK, RecordTrue
  <2>1. ASSUME NEW o \in Objects, NEW e \in Effects, NEW x \in {"claimed", "completed", "unknown"}, UNCHANGED done,
               record' = [record EXCEPT ![o][e] = x],
               x = "claimed" => record[o][e] = "none",
               x # "claimed" => record[o][e] = "claimed"
        PROVE  /\ done[p][f] > 0 => record'[p][f] # "none" /\ done'[p][f] = done[p][f]
               /\ record[p][f] = "unknown" => record'[p][f] = record[p][f] /\ done'[p] = done[p]
    <3>1. record'[p][f] = IF p = o /\ f = e THEN x ELSE record[p][f]
      BY <1>1, <2>1, RecordStep
    <3> QED BY <2>0, <2>1, <3>1
  <2>2. CASE Refuse /\ UNCHANGED done
    BY <2>0, <2>2 DEF Refuse
  <2>3. ASSUME NEW o \in Objects, NEW e \in Effects, UNCHANGED record,
               record[o][e] = "claimed", done[o][e] = 0, done' = [done EXCEPT ![o][e] = 1]
        PROVE  /\ done[p][f] > 0 => record'[p][f] # "none" /\ done'[p][f] = done[p][f]
               /\ record[p][f] = "unknown" => record'[p][f] = record[p][f] /\ done'[p] = done[p]
    <3>1. record[p][f] = "unknown" => p # o
      BY <1>1, <2>3 DEF OneOpen
    <3>2. done'[p][f] = IF p = o /\ f = e THEN 1 ELSE done[p][f]
      BY <1>1, <2>3 DEF TypeOK
    <3>3. p # o => done'[p] = done[p]
      BY <1>1, <2>3 DEF TypeOK
    <3> QED BY <2>0, <2>3, <3>1, <3>2, <3>3
  <2> QED BY <1>1, <2>1, <2>2, <2>3, StepKinds
<1>2. TypeOK /\ RecordTrue /\ OneOpen /\ [Next]_claims => [Stops]_claims
  BY <1>1
<1> QED BY <1>2, ProtocolHolds, PTL DEF Spec, NothingBuiltOnDoubt

\* When more completed effects never forbid one, whatever is claimed, uncertain or
\* completed follows what is completed, at any time and not only when it was claimed.
THEOREM OrderHolds ==
    ASSUME \A e \in Effects : \A C, D \in SUBSET Effects : C \subseteq D /\ Ready(e, C) => Ready(e, D)
    PROVE  Spec => []FollowsCompleted
<1>1. Init => FollowsCompleted
  BY DEF Init, FollowsCompleted
<1>2. TypeOK /\ FollowsCompleted /\ [Next]_claims => FollowsCompleted'
  <2> SUFFICES ASSUME TypeOK, FollowsCompleted, [Next]_claims, NEW p \in Objects, NEW f \in Effects,
                      record'[p][f] \in {"claimed", "unknown", "completed"}
               PROVE  Ready(f, Completed(p)')
    BY DEF FollowsCompleted
  <2>1. ASSUME Completed(p) \subseteq Completed(p)', Ready(f, Completed(p)) PROVE Ready(f, Completed(p)')
    BY <2>1 DEF Completed
  <2>2. CASE UNCHANGED record
    BY <2>2 DEF FollowsCompleted, Completed
  <2>3. ASSUME NEW o \in Objects, NEW e \in Effects, NEW x \in {"claimed", "completed", "unknown"},
               record' = [record EXCEPT ![o][e] = x],
               x = "claimed" => record[o][e] = "none" /\ Ready(e, Completed(o)),
               x # "claimed" => record[o][e] = "claimed"
        PROVE  Ready(f, Completed(p)')
    <3>1. \A g \in Effects : record'[p][g] = IF p = o /\ g = e THEN x ELSE record[p][g]
      BY <2>3, RecordStep
    <3>2. Completed(p) \subseteq Completed(p)'
      BY <2>3, <3>1 DEF Completed
    <3>3. Ready(f, Completed(p))
      BY <2>3, <3>1 DEF FollowsCompleted
    <3> QED BY <2>1, <3>2, <3>3
  <2>4. CASE Refuse
    <3>1. \A g \in Effects : record'[p][g] = record[p][g] \/ (record'[p][g] = "refused" /\ record[p][g] \in {"none", "claimed"})
      BY <2>4 DEF Refuse
    <3>2. Completed(p) \subseteq Completed(p)'
      BY <3>1 DEF Completed
    <3>3. Ready(f, Completed(p))
      BY <3>1 DEF FollowsCompleted
    <3> QED BY <2>1, <3>2, <3>3
  <2> QED BY <2>2, <2>3, <2>4, StepKinds DEF claims
<1>3. Spec => []TypeOK
  BY ProtocolHolds, PTL
<1> QED BY <1>1, <1>2, <1>3, PTL DEF Spec
=============================================================================
