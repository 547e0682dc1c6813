---------------------- MODULE ConversationStoreProofs ----------------------
(***************************************************************************)
(* Proofs about ConversationStore: its types, the optimistic-concurrency   *)
(* invariant, and what follows from it: the CAS loop implements            *)
(* AtomicStore, claims are won once and receipts are durable.              *)
(***************************************************************************)
EXTENDS ConversationStore, TLAPS

\* The conditions under which a version is never used twice for one document.
VersionsNeverReused == Backend = "azure" \/ Resets = "never"

-----------------------------------------------------------------------------
(* The operators on documents.                                             *)

\* s[-n:] keeps the type of a sequence, and all of it or its last n elements.
LEMMA LastNFacts ==
    ASSUME NEW S, NEW s \in Seq(S), NEW n \in Nat \ {0}
    PROVE  /\ LastN(s, n) \in Seq(S)
           /\ LastN(s, n) = s \/ Len(LastN(s, n)) = n
           /\ Len(s) > 0 => s[Len(s)] \in Elems(LastN(s, n))
<1>1. CASE Len(s) <= n
  BY <1>1 DEF LastN, Elems
<1>2. CASE ~(Len(s) <= n)
  <2>1. LastN(s, n) = SubSeq(s, Len(s) - n + 1, Len(s))
    BY <1>2 DEF LastN
  <2>2. /\ Len(s) \in Nat /\ Len(s) - n + 1 \in 1..Len(s)
        /\ \A i \in 1..Len(s) : s[i] \in S
    BY <1>2
  <2>3. LastN(s, n) \in Seq(S) /\ Len(LastN(s, n)) = n
    BY <2>1, <2>2
  <2>4. LastN(s, n)[n] = s[Len(s)] /\ n \in DOMAIN LastN(s, n)
    BY <2>1, <2>2, <2>3
  <2> QED BY <2>3, <2>4 DEF Elems
<1> QED BY <1>1, <1>2

\* Remembering an activity keeps the document's type, records the activity, and
\* drops a receipt only when MAX_SEEN_IDS are kept.
LEMMA RememberFacts ==
    ASSUME NEW d \in Document, NEW a \in Activities
    PROVE  /\ Remember(d, a) \in Document
           /\ a \in Elems(Remember(d, a).seen)
           /\ Elems(d.seen) \subseteq Elems(Remember(d, a).seen) \/ Len(Remember(d, a).seen) = MaxSeen
<1>1. CASE a \in Elems(d.seen)
  BY <1>1 DEF Remember
<1>2. CASE a \notin Elems(d.seen)
  <2> DEFINE s == Append(d.seen, a)
  <2>1. s \in Seq(Activities) /\ Len(s) > 0 /\ s[Len(s)] = a /\ Elems(d.seen) \subseteq Elems(s)
    BY DEF Document, Elems
  <2>2. /\ LastN(s, MaxSeen) \in Seq(Activities)
        /\ LastN(s, MaxSeen) = s \/ Len(LastN(s, MaxSeen)) = MaxSeen
        /\ a \in Elems(LastN(s, MaxSeen))
    <3> HIDE DEF s
    <3>1. MaxSeen \in Nat \ {0}
      BY StoreAssumption
    <3> QED BY <2>1, <3>1, LastNFacts
  <2>3. Remember(d, a) = [d EXCEPT !.seen = LastN(s, MaxSeen)]
    BY <1>2 DEF Remember
  <2>4. Remember(d, a).seen = LastN(s, MaxSeen) /\ Remember(d, a) \in Document
    BY <2>2, <2>3 DEF Document
  <2> HIDE DEF s
  <2> QED BY <2>1, <2>2, <2>4
<1> QED BY <1>1, <1>2

\* An operation is a claim or an append of an activity, or a welcome.
LEMMA OpCases ==
    ASSUME NEW o \in Op
    PROVE  \/ o.kind \in {"claim", "append"} /\ o.act \in Activities
           \/ o.kind = "welcome"
BY DEF Op

\* Every transform keeps the document's type and its receipts, up to capacity,
\* and a claim leaves its own receipt.
LEMMA TransformFacts ==
    ASSUME NEW o \in Op, NEW d \in Document
    PROVE  /\ Transform(o, d) \in Document
           /\ \/ Elems(d.seen) \subseteq Elems(Transform(o, d).seen)
              \/ Len(Transform(o, d).seen) = MaxSeen
           /\ o.kind = "claim" => o.act \in Elems(Transform(o, d).seen)
<1>1. CASE o.kind = "claim"
  <2>1. Transform(o, d) = Remember(d, o.act) /\ o.act \in Activities
    BY <1>1, OpCases DEF Transform
  <2> QED BY <2>1, RememberFacts
<1>2. CASE o.kind = "welcome"
  <2>1. Transform(o, d) = [d EXCEPT !.welcomed = TRUE]
    BY <1>2 DEF Transform
  <2> QED BY <1>2, <2>1 DEF Document
<1>3. CASE o.kind = "append"
  <2>1. o.act \in Activities
    BY <1>3, OpCases
  <2> DEFINE pair == << [role |-> "user", act |-> o.act], [role |-> "assistant", act |-> o.act] >>
             longer == d.recent \o pair
             e == [d EXCEPT !.recent = LastN(longer, MaxRecent)]
  <2>2. longer \in Seq([role : {"user", "assistant"}, act : Activities])
    BY <2>1 DEF Document
  <2>3. LastN(longer, MaxRecent) \in Seq([role : {"user", "assistant"}, act : Activities])
    <3> HIDE DEF longer
    <3>1. MaxRecent \in Nat \ {0}
      BY StoreAssumption
    <3> QED BY <2>2, <3>1, LastNFacts
  <2>4. e \in Document /\ e.seen = d.seen
    <3> HIDE DEF longer
    <3> QED BY <2>3 DEF Document
  <2>5. Transform(o, d) = d \/ Transform(o, d) = Remember(e, o.act)
    BY <1>3 DEF Transform
  <2> HIDE DEF e
  <2>6. CASE Transform(o, d) = d
    BY <1>3, <2>6
  <2>7. CASE Transform(o, d) = Remember(e, o.act)
    <3>1. /\ Remember(e, o.act) \in Document
          /\ Elems(e.seen) \subseteq Elems(Remember(e, o.act).seen) \/ Len(Remember(e, o.act).seen) = MaxSeen
      BY <2>1, <2>4, RememberFacts
    <3> QED BY <1>3, <2>4, <2>7, <3>1
  <2> QED BY <2>5, <2>6, <2>7
<1> QED BY <1>1, <1>2, <1>3, OpCases

\* The document never written is a document.
LEMMA FreshType == Fresh \in Document /\ Elems(Fresh.seen) = {}
BY DEF Fresh, Document, Elems

-----------------------------------------------------------------------------
(* Types.                                                                  *)

\* A call about to read has an attempt left; a new call has made none.
AttemptLeft == \A c \in Callers : /\ pc[c] = "read" => attempt[c] < MaxAttempts
                                  /\ pc[c] = "idle" => attempt[c] = 0

TypeInv == TypeOK /\ AttemptLeft

\* The locals of a call that is not running are well typed.
LEMMA IdleTypes == /\ NoOp \in Op
                   /\ NoRow \in [version : Nat, content : Document, updatedAt : Nat]
                   /\ NoCand \in [content : Document, updatedAt : Nat]
BY FreshType DEF NoOp, Op, NoRow, NoCand

\* Returning keeps the types of a call's locals.
LEMMA ReturnTypes ==
    ASSUME TypeInv, NEW c \in Callers, Return(c)
    PROVE  /\ pc' \in [Callers -> {"idle", "read", "decide", "cas", "detached"}]
           /\ op' \in [Callers -> Op]
           /\ snap' \in [Callers -> [version : Nat, content : Document, updatedAt : Nat]]
           /\ cand' \in [Callers -> [content : Document, updatedAt : Nat]]
           /\ attempt' \in [Callers -> 0..MaxAttempts]
           /\ claimed' \in [Callers -> BOOLEAN]
           /\ calls' \in [Callers -> Nat] /\ now' \in Nat
           /\ AttemptLeft'
<1>1. 0 \in 0..MaxAttempts
  BY StoreAssumption
<1> QED BY <1>1, IdleTypes DEF TypeInv, TypeOK, AttemptLeft, Return

\* A swap keeps the types of the stored document.
LEMMA SwapTypes ==
    ASSUME TypeInv, NEW c \in Callers, Swap(c)
    PROVE  version' \in Nat /\ nextTag' \in Nat \ {0} /\ content' \in Document /\ updatedAt' \in Nat
BY DEF TypeInv, TypeOK, Swap, NewVersion

\* What the history makes of an answer is a count.
LEMMA AnsweredTypes ==
    ASSUME TypeInv, NEW c \in Callers, NEW ok, Answered(c, ok)
    PROVE  won' \in [Activities -> Nat]
BY DEF TypeInv, TypeOK, Answered

\* The transform of what a call read is a document.
LEMMA EffectiveType ==
    ASSUME TypeInv, NEW c \in Callers
    PROVE  Effective(snap[c]) \in Document /\ Transform(op[c], Effective(snap[c])) \in Document
<1>1. Effective(snap[c]) \in Document
  BY FreshType DEF TypeInv, TypeOK, Effective
<1> QED BY <1>1, TransformFacts DEF TypeInv, TypeOK

\* Every step keeps the types.
LEMMA TypeStep == TypeInv /\ [Next]_vars => TypeInv'
<1> SUFFICES ASSUME TypeInv, [Next]_vars PROVE TypeInv'
  OBVIOUS
<1>1. ASSUME NEW c \in Callers, NEW o \in Op, Invoke(c, o) PROVE TypeInv'
  BY <1>1, StoreAssumption DEF TypeInv, TypeOK, AttemptLeft, Invoke, docvars
<1>2. ASSUME NEW c \in Callers, ReadRecord(c) PROVE TypeInv'
  BY <1>2, StoreAssumption DEF TypeInv, TypeOK, AttemptLeft, ReadRecord, docvars
<1>3. ASSUME NEW c \in Callers, Decide(c) PROVE TypeInv'
  <2> DEFINE d == Effective(snap[c])
             e == Transform(op[c], d)
             f == Flag(op[c], d, claimed[c])
  <2>1. UNCHANGED docvars
    BY <1>3 DEF Decide
  <2>2. f \in BOOLEAN
    <3>1. op[c].kind \in {"claim", "welcome", "append"}
      BY OpCases DEF TypeInv, TypeOK
    <3> HIDE DEF d
    <3>2. CASE op[c].kind = "claim"
      BY <3>2 DEF Flag
    <3>3. CASE op[c].kind = "welcome"
      BY <3>3 DEF Flag
    <3>4. CASE op[c].kind = "append"
      BY <3>4 DEF Flag
    <3> QED BY <3>1, <3>2, <3>3, <3>4
  <2>3. d \in Document /\ e \in Document
    BY EffectiveType
  <2> HIDE DEF d, e, f
  <2>4. CASE e # d
    <3>1. /\ pc' = [pc EXCEPT ![c] = "cas"]
          /\ claimed' = [claimed EXCEPT ![c] = f]
          /\ cand' = [cand EXCEPT ![c] = [content |-> e, updatedAt |-> now]]
          /\ UNCHANGED <<op, snap, attempt, calls, now, won>>
      BY <1>3, <2>4 DEF Decide, d, e, f
    <3> QED BY <2>1, <2>2, <2>3, <3>1 DEF TypeInv, TypeOK, AttemptLeft, docvars
  <2>5. CASE e = d
    <3>1. Return(c) /\ won' = IF op[c].kind = "claim" /\ f THEN Win(c) ELSE won
      BY <1>3, <2>5 DEF Decide, d, e, f
    <3>2. won' \in [Activities -> Nat]
      <4>1. op[c].kind = "claim" => op[c].act \in Activities
        BY OpCases DEF TypeInv, TypeOK
      <4> QED BY <3>1, <4>1 DEF Win, TypeInv, TypeOK
    <3> QED BY <2>1, <3>1, <3>2, ReturnTypes DEF TypeInv, TypeOK, docvars
  <2> QED BY <2>4, <2>5
<1>4. ASSUME NEW c \in Callers, CasSuccess(c) PROVE TypeInv'
  BY <1>4, SwapTypes, AnsweredTypes, ReturnTypes DEF TypeInv, TypeOK, CasSuccess
<1>5. ASSUME NEW c \in Callers, CasConflict(c) PROVE TypeInv'
  <2>1. ASSUME Retry(c) PROVE TypeInv'
    BY <1>5, <2>1, IdleTypes DEF TypeInv, TypeOK, AttemptLeft, CasConflict, Retry, docvars
  <2>2. CASE Return(c)
    BY <1>5, <2>2, ReturnTypes DEF TypeInv, TypeOK, CasConflict, docvars
  <2> QED BY <1>5, <2>1, <2>2 DEF CasConflict
<1>6. ASSUME NEW c \in Callers, Unavailable(c) PROVE TypeInv'
  <2>1. CASE UNCHANGED won /\ UNCHANGED docvars /\ Return(c)
    BY <2>1, ReturnTypes DEF TypeInv, TypeOK, docvars
  <2>2. CASE Swap(c) /\ Answered(c, FALSE) /\ Return(c)
    BY <2>2, SwapTypes, AnsweredTypes, ReturnTypes DEF TypeInv, TypeOK
  <2> QED BY <1>6, <2>1, <2>2 DEF Unavailable
<1>7. ASSUME NEW c \in Callers, Cancel(c) PROVE TypeInv'
  BY <1>7 DEF TypeInv, TypeOK, AttemptLeft, Cancel, docvars
<1>8. ASSUME NEW c \in Callers, DetachedCas(c) PROVE TypeInv'
  <2>1. CASE UNCHANGED won /\ UNCHANGED docvars /\ Return(c)
    BY <2>1, ReturnTypes DEF TypeInv, TypeOK, docvars
  <2>2. CASE Swap(c) /\ Answered(c, FALSE) /\ Return(c)
    BY <2>2, SwapTypes, AnsweredTypes, ReturnTypes DEF TypeInv, TypeOK
  <2> QED BY <1>8, <2>1, <2>2 DEF DetachedCas
<1>9. CASE Reset
  BY <1>9, FreshType DEF TypeInv, TypeOK, AttemptLeft, Reset, callvars
<1>10. CASE Tick
  BY <1>10 DEF TypeInv, TypeOK, AttemptLeft, Tick, callvars, docvars
<1>11. CASE UNCHANGED vars
  BY <1>11 DEF TypeInv, TypeOK, AttemptLeft, vars
<1> QED BY <1>1, <1>2, <1>3, <1>4, <1>5, <1>6, <1>7, <1>8, <1>9, <1>10, <1>11 DEF Next, Step

\* The initial state is well typed.
LEMMA TypeInit == Init => TypeInv
BY StoreAssumption, FreshType, IdleTypes DEF Init, TypeInv, TypeOK, AttemptLeft

\* Every state of the CAS loop is well typed; in particular no call makes more
\* than max_attempts attempts.
THEOREM StoreTypes == Spec => []TypeOK
<1>1. TypeInv => TypeOK
  BY DEF TypeInv
<1> QED BY <1>1, TypeInit, TypeStep, PTL DEF Spec

-----------------------------------------------------------------------------
(* The optimistic-concurrency invariant.                                   *)

Running == {"decide", "cas", "detached"}
Writing == {"cas", "detached"}

\* Versions handed out lie below the next one, and SQLite's only grow.
VersionsBounded ==
    /\ version < nextTag /\ updatedAt <= now
    /\ version = 0 => content = Fresh /\ updatedAt = 0
    /\ \A c \in Callers :
          /\ snap[c].version < nextTag /\ snap[c].updatedAt <= now
          /\ Backend = "sqlite" => snap[c].version <= version
          /\ snap[c].version = 0 => snap[c].content = Fresh /\ snap[c].updatedAt = 0

\* A running call whose version is still the stored one read what is stored.
SnapshotsCurrent ==
    \A c \in Callers : pc[c] \in Running /\ snap[c].version = version =>
        snap[c].content = content /\ snap[c].updatedAt = updatedAt

\* The document a candidate was made from: what was read, or a fresh one when
\* that had expired by the time of the transform.
Base(c) == IF cand[c].updatedAt - snap[c].updatedAt >= TTL THEN Fresh ELSE snap[c].content

\* A candidate is the operation's transform of what the call read.
CandidatesDerived ==
    \A c \in Callers : pc[c] \in Writing =>
        /\ cand[c].content = Transform(op[c], Base(c))
        /\ cand[c].updatedAt \in snap[c].updatedAt..now
        /\ claimed[c] /\ op[c].kind = "claim" => op[c].act \notin Elems(Base(c).seen)

CasInv == TypeInv /\ VersionsBounded /\ SnapshotsCurrent /\ CandidatesDerived

\* A returned call asks nothing of the invariant.
LEMMA ReturnedCall ==
    ASSUME CasInv, NEW c \in Callers, Return(c)
    PROVE  /\ pc'[c] \notin Running /\ snap'[c] = NoRow
           /\ \A b \in Callers \ {c} : /\ pc'[b] = pc[b] /\ op'[b] = op[b] /\ snap'[b] = snap[b]
                                       /\ cand'[b] = cand[b] /\ claimed'[b] = claimed[b]
BY DEF CasInv, TypeInv, TypeOK, Return, Running

\* After a swap no other call's version is the stored one.
LEMMA SwapStep ==
    ASSUME VersionsNeverReused, CasInv, NEW c \in Callers, pc[c] \in Writing, Swap(c), Return(c), TypeInv'
    PROVE  CasInv'
<1>1. /\ version \in Nat /\ nextTag \in Nat /\ now \in Nat /\ now' = now
      /\ version < nextTag /\ nextTag' = nextTag + 1
      /\ version' = IF Backend = "azure" THEN nextTag ELSE version + 1
      /\ cand[c].updatedAt \in Nat /\ cand[c].updatedAt <= now
  BY DEF CasInv, TypeInv, TypeOK, VersionsBounded, CandidatesDerived, Swap, NewVersion, Return
<1>2. \A b \in Callers : snap[b].version \in Nat /\ snap[b].updatedAt \in Nat
  BY DEF CasInv, TypeInv, TypeOK
<1>3. \A b \in Callers : snap'[b] = snap[b] \/ snap'[b] = NoRow
  BY ReturnedCall
<1>4. VersionsBounded'
  <2>1. version' < nextTag' /\ updatedAt' <= now' /\ version' # 0 /\ version' >= version
    BY <1>1 DEF Swap
  <2>2. ASSUME NEW b \in Callers
        PROVE  /\ snap'[b].version < nextTag' /\ snap'[b].updatedAt <= now'
               /\ Backend = "sqlite" => snap'[b].version <= version'
               /\ snap'[b].version = 0 => snap'[b].content = Fresh /\ snap'[b].updatedAt = 0
    <3>1. CASE snap'[b] = snap[b]
      BY <1>1, <1>2, <2>1, <3>1 DEF CasInv, VersionsBounded
    <3>2. CASE snap'[b] = NoRow
      BY <1>1, <2>1, <3>2 DEF NoRow
    <3> QED BY <1>3, <3>1, <3>2
  <2> QED BY <2>1, <2>2 DEF VersionsBounded
<1>5. SnapshotsCurrent'
  <2> SUFFICES ASSUME NEW b \in Callers, pc'[b] \in Running PROVE snap'[b].version # version'
    BY DEF SnapshotsCurrent
  <2>1. snap'[b] = snap[b]
    BY ReturnedCall
  <2>2. Backend = "azure" \/ Backend = "sqlite"
    BY StoreAssumption
  <2>3. snap[b].version < nextTag /\ (Backend = "sqlite" => snap[b].version <= version)
    BY DEF CasInv, VersionsBounded
  <2> QED BY <1>1, <1>2, <2>1, <2>2, <2>3
<1>6. CandidatesDerived'
  <2> SUFFICES ASSUME NEW b \in Callers, pc'[b] \in Writing
               PROVE  /\ cand'[b].content = Transform(op'[b], Base(b)')
                      /\ cand'[b].updatedAt \in snap'[b].updatedAt..now'
                      /\ claimed'[b] /\ op'[b].kind = "claim" => op'[b].act \notin Elems(Base(b)'.seen)
    BY DEF CandidatesDerived
  <2>1. b # c
    BY ReturnedCall DEF Writing, Running
  <2>2. pc'[b] = pc[b] /\ op'[b] = op[b] /\ snap'[b] = snap[b] /\ cand'[b] = cand[b] /\ claimed'[b] = claimed[b]
    BY <2>1, ReturnedCall
  <2>3. Base(b)' = Base(b)
    BY <2>2 DEF Base
  <2> QED BY <1>1, <2>2, <2>3 DEF CasInv, CandidatesDerived
<1> QED BY <1>4, <1>5, <1>6 DEF CasInv

\* A call that ends without writing leaves the invariant to the others.
LEMMA ReturnStep ==
    ASSUME CasInv, NEW c \in Callers, Return(c), UNCHANGED docvars, TypeInv'
    PROVE  CasInv'
<1>1. /\ version' = version /\ nextTag' = nextTag /\ content' = content /\ updatedAt' = updatedAt /\ now' = now
      /\ nextTag \in Nat \ {0} /\ version \in Nat /\ now \in Nat
  BY DEF docvars, Return, CasInv, TypeInv, TypeOK
<1>2. \A b \in Callers : snap'[b] = snap[b] \/ snap'[b] = NoRow
  BY ReturnedCall
<1>3. VersionsBounded'
  <2>1. ASSUME NEW b \in Callers
        PROVE  /\ snap'[b].version < nextTag' /\ snap'[b].updatedAt <= now'
               /\ Backend = "sqlite" => snap'[b].version <= version'
               /\ snap'[b].version = 0 => snap'[b].content = Fresh /\ snap'[b].updatedAt = 0
    <3>1. CASE snap'[b] = snap[b]
      BY <1>1, <3>1 DEF CasInv, VersionsBounded
    <3>2. CASE snap'[b] = NoRow
      BY <1>1, <3>2 DEF NoRow
    <3> QED BY <1>2, <3>1, <3>2
  <2> QED BY <1>1, <2>1 DEF CasInv, VersionsBounded
<1>4. SnapshotsCurrent'
  BY <1>1, ReturnedCall DEF CasInv, SnapshotsCurrent
<1>5. CandidatesDerived'
  <2> SUFFICES ASSUME NEW b \in Callers, pc'[b] \in Writing
               PROVE  /\ cand'[b].content = Transform(op'[b], Base(b)')
                      /\ cand'[b].updatedAt \in snap'[b].updatedAt..now'
                      /\ claimed'[b] /\ op'[b].kind = "claim" => op'[b].act \notin Elems(Base(b)'.seen)
    BY DEF CandidatesDerived
  <2>1. b # c
    BY ReturnedCall DEF Writing, Running
  <2>2. pc'[b] = pc[b] /\ op'[b] = op[b] /\ snap'[b] = snap[b] /\ cand'[b] = cand[b] /\ claimed'[b] = claimed[b]
    BY <2>1, ReturnedCall
  <2>3. Base(b)' = Base(b)
    BY <2>2 DEF Base
  <2> QED BY <1>1, <2>2, <2>3 DEF CasInv, CandidatesDerived
<1> QED BY <1>3, <1>4, <1>5 DEF CasInv

\* A step that moves one call along and leaves the document, the clock and what
\* the other calls hold: the invariant only asks something of that call.
LEMMA LocalStep ==
    ASSUME CasInv, NEW c \in Callers, UNCHANGED docvars, UNCHANGED now, TypeInv',
           \A b \in Callers \ {c} : /\ pc'[b] = pc[b] /\ op'[b] = op[b] /\ snap'[b] = snap[b]
                                    /\ cand'[b] = cand[b] /\ claimed'[b] = claimed[b],
           /\ snap'[c].version < nextTag /\ snap'[c].updatedAt <= now
           /\ Backend = "sqlite" => snap'[c].version <= version
           /\ snap'[c].version = 0 => snap'[c].content = Fresh /\ snap'[c].updatedAt = 0,
           pc'[c] \in Running /\ snap'[c].version = version =>
               snap'[c].content = content /\ snap'[c].updatedAt = updatedAt,
           pc'[c] \in Writing =>
               /\ cand'[c].content = Transform(op'[c], Base(c)')
               /\ cand'[c].updatedAt \in snap'[c].updatedAt..now
               /\ claimed'[c] /\ op'[c].kind = "claim" => op'[c].act \notin Elems(Base(c)'.seen)
    PROVE  CasInv'
<1>1. version' = version /\ nextTag' = nextTag /\ content' = content /\ updatedAt' = updatedAt /\ now' = now
  BY DEF docvars
<1>2. VersionsBounded'
  BY <1>1 DEF CasInv, VersionsBounded
<1>3. SnapshotsCurrent'
  BY <1>1 DEF CasInv, SnapshotsCurrent
<1>4. CandidatesDerived'
  <2> SUFFICES ASSUME NEW b \in Callers, pc'[b] \in Writing, b # c
               PROVE  /\ cand'[b].content = Transform(op'[b], Base(b)')
                      /\ cand'[b].updatedAt \in snap'[b].updatedAt..now'
                      /\ claimed'[b] /\ op'[b].kind = "claim" => op'[b].act \notin Elems(Base(b)'.seen)
    BY <1>1 DEF CandidatesDerived
  <2>1. Base(b)' = Base(b)
    BY DEF Base
  <2> QED BY <1>1, <2>1 DEF CasInv, CandidatesDerived
<1> QED BY <1>2, <1>3, <1>4 DEF CasInv

\* What a transform is given is the base of the candidate it leaves.
LEMMA EffectiveIsBase ==
    ASSUME CasInv, NEW c \in Callers
    PROVE  Effective(snap[c]) = IF now - snap[c].updatedAt >= TTL THEN Fresh ELSE snap[c].content
BY DEF CasInv, VersionsBounded, Effective

\* The transform step keeps the invariant.
LEMMA DecideStep ==
    ASSUME CasInv, NEW c \in Callers, Decide(c), TypeInv'
    PROVE  CasInv'
<1> DEFINE d == Effective(snap[c])
           e == Transform(op[c], d)
           f == Flag(op[c], d, claimed[c])
<1>1. pc[c] = "decide" /\ UNCHANGED docvars
  BY DEF Decide
<1>2. CASE e = d
  BY <1>1, <1>2, ReturnStep DEF Decide
<1>3. CASE e # d
  <2>1. /\ pc' = [pc EXCEPT ![c] = "cas"]
        /\ claimed' = [claimed EXCEPT ![c] = f]
        /\ cand' = [cand EXCEPT ![c] = [content |-> e, updatedAt |-> now]]
        /\ UNCHANGED <<op, snap, attempt, calls, now, won>>
    BY <1>3 DEF Decide
  <2>2. f /\ op[c].kind = "claim" => op[c].act \notin Elems(d.seen)
    BY DEF Flag
  <2> HIDE DEF d, e, f
  <2>3. cand'[c].content = e /\ cand'[c].updatedAt = now /\ claimed'[c] = f /\ snap' = snap /\ op' = op /\ now' = now
    BY <2>1 DEF CasInv, TypeInv, TypeOK
  <2>4. Base(c)' = d
    BY <2>3, EffectiveIsBase DEF Base, d
  <2>5. snap[c].updatedAt \in Nat /\ now \in Nat /\ snap[c].updatedAt <= now
    BY DEF CasInv, TypeInv, TypeOK, VersionsBounded
  <2>6. /\ cand'[c].content = Transform(op'[c], Base(c)')
        /\ cand'[c].updatedAt \in snap'[c].updatedAt..now
        /\ claimed'[c] /\ op'[c].kind = "claim" => op'[c].act \notin Elems(Base(c)'.seen)
    BY <2>2, <2>3, <2>4, <2>5 DEF e
  <2>7. \A b \in Callers \ {c} : /\ pc'[b] = pc[b] /\ op'[b] = op[b] /\ snap'[b] = snap[b]
                                 /\ cand'[b] = cand[b] /\ claimed'[b] = claimed[b]
    BY <2>1 DEF CasInv, TypeInv, TypeOK
  <2>8. /\ snap'[c].version < nextTag /\ snap'[c].updatedAt <= now
        /\ Backend = "sqlite" => snap'[c].version <= version
        /\ snap'[c].version = 0 => snap'[c].content = Fresh /\ snap'[c].updatedAt = 0
    BY <2>3 DEF CasInv, VersionsBounded
  <2>9. snap'[c].version = version => snap'[c].content = content /\ snap'[c].updatedAt = updatedAt
    BY <1>1, <2>3 DEF CasInv, SnapshotsCurrent, Running
  <2> QED BY <1>1, <2>3, <2>6, <2>7, <2>8, <2>9, LocalStep
<1> QED BY <1>2, <1>3

\* Every step keeps the invariant, as long as no version is used twice.
LEMMA CasStep == VersionsNeverReused /\ CasInv /\ [Next]_vars => CasInv'
<1> SUFFICES ASSUME VersionsNeverReused, CasInv, [Next]_vars PROVE CasInv'
  OBVIOUS
<1>0. TypeInv /\ TypeInv'
  BY TypeStep DEF CasInv
<1>1. ASSUME NEW c \in Callers, NEW o \in Op, Invoke(c, o) PROVE CasInv'
  BY <1>0, <1>1, LocalStep DEF Invoke, CasInv, TypeInv, TypeOK, VersionsBounded, Running, Writing
<1>2. ASSUME NEW c \in Callers, ReadRecord(c) PROVE CasInv'
  <2>1. /\ pc'[c] = "decide" /\ UNCHANGED docvars /\ UNCHANGED now
        /\ snap'[c] = [version |-> version, content |-> content, updatedAt |-> updatedAt]
        /\ \A b \in Callers \ {c} : /\ pc'[b] = pc[b] /\ op'[b] = op[b] /\ snap'[b] = snap[b]
                                    /\ cand'[b] = cand[b] /\ claimed'[b] = claimed[b]
    BY <1>0, <1>2 DEF ReadRecord, TypeInv, TypeOK
  <2>2. version \in Nat /\ version < nextTag /\ updatedAt <= now /\ (version = 0 => content = Fresh /\ updatedAt = 0)
    BY DEF CasInv, VersionsBounded, TypeInv, TypeOK
  <2>3. pc'[c] \notin Writing
    BY <2>1 DEF Writing
  <2> QED BY <1>0, <2>1, <2>2, <2>3, LocalStep
<1>3. ASSUME NEW c \in Callers, Decide(c) PROVE CasInv'
  BY <1>0, <1>3, DecideStep
<1>4. ASSUME NEW c \in Callers, CasSuccess(c) PROVE CasInv'
  BY <1>0, <1>4, SwapStep DEF CasSuccess, Writing
<1>5. ASSUME NEW c \in Callers, CasConflict(c) PROVE CasInv'
  <2>1. ASSUME Retry(c) PROVE CasInv'
    <3>1. /\ pc'[c] = "read" /\ snap'[c] = NoRow /\ UNCHANGED docvars /\ UNCHANGED now
          /\ \A b \in Callers \ {c} : /\ pc'[b] = pc[b] /\ op'[b] = op[b] /\ snap'[b] = snap[b]
                                      /\ cand'[b] = cand[b] /\ claimed'[b] = claimed[b]
      BY <1>0, <1>5, <2>1 DEF CasConflict, Retry, TypeInv, TypeOK
    <3>2. version \in Nat /\ nextTag \in Nat \ {0} /\ now \in Nat
      BY <1>0 DEF TypeInv, TypeOK
    <3> QED BY <1>0, <3>1, <3>2, LocalStep DEF NoRow, Running, Writing
  <2> QED BY <1>0, <1>5, <2>1, ReturnStep DEF CasConflict
<1>6. ASSUME NEW c \in Callers, Unavailable(c) PROVE CasInv'
  BY <1>0, <1>6, SwapStep, ReturnStep DEF Unavailable, Writing
<1>7. ASSUME NEW c \in Callers, Cancel(c) PROVE CasInv'
  <2>1. /\ pc[c] = "cas" /\ pc'[c] = "detached" /\ UNCHANGED docvars
        /\ UNCHANGED <<op, snap, cand, claimed, now>>
        /\ \A b \in Callers \ {c} : pc'[b] = pc[b]
    BY <1>0, <1>7 DEF Cancel, TypeInv, TypeOK
  <2>2. Base(c)' = Base(c)
    BY <2>1 DEF Base
  <2> QED BY <1>0, <2>1, <2>2, LocalStep
          DEF CasInv, VersionsBounded, SnapshotsCurrent, CandidatesDerived, Running, Writing
<1>8. ASSUME NEW c \in Callers, DetachedCas(c) PROVE CasInv'
  BY <1>0, <1>8, SwapStep, ReturnStep DEF DetachedCas, Writing
<1>9. CASE Reset
  <2>1. /\ version' = 0 /\ content' = Fresh /\ updatedAt' = 0 /\ UNCHANGED <<nextTag, now>>
        /\ UNCHANGED callvars /\ Resets # "never"
    BY <1>9 DEF Reset, ResetAllowed
  <2>2. nextTag \in Nat \ {0} /\ now \in Nat /\ Backend # "sqlite"
    BY <1>0, <2>1, StoreAssumption DEF TypeInv, TypeOK, VersionsNeverReused
  <2>3. VersionsBounded'
    BY <2>1, <2>2 DEF CasInv, VersionsBounded, callvars
  <2>4. SnapshotsCurrent'
    BY <2>1 DEF CasInv, VersionsBounded, SnapshotsCurrent, callvars
  <2>5. CandidatesDerived'
    BY <2>1 DEF CasInv, CandidatesDerived, Base, callvars
  <2> QED BY <1>0, <2>3, <2>4, <2>5 DEF CasInv
<1>10. CASE Tick
  <2>1. now \in Nat /\ now' = now + 1 /\ UNCHANGED docvars /\ UNCHANGED callvars
    BY <1>0, <1>10 DEF Tick, TypeInv, TypeOK
  <2>2. \A c \in Callers : snap[c].updatedAt \in Nat /\ cand[c].updatedAt \in Nat
    BY <1>0 DEF TypeInv, TypeOK
  <2>3. updatedAt \in Nat
    BY <1>0 DEF TypeInv, TypeOK
  <2>4. VersionsBounded'
    BY <2>1, <2>2, <2>3 DEF CasInv, VersionsBounded, callvars, docvars
  <2>5. SnapshotsCurrent'
    BY <2>1 DEF CasInv, SnapshotsCurrent, callvars, docvars
  <2>6. CandidatesDerived'
    BY <2>1, <2>2 DEF CasInv, CandidatesDerived, Base, callvars
  <2> QED BY <1>0, <2>4, <2>5, <2>6 DEF CasInv
<1>11. CASE UNCHANGED vars
  BY <1>0, <1>11 DEF CasInv, VersionsBounded, SnapshotsCurrent, CandidatesDerived, Base, vars
<1> QED BY <1>1, <1>2, <1>3, <1>4, <1>5, <1>6, <1>7, <1>8, <1>9, <1>10, <1>11 DEF Next, Step

\* The initial state satisfies the invariant.
LEMMA CasInit == Init => CasInv
<1> SUFFICES ASSUME Init PROVE CasInv
  OBVIOUS
<1>1. TypeInv
  BY TypeInit
<1>2. \A c \in Callers : pc[c] = "idle" /\ snap[c] = NoRow
  BY DEF Init
<1>3. VersionsBounded
  BY <1>2 DEF Init, VersionsBounded, NoRow
<1> QED BY <1>1, <1>2, <1>3 DEF CasInv, SnapshotsCurrent, CandidatesDerived, Running, Writing

-----------------------------------------------------------------------------
(* What follows from the invariant.                                        *)

\* What a swap that lands does: it applies one operation to the current
\* document, whose content is the candidate's base.
LEMMA SwapEffect ==
    ASSUME CasInv, NEW c \in Callers, pc[c] \in Writing, Swap(c)
    PROVE  /\ content' = Transform(op[c], Base(c)) /\ op[c] \in Op /\ Base(c) \in Document
           /\ Base(c) = content \/ (Expired(c) /\ Base(c) = Fresh)
           /\ ~Expired(c) => Base(c) = content
           /\ updatedAt' = cand[c].updatedAt /\ updatedAt' \in updatedAt..now
           /\ Expired(c) => now - updatedAt >= TTL
<1>1. snap[c].content = content /\ snap[c].updatedAt = updatedAt
  BY DEF CasInv, SnapshotsCurrent, Swap, CanSwap, Running, Writing
<1>2. /\ cand[c].content = Transform(op[c], Base(c))
      /\ cand[c].updatedAt \in snap[c].updatedAt..now
  BY DEF CasInv, CandidatesDerived
<1>3. op[c] \in Op /\ content \in Document /\ updatedAt \in Nat /\ now \in Nat /\ cand[c].updatedAt \in Nat
  BY DEF CasInv, TypeInv, TypeOK
<1>4. Base(c) = IF Expired(c) THEN Fresh ELSE content
  BY <1>1 DEF Base, Expired
<1>5. TTL \in Nat
  BY StoreAssumption
<1> QED BY <1>1, <1>2, <1>3, <1>4, <1>5, FreshType DEF Swap, Expired

\* A swap is an atomic update.
LEMMA SwapRefines ==
    ASSUME CasInv, NEW c \in Callers, pc[c] \in Writing, Swap(c), Return(c)
    PROVE  Atomic!AUpdate
<1>1. Base(c) \in Atomic!Current
  BY SwapEffect DEF Atomic!Current
<1>2. UNCHANGED now
  BY DEF Return
<1> QED BY <1>1, <1>2, SwapEffect DEF Atomic!AUpdate

\* What the other steps leave alone.
LEMMA OtherSteps ==
    ASSUME [Next]_vars
    PROVE  \/ \E c \in Callers : /\ pc[c] \in Writing /\ Swap(c) /\ Return(c)
                                 /\ Answered(c, TRUE) \/ Answered(c, FALSE)
           \/ Reset
           \/ Tick
           \/ UNCHANGED docvars /\ UNCHANGED now /\ (UNCHANGED won \/ \E c \in Callers : Decide(c))
<1>1. ASSUME NEW c \in Callers, NEW o \in Op, Invoke(c, o) PROVE UNCHANGED docvars /\ UNCHANGED now /\ UNCHANGED won
  BY <1>1 DEF Invoke
<1>2. ASSUME NEW c \in Callers, ReadRecord(c) PROVE UNCHANGED docvars /\ UNCHANGED now /\ UNCHANGED won
  BY <1>2 DEF ReadRecord
<1>3. ASSUME NEW c \in Callers, Decide(c) PROVE UNCHANGED docvars /\ UNCHANGED now
  BY <1>3 DEF Decide, Return
<1>4. ASSUME NEW c \in Callers, CasConflict(c) PROVE UNCHANGED docvars /\ UNCHANGED now /\ UNCHANGED won
  BY <1>4 DEF CasConflict, Retry, Return
<1>5. ASSUME NEW c \in Callers, Cancel(c) PROVE UNCHANGED docvars /\ UNCHANGED now /\ UNCHANGED won
  BY <1>5 DEF Cancel
<1>6. ASSUME NEW c \in Callers, Unavailable(c) \/ CasSuccess(c) \/ DetachedCas(c)
      PROVE  \/ /\ pc[c] \in Writing /\ Swap(c) /\ Return(c)
                /\ Answered(c, TRUE) \/ Answered(c, FALSE)
             \/ UNCHANGED docvars /\ UNCHANGED now /\ UNCHANGED won
  <2>1. Return(c) => UNCHANGED now
    BY DEF Return
  <2> QED BY <1>6, <2>1 DEF Unavailable, CasSuccess, DetachedCas, Writing
<1>7. UNCHANGED vars => UNCHANGED docvars /\ UNCHANGED now /\ UNCHANGED won
  BY DEF vars, docvars
<1> QED BY <1>1, <1>2, <1>3, <1>4, <1>5, <1>6, <1>7 DEF Next, Step

\* Reads, conflicts, retries, lost answers and cancelled writes together are one
\* atomic transform of the current document, or nothing: the CAS loop implements
\* AtomicStore, on Azure always and on SQLite when nobody resets the store.
THEOREM StoreIsAtomic == ASSUME VersionsNeverReused PROVE Spec => Refines
<1>1. Init => Atomic!AInit
  BY DEF Init, Atomic!AInit
<1>2. CasInv /\ [Next]_vars => [Atomic!ANext]_Atomic!avars
  <2> SUFFICES ASSUME CasInv, [Next]_vars PROVE Atomic!ANext \/ UNCHANGED <<content, updatedAt, now>>
    BY DEF Atomic!avars
  <2>1. ASSUME NEW c \in Callers, pc[c] \in Writing, Swap(c), Return(c) PROVE Atomic!ANext
    BY <2>1, SwapRefines DEF Atomic!ANext
  <2>2. CASE Reset
    BY <2>2 DEF Reset, Atomic!ANext, Atomic!AReset
  <2>3. CASE Tick
    BY <2>3 DEF Tick, docvars, Atomic!ANext, Atomic!ATick
  <2>4. CASE UNCHANGED docvars /\ UNCHANGED now
    BY <2>4 DEF docvars
  <2> QED BY <2>1, <2>2, <2>3, <2>4, OtherSteps
<1>3. CasInv /\ [Next]_vars => CasInv'
  BY CasStep
<1> QED BY <1>1, <1>2, <1>3, CasInit, PTL DEF Spec, Refines, Atomic!ASpec

\* "A successful claim is a durable receipt": a stored receipt leaves only by a
\* reset, by expiry or when MAX_SEEN_IDS receipts are kept.
THEOREM ReceiptsDurable == ASSUME VersionsNeverReused PROVE Spec => DurableReceipt
<1>1. CasInv /\ [Next]_vars => [ReceiptsKept]_vars
  <2> SUFFICES ASSUME CasInv, [Next]_vars PROVE ReceiptsKept
    OBVIOUS
  <2>1. ASSUME NEW c \in Callers, pc[c] \in Writing, Swap(c) PROVE ReceiptsKept
    <3>1. CASE Expired(c)
      BY <2>1, <3>1 DEF Expired, Swap, ReceiptsKept
    <3>2. CASE ~Expired(c)
      <4>1. content' = Transform(op[c], content) /\ op[c] \in Op /\ content \in Document
        BY <2>1, <3>2, SwapEffect
      <4>2. Elems(content.seen) \subseteq Elems(content'.seen) \/ Len(content'.seen) = MaxSeen
        BY <4>1, TransformFacts
      <4> QED BY <4>2 DEF ReceiptsKept
    <3> QED BY <3>1, <3>2
  <2>2. CASE Reset
    BY <2>2 DEF Reset, ReceiptsKept
  <2>3. CASE content' = content
    BY <2>3 DEF ReceiptsKept
  <2> QED BY <2>1, <2>2, <2>3, OtherSteps DEF Tick, docvars
<1>2. CasInv /\ [Next]_vars => CasInv'
  BY CasStep
<1> QED BY <1>1, <1>2, CasInit, PTL DEF Spec, DurableReceipt

\* A claim that was won is recorded, and was won once.
ClaimInv == CasInv /\ \A a \in Activities : won[a] \in {0, 1} /\ (won[a] = 1 => a \in Elems(content.seen))

\* A no-op answers True to nobody: a claim that was won changes the document.
LEMMA NoOpWinsNothing ==
    ASSUME CasInv, NEW c \in Callers, Decide(c)
    PROVE  UNCHANGED won
<1> DEFINE d == Effective(snap[c])
           e == Transform(op[c], d)
           f == Flag(op[c], d, claimed[c])
<1>1. d \in Document /\ op[c] \in Op
  BY EffectiveType DEF CasInv, TypeInv, TypeOK
<1>2. CASE e # d
  BY <1>2 DEF Decide
<1>3. CASE e = d
  <2>1. op[c].kind = "claim" => op[c].act \in Elems(e.seen)
    <3> HIDE DEF d
    <3> QED BY <1>1, TransformFacts
  <2>2. op[c].kind = "claim" => ~f
    BY <1>3, <2>1 DEF Flag
  <2> QED BY <1>3, <2>2 DEF Decide
<1> QED BY <1>2, <1>3

\* Every step keeps the claims won once.
LEMMA ClaimStep == VersionsNeverReused /\ ClaimInv /\ [Next]_vars => ClaimInv'
<1> SUFFICES ASSUME VersionsNeverReused, ClaimInv, [Next]_vars PROVE ClaimInv'
  OBVIOUS
<1>0. CasInv /\ CasInv'
  BY CasStep DEF ClaimInv
<1> DEFINE Once == \A a \in Activities : won'[a] \in {0, 1} /\ (won'[a] = 1 => a \in Elems(content'.seen))
<1>1. ASSUME NEW c \in Callers, NEW ok \in BOOLEAN, pc[c] \in Writing, Swap(c), Answered(c, ok) PROVE Once
  <2>1. content' = cand[c].content
    BY <1>1 DEF Swap
  <2>2. op[c].kind = "claim" => op[c].act \in Elems(content'.seen)
    BY <1>0, <1>1, SwapEffect, TransformFacts
  <2>3. ~Expired(c) /\ op[c].kind = "claim" /\ claimed[c] => op[c].act \notin Elems(content.seen)
    BY <1>0, <1>1, SwapEffect DEF CasInv, CandidatesDerived
  <2>4. ASSUME NEW a \in Activities PROVE won'[a] \in {0, 1} /\ (won'[a] = 1 => a \in Elems(content'.seen))
    <3>1. won[a] \in {0, 1} /\ (won[a] = 1 => a \in Elems(content.seen))
      BY DEF ClaimInv
    <3>2. won'[a] = (IF Expired(c) \/ a \notin Elems(cand[c].content.seen) THEN 0 ELSE won[a])
                    + (IF ok /\ op[c].kind = "claim" /\ op[c].act = a /\ claimed[c] THEN 1 ELSE 0)
      BY <1>1 DEF Answered
    <3>3. CASE ok /\ op[c].kind = "claim" /\ op[c].act = a /\ claimed[c]
      <4>1. Expired(c) \/ won[a] = 0
        BY <2>3, <3>1, <3>3
      <4>2. won'[a] = 1
        BY <3>1, <3>2, <3>3, <4>1
      <4> QED BY <2>2, <3>3, <4>2
    <3>4. CASE ~(ok /\ op[c].kind = "claim" /\ op[c].act = a /\ claimed[c])
      <4>1. won'[a] = IF Expired(c) \/ a \notin Elems(content'.seen) THEN 0 ELSE won[a]
        BY <2>1, <3>1, <3>2, <3>4
      <4> QED BY <3>1, <4>1
    <3> QED BY <3>3, <3>4
  <2> QED BY <2>4
<1>2. ASSUME Reset PROVE Once
  BY <1>2 DEF Reset
<1>3. ASSUME UNCHANGED content, UNCHANGED won PROVE Once
  BY <1>3 DEF ClaimInv
<1>4. ASSUME NEW c \in Callers, Decide(c) PROVE UNCHANGED won
  BY <1>0, <1>4, NoOpWinsNothing
<1>5. Once
  BY <1>1, <1>2, <1>3, <1>4, OtherSteps DEF Tick, docvars
<1> QED BY <1>0, <1>5 DEF ClaimInv

\* claim_activity answers True to at most one caller per retained activity.
THEOREM ClaimsWonOnce == ASSUME VersionsNeverReused PROVE Spec => []ClaimOnce
<1>1. Init => ClaimInv
  BY CasInit DEF Init, ClaimInv
<1>2. ClaimInv /\ [Next]_vars => ClaimInv'
  BY ClaimStep
<1>3. ClaimInv => ClaimOnce
  BY DEF ClaimInv, ClaimOnce
<1> QED BY <1>1, <1>2, <1>3, PTL DEF Spec
=============================================================================
