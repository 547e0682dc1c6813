------------------------- MODULE ConversationStore -------------------------
(***************************************************************************)
(* conversation_memory.Store: one versioned document shared by concurrent  *)
(* callers, changed by an optimistic read / transform / compare-and-swap   *)
(* loop, with its two backends (SQLite row versions, Azure blob ETags) and *)
(* the three operations of the module built on update(): claim_activity,   *)
(* mark_welcomed and append_exchange.                                      *)
(*                                                                         *)
(* Abstractions: activity ids stand for messages; message text, scrubbing, *)
(* encoding and size limits are left out (they can only turn a call into   *)
(* an error before any write, which Unavailable covers).                   *)
(***************************************************************************)
EXTENDS Integers, Sequences, FiniteSets

CONSTANTS Callers,      \* concurrent calls of Store.update
          Activities,   \* activity ids
          Backend,      \* "sqlite" or "azure"
          Resets,       \* when clear_all() may be called: "never", "stopped" (the
                        \* host's reset, after its workers were closed) or "anytime"
          MaxAttempts,  \* max_attempts of the CAS loop
          MaxSeen,      \* MAX_SEEN_IDS
          MaxRecent,    \* MAX_RECENT_MESSAGES
          TTL,          \* ttl_seconds, in clock ticks
          MaxCalls,     \* bound: MaxCalls[c]: the calls that c makes
          MaxTime       \* bound: last clock value

ASSUME StoreAssumption ==
    /\ Backend \in {"sqlite", "azure"}
    /\ Resets \in {"never", "stopped", "anytime"}
    /\ MaxAttempts \in Nat \ {0}
    /\ MaxSeen \in Nat \ {0}
    /\ MaxRecent \in Nat \ {0}
    /\ TTL \in Nat \ {0}
    /\ MaxCalls \in [Callers -> Nat]
    /\ MaxTime \in Nat

VARIABLES version,    \* version of the stored row or blob; 0 when there is none
          nextTag,    \* the next ETag the Azure service would issue
          content,    \* [seen, recent, welcomed] of the stored document
          updatedAt,  \* its updatedAt
          now,        \* the clock
          pc,         \* pc[c]: where call c is
          op,         \* op[c]: its operation
          snap,       \* snap[c]: the row its snapshot read
          cand,       \* cand[c]: the candidate document it wants to store
          attempt,    \* attempt[c]: CAS attempts begun
          claimed,    \* claimed[c]: the transform's nonlocal result flag
          calls,      \* calls[c]: calls made so far (bound)
          won         \* history: won[a], calls that returned True for activity a
                      \* since a was last absent from the stored document

vars == <<version, nextTag, content, updatedAt, now, pc, op, snap, cand, attempt, claimed, calls, won>>
docvars == <<version, nextTag, content, updatedAt>>
callvars == <<pc, op, snap, cand, attempt, claimed, calls>>

\* The members of a sequence.
Elems(s) == {s[i] : i \in DOMAIN s}

\* The last n elements of a sequence, Python's s[-n:].
LastN(s, n) == IF Len(s) <= n THEN s ELSE SubSeq(s, Len(s) - n + 1, Len(s))

Op == [kind : {"claim", "append"}, act : Activities] \cup {[kind |-> "welcome"]}

\* _fresh_state
Fresh == [seen |-> <<>>, recent |-> <<>>, welcomed |-> FALSE]

\* _remember_activity
Remember(d, a) ==
    IF a \in Elems(d.seen) THEN d ELSE [d EXCEPT !.seen = LastN(Append(@, a), MaxSeen)]

\* The transforms of claim_activity, mark_welcomed and append_exchange.
Transform(o, d) ==
    CASE o.kind = "claim" -> Remember(d, o.act)
      [] o.kind = "welcome" -> [d EXCEPT !.welcomed = TRUE]
      [] o.kind = "append" ->
            IF \E i \in DOMAIN d.recent : d.recent[i].act = o.act THEN d
            ELSE Remember([d EXCEPT !.recent = LastN(@ \o << [role |-> "user", act |-> o.act],
                                                            [role |-> "assistant", act |-> o.act] >>, MaxRecent)],
                          o.act)

\* Mutant of Flag: the flag of a lost attempt sticks.
StickyFlag(o, d, was) == was \/ (o.kind = "claim" /\ o.act \notin Elems(d.seen))

\* The flag the transform leaves for the caller; it is assigned afresh on
\* every attempt, so a flag from a lost attempt (was) does not survive.
Flag(o, d, was) ==
    CASE o.kind = "claim" -> o.act \notin Elems(d.seen)
      [] o.kind = "welcome" -> ~d.welcomed
      [] o.kind = "append" -> FALSE

\* _snapshot: a missing document is fresh, and so is one that outlived its TTL.
Effective(row) == IF row.version = 0 \/ now - row.updatedAt >= TTL THEN Fresh ELSE row.content

\* Mutant of NewVersion: versions restart with the document.
RestartedVersion(v) == v + 1

\* The version the backend gives a write over version v.
NewVersion(v) == IF Backend = "azure" THEN nextTag ELSE v + 1

NoRow == [version |-> 0, content |-> Fresh, updatedAt |-> 0]
NoOp == [kind |-> "welcome"]
NoCand == [content |-> Fresh, updatedAt |-> 0]

Init == /\ version = 0 /\ nextTag = 1 /\ content = Fresh /\ updatedAt = 0 /\ now = 0
        /\ pc = [c \in Callers |-> "idle"]
        /\ op = [c \in Callers |-> NoOp]
        /\ snap = [c \in Callers |-> NoRow]
        /\ cand = [c \in Callers |-> NoCand]
        /\ attempt = [c \in Callers |-> 0]
        /\ claimed = [c \in Callers |-> FALSE]
        /\ calls = [c \in Callers |-> 0]
        /\ won = [a \in Activities |-> 0]

\* update() is called.
Invoke(c, o) == /\ pc[c] = "idle" /\ calls[c] < MaxCalls[c]
                /\ pc' = [pc EXCEPT ![c] = "read"]
                /\ op' = [op EXCEPT ![c] = o]
                /\ calls' = [calls EXCEPT ![c] = @ + 1]
                /\ UNCHANGED <<snap, cand, attempt, claimed, now, won>> /\ UNCHANGED docvars

\* update() returns or raises: its locals are gone.
Return(c) == /\ pc' = [pc EXCEPT ![c] = "idle"]
             /\ op' = [op EXCEPT ![c] = NoOp]
             /\ snap' = [snap EXCEPT ![c] = NoRow]
             /\ cand' = [cand EXCEPT ![c] = NoCand]
             /\ attempt' = [attempt EXCEPT ![c] = 0]
             /\ claimed' = [claimed EXCEPT ![c] = FALSE]
             /\ UNCHANGED <<calls, now>>

\* _read_record: content and version from one storage snapshot.
ReadRecord(c) == /\ pc[c] = "read"
                 /\ pc' = [pc EXCEPT ![c] = "decide"]
                 /\ snap' = [snap EXCEPT ![c] = [version |-> version, content |-> content, updatedAt |-> updatedAt]]
                 /\ attempt' = [attempt EXCEPT ![c] = @ + 1]
                 /\ UNCHANGED <<op, cand, claimed, calls, now, won>> /\ UNCHANGED docvars

\* A claim that answered True.
Win(c) == [won EXCEPT ![op[c].act] = @ + 1]

\* The transform runs on the snapshot and leaves a candidate to store; a no-op
\* returns without writing.
Decide(c) ==
    LET d == Effective(snap[c])
        e == Transform(op[c], d)
        f == Flag(op[c], d, claimed[c])
    IN /\ pc[c] = "decide"
       /\ \/ /\ e # d
             /\ pc' = [pc EXCEPT ![c] = "cas"]
             /\ claimed' = [claimed EXCEPT ![c] = f]
             /\ cand' = [cand EXCEPT ![c] = [content |-> e, updatedAt |-> now]]
             /\ UNCHANGED <<op, snap, attempt, calls, now, won>>
          \/ /\ e = d
             /\ Return(c)
             /\ won' = IF op[c].kind = "claim" /\ f THEN Win(c) ELSE won
       /\ UNCHANGED docvars

\* Mutants of CanSwap: a write that checks nothing; an insert that replaces.
BlindSwap(c) == TRUE
BlindInsert(c) == snap[c].version \in {0, version}

\* The compare-and-swap lands: INSERT ... DO NOTHING / UPDATE ... WHERE version,
\* or the blob upload conditional on the ETag.
CanSwap(c) == snap[c].version = version

Swap(c) == /\ CanSwap(c)
           /\ version' = NewVersion(version)
           /\ nextTag' = nextTag + 1
           /\ content' = cand[c].content
           /\ updatedAt' = cand[c].updatedAt

\* The candidate replaces a document that had outlived its TTL.
Expired(c) == cand[c].updatedAt - updatedAt >= TTL

\* The history counts an answer of True, and forgets an activity that was
\* evicted or that expired with its document.
Answered(c, success) ==
    won' = [a \in Activities |->
              (IF Expired(c) \/ a \notin Elems(cand[c].content.seen) THEN 0 ELSE won[a])
              + (IF success /\ op[c].kind = "claim" /\ op[c].act = a /\ claimed[c] THEN 1 ELSE 0)]

CasSuccess(c) == pc[c] = "cas" /\ Swap(c) /\ Answered(c, TRUE) /\ Return(c)

\* A definite conflict retries from a new snapshot, or gives up with
\* ConcurrentUpdateError after the last attempt.
Retry(c) == /\ attempt[c] < MaxAttempts
            /\ pc' = [pc EXCEPT ![c] = "read"]
            /\ snap' = [snap EXCEPT ![c] = NoRow]
            /\ cand' = [cand EXCEPT ![c] = NoCand]
            /\ UNCHANGED <<op, attempt, claimed, calls, now>>

CasConflict(c) == /\ pc[c] = "cas"
                  /\ ~CanSwap(c)
                  /\ Retry(c) \/ (attempt[c] = MaxAttempts /\ Return(c))
                  /\ UNCHANGED won /\ UNCHANGED docvars

\* The storage fails: the caller gets an exception, whether or not its write landed.
Unavailable(c) == \/ /\ pc[c] \in {"read", "decide", "cas"}
                     /\ Return(c)
                     /\ UNCHANGED won /\ UNCHANGED docvars
                  \/ pc[c] = "cas" /\ Swap(c) /\ Answered(c, FALSE) /\ Return(c)

\* The caller is cancelled while its write is under way, and the write goes on.
Cancel(c) == /\ pc[c] = "cas"
             /\ pc' = [pc EXCEPT ![c] = "detached"]
             /\ UNCHANGED <<op, snap, cand, attempt, claimed, calls, now, won>> /\ UNCHANGED docvars

DetachedCas(c) == /\ pc[c] = "detached"
                  /\ Return(c)
                  /\ \/ Swap(c) /\ Answered(c, FALSE)
                     \/ ~CanSwap(c) /\ UNCHANGED won /\ UNCHANGED docvars

\* clear_all: the row or blob is deleted.  Closing the workers cancels their
\* calls, but a write already handed to its thread still runs.
ResetAllowed == \/ Resets = "anytime"
                \/ Resets = "stopped" /\ \A c \in Callers : pc[c] \in {"idle", "detached"}

Reset == /\ ResetAllowed
         /\ version # 0
         /\ version' = 0 /\ content' = Fresh /\ updatedAt' = 0
         /\ won' = [a \in Activities |-> 0]
         /\ UNCHANGED <<nextTag, now>> /\ UNCHANGED callvars

Tick == /\ now < MaxTime
        /\ now' = now + 1
        /\ UNCHANGED won /\ UNCHANGED docvars /\ UNCHANGED callvars

Step(c) == ReadRecord(c) \/ Decide(c) \/ CasSuccess(c) \/ CasConflict(c) \/ DetachedCas(c)

Next == \/ \E c \in Callers : (\E o \in Op : Invoke(c, o)) \/ Step(c) \/ Unavailable(c) \/ Cancel(c)
        \/ Reset
        \/ Tick

Spec == Init /\ [][Next]_vars

-----------------------------------------------------------------------------
Document == [seen : Seq(Activities),
             recent : Seq([role : {"user", "assistant"}, act : Activities]),
             welcomed : BOOLEAN]

TypeOK == /\ version \in Nat /\ nextTag \in Nat \ {0} /\ updatedAt \in Nat /\ now \in Nat
          /\ content \in Document
          /\ pc \in [Callers -> {"idle", "read", "decide", "cas", "detached"}]
          /\ op \in [Callers -> Op]
          /\ snap \in [Callers -> [version : Nat, content : Document, updatedAt : Nat]]
          /\ cand \in [Callers -> [content : Document, updatedAt : Nat]]
          /\ attempt \in [Callers -> 0..MaxAttempts]
          /\ claimed \in [Callers -> BOOLEAN]
          /\ calls \in [Callers -> Nat]
          /\ won \in [Activities -> Nat]

\* claim_activity answers True to at most one caller per activity, as long as
\* its receipt is neither evicted nor expired, whatever the interleaving of the
\* callers' reads, conflicts, lost answers and cancelled writes.
ClaimOnce == \A a \in Activities : won[a] <= 1

\* "A successful claim is a durable receipt": a stored receipt disappears only
\* with the whole document (operator reset), by its expiry, or when MAX_SEEN_IDS
\* newer ones push it out.
ReceiptsKept == \A a \in Elems(content.seen) \ Elems(content'.seen) :
                    \/ version' = 0
                    \/ updatedAt' - updatedAt >= TTL
                    \/ Len(content'.seen) = MaxSeen

\* The docstring's promise as an action property: no step of any caller, late
\* write or clock tick takes a receipt away in another way.
DurableReceipt == [][ReceiptsKept]_vars

\* Every read, conflict and retry of the CAS loop together is one atomic
\* transform of the current document, or nothing.
Atomic == INSTANCE AtomicStore WITH Ops <- Op
Refines == Atomic!ASpec
=============================================================================
