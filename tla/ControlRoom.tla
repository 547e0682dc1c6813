----------------------------- MODULE ControlRoom -----------------------------
(***************************************************************************)
(* The control room's activity feed (control_room.ActivityFeed) and its    *)
(* durable copy (ControlRoomPersistence): events are recorded in memory at *)
(* any time, a loop of the web host flushes the feeds that changed, once   *)
(* more when it stops, and the copy is loaded when a process starts.       *)
(*                                                                         *)
(* A feed is a set of events, all of which fit in it; a stored document is *)
(* written atomically, by its own scope, and the index of feeds after the  *)
(* feeds.                                                                  *)
(***************************************************************************)
EXTENDS Integers, FiniteSets

CONSTANTS Events, KeyOf,  \* the events, and the instance each is of
          MaxFaults       \* bound: store errors, and crashes

VARIABLES life,     \* of the process
          feed,     \* _buckets
          dirty,    \* _dirty
          flush,    \* the flush in progress, and its locals
          loading,  \* instances whose feeds are still to be loaded
          stored,   \* the stored feeds
          listed,   \* the stored index
          recorded, \* history: events that were recorded
          excused,  \* history: instances that nothing will flush any more, though they are not stored or listed
          late,     \* history: events that were recorded when the final flush had taken what it flushes
          faults    \* history

vars == <<life, feed, dirty, flush, loading, stored, listed, recorded, excused, late, faults>>

Keys == {KeyOf[e] : e \in Events}
NoFlush == [pc |-> "none", taken |-> {}, events |-> {}, key |-> CHOOSE k \in Keys : TRUE, keys |-> {}]
InMemory == {k \in Keys : feed[k] # {}}

Init == /\ life = "starting"
        /\ feed = [k \in Keys |-> {}] /\ dirty = {} /\ flush = NoFlush /\ loading = {}
        /\ stored = [k \in Keys |-> {}] /\ listed = {}
        /\ recorded = {} /\ excused = {} /\ late = {} /\ faults = 0

\* The flushes are over, or the final one has taken what it flushes.
Ended == life \in {"final", "stopped"}
\* record, from any part of the host; some go on when the control room has stopped.
Record(e) == /\ e \notin recorded
             /\ recorded' = recorded \cup {e}
             /\ feed' = [feed EXCEPT ![KeyOf[e]] = @ \cup {e}]
             /\ dirty' = dirty \cup {KeyOf[e]}
             /\ IF Ended THEN late' = late \cup {e} /\ UNCHANGED excused
                ELSE excused' = excused \ {KeyOf[e]} /\ UNCHANGED late
             /\ UNCHANGED <<life, flush, loading, stored, listed, faults>>

---------------------------------------------------------------------------
(* load *)

LoadIndex == /\ life = "starting"
             /\ life' = "loading" /\ loading' = listed
             /\ UNCHANGED <<feed, dirty, flush, stored, listed, recorded, excused, late, faults>>

Restore(k) == /\ life = "loading" /\ k \in loading
              /\ loading' = loading \ {k}
              /\ feed' = [feed EXCEPT ![k] = @ \cup stored[k]]
              /\ UNCHANGED <<life, dirty, flush, stored, listed, recorded, excused, late, faults>>

\* Nothing is dirty any more, also what was recorded since the process started.
Loaded == /\ life = "loading" /\ loading = {}
          /\ life' = "running"
          /\ dirty' = {} /\ excused' = excused \cup dirty
          /\ UNCHANGED <<feed, flush, loading, stored, listed, recorded, late, faults>>

\* "history could not be restored; continuing with new activity only"
LoadFails == /\ life \in {"starting", "loading"} /\ faults < MaxFaults
             /\ life' = "running" /\ loading' = {}
             /\ faults' = faults + 1
             /\ UNCHANGED <<feed, dirty, flush, stored, listed, recorded, excused, late>>

---------------------------------------------------------------------------
(* flush, of the loop or at the end *)

Take == /\ life \in {"running", "closing"} /\ flush.pc = "none" /\ dirty # {}
        /\ life' = IF life = "closing" THEN "final" ELSE life
        /\ flush' = [NoFlush EXCEPT !.pc = "reading", !.taken = dirty]
        /\ dirty' = {}
        /\ UNCHANGED <<feed, loading, stored, listed, recorded, excused, late, faults>>

\* The events of one feed, or the names of all, before the next await.
Snapshot(k) == /\ flush.pc = "reading" /\ k \in flush.taken
               /\ flush' = [flush EXCEPT !.pc = "writing", !.key = k, !.events = feed[k]]
               /\ UNCHANGED <<life, feed, dirty, loading, stored, listed, recorded, excused, late, faults>>

Write == /\ flush.pc = "writing"
         /\ stored' = [stored EXCEPT ![flush.key] = flush.events]
         /\ flush' = [flush EXCEPT !.pc = "reading", !.taken = @ \ {flush.key}]
         /\ UNCHANGED <<life, feed, dirty, loading, listed, recorded, excused, late, faults>>

Names == /\ flush.pc = "reading" /\ flush.taken = {}
         /\ flush' = [flush EXCEPT !.pc = "indexing", !.keys = InMemory]
         /\ UNCHANGED <<life, feed, dirty, loading, stored, listed, recorded, excused, late, faults>>

Index == /\ flush.pc = "indexing"
         /\ listed' = flush.keys
         /\ flush' = NoFlush
         /\ UNCHANGED <<life, feed, dirty, loading, stored, recorded, excused, late, faults>>

\* What a write that fails, or is cancelled, may have done.
Landed == \/ UNCHANGED <<stored, listed>>
          \/ flush.pc = "writing" /\ stored' = [stored EXCEPT ![flush.key] = flush.events] /\ UNCHANGED listed
          \/ flush.pc = "indexing" /\ listed' = flush.keys /\ UNCHANGED stored
Abandoned == flush.taken \cup (InMemory \ listed)
\* After a failure of the index nothing is dirty again, and nobody comes back to what the final flush left.
Missed == IF life = "final" THEN Abandoned ELSE IF flush.pc = "indexing" THEN flush.keys \ listed ELSE {}
\* What failed is not dirty again.
FailsQuietly == /\ flush.pc \in {"writing", "indexing"} /\ faults < MaxFaults
                /\ Landed
                /\ flush' = NoFlush
                /\ excused' = excused \cup Missed
                /\ faults' = faults + 1
                /\ UNCHANGED <<life, feed, dirty, loading, recorded, late>>
\* What was not written is dirty again.
Fails == /\ flush.pc \in {"writing", "indexing"} /\ faults < MaxFaults
         /\ Landed
         /\ flush' = NoFlush
         /\ dirty' = dirty \cup flush.taken
         /\ excused' = excused \cup Missed
         /\ faults' = faults + 1
         /\ UNCHANGED <<life, feed, loading, recorded, late>>

---------------------------------------------------------------------------

\* _stop_control_room: the loop is cancelled, and with it the flush it may be
\* in; a write in a thread may land, and what was taken is not dirty again.
Stop == /\ life = "running" /\ flush.pc # "reading"
        /\ life' = "closing"
        /\ Landed
        /\ flush' = NoFlush
        /\ excused' = IF flush.pc = "none" THEN excused ELSE excused \cup Abandoned
        /\ UNCHANGED <<feed, dirty, loading, recorded, late, faults>>

\* The final flush is made once, and does nothing when nothing is dirty.
Stopped == /\ (life = "closing" /\ dirty = {}) \/ life = "final"
           /\ flush.pc = "none"
           /\ life' = "stopped"
           /\ UNCHANGED <<feed, dirty, flush, loading, stored, listed, recorded, excused, late, faults>>

\* Another process starts, after a stop or a crash.
Restart == /\ life = "stopped" \/ faults < MaxFaults
           /\ faults' = IF life = "stopped" THEN faults ELSE faults + 1
           /\ life' = "starting"
           /\ feed' = [k \in Keys |-> {}] /\ dirty' = {} /\ flush' = NoFlush /\ loading' = {}
           /\ excused' = {} /\ late' = {}
           /\ UNCHANGED <<stored, listed, recorded>>

Next == \/ \E e \in Events : Record(e)
        \/ LoadIndex \/ Loaded \/ LoadFails \/ (\E k \in Keys : Restore(k) \/ Snapshot(k))
        \/ Take \/ Write \/ Names \/ Index \/ Fails \/ Stop \/ Stopped \/ Restart

Spec == Init /\ [][Next]_vars

---------------------------------------------------------------------------

\* Somebody will flush what is dirty.
Flushed == life \in {"running", "closing"}
Pending(k) == (k \in dirty /\ Flushed) \/ k \in flush.taken
Indexing(k) == (dirty # {} /\ Flushed) \/ flush.pc \in {"reading", "writing"} \/ (flush.pc = "indexing" /\ k \in flush.keys)

\* An event that is not stored yet is in a feed that will be flushed, though
\* it was recorded while its feed was being written, or the write failed, or
\* the host is stopping; and a feed that is stored is listed, or about to be.
\* The exceptions are what load takes out of the dirty set, a failure of the
\* index, the flush that the stop cancels, a final flush that fails, and the
\* events that are recorded once the final flush has begun.
FeedKept == life \in {"running", "closing", "final", "stopped"} =>
    \A k \in Keys \ excused :
        /\ feed[k] \ late \subseteq stored[k] \/ Pending(k)
        /\ feed[k] \ late # {} => k \in listed \/ Pending(k) \/ Indexing(k)
=============================================================================
