---------------------------- MODULE AtomicStore ----------------------------
(***************************************************************************)
(* What conversation_memory.Store promises to its callers: one document    *)
(* that changes only by a whole transform of its current content or by an  *)
(* operator reset.  A document untouched for TTL counts as fresh.          *)
(***************************************************************************)
EXTENDS Integers

CONSTANTS Ops,              \* the operations callers may ask for
          TTL,              \* ttl_seconds
          Fresh,            \* the content of a document never written
          Transform(_, _)   \* what an operation makes of a content

VARIABLES content,    \* the document, without its timestamp
          updatedAt,  \* time of its last mutation
          now         \* the clock

avars == <<content, updatedAt, now>>

\* What a transform may be applied to: the content as it stands, or a fresh
\* one once the document has outlived its TTL.
Current == {content} \cup (IF now - updatedAt >= TTL THEN {Fresh} ELSE {})

AInit == content = Fresh /\ updatedAt = 0 /\ now = 0

\* One operation takes effect, whole, on the current content.  updatedAt is
\* read before the write lands, so it may lie behind the clock.
AUpdate == /\ \E o \in Ops : \E c \in Current : content' = Transform(o, c)
           /\ updatedAt' \in updatedAt..now
           /\ UNCHANGED now

AReset == content' = Fresh /\ updatedAt' = 0 /\ UNCHANGED now

ATick == now' = now + 1 /\ UNCHANGED <<content, updatedAt>>

ANext == AUpdate \/ AReset \/ ATick

ASpec == AInit /\ [][ANext]_avars
=============================================================================
