------------------------- MODULE ComplianceService -------------------------
(***************************************************************************)
(* compliance_service.ComplianceService: concurrent calls of receive_email *)
(* and handle_reply drive compliance cases kept in one CAS document.  Each *)
(* CAS edit is one atomic step here (ConversationStore shows it is one);   *)
(* between two edits of a call, and around its external writes, any other  *)
(* call may run, and the call may be interrupted or die.                   *)
(*                                                                         *)
(* Abstractions: one binding, one requester and one private chat; texts,   *)
(* evidence, receipts' contents, timelines and best-effort notices (the    *)
(* courtesy message, the confirmation email) are left out, and with them   *)
(* the edits that only append a timeline event.  Size limits and storage   *)
(* errors raise like any interruption.                                     *)
(***************************************************************************)
EXTENDS Integers, Sequences, FiniteSets

CONSTANTS Keys,         \* case keys: digests of immutable message ids
          EmailCalls,   \* calls of receive_email
          ReplyCalls,   \* calls of handle_reply
          EmailKey,     \* EmailKey[c]: the case of the email c carries
          Activity,     \* Activity[c]: the activity key of reply c
          Truncated,    \* the replies that were shortened or redacted
          Numbers,      \* case numbers Salesforce may hand out
          Interruptible,\* bound: the calls that may fail, be cancelled or die
          Verdicts,     \* bound: what investigations may come to ("failed" for none)
          Intents,      \* bound: what free text may be understood as
          Forms,        \* bound: the forms of text that replies take
          MaxCases,     \* MAX_CASES
          MaxTurns,     \* MAX_TURNS
          MaxPending,   \* MAX_PENDING_REPLIES
          MaxReceipts,  \* MAX_ACTIVITY_RECEIPTS
          None

Calls == EmailCalls \cup ReplyCalls
Activities == {Activity[c] : c \in ReplyCalls}

ASSUME ServiceAssumption ==
    /\ EmailKey \in [EmailCalls -> Keys]
    /\ EmailCalls \cap ReplyCalls = {}
    /\ Truncated \subseteq ReplyCalls /\ Interruptible \subseteq Calls
    /\ Verdicts \subseteq {"ready", "questions", "blockers", "failed"}
    /\ Intents \subseteq {"information", "confirm", "chat"}
    /\ Forms \subseteq {"plain", "malformed", "marker", "resolve"}
    /\ MaxCases \in Nat /\ MaxTurns \in Nat \ {0} /\ MaxPending \in Nat \ {0} /\ MaxReceipts \in Nat
    /\ None \notin Calls /\ None \notin Keys /\ None \notin Numbers

Generations == 0..(MaxTurns - 1)
NoGen == -1

\* The names of a case's external writes.
Create == <<"create", 0>>
Chat == <<"chat", 0>>
Close == <<"close", 0>>
ClosedDelivery == <<"closed_delivery", 0>>
Update(g) == <<"update", g>>
Delivery(g) == <<"delivery", g>>
Names == {Create, Chat, Close, ClosedDelivery} \cup ({"update", "delivery"} \X Generations)

VARIABLES cases,    \* cases[k]: the record of case k
          writes,   \* writes[k][n]: claim and receipt of external write n
          clock,    \* the clock of completion stamps
          call,     \* call[c]: where call c is, and its locals
          effects,  \* history: effects[k][n], times external write n was invoked
          heard,    \* history: heard[k], replies accepted as material
          answered  \* history: answered[k], the material that the delivered
                    \* resolution-ready answer took into account

vars == <<cases, writes, clock, call, effects, heard, answered>>
history == <<effects, heard, answered>>

NoResult == [gen |-> NoGen, verdict |-> "none"]
NoWrite == [status |-> "none", by |-> None, at |-> 0]

Absent == [status |-> "absent", owner |-> None, number |-> None, chat |-> FALSE, generation |-> 0,
           suspended |-> FALSE, complete |-> TRUE, activities |-> {}, pending |-> <<>>,
           investigation |-> NoResult, resolution |-> NoGen, contact |-> 0,
           closed |-> FALSE, readback |-> "none"]

Idle == [pc |-> "idle", key |-> None, gen |-> NoGen, name |-> Create, verdict |-> "none", number |-> None,
         whole |-> TRUE, sent |-> FALSE, at |-> 0, form |-> "plain", intent |-> "information",
         intentKey |-> None, context |-> {}]

Init == /\ cases = [k \in Keys |-> Absent]
        /\ writes = [k \in Keys |-> [n \in Names |-> NoWrite]]
        /\ clock = 0
        /\ call = [c \in Calls |-> Idle]
        /\ effects = [k \in Keys |-> [n \in Names |-> 0]]
        /\ heard = [k \in Keys |-> {}]
        /\ answered = [k \in Keys |-> {}]

Admitted == {k \in Keys : cases[k].status # "absent"}

At(c, p) == call[c].pc = p

\* The locals of a call that ended are gone; one that raised still has its case.
Locals(l, p) == IF p \in {"done", "lost"} THEN [Idle EXCEPT !.pc = p]
                ELSE IF p = "abort" THEN [Idle EXCEPT !.pc = p, !.key = l.key]
                ELSE [l EXCEPT !.pc = p]
Goto(c, p) == call' = [call EXCEPT ![c] = Locals(@, p)]

\* _edit: the owner's edit r of its case, and the call's next locals l; anybody
\* else's edit raises _OwnershipLost.
Edit(c, r, l) == IF cases[call[c].key].owner = c
                 THEN /\ cases' = [cases EXCEPT ![call[c].key] = r]
                      /\ call' = [call EXCEPT ![c] = l]
                 ELSE Goto(c, "abort") /\ UNCHANGED cases

\* The locals of a call that goes on at p, or goes on to claim write n.
On(c, p) == Locals(call[c], p)
OnWrite(c, n) == [call[c] EXCEPT !.pc = "claim", !.name = n]

-----------------------------------------------------------------------------
(* receive_email                                                           *)

\* The call starts and stamps the time of receipt.
Receive(c) == /\ At(c, "idle") /\ c \in EmailCalls
              /\ clock' = clock + 1
              /\ call' = [call EXCEPT ![c].pc = "admit", ![c].key = EmailKey[c], ![c].at = clock']
              /\ UNCHANGED <<cases, writes, history>>

\* Mutant of Admit: a redelivered email takes its case over.
AdmitAgain(c) == LET k == EmailKey[c]
                 IN /\ At(c, "admit")
                    /\ cases' = [cases EXCEPT ![k] = IF k \in Admitted THEN [@ EXCEPT !.owner = c]
                                       ELSE [Absent EXCEPT !.status = "received", !.owner = c,
                                                           !.pending = <<0>>, !.contact = call[c].at]]
                    /\ call' = [call EXCEPT ![c] = [Idle EXCEPT !.pc = "claim", !.key = k, !.name = Create]]
                    /\ UNCHANGED <<writes, clock, history>>

\* admit: a new case owned by this call; a known one is only viewed, and a full
\* index raises.
Admit(c) == LET k == EmailKey[c]
            IN /\ At(c, "admit")
               /\ \/ /\ k \notin Admitted /\ Cardinality(Admitted) < MaxCases
                     /\ cases' = [cases EXCEPT ![k] = [Absent EXCEPT !.status = "received", !.owner = c,
                                                                     !.pending = <<0>>, !.contact = call[c].at]]
                     /\ call' = [call EXCEPT ![c] = [Idle EXCEPT !.pc = "claim", !.key = k, !.name = Create]]
                  \/ k \in Admitted /\ Goto(c, "done") /\ UNCHANGED cases
                  \/ /\ k \notin Admitted /\ Cardinality(Admitted) >= MaxCases
                     /\ Goto(c, "abort") /\ UNCHANGED cases
               /\ UNCHANGED <<writes, clock, history>>

\* Another case of the index already has this number.
Collides(k, number) == \E j \in Admitted \ {k} : cases[j].number = number

\* registered: the case gets its number; a collision stops it.
Register(c) ==
    LET k == call[c].key
        collision == Collides(k, call[c].number)
    IN /\ At(c, "register")
       /\ Edit(c, [cases[k] EXCEPT !.number = call[c].number,
                                   !.status = IF collision THEN "write_outcome_unknown" ELSE "investigating",
                                   !.suspended = collision],
                  On(c, IF collision THEN "abort" ELSE "take"))
       /\ UNCHANGED <<writes, clock, history>>

-----------------------------------------------------------------------------
(* _write: claim, invoke, complete                                         *)

PendingStatus(n) == CASE n[1] = "create" -> "creating"
                      [] n[1] = "chat" -> "opening_private_chat"
                      [] n[1] = "update" -> "updating_case"
                      [] n[1] = "delivery" -> "delivering_answer"
                      [] n[1] = "close" -> "closing"
                      [] n[1] = "closed_delivery" -> "notifying_closure"

\* Mutant of Authorised: the claim does not look for newer material.
AuthorisedOnce(c, n) == ~cases[call[c].key].suspended

\* The claim's conditions: authority still stands ...
Authorised(c, n) == LET r == cases[call[c].key]
                    IN ~r.suspended /\ (n # Create => r.generation = call[c].gen)

\* ... and neither this write nor an unsettled one was ever claimed.
Unclaimed(k, n) == /\ writes[k][n].status = "none"
                   /\ \A m \in Names : writes[k][m].status \in {"none", "completed"}

Claim(c) == LET k == call[c].key
                n == call[c].name
            IN /\ At(c, "claim") /\ cases[k].owner = c /\ Authorised(c, n) /\ Unclaimed(k, n)
               /\ writes' = [writes EXCEPT ![k][n] = [status |-> "claimed", by |-> c, at |-> 0]]
               /\ cases' = [cases EXCEPT ![k].status = PendingStatus(n)]
               /\ Goto(c, "invoke")
               /\ UNCHANGED <<clock, history>>

\* The claim comes too late: newer material or a suspension withdrew the
\* authority.  Progress goes on from the top of the loop, closure without its
\* notice; registration and replayed claims raise.
ClaimRefused(c) ==
    LET n == call[c].name
        lost == cases[call[c].key].owner # c \/ (Authorised(c, n) /\ ~Unclaimed(call[c].key, n))
    IN /\ At(c, "claim")
       /\ lost \/ ~Authorised(c, n)
       /\ Goto(c, IF lost \/ n = Create THEN "abort" ELSE IF n = ClosedDelivery THEN "notified" ELSE "take")
       /\ UNCHANGED <<cases, writes, clock, history>>

\* Mutant of Invoke: a failed write is tried again.
InvokeAgain(c) == LET k == call[c].key
                      n == call[c].name
                  IN /\ At(c, "invoke")
                     /\ effects' = [effects EXCEPT ![k][n] = @ + 1]
                     /\ \E p \in {"invoke", "complete"}, x \in Numbers :
                           call' = [call EXCEPT ![c].pc = p, ![c].number = IF n = Create THEN x ELSE @]
                     /\ UNCHANGED <<cases, writes, clock, heard, answered>>

\* The external write takes place.  Registration returns a number, a delivery
\* its time; one that fails is this step or none, followed by an interruption.
Invoke(c) == LET k == call[c].key
                 n == call[c].name
             IN /\ At(c, "invoke")
                /\ effects' = [effects EXCEPT ![k][n] = @ + 1]
                /\ clock' = IF n[1] = "delivery" THEN clock + 1 ELSE clock
                /\ \E x \in IF n = Create THEN Numbers ELSE {call[c].number} :
                      call' = [call EXCEPT ![c].pc = "complete", ![c].number = x, ![c].at = clock']
                /\ UNCHANGED <<cases, writes, heard, answered>>

AfterWrite(n) == CASE n[1] = "create" -> "register"
                   [] n[1] = "chat" -> "chat"
                   [] n[1] = "update" -> "claim"
                   [] n[1] = "delivery" -> "deliver"
                   [] n[1] = "close" -> "verify"
                   [] n[1] = "closed_delivery" -> "notified"

\* The receipt is stored, if the claim is still the call's own.
Complete(c) == LET k == call[c].key
                   n == call[c].name
                   mine == cases[k].owner = c /\ writes[k][n].by = c /\ writes[k][n].status = "claimed"
               IN /\ At(c, "complete")
                  /\ writes' = IF mine THEN [writes EXCEPT ![k][n].status = "completed", ![k][n].at = call[c].at]
                               ELSE writes
                  /\ call' = [call EXCEPT ![c].pc = IF mine THEN AfterWrite(n) ELSE "abort",
                                          ![c].name = IF n[1] = "update" THEN Delivery(call[c].gen) ELSE n,
                                          ![c].at = 0,
                                          ![c].sent = n = ClosedDelivery]
                  /\ UNCHANGED <<cases, clock, history>>

-----------------------------------------------------------------------------
(* _drive: the loop of a case's owner                                      *)

\* Mutant of Released: the owner forgets to let go.
StillOwned(r) == r

\* The owner lets go of a case it has no more work on.
Released(r) == [r EXCEPT !.owner = None]

\* _take_work: the next queued round, or the case is released.
Take(c) ==
    LET k == call[c].key
        r == cases[k]
        g == Head(r.pending)
    IN /\ At(c, "take")
       /\ IF r.suspended \/ r.closed \/ r.pending = <<>>
          THEN Edit(c, Released(r), On(c, "done"))
          ELSE Edit(c, [r EXCEPT !.pending = Tail(@), !.status = "investigating", !.resolution = NoGen],
                       [On(c, IF g = r.generation THEN "investigate" ELSE "take")
                           EXCEPT !.gen = g, !.whole = r.complete, !.context = heard[k]])
       /\ UNCHANGED <<writes, clock, history>>

\* The backend's read-only investigation: an answer that is ready only when all
\* input was complete, or a failure (after one retry).
Investigate(c) == /\ At(c, "investigate")
                  /\ \/ \E v \in Verdicts \ {"failed"} :
                            /\ v = "ready" => call[c].whole
                            /\ call' = [call EXCEPT ![c].pc = "record", ![c].verdict = v]
                     \/ "failed" \in Verdicts /\ Goto(c, "block")
                  /\ UNCHANGED <<cases, writes, clock, history>>

\* investigated: the result counts unless newer material came in.
Record(c) == LET r == cases[call[c].key]
                 g == call[c].gen
             IN /\ At(c, "record")
                /\ IF r.generation # g \/ r.suspended
                   THEN Edit(c, r, On(c, "take"))
                   ELSE Edit(c, [r EXCEPT !.investigation = [gen |-> g, verdict |-> call[c].verdict]],
                                OnWrite(c, IF r.chat THEN Update(g) ELSE Chat))
                /\ UNCHANGED <<writes, clock, history>>

\* Mutant of Block: the case is released without saying so.
BlockSilently(c) == /\ At(c, "block")
                    /\ Edit(c, [cases[call[c].key] EXCEPT !.owner = None], On(c, "abort"))
                    /\ UNCHANGED <<writes, clock, history>>

\* blocked: the records could not be checked; the case is released.
Block(c) == /\ At(c, "block")
            /\ Edit(c, [cases[call[c].key] EXCEPT !.status = "needs_specialist_review", !.owner = None,
                                                  !.resolution = NoGen],
                       On(c, "abort"))
            /\ UNCHANGED <<writes, clock, history>>

\* chat_ready
ChatReady(c) == /\ At(c, "chat")
                /\ Edit(c, [cases[call[c].key] EXCEPT !.chat = TRUE], OnWrite(c, Update(call[c].gen)))
                /\ UNCHANGED <<writes, clock, history>>

\* delivered: a ready answer may now be confirmed, unless it is out of date.
Delivered(c) ==
    LET k == call[c].key
        r == cases[k]
        current == r.generation = call[c].gen /\ ~r.suspended
        ready == call[c].verdict = "ready"
    IN /\ At(c, "deliver")
       /\ Edit(c, [r EXCEPT !.contact = writes[k][Delivery(call[c].gen)].at,
                            !.resolution = IF current /\ ready THEN call[c].gen ELSE NoGen,
                            !.status = CASE ~current -> @
                                         [] current /\ ready -> "awaiting_confirmation"
                                         [] current /\ call[c].verdict = "questions" -> "waiting_for_requester"
                                         [] current /\ call[c].verdict = "blockers" -> "needs_specialist_review"],
                  On(c, "take"))
       /\ answered' = IF current /\ ready THEN [answered EXCEPT ![k] = call[c].context] ELSE answered
       /\ UNCHANGED <<writes, clock, effects, heard>>

-----------------------------------------------------------------------------
(* handle_reply                                                            *)

\* The case a reply is about: the only one its number or its chat names, or the
\* open case the requester was last messaged about.
Target(form, number) ==
    LET chats == {k \in Admitted : cases[k].chat}
        numbered == {k \in chats : cases[k].number = number}
        open == {k \in chats : ~cases[k].closed}
        latest == {k \in open : \A j \in open : cases[j].contact <= cases[k].contact}
        found == CASE form \in {"marker", "resolve"} -> numbered
                   [] form = "malformed" -> chats
                   [] form = "plain" -> IF Cardinality(chats) > 1 THEN latest ELSE chats
    IN IF Cardinality(found) = 1 THEN CHOOSE k \in found : TRUE ELSE None

\* A reply arrives: the time of receipt is stamped and its text parsed.
ReceiveReply(c) == /\ At(c, "idle") /\ c \in ReplyCalls
                   /\ \E f \in Forms, n \in Numbers \cup {None} :
                         /\ f \in {"marker", "resolve"} <=> n # None
                         /\ call' = [call EXCEPT ![c].pc = "interpret", ![c].at = clock,
                                                 ![c].form = f, ![c].number = n]
                   /\ UNCHANGED <<cases, writes, clock, history>>

\* _intent: free text is interpreted against the case it seems to be about.
Interpret(c) == /\ At(c, "interpret")
                /\ LET k == Target(call[c].form, call[c].number)
                   IN \E i \in IF call[c].form = "resolve" \/ k = None THEN {"information"}
                               ELSE Intents :
                         call' = [call EXCEPT ![c].pc = "accept", ![c].intent = i,
                                              ![c].intentKey = IF call[c].form = "resolve" THEN None ELSE k]
                /\ UNCHANGED <<cases, writes, clock, history>>

\* _can_resolve: a current, ready answer was delivered before the confirmation,
\* and nothing is queued, running or unsettled.
CanResolve(k, received) ==
    LET r == cases[k]
        g == r.generation
    IN /\ r.owner = None /\ ~r.suspended /\ r.pending = <<>> /\ r.status = "awaiting_confirmation"
       /\ ~r.closed /\ r.complete
       /\ r.investigation = [gen |-> g, verdict |-> "ready"]
       /\ r.resolution = g
       /\ writes[k][Delivery(g)].status = "completed" /\ received >= writes[k][Delivery(g)].at
       /\ \A n \in Names : writes[k][n].status \in {"none", "completed"}

\* Mutant of Replayed: only the case the reply now names is looked at.
ReplayedHere(c) == \E k \in Admitted : k = Target(call[c].form, call[c].number) /\ Activity[c] \in cases[k].activities

\* An activity is handled once, whichever case it names.
Replayed(c) == \E k \in Admitted : Activity[c] \in cases[k].activities

Accepting(c, k) == /\ At(c, "accept")
                   /\ k = Target(call[c].form, call[c].number)

AcceptNothing(c) == /\ \/ Accepting(c, None)
                       \/ At(c, "accept") /\ Target(call[c].form, call[c].number) # None /\ Replayed(c)
                    /\ Goto(c, "done")
                    /\ UNCHANGED <<cases, writes, clock, history>>

Specialist(status) == IF status = "write_outcome_unknown" THEN status ELSE "needs_specialist_review"

\* The case has no room for another activity receipt: automatic progress stops.
AcceptFull(c, k) == /\ Accepting(c, k) /\ ~Replayed(c)
                    /\ Cardinality(cases[k].activities) >= MaxReceipts
                    /\ cases' = [cases EXCEPT ![k].suspended = TRUE, ![k].resolution = NoGen,
                                              ![k].status = Specialist(@)]
                    /\ Goto(c, "done")
                    /\ UNCHANGED <<writes, clock, history>>

\* Mutant of Room: receipts are kept without bound.
AlwaysRoom(c, k) == Accepting(c, k) /\ ~Replayed(c)

\* The reply is new and its receipt can be kept.
Room(c, k) == /\ Accepting(c, k) /\ ~Replayed(c)
              /\ Cardinality(cases[k].activities) < MaxReceipts

Understood(c, k) == IF call[c].intentKey = k THEN call[c].intent ELSE "information"

\* Whether the reply asks to close: the exact command, or a confirmed answer.
Confirms(c, k) == \/ call[c].form = "resolve"
                  \/ Understood(c, k) = "confirm" /\ CanResolve(k, call[c].at)

AcceptRejected(c, k) == /\ Room(c, k)
                        /\ call[c].form = "resolve" /\ ~CanResolve(k, call[c].at)
                        /\ cases' = [cases EXCEPT ![k].activities = @ \cup {Activity[c]}]
                        /\ Goto(c, "done")
                        /\ UNCHANGED <<writes, clock, history>>

AcceptClose(c, k) == /\ Room(c, k)
                     /\ Confirms(c, k) /\ CanResolve(k, call[c].at)
                     /\ cases' = [cases EXCEPT ![k].activities = @ \cup {Activity[c]},
                                               ![k].owner = c, ![k].status = "closing"]
                     /\ call' = [call EXCEPT ![c] = [Idle EXCEPT !.pc = "claim", !.key = k, !.name = Close,
                                                                 !.gen = cases[k].generation]]
                     /\ UNCHANGED <<writes, clock, history>>

AcceptChat(c, k) == /\ Room(c, k)
                    /\ ~Confirms(c, k) /\ Understood(c, k) = "chat"
                    /\ cases' = [cases EXCEPT ![k].activities = @ \cup {Activity[c]}]
                    /\ Goto(c, "done")
                    /\ UNCHANGED <<writes, clock, history>>

\* No more material can be queued.
Full(r) == r.generation >= MaxTurns - 1 \/ Len(r.pending) >= MaxPending

\* Nobody is working on the case.
Free(r) == r.owner = None

\* Everything else is material: it withdraws the earlier answer's authority and
\* is queued, or the case is suspended when there is no room for it or when
\* Salesforce has already closed it.
AcceptMaterial(c, k) ==
    LET r == cases[k]
        queued == ~Full(r) /\ ~r.suspended
        stopped == Full(r) \/ r.suspended \/ r.closed
        g == IF queued THEN r.generation + 1 ELSE r.generation
        mine == ~stopped /\ Free(r)
    IN /\ Room(c, k)
       /\ ~Confirms(c, k) /\ Understood(c, k) # "chat"
       /\ cases' = [cases EXCEPT ![k] =
              [r EXCEPT !.activities = @ \cup {Activity[c]},
                        !.resolution = NoGen, !.investigation = NoResult,
                        !.complete = @ /\ c \notin Truncated,
                        !.generation = g,
                        !.pending = IF queued THEN Append(@, g) ELSE @,
                        !.suspended = stopped,
                        !.status = IF stopped THEN Specialist(@) ELSE "investigating",
                        !.owner = IF mine THEN c ELSE @]]
       /\ call' = [call EXCEPT ![c] = Locals([Idle EXCEPT !.key = k], IF mine THEN "take" ELSE "done")]
       /\ heard' = [heard EXCEPT ![k] = @ \cup {c}]
       /\ UNCHANGED <<writes, clock, effects, answered>>

-----------------------------------------------------------------------------
(* _close_case                                                             *)

\* verifying
Verify(c) == /\ At(c, "verify")
             /\ Edit(c, [cases[call[c].key] EXCEPT !.status = "verifying_close"], On(c, "readback"))
             /\ UNCHANGED <<writes, clock, history>>

\* The status Salesforce reads back is recorded; anything but Closed raises.
Readback(c) == /\ At(c, "readback")
               /\ \E s \in {"Closed", "other"} :
                     Edit(c, [cases[call[c].key] EXCEPT !.readback = s],
                             On(c, IF s = "Closed" THEN "closed" ELSE "abort"))
               /\ UNCHANGED <<writes, clock, history>>

\* Mutant of Overtaken: material that came after the claim goes unnoticed.
OvertakenUnseen(c, r) == r.suspended

\* Something came in between the claim of the closure and its confirmation.
Overtaken(c, r) == r.generation # call[c].gen \/ r.pending # <<>> \/ r.suspended

\* closed: Salesforce is closed; material that came meanwhile goes to a specialist.
Closed(c) ==
    LET r == cases[call[c].key]
        overtaken == Overtaken(c, r)
    IN /\ At(c, "closed")
       /\ Edit(c, [r EXCEPT !.closed = TRUE, !.resolution = NoGen, !.suspended = overtaken,
                            !.status = IF overtaken THEN "needs_specialist_review" ELSE "closed",
                            !.owner = IF overtaken THEN None ELSE @],
                  IF overtaken THEN On(c, "done") ELSE OnWrite(c, ClosedDelivery))
       /\ UNCHANGED <<writes, clock, history>>

\* notified: the case is released, closed only if nothing came in meanwhile.
Notified(c) ==
    LET r == cases[call[c].key]
        good == r.generation = call[c].gen /\ ~r.suspended /\ call[c].sent
    IN /\ At(c, "notified")
       /\ Edit(c, [r EXCEPT !.owner = None, !.suspended = ~good,
                            !.status = IF good THEN "closed" ELSE "needs_specialist_review"],
                  On(c, "done"))
       /\ UNCHANGED <<writes, clock, history>>

-----------------------------------------------------------------------------
(* Interruption                                                            *)

Running(c) == call[c].pc \notin {"idle", "abort", "done", "lost"}

\* A storage, backend or validation error, or a cancellation, ends the call.
Interrupt(c) == /\ c \in Interruptible /\ Running(c)
                /\ Goto(c, "abort")
                /\ UNCHANGED <<cases, writes, clock, history>>

\* Mutant of Abort: the claim is rolled back and the case released.
AbortRollsBack(c) ==
    LET k == call[c].key
        mine == k # None /\ cases[k].owner = c
    IN /\ At(c, "abort")
       /\ cases' = IF mine THEN [cases EXCEPT ![k].owner = None] ELSE cases
       /\ writes' = IF mine THEN [writes EXCEPT ![k] = [n \in Names |->
                                    IF writes[k][n].by = c /\ writes[k][n].status = "claimed" THEN NoWrite
                                    ELSE writes[k][n]]] ELSE writes
       /\ Goto(c, "lost")
       /\ UNCHANGED <<clock, history>>

\* _abort: the owner marks its claims unknown and suspends the case; it stays
\* the owner.  The marker itself may fail to be saved.
Abort(c) == LET k == call[c].key
                mine == k # None /\ cases[k].owner = c
            IN /\ At(c, "abort")
               /\ \/ /\ mine
                     /\ cases' = [cases EXCEPT ![k].status = "write_outcome_unknown", ![k].suspended = TRUE,
                                               ![k].resolution = NoGen]
                     /\ writes' = [writes EXCEPT ![k] = [n \in Names |->
                            IF writes[k][n].status = "claimed" /\ writes[k][n].by = c
                            THEN [writes[k][n] EXCEPT !.status = "unknown"] ELSE writes[k][n]]]
                  \/ ~mine /\ UNCHANGED <<cases, writes>>
               /\ Goto(c, "lost")
               /\ UNCHANGED <<clock, history>>

\* The process dies at the interruption, or the marker cannot be saved.
Die(c) == /\ At(c, "abort")
          /\ Goto(c, "lost")
          /\ UNCHANGED <<cases, writes, clock, history>>
-----------------------------------------------------------------------------
Drive(c) == \/ Admit(c) \/ Register(c) \/ Claim(c) \/ ClaimRefused(c) \/ Invoke(c) \/ Complete(c)
            \/ Take(c) \/ Investigate(c) \/ Record(c) \/ Block(c) \/ ChatReady(c) \/ Delivered(c)
            \/ Verify(c) \/ Readback(c) \/ Closed(c) \/ Notified(c)
            \/ Abort(c)

Accept(c) == \/ AcceptNothing(c)
             \/ \E k \in Keys : \/ AcceptFull(c, k) \/ AcceptRejected(c, k) \/ AcceptClose(c, k)
                                \/ AcceptChat(c, k) \/ AcceptMaterial(c, k)

Next == \E c \in Calls : \/ Receive(c) \/ ReceiveReply(c) \/ Interpret(c) \/ Accept(c) \/ Drive(c)
                         \/ Interrupt(c) \/ Die(c)

Spec == Init /\ [][Next]_vars

-----------------------------------------------------------------------------
Statuses == {"absent", "received", "creating", "investigating", "opening_private_chat", "updating_case",
             "delivering_answer", "waiting_for_requester", "awaiting_confirmation", "closing",
             "verifying_close", "closed", "notifying_closure", "needs_specialist_review", "write_outcome_unknown"}

Pcs == {"idle", "admit", "register", "claim", "invoke", "complete", "take", "investigate", "record", "block",
        "chat", "deliver", "interpret", "accept", "verify", "readback", "closed", "notified",
        "abort", "done", "lost"}

Case == [status : Statuses, owner : Calls \cup {None}, number : Numbers \cup {None}, chat : BOOLEAN,
         generation : Generations, suspended : BOOLEAN, complete : BOOLEAN, activities : SUBSET Activities,
         pending : Seq(Generations),
         investigation : [gen : Generations \cup {NoGen}, verdict : {"none", "ready", "questions", "blockers"}],
         resolution : Generations \cup {NoGen}, contact : Nat, closed : BOOLEAN, readback : {"none", "Closed", "other"}]

Local == [pc : Pcs, key : Keys \cup {None}, gen : Generations \cup {NoGen}, name : Names,
          verdict : {"none", "ready", "questions", "blockers"}, number : Numbers \cup {None},
          whole : BOOLEAN, sent : BOOLEAN, at : Nat, form : {"plain", "malformed", "marker", "resolve"},
          intent : {"information", "confirm", "chat"}, intentKey : Keys \cup {None},
          context : SUBSET ReplyCalls]

TypeOK == /\ cases \in [Keys -> Case]
          /\ writes \in [Keys -> [Names -> [status : {"none", "claimed", "completed", "unknown"},
                                            by : Calls \cup {None}, at : Nat]]]
          /\ clock \in Nat
          /\ call \in [Calls -> Local]
          /\ effects \in [Keys -> [Names -> Nat]]
          /\ heard \in [Keys -> SUBSET ReplyCalls]
          /\ answered \in [Keys -> SUBSET ReplyCalls]

\* "Claims are never leased, stolen, or retried": whatever is interrupted,
\* duplicated or replayed, no external write is ever attempted twice.
EffectsOnce == \A k \in Keys, n \in Names : effects[k][n] <= 1

\* An external write starts only when every other one of the case has its
\* receipt: nothing is ever built on an unsettled outcome.
EffectsInOrder ==
    [][\A k \in Keys, n \in Names : effects'[k][n] # effects[k][n] =>
          \A m \in Names \ {n} : effects[k][m] > 0 => writes[k][m].status = "completed"]_vars

\* What a write waits for: the number, the chat, the stored answer, an answer
\* that was delivered, the closure.
Follows(n, C) == CASE n = Create -> TRUE
                   [] n = Chat -> Create \in C
                   [] n[1] = "update" -> Chat \in C
                   [] n[1] = "delivery" -> Update(n[2]) \in C
                   [] n = Close -> \E g \in Generations : Delivery(g) \in C
                   [] n = ClosedDelivery -> Close \in C

\* "Every external write has a separate claim nonce BEFORE invocation and a
\* completion receipt committed BEFORE business state": the service does nothing
\* with its writes that the claim protocol does not allow, in the order above.
Claims == INSTANCE ClaimedEffects WITH
    Objects <- Keys, Effects <- Names, Ready <- Follows,
    record <- [k \in Keys |-> [n \in Names |-> writes[k][n].status]], done <- effects
WritesClaimed == Claims!Spec

\* "Closure linearizes at its write claim": at that moment, the answer the
\* requester confirmed took into account everything the requester had said.
ClosesOnAnswered ==
    [][\A k \in Keys : writes'[k][Close] # writes[k][Close] /\ writes[k][Close].status = "none" =>
          /\ heard[k] = answered[k]
          /\ writes[k][Delivery(cases[k].generation)].status = "completed"]_vars

\* A closed case is settled: Salesforce was closed and read back, nothing is
\* queued or suspended; and later material moves it on to a specialist.
ClosedSettled ==
    \A k \in Keys : cases[k].status = "closed" =>
        /\ cases[k].closed /\ cases[k].readback = "Closed"
        /\ writes[k][Close].status = "completed"
        /\ cases[k].pending = <<>> /\ ~cases[k].suspended
        /\ heard[k] = answered[k]

\* Only the owner of a case drives it, and it stays the owner until it lets go:
\* no running call ever meets _OwnershipLost, so no completed write is left
\* without the business state that follows from it.
Driving == {"register", "claim", "invoke", "complete", "take", "investigate", "record", "block", "chat",
            "deliver", "verify", "readback", "closed", "notified"}
OwnersDrive == \A c \in Calls : call[c].pc \in Driving => cases[call[c].key].owner = c

\* The validation every CAS edit starts with (_index, _validate_targets) accepts
\* every state the service reaches: no sequence of calls, interruptions and
\* collisions bricks the index.
IndexValid ==
    /\ Cardinality(Admitted) <= MaxCases
    /\ \A k \in Admitted :
          LET r == cases[k]
              claimed == {n \in Names : writes[k][n].status # "none"}
          IN /\ Cardinality(r.activities) <= MaxReceipts /\ Len(r.pending) <= MaxPending
             /\ \A n \in claimed : n[2] <= r.generation
             /\ IF r.number # None THEN writes[k][Create].status = "completed" ELSE claimed \subseteq {Create}
             /\ IF r.chat THEN writes[k][Chat].status = "completed"
                ELSE \A n \in claimed : n[1] # "delivery" /\ n \notin {Close, ClosedDelivery}
             /\ r.status = "closed" => r.closed
             /\ r.closed => writes[k][Close].status = "completed" /\ r.readback = "Closed"

\* An activity is recorded on at most one case, whatever case its replays name.
ActivityOnce == \A a \in Activities : Cardinality({k \in Keys : a \in cases[k].activities}) <= 1

\* Replies never wait unseen: queued material has an owner, or the case says it
\* needs a specialist or a reconciliation.
QueueAttended ==
    \A k \in Keys : cases[k].pending # <<>> /\ cases[k].owner = None =>
        cases[k].status \in {"needs_specialist_review", "write_outcome_unknown"}

\* Queued material is taken up, unless the case goes to a specialist or its owner
\* was lost to an interruption.
Lost(k) == cases[k].owner # None /\ call[cases[k].owner].pc = "lost"
Waits(k) == cases[k].pending # <<>>
Served(k) == ~Waits(k) \/ cases[k].suspended \/ cases[k].status = "needs_specialist_review" \/ Lost(k)
QueueServed == \A k \in Keys : Waits(k) ~> Served(k)
=============================================================================
