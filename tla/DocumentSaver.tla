---------------------------- MODULE DocumentSaver ----------------------------
(***************************************************************************)
(* The Word document of one case (case_work): the edits and comment        *)
(* replies of the agent's turns, people who change the document, and the   *)
(* saver, which keeps what Word holds off on the case file until Word      *)
(* closes the document, or for two hours, and then tells the requester.    *)
(*                                                                         *)
(* A save replaces the whole file, over the version that was read.  The    *)
(* content of a file is how often it has each change.  A call of the agent *)
(* is one batch of edits or one reply and names the change it makes.       *)
(***************************************************************************)
EXTENDS Integers, Sequences

CONSTANTS Calls,    \* case tools' calls that edit or reply
          People,   \* changes that people make
          Tries,    \* attempts of _write_document: 4
          Failures, \* transport errors after which the saver gives up: 5
          Batches,  \* DOC_HELD_BATCHES: 6
          MaxFaults,\* bound: answers lost, notices that fail, and crashes
          None

VARIABLES doc,    \* the file in SharePoint
          held,   \* the case file's documentSave
          row,    \* held of the case's index row
          call,   \* call[i]: the call and its locals
          saver,  \* the saver task of the process
          up,     \* history: FALSE from a crash until resume
          queued, \* history: changes that were queued for Word; of the replies, the last
          told,   \* history: changes the requester was told are not in the document
          unheard,\* history: changes whose notice failed, or was lost with the process
          faults  \* history

vars == <<doc, held, row, call, saver, up, queued, told, unheard, faults>>

Changes == Calls \cup People
Unread == [version |-> 0, content |-> [x \in Changes |-> 0]]
NotHeld == [on |-> FALSE, edits |-> <<>>, reply |-> None]
NoCall == [pc |-> "idle", kind |-> "edit", read |-> Unread, tries |-> 0]
\* due: the changes whose requester the saver has still to tell
NoSaver == [pc |-> "none", edits |-> <<>>, reply |-> None, read |-> Unread, tries |-> 0, failed |-> 0, found |-> FALSE, due |-> {}]
Range(s) == {s[n] : n \in 1 .. Len(s)}

Init == /\ doc = [version |-> 0, content |-> [x \in Changes |-> 0], open |-> FALSE]
        /\ held = NotHeld /\ row = FALSE
        /\ call = [i \in Calls |-> NoCall]
        /\ saver = NoSaver
        /\ up = TRUE /\ queued = {} /\ told = {} /\ unheard = {} /\ faults = 0

---------------------------------------------------------------------------
(* The document. *)

Now == [version |-> doc.version, content |-> doc.content]
Overwrites(read, made) == doc' = [doc EXCEPT !.version = @ + 1,
                                             !.content = [x \in Changes |-> read.content[x] + (IF x \in made THEN 1 ELSE 0)]]
\* The file is replaced whatever version it has.
FitsAny(read) == ~doc.open
\* If-Match, and no co-authoring session
Fits(read) == ~doc.open /\ doc.version = read.version
Conflicts(read) == doc.version # read.version

Word == /\ doc' = [doc EXCEPT !.open = ~@]
        /\ UNCHANGED <<held, row, call, saver, up, queued, told, unheard, faults>>
PersonSaves(x) == /\ doc.content[x] = 0
                  /\ Overwrites(Now, {x})
                  /\ UNCHANGED <<held, row, call, saver, up, queued, told, unheard, faults>>

---------------------------------------------------------------------------
(* The agent's calls: _edit_document and _reply_in_document. *)

At(i, pc) == call[i].pc = pc
To(i, pc) == call' = [call EXCEPT ![i].pc = pc]
CallStays == UNCHANGED <<saver, up, told, unheard>>

\* The case is read, before anything else; what is held already is queued behind.
Ask(i) == /\ At(i, "idle") /\ up
          /\ \E kind \in {"edit", "reply"} :
                call' = [call EXCEPT ![i].kind = kind,
                                     ![i].pc = IF ~held.on THEN "loading" ELSE IF kind = "edit" THEN "trying" ELSE "holding"]
          /\ UNCHANGED <<doc, held, row, queued, faults>> /\ CallStays

\* The edits are tried on the file as it is now.
Try(i) == /\ At(i, "trying")
          /\ \E pc \in {"holding", "failed"} : To(i, pc)
          /\ UNCHANGED <<doc, held, row, queued, faults>> /\ CallStays

\* The file is read; the change may not apply to it.
Load(i) == /\ At(i, "loading")
           /\ \/ call' = [call EXCEPT ![i].pc = "saving", ![i].read = Now]
              \/ To(i, "failed")
           /\ UNCHANGED <<doc, held, row, queued, faults>> /\ CallStays

Save(i) == /\ At(i, "saving")
           /\ \/ Fits(call[i].read) /\ Overwrites(call[i].read, {i}) /\ To(i, "saved")
              \/ doc.open /\ To(i, "holding") /\ UNCHANGED doc
              \/ /\ Conflicts(call[i].read) /\ UNCHANGED doc
                 /\ call' = [call EXCEPT ![i].pc = IF call[i].tries + 1 < Tries THEN "loading" ELSE "failed", ![i].tries = @ + 1]
           /\ UNCHANGED <<held, row, queued, faults>> /\ CallStays

SaveFails(i) == /\ At(i, "saving") /\ faults < MaxFaults
                /\ (Fits(call[i].read) /\ Overwrites(call[i].read, {i})) \/ UNCHANGED doc
                /\ To(i, "failed")
                /\ faults' = faults + 1
                /\ UNCHANGED <<held, row, queued>> /\ CallStays

\* _hold_for_word: on the case file, then in its row and its timeline.
Full(i) == call[i].kind = "edit" /\ Len(held.edits) >= Batches
Replies == {i \in Calls : call[i].kind = "reply"}
Hold(i) == /\ At(i, "holding")
           /\ IF Full(i) THEN To(i, "failed") /\ UNCHANGED <<held, queued>>
              ELSE /\ held' = [on |-> TRUE,
                               edits |-> IF call[i].kind = "edit" THEN Append(held.edits, i) ELSE held.edits,
                               reply |-> IF call[i].kind = "reply" THEN i ELSE held.reply]
                   /\ queued' = (IF call[i].kind = "reply" THEN queued \ Replies ELSE queued) \cup {i}
                   /\ To(i, "noting")
           /\ UNCHANGED <<doc, row, faults>> /\ CallStays

HoldNoted(i) == /\ At(i, "noting")
                /\ row' = TRUE
                /\ To(i, "starting")
                /\ UNCHANGED <<doc, held, queued, faults>> /\ CallStays

\* _start_saver
Woken == IF saver.pc = "none" THEN [NoSaver EXCEPT !.pc = "looking"] ELSE saver
StartSaver(i) == /\ At(i, "starting")
                 /\ saver' = Woken
                 /\ To(i, "waiting")
                 /\ UNCHANGED <<doc, held, row, up, queued, told, unheard, faults>>

---------------------------------------------------------------------------
(* _save_when_closed *)

SaverAt(pc) == saver.pc = pc
SaverTo(pc) == saver' = [saver EXCEPT !.pc = pc]
SaverStays == UNCHANGED <<call, up, queued>>

\* The case is read; what was read may be old when the saver goes on.
Look == /\ SaverAt("looking")
        /\ saver' = [saver EXCEPT !.pc = "looked", !.found = held.on]
        /\ UNCHANGED <<doc, held, row, told, unheard, faults>> /\ SaverStays

\* Nothing is held any more, or it has been for two hours; or the saver sleeps.
Looked == /\ SaverAt("looked")
          /\ \E pc \in IF saver.found THEN {"dropping", "reading"} ELSE {"none"} : SaverTo(pc)
          /\ UNCHANGED <<doc, held, row, told, unheard, faults>> /\ SaverStays

Read == /\ SaverAt("reading")
        /\ saver' = [saver EXCEPT !.pc = "loading", !.edits = held.edits, !.reply = held.reply, !.tries = 0]
        /\ UNCHANGED <<doc, held, row, told, unheard, faults>> /\ SaverStays

\* A transport error, or a document that keeps changing.
Failed == saver' = [saver EXCEPT !.pc = IF saver.failed + 1 < Failures THEN "looking" ELSE "dropping", !.failed = @ + 1]

\* The held changes may not apply to the file any more.
SaverLoad == /\ SaverAt("loading")
             /\ \/ saver' = [saver EXCEPT !.pc = "saving", !.read = Now]
                \/ SaverTo("dropping")
             /\ UNCHANGED <<doc, held, row, told, unheard, faults>> /\ SaverStays

InHand(edits, reply) == Range(edits) \cup ({reply} \ {None})
Held == InHand(saver.edits, saver.reply)
\* The comment may have gone: the edits are saved without the reply, and the
\* requester gets it in Teams.
Apologises == /\ saver.reply # None
              /\ Overwrites(saver.read, Range(saver.edits))
SaverSave ==
    /\ SaverAt("saving")
    /\ \/ /\ Fits(saver.read)
          /\ \E due \in {{}, {saver.reply}} :
                /\ IF due = {} THEN Overwrites(saver.read, Held) ELSE Apologises
                /\ saver' = [saver EXCEPT !.pc = "saved", !.failed = 0, !.due = due]
       \/ doc.open /\ SaverTo("looking") /\ UNCHANGED doc
       \/ /\ Conflicts(saver.read) /\ UNCHANGED doc
          /\ IF saver.tries + 1 < Tries THEN saver' = [saver EXCEPT !.pc = "loading", !.tries = @ + 1] ELSE Failed
    /\ UNCHANGED <<held, row, told, unheard, faults>> /\ SaverStays

SaverSaveFails == /\ SaverAt("saving") /\ faults < MaxFaults
                  /\ (Fits(saver.read) /\ (Overwrites(saver.read, Held) \/ Apologises)) \/ UNCHANGED doc
                  /\ Failed
                  /\ faults' = faults + 1
                  /\ UNCHANGED <<held, row, told, unheard>> /\ SaverStays

\* What was saved stays held as well.
LeftAll == held.edits
\* What was queued while the save was in flight stays held.
Left == SubSeq(held.edits, Len(saver.edits) + 1, Len(held.edits))
LaterReply == IF held.reply # saver.reply THEN held.reply ELSE None
\* The whole of what is held is taken for what was saved.
SavedAll == /\ SaverAt("saved")
            /\ held' = NotHeld
            /\ saver' = [saver EXCEPT !.pc = "noting", !.found = FALSE]
            /\ UNCHANGED <<doc, row, told, unheard, faults>> /\ SaverStays
Saved == /\ SaverAt("saved")
         /\ held' = IF Left # <<>> \/ LaterReply # None THEN [on |-> TRUE, edits |-> Left, reply |-> LaterReply] ELSE NotHeld
         /\ saver' = [saver EXCEPT !.pc = "noting", !.found = held'.on]
         /\ UNCHANGED <<doc, row, told, unheard, faults>> /\ SaverStays

SavedNoted == /\ SaverAt("noting")
              /\ row' = saver.found
              /\ SaverTo("reporting")
              /\ UNCHANGED <<doc, held, told, unheard, faults>> /\ SaverStays

\* _drop_held_save
Drop == /\ SaverAt("dropping")
        /\ held' = NotHeld
        /\ saver' = [saver EXCEPT !.pc = "dropped", !.due = InHand(held.edits, held.reply)]
        /\ UNCHANGED <<doc, row, told, unheard, faults>> /\ SaverStays

DropNoted == /\ SaverAt("dropped")
             /\ row' = FALSE
             /\ SaverTo("telling")
             /\ UNCHANGED <<doc, held, told, unheard, faults>> /\ SaverStays

\* _deliver, at the end of either; a failure is logged and not repeated. A held
\* reply is always held with "told" set, so that its notice is not left out.
Notice == /\ saver.pc \in {"reporting", "telling"}
          /\ saver' = [saver EXCEPT !.pc = IF SaverAt("reporting") THEN "looking" ELSE "none", !.due = {}]
          /\ UNCHANGED <<doc, held, row>> /\ SaverStays
Told == Notice /\ told' = told \cup saver.due /\ UNCHANGED <<unheard, faults>>
NoticeFails == /\ Notice /\ faults < MaxFaults
               /\ unheard' = unheard \cup saver.due
               /\ faults' = faults + 1
               /\ UNCHANGED told

---------------------------------------------------------------------------

\* What only the process knows that the requester is to be told.
Untold == saver.due \ InHand(held.edits, held.reply)
Crash == /\ up /\ faults < MaxFaults
         /\ up' = FALSE /\ faults' = faults + 1
         /\ saver' = NoSaver /\ unheard' = unheard \cup Untold
         /\ call' = [i \in Calls |-> IF At(i, "idle") THEN call[i] ELSE [call[i] EXCEPT !.pc = "failed"]]
         /\ UNCHANGED <<doc, held, row, queued, told>>

\* resume
Resume == /\ ~up /\ up' = TRUE
          /\ saver' = IF row THEN Woken ELSE saver
          /\ UNCHANGED <<doc, held, row, call, queued, told, unheard, faults>>

Edit(i) == Ask(i) \/ Try(i) \/ Load(i) \/ Save(i) \/ SaveFails(i) \/ Hold(i) \/ HoldNoted(i) \/ StartSaver(i)
Saver == \/ Look \/ Looked \/ Read \/ SaverLoad \/ SaverSave \/ SaverSaveFails \/ Saved \/ SavedNoted
         \/ Drop \/ DropNoted \/ Told \/ NoticeFails
Next == Word \/ Saver \/ Crash \/ Resume \/ (\E x \in People : PersonSaves(x)) \/ (\E i \in Calls : Edit(i))

Spec == Init /\ [][Next]_vars

---------------------------------------------------------------------------

\* "save over exactly that version; if someone saved in between, start again
\* from theirs": no save of the agent undoes what anybody saved before it.
NothingUndone == [][\A x \in Changes : doc'.content[x] >= doc.content[x]]_vars

\* What was queued while Word had the document open is on the case file, or
\* in the document, or its requester is told that it is not, also when it was
\* queued behind a save in flight; unless the saver is about to tell, or the
\* notice failed or was lost with the process. And unless an answer, a notice
\* or the process was lost, no change is made twice.
Accounted(i) == i \in InHand(held.edits, held.reply) \/ doc.content[i] > 0 \/ i \in told
QueuedKept ==
    /\ \A i \in queued : Accounted(i) \/ i \in saver.due \cup unheard
    /\ faults = 0 => \A x \in Changes : doc.content[x] <= 1

\* "retry the held save until Word lets go of the document, then tell the
\* requester": also when the notice fails, or the process stops before it.
QueuedTold == \A i \in queued : Accounted(i) \/ i \in saver.due

\* "My held changes were not saved", "Your comment has gone": what the requester
\* is told is so, though changes are queued and saved meanwhile; unless an
\* answer or the process was lost, after which nobody knows.
NoticesTrue == faults = 0 => \A i \in told : doc.content[i] = 0

\* "make sure a saver waits for Word to close": whatever is held has a saver,
\* or a call that is about to start one.
HeldHasSaver == held.on /\ up /\ faults = 0 => saver.pc # "none" \/ \E i \in Calls : call[i].pc \in {"noting", "starting"}
=============================================================================
