---------------------- MODULE ConversationServiceProofs ----------------------
(***************************************************************************)
(* Proofs about ConversationService: that what was forgotten does not come *)
(* back, that an activity has its task run once, that only saved results   *)
(* are sent, and none to a chat that was forgotten or left meanwhile; and, *)
(* in the second part, that no call takes a task for running that nobody   *)
(* runs, and that a chat left and a process closed have none under way.    *)
(***************************************************************************)
EXTENDS ConversationService, FiniteSetTheorems, TLAPS

CallPcs == {"idle", "recovering", "rejoining", "activating", "claiming", "forgetting", "noting", "planning",
            "replying", "compacting", "persisting", "acking", "unstarting", "done"}
JobPcs == {"none", "queued", "reading", "running", "returned", "finishing", "sending", "delivering",
           "compacting", "interrupting", "ended", "done"}

\* The call has not returned: it has its chat's lock.
Working(h) == handler[h].pc \notin {"idle", "done"}
\* Where a call is about its activity, and where it may start its task.
ForActivity == {"activating", "claiming", "forgetting", "noting", "planning", "persisting", "acking", "unstarting"}
MayStart == {"noting", "planning", "persisting", "acking"}
\* Where a job is when its result may have been sent.
Past == {"delivering", "compacting", "interrupting", "ended", "done"}
HasEnded == {"completed", "failed", "none"}

\* A call has a chat, its activity is of that chat, and its task begins at its end.
Places == \A h \in Handlers :
    /\ handler[h].pc # "idle" => Home(h) \in Chats
    /\ job[h].pc # "none" => handler[h].pc \in {"compacting", "done"}
    /\ handler[h].act \in Activities => ChatOf[handler[h].act] = Home(h)
    /\ handler[h].pc \in ForActivity \/ Running(h) => handler[h].act \in Activities

\* A chat's lock has one holder at most.
Locks == \A h, j \in Handlers :
    /\ Working(h) \/ JobHolds(h) => slot[Home(h)].locked
    /\ Working(h) /\ Working(j) /\ Home(h) = Home(j) => h = j
    /\ JobHolds(h) /\ JobHolds(j) /\ Home(h) = Home(j) => h = j
    /\ Working(h) /\ JobHolds(j) => Home(h) # Home(j)

\* Who holds the lock, or is of the chat's generation, knows its last forget;
\* and while one is being saved, everything that goes on is of an older one.
Eras == \A h \in Handlers :
    /\ Working(h) \/ Running(h) => handler[h].gen <= slot[Home(h)].gen
    /\ Working(h) \/ JobHolds(h) => handler[h].era = chat[Home(h)].era
    /\ Running(h) /\ handler[h].gen = slot[Home(h)].gen => handler[h].era = chat[Home(h)].era
    /\ At(h, "forgetting") => \A j \in Handlers :
          Running(j) /\ Home(j) = Home(h) => handler[j].gen < slot[Home(h)].gen

\* A result that is about to be sent is saved, in a chat the agent is in.
Results == \A h \in Handlers :
    /\ sent[h] <= 1
    /\ sent[h] = 1 => job[h].pc \in Past
    /\ JobAt(h, "sending") => ~chat[Home(h)].gone
    /\ JobAt(h, "sending") \/ sent[h] = 1 => Task(h).status \in HasEnded
GoneInactive == \A c \in Chats : chat[c].gone => ~chat[c].active

\* A call or job that may still run its activity's task is the only one, and
\* the activity was received and has not run.
Pending(h) == handler[h].pc \in MayStart \/ job[h].pc \in {"queued", "reading"}
Once ==
    /\ \A h, j \in Handlers : Pending(h) /\ Pending(j) /\ handler[h].act = handler[j].act => h = j
    /\ \A h \in Handlers : Pending(h) => /\ handler[h].act \in chat[Home(h)].seen
                                         /\ ran[handler[h].act] = 0
    /\ \A a \in Activities : ran[a] <= 1 /\ (ran[a] = 1 => a \in chat[ChatOf[a]].seen)

\* Together: the invariant that is inductive.
Inv == TypeOK /\ Places /\ Locks /\ Eras /\ ForgottenStays /\ GoneInactive /\ Results /\ Once

-----------------------------------------------------------------------------
(* The edits of a chat's document.                                         *)

Clean(d) == /\ d.memory \subseteq {d.era}
            /\ \A j \in Handlers : d.tasks[j].status # "none" => d.tasks[j].era = d.era

\* An edit that is no forget, and does not leave the chat.
Mild(c, d) ==
    /\ d \in DocumentType /\ Clean(d)
    /\ chat[c].seen \subseteq d.seen /\ d.era = chat[c].era
    /\ d.gone => chat[c].gone /\ ~d.active
    /\ \A j \in Handlers : job[j].pc # "none" /\ chat[c].tasks[j].status \in HasEnded => d.tasks[j].status \in HasEnded

\* Tasks that are kept as they are, are settled, or are dropped.
Follows(new, old) == \A j \in Handlers : new[j] = old[j] \/ new[j] = Settled(old[j]) \/ new[j] = NoTask

LEMMA Shapes ==
    ASSUME TypeOK
    PROVE  /\ NoTask \in TaskType /\ NoTask.status = "none"
           /\ \A t \in TaskType : /\ Settled(t) \in TaskType /\ Settled(t).era = t.era
                                  /\ Settled(t).status = "none" <=> t.status = "none"
                                  /\ t.status \in HasEnded => Settled(t).status = t.status
BY DEF TaskType, Settled, NoTask, Statuses, Deliveries, HasEnded

LEMMA ChatTypes ==
    ASSUME TypeOK, NEW c \in Chats
    PROVE  /\ chat[c] \in DocumentType
           /\ chat[c].tasks \in [Handlers -> TaskType]
           /\ \A j \in Handlers : chat[c].tasks[j] \in TaskType
BY DEF TypeOK, DocumentType

\* Such tasks make a mild edit.
LEMMA FollowsMild ==
    ASSUME Inv, NEW c \in Chats, NEW d \in DocumentType, Follows(d.tasks, chat[c].tasks),
           chat[c].seen \subseteq d.seen, d.era = chat[c].era, d.memory \subseteq {d.era},
           d.gone => chat[c].gone /\ ~d.active
    PROVE  Mild(c, d)
<1>1. TypeOK /\ Clean(chat[c])
  BY DEF Inv, Clean, ForgottenStays
<1>2. \A j \in Handlers : d.tasks[j].status # "none" => d.tasks[j].era = d.era
  BY <1>1, ChatTypes, Shapes DEF Follows, Clean
<1>3. \A j \in Handlers : chat[c].tasks[j].status \in HasEnded => d.tasks[j].status \in HasEnded
  BY <1>1, ChatTypes, Shapes DEF Follows, HasEnded
<1> QED BY <1>2, <1>3 DEF Mild, Clean

LEMMA SameMild == ASSUME Inv, NEW c \in Chats PROVE Mild(c, chat[c])
<1>1. Follows(chat[c].tasks, chat[c].tasks) /\ chat[c].memory \subseteq {chat[c].era}
  BY DEF Follows, Inv, ForgottenStays
<1> QED BY <1>1, ChatTypes, FollowsMild DEF Inv, GoneInactive

\* Only the tasks are edited.
LEMMA TasksMild ==
    ASSUME Inv, NEW c \in Chats, NEW t \in [Handlers -> TaskType], Follows(t, chat[c].tasks)
    PROVE  Mild(c, [chat[c] EXCEPT !.tasks = t])
<1> DEFINE d == [chat[c] EXCEPT !.tasks = t]
<1>1. chat[c] \in DocumentType /\ chat[c].memory \subseteq {chat[c].era} /\ (chat[c].gone => ~chat[c].active)
  BY ChatTypes DEF Inv, ForgottenStays, GoneInactive
<1>2. d \in DocumentType /\ d.tasks = t /\ d.seen = chat[c].seen /\ d.era = chat[c].era /\ d.memory = chat[c].memory
      /\ d.gone = chat[c].gone /\ d.active = chat[c].active
  BY <1>1 DEF DocumentType
<1> QED BY <1>1, <1>2, FollowsMild

LEMMA RecoveredMild == ASSUME Inv, NEW h \in Handlers, Home(h) \in Chats PROVE Mild(Home(h), Recovered(h))
<1> DEFINE old == chat[Home(h)].tasks
           t == [j \in Handlers |-> IF old[j].owner # process \/ j \notin handler[h].saw THEN Settled(old[j]) ELSE old[j]]
<1>1. t \in [Handlers -> TaskType] /\ Follows(t, old)
  BY ChatTypes, Shapes DEF Inv, Follows
<1>2. Recovered(h) = [chat[Home(h)] EXCEPT !.tasks = t]
  BY ChatTypes DEF Inv, Recovered, DocumentType
<1> HIDE DEF t
<1> QED BY <1>1, <1>2, TasksMild

LEMMA InterruptedMild == ASSUME Inv, NEW c \in Chats, NEW ids PROVE Mild(c, Interrupted(c, ids))
<1> DEFINE old == chat[c].tasks
           t == [j \in Handlers |-> IF j \in ids /\ old[j].owner = process THEN Settled(old[j]) ELSE old[j]]
<1>1. t \in [Handlers -> TaskType] /\ Follows(t, old)
  BY ChatTypes, Shapes DEF Inv, Follows
<1>2. Interrupted(c, ids) = [chat[c] EXCEPT !.tasks = t]
  BY ChatTypes DEF Inv, Interrupted, DocumentType
<1> HIDE DEF t
<1> QED BY <1>1, <1>2, TasksMild

\* DocumentStep of the other parts.
LEMMA PartsMild ==
    ASSUME Inv, NEW c \in Chats, NEW d \in DocumentType, d.tasks = chat[c].tasks,
           chat[c].seen \subseteq d.seen, d.era = chat[c].era, d.memory \subseteq chat[c].memory \cup {d.era},
           d.gone => chat[c].gone /\ ~d.active
    PROVE  Mild(c, d)
<1>1. Follows(d.tasks, chat[c].tasks) /\ d.memory \subseteq {d.era}
  BY DEF Follows, Inv, ForgottenStays
<1> QED BY <1>1, FollowsMild

LEMMA ActivatedMild == ASSUME Inv, NEW h \in Handlers, Home(h) \in Chats PROVE Mild(Home(h), Activated(h))
<1> DEFINE c == Home(h)  d == [chat[c] EXCEPT !.active = TRUE]
<1>1. CASE Activates(h)
  <2>1. chat[c] \in DocumentType /\ ~chat[c].gone
    BY <1>1, ChatTypes DEF Inv, Activates
  <2>2. d \in DocumentType /\ d.tasks = chat[c].tasks /\ d.seen = chat[c].seen /\ d.era = chat[c].era
        /\ d.memory = chat[c].memory /\ ~d.gone
    BY <2>1 DEF DocumentType
  <2>3. Mild(c, d)
    BY <2>2, PartsMild
  <2> QED BY <1>1, <2>3 DEF Activated
<1>2. CASE ~Activates(h)
  BY <1>2, SameMild DEF Activated
<1> QED BY <1>1, <1>2

LEMMA RejoinedMild == ASSUME Inv, NEW h \in Handlers, Home(h) \in Chats PROVE Mild(Home(h), Rejoined(h))
<1> DEFINE c == Home(h)  d == [chat[c] EXCEPT !.active = TRUE, !.gone = FALSE]
<1>1. chat[c] \in DocumentType
  BY ChatTypes DEF Inv
<1>2. d \in DocumentType /\ d.tasks = chat[c].tasks /\ d.seen = chat[c].seen /\ d.era = chat[c].era
      /\ d.memory = chat[c].memory /\ ~d.gone
  BY <1>1 DEF DocumentType
<1>3. Mild(c, d)
  BY <1>2, PartsMild
<1> QED BY <1>3, SameMild DEF Rejoined

LEMMA ReceivedMild ==
    ASSUME Inv, NEW h \in Handlers, Home(h) \in Chats, handler[h].act \in Activities
    PROVE  Mild(Home(h), Received(h)) /\ handler[h].act \in Received(h).seen
<1> DEFINE c == Home(h)  d == [chat[c] EXCEPT !.seen = @ \cup {handler[h].act}]
<1>1. chat[c] \in DocumentType /\ (chat[c].gone => ~chat[c].active)
  BY ChatTypes DEF Inv, GoneInactive
<1>2. d \in DocumentType /\ d.tasks = chat[c].tasks /\ d.seen = chat[c].seen \cup {handler[h].act} /\ d.era = chat[c].era
      /\ d.memory = chat[c].memory /\ d.gone = chat[c].gone /\ d.active = chat[c].active
  BY <1>1 DEF DocumentType
<1>3. Mild(c, d)
  BY <1>1, <1>2, PartsMild
<1> QED BY <1>2, <1>3 DEF Received

\* What is remembered is of the chat's last forget.
LEMMA RememberedMild ==
    ASSUME Inv, NEW h \in Handlers, Home(h) \in Chats, handler[h].era = chat[Home(h)].era
    PROVE  Mild(Home(h), Remembered(h))
<1> DEFINE c == Home(h)  d == [chat[c] EXCEPT !.memory = @ \cup {handler[h].era}]
<1>1. chat[c] \in DocumentType /\ (chat[c].gone => ~chat[c].active)
  BY ChatTypes DEF Inv, GoneInactive
<1>2. d \in DocumentType /\ d.tasks = chat[c].tasks /\ d.seen = chat[c].seen /\ d.era = chat[c].era
      /\ d.memory = chat[c].memory \cup {d.era} /\ d.gone = chat[c].gone /\ d.active = chat[c].active
  BY <1>1 DEF DocumentType
<1>3. Mild(c, d)
  BY <1>1, <1>2, PartsMild
<1> QED BY <1>3, SameMild DEF Remembered

\* The task's own record.
LEMMA OwnMild ==
    ASSUME Inv, NEW h \in Handlers, Home(h) \in Chats, NEW t \in TaskType,
           t.era = Task(h).era, Task(h).status # "none",
           t.status = Task(h).status \/ t.status \in HasEnded
    PROVE  /\ Mild(Home(h), [chat[Home(h)] EXCEPT !.tasks[h] = t])
           /\ [chat[Home(h)] EXCEPT !.tasks[h] = t].tasks[h] = t
           /\ [chat[Home(h)] EXCEPT !.tasks[h] = t].gone = chat[Home(h)].gone
<1> DEFINE c == Home(h)  d == [chat[c] EXCEPT !.tasks[h] = t]
<1>1. chat[c] \in DocumentType /\ (chat[c].gone => ~chat[c].active) /\ Clean(chat[c])
  BY ChatTypes DEF Inv, GoneInactive, ForgottenStays, Clean
<1>2. d \in DocumentType /\ d.tasks = [chat[c].tasks EXCEPT ![h] = t] /\ d.seen = chat[c].seen /\ d.era = chat[c].era
      /\ d.memory = chat[c].memory /\ d.gone = chat[c].gone /\ d.active = chat[c].active
  BY <1>1 DEF DocumentType
<1>3. d.tasks[h] = t /\ \A j \in Handlers \ {h} : d.tasks[j] = chat[c].tasks[j]
  BY <1>1, <1>2 DEF DocumentType
<1>4. Clean(d)
  BY <1>1, <1>2, <1>3 DEF Clean, Task
<1>5. Mild(c, d)
  BY <1>1, <1>2, <1>3, <1>4 DEF Mild, Task
<1> QED BY <1>2, <1>3, <1>5

LEMMA SavedMild ==
    ASSUME Inv, NEW h \in Handlers, Home(h) \in Chats
    PROVE  /\ Mild(Home(h), Saved(h))
           /\ Valid(h) => Saved(h).tasks[h].status \in {"completed", "failed"} /\ ~Saved(h).gone
<1> DEFINE t == [Task(h) EXCEPT !.status = IF job[h].ok THEN "completed" ELSE "failed", !.delivery = "pending"]
<1>1. CASE Valid(h)
  <2>1. Task(h) \in TaskType /\ Task(h).status = "running" /\ chat[Home(h)].active /\ chat[Home(h)] \in DocumentType
    BY <1>1, ChatTypes DEF Inv, Valid, Task
  <2>2. t \in TaskType /\ t.era = Task(h).era /\ t.status \in {"completed", "failed"}
    BY <2>1 DEF TaskType, Statuses, Deliveries
  <2>3. Saved(h) = [chat[Home(h)] EXCEPT !.tasks[h] = t]
    BY <1>1, <2>1 DEF Saved, Task, DocumentType, TaskType
  <2>4. ~chat[Home(h)].gone
    BY <2>1 DEF Inv, GoneInactive
  <2> HIDE DEF t
  <2> QED BY <2>1, <2>2, <2>3, <2>4, OwnMild DEF HasEnded
<1>2. CASE ~Valid(h)
  BY <1>2, SameMild DEF Saved
<1> QED BY <1>1, <1>2

LEMMA DeliveredMild ==
    ASSUME Inv, NEW h \in Handlers, Home(h) \in Chats, NEW ok \in BOOLEAN, handler[h].era = chat[Home(h)].era
    PROVE  Mild(Home(h), Delivered(h, ok))
<1> DEFINE c == Home(h)
           t == [Task(h) EXCEPT !.delivery = IF ok THEN "sent" ELSE "failed"]
           d == [chat[c] EXCEPT !.tasks[h] = t]
           e == [d EXCEPT !.memory = IF ok THEN @ \cup {handler[h].era} ELSE @]
<1>1. CASE Live(h) /\ chat[c].active /\ Task(h).status # "none" /\ Task(h).owner = process
  <2>1. Task(h) \in TaskType /\ chat[c] \in DocumentType
    BY ChatTypes DEF Inv, Task
  <2>2. t \in TaskType /\ t.era = Task(h).era /\ t.status = Task(h).status
    BY <2>1 DEF TaskType, Statuses, Deliveries
  <2>3. Mild(c, d)
    <3> HIDE DEF t
    <3> QED BY <1>1, <2>2, OwnMild
  <2>4. Delivered(h, ok) = e
    BY <1>1, <2>1 DEF Delivered, Task, DocumentType, TaskType
  <2>5. d \in DocumentType /\ d.era = handler[h].era /\ d.memory \subseteq {d.era}
    BY <2>3 DEF Mild, Clean
  <2> HIDE DEF d
  <2>6. /\ e \in DocumentType /\ e.memory \subseteq {d.era} /\ e.era = d.era /\ e.tasks = d.tasks /\ e.seen = d.seen
        /\ e.gone = d.gone /\ e.active = d.active
    BY <2>5 DEF DocumentType
  <2> HIDE DEF e
  <2>7. Mild(c, e)
    BY <2>3, <2>6 DEF Mild, Clean
  <2> QED BY <2>4, <2>7
<1>2. CASE ~(Live(h) /\ chat[c].active /\ Task(h).status # "none" /\ Task(h).owner = process)
  <2>1. Delivered(h, ok) = chat[c]
    BY <1>2 DEF Delivered
  <2> QED BY <2>1, SameMild
<1> QED BY <1>1, <1>2

\* A new task, for which no job runs yet.
LEMMA PersistedMild ==
    ASSUME Inv, NEW h \in Handlers, Home(h) \in Chats, handler[h].era = chat[Home(h)].era, job[h].pc = "none",
           handler[h].gen \in Nat, NEW d \in Persisted(h)
    PROVE  Mild(Home(h), d)
<1> DEFINE c == Home(h)  new == [chat[c].tasks EXCEPT ![h] = Started(h)]
<1>1. CASE Admissible(h)
  <2>1. chat[c] \in DocumentType /\ (chat[c].gone => ~chat[c].active) /\ Clean(chat[c]) /\ process \in Nat
    BY ChatTypes DEF Inv, GoneInactive, ForgottenStays, Clean, TypeOK
  <2>2. Started(h) \in TaskType /\ Started(h).era = chat[c].era
    BY <2>1 DEF Started, TaskType, Statuses, Deliveries, DocumentType
  <2>3. new \in [Handlers -> TaskType] /\ \A j \in Handlers : j # h => new[j] = chat[c].tasks[j]
    BY <2>1, <2>2 DEF DocumentType
  <2>4. new[h] = Started(h)
    BY <2>1 DEF DocumentType
  <2>5. PICK t \in Trimmed(new) : d = [chat[c] EXCEPT !.tasks = t]
    BY <1>1 DEF Persisted
  <2> HIDE DEF new
  <2>6. t \in [Handlers -> TaskType] /\ \A j \in Handlers : t[j] = new[j] \/ t[j] = NoTask
    BY <2>3, <2>5, Shapes DEF Trimmed, Inv
  <2>7. d \in DocumentType /\ d.tasks = t /\ d.seen = chat[c].seen /\ d.era = chat[c].era
        /\ d.memory = chat[c].memory /\ d.gone = chat[c].gone /\ d.active = chat[c].active
    BY <2>1, <2>5, <2>6 DEF DocumentType
  <2>8. Clean(d)
    BY <2>1, <2>2, <2>3, <2>4, <2>6, <2>7, Shapes DEF Clean, Inv
  <2>9. \A j \in Handlers : job[j].pc # "none" /\ chat[c].tasks[j].status \in HasEnded => d.tasks[j].status \in HasEnded
    BY <2>3, <2>6, <2>7, Shapes DEF HasEnded, Inv
  <2> QED BY <2>1, <2>7, <2>8, <2>9 DEF Mild
<1>2. CASE ~Admissible(h)
  BY <1>2, SameMild DEF Persisted
<1> QED BY <1>1, <1>2

\* A forget begins a new era, in which there is nothing.
LEMMA ForgottenFacts ==
    ASSUME Inv, NEW h \in Handlers, Home(h) \in Chats
    PROVE  /\ Forgotten(h) \in DocumentType /\ Clean(Forgotten(h)) /\ Forgotten(h).seen = chat[Home(h)].seen
           /\ Forgotten(h).gone = chat[Home(h)].gone /\ Forgotten(h).active = chat[Home(h)].active
           /\ \A j \in Handlers : Forgotten(h).tasks[j].status \in HasEnded
<1> DEFINE t == [j \in Handlers |-> NoTask]
<1>1. chat[Home(h)] \in DocumentType /\ NoTask \in TaskType /\ NoTask.status = "none"
  BY ChatTypes, Shapes DEF Inv
<1>3. t \in [Handlers -> TaskType] /\ \A j \in Handlers : t[j].status = "none"
  BY <1>1
<1>4. Forgotten(h) = [chat[Home(h)] EXCEPT !.memory = {}, !.era = @ + 1, !.tasks = t]
  BY <1>1 DEF Forgotten, DocumentType
<1>7. chat[Home(h)].era + 1 \in Nat /\ {} \in SUBSET Nat
  BY <1>1 DEF DocumentType
<1> HIDE DEF t
<1>8. Forgotten(h) \in DocumentType
  BY <1>1, <1>3, <1>4, <1>7 DEF DocumentType
<1>2. /\ Forgotten(h) \in DocumentType /\ Forgotten(h).seen = chat[Home(h)].seen /\ Forgotten(h).memory = {}
      /\ Forgotten(h).gone = chat[Home(h)].gone /\ Forgotten(h).active = chat[Home(h)].active
      /\ Forgotten(h).tasks = t
  BY <1>1, <1>4, <1>8 DEF DocumentType
<1>5. Clean(Forgotten(h))
  BY <1>2, <1>3 DEF Clean
<1>6. \A j \in Handlers : Forgotten(h).tasks[j].status \in HasEnded
  BY <1>2, <1>3 DEF HasEnded
<1> QED BY <1>2, <1>5, <1>6

LEMMA LeftFacts ==
    ASSUME Inv, NEW c \in Chats
    PROVE  /\ Left(c) \in DocumentType /\ Clean(Left(c)) /\ Left(c).seen = chat[c].seen /\ Left(c).era = chat[c].era
           /\ ~Left(c).active
           /\ \A j \in Handlers : chat[c].tasks[j].status \in HasEnded => Left(c).tasks[j].status \in HasEnded
<1> DEFINE t == [j \in Handlers |-> Settled(chat[c].tasks[j])]
<1>1. chat[c] \in DocumentType /\ Clean(chat[c]) /\ TypeOK
  BY ChatTypes DEF Inv, ForgottenStays, Clean
<1>2. t \in [Handlers -> TaskType] /\ \A j \in Handlers : t[j] = Settled(chat[c].tasks[j])
  BY <1>1, ChatTypes, Shapes
<1>3. Left(c) = [chat[c] EXCEPT !.active = FALSE, !.gone = TRUE, !.tasks = t]
  BY <1>1 DEF Left, DocumentType
<1> HIDE DEF t
<1>4. /\ Left(c) \in DocumentType /\ Left(c).seen = chat[c].seen /\ Left(c).era = chat[c].era /\ ~Left(c).active
      /\ Left(c).memory = chat[c].memory /\ Left(c).tasks = t
  BY <1>1, <1>2, <1>3 DEF DocumentType
<1>5. Clean(Left(c))
  BY <1>1, <1>2, <1>4, ChatTypes, Shapes DEF Clean
<1> QED BY <1>1, <1>2, <1>4, <1>5, ChatTypes, Shapes DEF HasEnded

-----------------------------------------------------------------------------
(* The kinds of steps, and that each keeps the invariant.                  *)

\* What any step does to the documents.
DocumentStep == \A c \in Chats :
    /\ Clean(chat'[c])
    /\ chat[c].seen \subseteq chat'[c].seen
    /\ chat'[c].era = chat[c].era \/ \E h \in Handlers : At(h, "forgetting") /\ Home(h) = c /\ handler'[h].pc = "done"
    /\ chat'[c].gone => ~chat'[c].active /\ (chat[c].gone \/ ~slot[c].locked)
    /\ \A j \in Handlers : job[j].pc # "none" /\ chat[c].tasks[j].status \in HasEnded
                           => chat'[c].tasks[j].status \in HasEnded

\* A call goes on, returns, begins a forget, or starts its task.
CallMoves(h) ==
    /\ Working(h) /\ ran' = ran /\ sent' = sent
    /\ \A j \in Handlers \ {h} : handler'[j] = handler[j] /\ job'[j].pc = job[j].pc
    /\ handler'[h].pc # "idle" /\ handler'[h].chat = handler[h].chat /\ handler'[h].act \in {handler[h].act, None}
    /\ handler'[h].pc # "done" \/ job'[h].pc # "none" =>
          handler'[h].act = handler[h].act /\ handler'[h].gen = handler[h].gen /\ handler'[h].era = handler[h].era
    /\ handler'[h].pc \in MayStart => \/ handler[h].pc \in MayStart
                                      \/ First(h) /\ handler[h].act \in chat'[Home(h)].seen
    /\ handler'[h].pc \in ForActivity => handler[h].act \in Activities
    /\ At(h, "compacting") => handler'[h].pc = "done"
    /\ \/ job'[h].pc = job[h].pc
       \/ handler[h].pc \in MayStart /\ handler'[h].pc = "compacting" /\ job[h].pc = "none" /\ job'[h].pc = "queued"
    /\ \A c \in Chats :
          /\ slot'[c].gen = IF handler'[h].pc = "forgetting" /\ c = Home(h) THEN slot[c].gen + 1 ELSE slot[c].gen
          /\ c # Home(h) \/ handler'[h].pc # "done" => slot'[c].locked = slot[c].locked

\* A job goes on.
JobMoves(h) ==
    /\ handler' = handler
    /\ \A j \in Handlers \ {h} : job'[j].pc = job[j].pc
    /\ job[h].pc \notin {"none", "done"} /\ job'[h].pc \notin {"none", "queued"}
    /\ JobAt(h, "ended") => job'[h].pc = "done"
    /\ job[h].pc \in Past => job'[h].pc \in Past
    /\ job'[h].pc = "reading" => JobAt(h, "queued")
    /\ job'[h].pc = "sending" => chat'[Home(h)].tasks[h].status \in HasEnded /\ ~chat'[Home(h)].gone
    /\ \A c \in Chats : /\ slot'[c].gen = slot[c].gen
                        /\ c # Home(h) => slot'[c].locked = slot[c].locked
    /\ JobHolds(h)' => slot'[Home(h)].locked /\ (JobHolds(h) \/ (~slot[Home(h)].locked /\ Live(h)))
    /\ ~JobHolds(h)' /\ ~JobHolds(h) => slot'[Home(h)].locked = slot[Home(h)].locked
    /\ \/ ran' = ran
       \/ /\ JobAt(h, "reading") /\ job'[h].pc = "running"
          /\ ran' = [ran EXCEPT ![handler[h].act] = @ + 1]
    /\ \/ sent' = sent
       \/ /\ JobAt(h, "sending") /\ job'[h].pc = "delivering"
          /\ sent' = [sent EXCEPT ![h] = @ + 1]

\* A call takes its chat's lock.
Enters(h) ==
    /\ At(h, "idle") /\ chat' = chat /\ job' = job /\ ran' = ran /\ sent' = sent
    /\ \A j \in Handlers \ {h} : handler'[j] = handler[j]
    /\ handler'[h].pc = "recovering" /\ handler'[h].chat \in Chats
    /\ handler'[h].act \in Activities => ChatOf[handler'[h].act] = handler'[h].chat
    /\ handler'[h].gen = slot[handler'[h].chat].gen /\ handler'[h].era = chat[handler'[h].chat].era
    /\ ~slot[handler'[h].chat].locked /\ slot'[handler'[h].chat].locked
    /\ \A c \in Chats : /\ slot'[c].gen = slot[c].gen
                        /\ c # handler'[h].chat => slot'[c].locked = slot[c].locked

\* Removals and close.
Outside ==
    /\ handler' = handler /\ ran' = ran /\ sent' = sent
    /\ \A j \in Handlers : job'[j].pc = job[j].pc
    /\ \A c \in Chats : slot'[c].locked = slot[c].locked /\ slot'[c].gen >= slot[c].gen

LEMMA DocumentsKept == ASSUME Inv, DocumentStep PROVE ForgottenStays' /\ GoneInactive'
BY DEF DocumentStep, Clean, ForgottenStays, GoneInactive

LEMMA CallKept ==
    ASSUME Inv, TypeOK', NEW h \in Handlers, CallMoves(h), DocumentStep
    PROVE  Inv'
<1>0. TypeOK /\ Places /\ Locks /\ Eras /\ Results /\ Once
  BY DEF Inv
<1>1. Home(h) \in Chats /\ None \notin Activities
  BY <1>0, ConversationAssumption DEF Places, CallMoves, Working
<1>2. \A j \in Handlers : Home(j)' = Home(j)
  BY DEF CallMoves, Home
<1>3. \A j \in Handlers \ {h} : /\ handler'[j] = handler[j] /\ job'[j].pc = job[j].pc
                                /\ Working(j)' = Working(j) /\ Running(j)' = Running(j) /\ JobHolds(j)' = JobHolds(j)
  BY DEF CallMoves, Working, Running, Ended, JobHolds
<1>4. job[h].pc # "none" => At(h, "compacting") /\ handler'[h].pc = "done" /\ job'[h].pc = job[h].pc
  BY <1>0 DEF Places, CallMoves, Working, At, MayStart
<1>5. job[h].pc = "none" /\ job'[h].pc # "none" =>
          handler[h].pc \in MayStart /\ handler'[h].pc = "compacting" /\ job'[h].pc = "queued"
  BY DEF CallMoves
<1>6. Places'
  <2> SUFFICES ASSUME NEW j \in Handlers
               PROVE  /\ handler'[j].pc # "idle" => Home(j)' \in Chats
                      /\ job'[j].pc # "none" => handler'[j].pc \in {"compacting", "done"}
                      /\ handler'[j].act \in Activities => ChatOf[handler'[j].act] = Home(j)'
                      /\ handler'[j].pc \in ForActivity \/ Running(j)' => handler'[j].act \in Activities
    BY DEF Places
  <2>1. CASE j # h
    BY <2>1, <1>0, <1>2, <1>3 DEF Places
  <2>2. CASE j = h
    <3>1. job'[h].pc # "none" => handler'[h].pc \in {"compacting", "done"}
      BY <1>4, <1>5
    <3>2. handler'[h].act \in Activities => ChatOf[handler'[h].act] = Home(h)'
      BY <1>0, <1>1, <1>2 DEF Places, CallMoves
    <3>3. handler'[h].pc \in ForActivity => handler'[h].act \in Activities
      BY DEF CallMoves, ForActivity
    <3>4. Running(h)' => handler'[h].act \in Activities
      BY <1>0, <1>4, <1>5 DEF Places, CallMoves, Running, Ended, ForActivity, MayStart
    <3> QED BY <2>2, <1>1, <1>2, <3>1, <3>2, <3>3, <3>4
  <2> QED BY <2>1, <2>2
<1>7. Locks'
  BY <1>0, <1>1 DEF Locks, Places, CallMoves, Working, JobHolds, Home
<1>8. \A c \in Chats : chat'[c].era # chat[c].era => c = Home(h) /\ At(h, "forgetting") /\ handler'[h].pc = "done"
  BY <1>3 DEF DocumentStep, At
<1>9. \A j \in Handlers : Running(j)' => handler'[j].gen = handler[j].gen /\ handler'[j].era = handler[j].era
  BY <1>3 DEF CallMoves, Running, Ended
<1>10. Eras'
  <2>1. \A c \in Chats : slot[c].gen \in Nat /\ slot'[c].gen \in Nat /\ slot'[c].gen >= slot[c].gen
    BY <1>0 DEF TypeOK, SlotType, CallMoves
  <2>2. \A j \in Handlers : handler[j].gen \in Nat /\ handler'[j].gen \in Nat
    BY <1>0 DEF TypeOK, CallType
  <2> SUFFICES ASSUME NEW j \in Handlers
               PROVE  /\ Working(j)' \/ Running(j)' => handler'[j].gen <= slot'[Home(j)'].gen
                      /\ Working(j)' \/ JobHolds(j)' => handler'[j].era = chat'[Home(j)'].era
                      /\ Running(j)' /\ handler'[j].gen = slot'[Home(j)'].gen => handler'[j].era = chat'[Home(j)'].era
                      /\ At(j, "forgetting")' => \A k \in Handlers :
                            Running(k)' /\ Home(k)' = Home(j)' => handler'[k].gen < slot'[Home(j)'].gen
    BY DEF Eras
  <2>3. CASE j # h
    <3>1. Working(j) \/ Running(j) \/ JobHolds(j) => Home(j) \in Chats
      BY <1>0 DEF Places, Working, Running, Ended, JobHolds
    <3>2. Working(j) \/ JobHolds(j) => Home(j) # Home(h)
      BY <1>0, <2>3 DEF Locks, CallMoves
    <3>3. Working(j)' \/ Running(j)' => handler'[j].gen <= slot'[Home(j)'].gen
      BY <1>0, <1>2, <1>3, <2>1, <2>2, <2>3, <3>1 DEF Eras
    <3>4. Working(j)' \/ JobHolds(j)' => handler'[j].era = chat'[Home(j)'].era
      BY <1>0, <1>2, <1>3, <1>8, <2>3, <3>1, <3>2 DEF Eras
    <3>5. Running(j)' /\ handler'[j].gen = slot'[Home(j)'].gen => handler'[j].era = chat'[Home(j)'].era
      <4>1. SUFFICES ASSUME Running(j), handler[j].gen = slot'[Home(j)].gen PROVE handler[j].era = chat'[Home(j)].era
        BY <1>2, <1>3, <2>3
      <4>2. handler[j].gen <= slot[Home(j)].gen /\ Home(j) \in Chats
        BY <1>0, <3>1, <4>1 DEF Eras
      <4>3. handler[j].gen = slot[Home(j)].gen
        BY <2>1, <2>2, <4>1, <4>2
      <4>4. handler[j].era = chat[Home(j)].era
        BY <1>0, <4>1, <4>3 DEF Eras
      <4>5. ~(At(h, "forgetting") /\ Home(h) = Home(j))
        BY <1>0, <2>2, <4>1, <4>3, <2>1, <4>2 DEF Eras
      <4> QED BY <1>8, <4>2, <4>4, <4>5
    <3>6. ASSUME At(j, "forgetting")', NEW k \in Handlers, Running(k)', Home(k)' = Home(j)'
          PROVE  handler'[k].gen < slot'[Home(j)'].gen
      <4>1. At(j, "forgetting") /\ Working(j)
        BY <1>3, <2>3, <3>6 DEF At, Working
      <4>2. Home(j) # Home(h) /\ Home(j) \in Chats
        BY <4>1, <3>1, <3>2
      <4>3. k # h
        BY <4>2, <3>6, <1>2
      <4>4. Running(k) /\ handler'[k] = handler[k] /\ Home(k) = Home(j)
        BY <4>3, <3>6, <1>2, <1>3
      <4>5. handler[k].gen < slot[Home(j)].gen
        BY <1>0, <4>1, <4>4 DEF Eras
      <4> QED BY <1>2, <2>1, <2>2, <4>2, <4>4, <4>5
    <3> QED BY <3>3, <3>4, <3>5, <3>6
  <2>4. CASE j = h
    <3>1. Working(h) /\ handler[h].gen <= slot[Home(h)].gen /\ handler[h].era = chat[Home(h)].era
      BY <1>0 DEF Eras, CallMoves
    <3>2. Working(h)' => handler'[h].gen = handler[h].gen /\ handler'[h].era = handler[h].era
                         /\ chat'[Home(h)].era = chat[Home(h)].era
      BY <1>1, <1>8 DEF CallMoves, Working
    <3>3. Working(h)' \/ Running(h)' => handler'[h].gen <= slot'[Home(h)'].gen
      BY <1>1, <1>2, <1>9, <2>1, <2>2, <3>1, <3>2
    <3>4. JobHolds(h)' => JobHolds(h)
      BY <1>4, <1>5 DEF JobHolds
    <3>5. ~JobHolds(h)
      BY <1>0, <3>1 DEF Locks
    <3>6. Running(h)' => handler'[h].era = chat'[Home(h)'].era
      BY <1>1, <1>2, <1>4, <1>5, <1>8, <1>9, <3>1 DEF Running, Ended, At
    <3>7. ASSUME At(h, "forgetting")', NEW k \in Handlers, Running(k)', Home(k)' = Home(h)'
          PROVE  handler'[k].gen < slot'[Home(h)'].gen
      <4>1. slot'[Home(h)].gen = slot[Home(h)].gen + 1
        BY <1>1, <3>7 DEF CallMoves, At
      <4>2. k # h
        BY <1>4, <1>5, <3>7 DEF Running, Ended, At
      <4>3. handler[k].gen <= slot[Home(h)].gen /\ handler'[k].gen = handler[k].gen
        BY <1>0, <1>2, <1>3, <3>7, <4>2 DEF Eras
      <4> QED BY <1>1, <1>2, <2>1, <2>2, <4>1, <4>3
    <3> QED BY <2>4, <1>2, <3>1, <3>2, <3>3, <3>4, <3>5, <3>6, <3>7
  <2> QED BY <2>3, <2>4
<1>11. Results'
  <2> SUFFICES ASSUME NEW j \in Handlers
               PROVE  /\ sent'[j] <= 1
                      /\ sent'[j] = 1 => job'[j].pc \in Past
                      /\ JobAt(j, "sending")' => ~chat'[Home(j)'].gone
                      /\ JobAt(j, "sending")' \/ sent'[j] = 1 => Task(j)'.status \in HasEnded
    BY DEF Results
  <2>1. job[j].pc # "none" => job'[j].pc = job[j].pc /\ Home(j) \in Chats
    BY <1>0, <1>3, <1>4 DEF Places
  <2>2. sent'[j] = sent[j] /\ Home(j)' = Home(j) /\ (JobAt(j, "sending")' => JobAt(j, "sending"))
    BY <1>2, <1>3, <1>4, <1>5 DEF CallMoves, JobAt
  <2>3. sent[j] = 1 \/ JobAt(j, "sending") => job[j].pc # "none" /\ Task(j).status \in HasEnded
    BY <1>0 DEF Results, JobAt, Past
  <2>4. sent[j] = 1 \/ JobAt(j, "sending") => Task(j)'.status \in HasEnded
    BY <2>1, <2>2, <2>3 DEF DocumentStep, Task
  <2>5. JobAt(j, "sending") => ~chat'[Home(j)].gone
    BY <1>0, <2>1 DEF Results, DocumentStep, JobAt, Locks, JobHolds
  <2> QED BY <1>0, <2>1, <2>2, <2>3, <2>4, <2>5 DEF Results
<1>12. Once'
  <2>1. \A j \in Handlers \ {h} : Pending(j)' = Pending(j)
    BY <1>3 DEF Pending
  <2>2. Pending(h)' => handler'[h].act = handler[h].act /\ handler[h].act \in Activities
    BY <1>0, <1>4, <1>5 DEF CallMoves, Places, Pending, MayStart, ForActivity, Running, Ended
  <2>3. Pending(h)' => Pending(h) \/ (First(h) /\ handler[h].act \in chat'[Home(h)].seen)
    BY <1>4, <1>5 DEF CallMoves, Pending, MayStart
  <2>4. \A j \in Handlers : Pending(j)' => Home(j) \in Chats /\ handler'[j].act = handler[j].act
                                           /\ handler[j].act \in Activities /\ ChatOf[handler[j].act] = Home(j)
    BY <1>0, <1>1, <1>3, <2>1, <2>2 DEF Places, Pending, MayStart, ForActivity, Running, Ended
  <2>5. \A c \in Chats : chat[c].seen \subseteq chat'[c].seen
    BY DEF DocumentStep
  <2>6. ran' = ran /\ ran \in [Activities -> Nat] /\ ChatOf \in [Activities -> Chats]
    BY <1>0, ConversationAssumption DEF CallMoves, TypeOK
  <2>7. \A a \in Activities : ran'[a] <= 1 /\ (ran'[a] = 1 => a \in chat'[ChatOf[a]].seen)
    BY <1>0, <2>5, <2>6 DEF Once
  <2>8. \A j \in Handlers : Pending(j)' => handler'[j].act \in chat'[Home(j)'].seen /\ ran'[handler'[j].act] = 0
    <3> SUFFICES ASSUME NEW j \in Handlers, Pending(j)'
                 PROVE  handler[j].act \in chat'[Home(j)].seen /\ ran[handler[j].act] = 0
      BY <1>2, <2>4, <2>6
    <3>1. CASE Pending(j)
      BY <3>1, <1>0, <2>4, <2>5 DEF Once
    <3>2. CASE ~Pending(j)
      <4>1. j = h /\ First(h) /\ handler[h].act \in chat'[Home(h)].seen
        BY <3>2, <2>1, <2>3
      <4>2. ran[handler[h].act] # 1 /\ ran[handler[h].act] \in Nat /\ ran[handler[h].act] <= 1
        BY <1>0, <4>1, <2>4, <2>6 DEF Once, First
      <4> QED BY <4>1, <4>2
    <3> QED BY <3>1, <3>2
  <2>9. ASSUME NEW j \in Handlers, NEW k \in Handlers, Pending(j)', Pending(k)', handler'[j].act = handler'[k].act
        PROVE  j = k
    <3>1. handler[j].act = handler[k].act /\ Home(j) = Home(k)
      BY <2>4, <2>9
    <3>2. CASE Pending(j) /\ Pending(k)
      BY <3>1, <3>2, <1>0 DEF Once
    <3>3. CASE ~Pending(j) \/ ~Pending(k)
      <4>1. (j = h \/ k = h) /\ First(h)
        BY <3>3, <2>1, <2>3, <2>9
      <4>2. Pending(j) => handler[j].act \in chat[Home(j)].seen
        BY <1>0 DEF Once
      <4>3. Pending(k) => handler[k].act \in chat[Home(k)].seen
        BY <1>0 DEF Once
      <4>4. ~Pending(j) /\ ~Pending(k)
        BY <3>1, <4>1, <4>2, <4>3 DEF First
      <4> QED BY <4>4, <2>1, <2>9
    <3> QED BY <3>2, <3>3
  <2> QED BY <2>7, <2>8, <2>9 DEF Once
<1> QED BY <1>6, <1>7, <1>10, <1>11, <1>12, DocumentsKept DEF Inv

LEMMA JobKept ==
    ASSUME Inv, TypeOK', NEW h \in Handlers, JobMoves(h), DocumentStep
    PROVE  Inv'
<1>0. TypeOK /\ Places /\ Locks /\ Eras /\ Results /\ Once
  BY DEF Inv
<1>1. /\ Home(h) \in Chats /\ handler[h].pc \in {"compacting", "done"}
      /\ Running(h)' \/ JobHolds(h)' \/ JobAt(h, "reading") => Running(h)
  BY <1>0 DEF Places, JobMoves, Running, Ended, JobAt, JobHolds
<1>2. handler' = handler /\ \A j \in Handlers : Home(j)' = Home(j) /\ Working(j)' = Working(j)
  BY DEF JobMoves, Home, Working
<1>3. \A j \in Handlers \ {h} : /\ job'[j].pc = job[j].pc /\ Running(j)' = Running(j) /\ JobHolds(j)' = JobHolds(j)
  BY DEF JobMoves, Running, Ended, JobHolds
<1>4. \A j \in Handlers : Running(j)' => Running(j)
  BY <1>1, <1>3
<1>5. \A c \in Chats : chat'[c].era = chat[c].era /\ slot'[c].gen = slot[c].gen
  BY <1>2 DEF DocumentStep, At, JobMoves
<1>6. Places'
  BY <1>0, <1>1, <1>2, <1>3, <1>4 DEF Places
<1>7. Locks'
  <2> SUFFICES ASSUME NEW j \in Handlers, NEW k \in Handlers
               PROVE  /\ Working(j)' \/ JobHolds(j)' => slot'[Home(j)'].locked
                      /\ Working(j)' /\ Working(k)' /\ Home(j)' = Home(k)' => j = k
                      /\ JobHolds(j)' /\ JobHolds(k)' /\ Home(j)' = Home(k)' => j = k
                      /\ Working(j)' /\ JobHolds(k)' => Home(j)' # Home(k)'
    BY DEF Locks
  <2>1. \A i \in Handlers : Working(i) \/ JobHolds(i) => Home(i) \in Chats
    BY <1>0 DEF Places, Working, JobHolds
  <2>2. JobHolds(h)' => slot'[Home(h)].locked /\ (JobHolds(h) \/ ~slot[Home(h)].locked)
    BY DEF JobMoves
  <2>3. \A i \in Handlers : Working(i) \/ (i # h /\ JobHolds(i)) =>
            slot[Home(i)].locked /\ (JobHolds(h) => Home(i) # Home(h))
    BY <1>0 DEF Locks
  <2>4. \A i \in Handlers : Working(i) \/ (i # h /\ JobHolds(i)) => slot'[Home(i)].locked
    BY <2>1, <2>2, <2>3 DEF JobMoves
  <2>5. \A i \in Handlers : Working(i) \/ (i # h /\ JobHolds(i)) => (JobHolds(h)' => Home(i) # Home(h))
    BY <2>2, <2>3
  <2> QED BY <1>0, <1>2, <1>3, <2>2, <2>4, <2>5 DEF Locks
<1>8. Eras'
  <2>1. \A j \in Handlers : Working(j) \/ Running(j) => Home(j) \in Chats
    BY <1>0 DEF Places, Working, Running, Ended
  <2>2. JobHolds(h)' => handler[h].era = chat[Home(h)].era
    BY <1>0, <1>1 DEF Eras, JobMoves, Live
  <2>3. \A j \in Handlers : JobHolds(j) => Running(j)
    BY DEF JobHolds, Running, Ended
  <2>4. \A j \in Handlers : JobHolds(j)' => JobHolds(j) \/ j = h
    BY <1>3
  <2>5. \A j \in Handlers : Working(j)' \/ Running(j)' => handler'[j].gen <= slot'[Home(j)'].gen
    BY <1>0, <1>2, <1>4, <1>5, <2>1 DEF Eras
  <2>6. \A j \in Handlers : Working(j)' \/ JobHolds(j)' => handler'[j].era = chat'[Home(j)'].era
    BY <1>0, <1>1, <1>2, <1>5, <2>1, <2>2, <2>3, <2>4 DEF Eras
  <2>7. \A j \in Handlers : Running(j)' /\ handler'[j].gen = slot'[Home(j)'].gen => handler'[j].era = chat'[Home(j)'].era
    BY <1>0, <1>2, <1>4, <1>5, <2>1 DEF Eras
  <2>8. ASSUME NEW j \in Handlers, At(j, "forgetting")', NEW k \in Handlers, Running(k)', Home(k)' = Home(j)'
        PROVE  handler'[k].gen < slot'[Home(j)'].gen
    <3>1. At(j, "forgetting") /\ Working(j) /\ Running(k) /\ Home(k) = Home(j)
      BY <1>2, <1>4, <2>8 DEF At, Working
    <3>2. handler[k].gen < slot[Home(j)].gen
      BY <1>0, <3>1 DEF Eras
    <3> QED BY <1>2, <1>5, <2>1, <3>1, <3>2
  <2> QED BY <2>5, <2>6, <2>7, <2>8 DEF Eras
<1>9. Results'
  <2>1. \A j \in Handlers : job[j].pc # "none" => Home(j) \in Chats
    BY <1>0 DEF Places
  <2>2. \A j \in Handlers : job[j].pc # "none" /\ Task(j).status \in HasEnded => Task(j)'.status \in HasEnded
    BY <1>2, <2>1 DEF DocumentStep, Task
  <2>3. \A j \in Handlers : sent[j] = 1 \/ JobAt(j, "sending") => Task(j)'.status \in HasEnded
    BY <1>0, <2>2 DEF Results, JobAt, Past
  <2>4. sent \in [Handlers -> Nat] /\ (JobAt(h, "sending") => sent[h] = 0)
    <3>1. sent \in [Handlers -> Nat] /\ sent[h] <= 1 /\ (JobAt(h, "sending") => sent[h] # 1)
      BY <1>0 DEF TypeOK, Results, JobAt, Past
    <3> QED BY <3>1
  <2>5. \A j \in Handlers : sent'[j] # sent[j] => j = h /\ JobAt(h, "sending") /\ job'[h].pc = "delivering" /\ sent'[h] = 1
    BY <2>4 DEF JobMoves
  <2> SUFFICES ASSUME NEW j \in Handlers
               PROVE  /\ sent'[j] <= 1
                      /\ sent'[j] = 1 => job'[j].pc \in Past
                      /\ JobAt(j, "sending")' => ~chat'[Home(j)'].gone
                      /\ JobAt(j, "sending")' \/ sent'[j] = 1 => Task(j)'.status \in HasEnded
    BY DEF Results
  <2>6. sent'[j] <= 1
    BY <1>0, <2>5 DEF Results
  <2>7. sent'[j] = 1 => job'[j].pc \in Past
    <3>1. sent[j] = 1 => job[j].pc \in Past
      BY <1>0 DEF Results
    <3>2. job[j].pc \in Past => job'[j].pc \in Past
      BY <1>3 DEF JobMoves
    <3> QED BY <2>5, <3>1, <3>2 DEF Past
  <2>8. CASE j = h
    <3>1. JobAt(h, "sending")' => Task(h)'.status \in HasEnded /\ ~chat'[Home(h)'].gone
      BY <1>2 DEF JobMoves, JobAt, Task
    <3> QED BY <2>3, <2>5, <2>6, <2>7, <2>8, <3>1
  <2>9. CASE j # h
    <3>1. JobAt(j, "sending")' => JobAt(j, "sending") /\ Home(j) \in Chats
      BY <1>3, <2>1, <2>9 DEF JobAt
    <3>2. JobAt(j, "sending") => slot[Home(j)].locked /\ ~chat[Home(j)].gone
      BY <1>0 DEF Locks, JobHolds, JobAt, Results
    <3>3. JobAt(j, "sending")' => ~chat'[Home(j)'].gone
      BY <1>2, <3>1, <3>2 DEF DocumentStep
    <3> QED BY <2>3, <2>5, <2>6, <2>7, <2>9, <3>1, <3>3
  <2> QED BY <2>8, <2>9
<1>10. Once'
  <2>1. \A j \in Handlers : Pending(j)' => Pending(j)
    BY <1>2, <1>3 DEF Pending, JobMoves, JobAt
  <2>2. \A j \in Handlers : Pending(j) => Home(j) \in Chats /\ handler[j].act \in Activities
                                          /\ ChatOf[handler[j].act] = Home(j)
    BY <1>0, ConversationAssumption DEF Places, Pending, MayStart, ForActivity, Running, Ended
  <2>3. \A c \in Chats : chat[c].seen \subseteq chat'[c].seen
    BY DEF DocumentStep
  <2>4. ran \in [Activities -> Nat] /\ ChatOf \in [Activities -> Chats]
    BY <1>0, ConversationAssumption DEF TypeOK
  <2>5. \A j, k \in Handlers : Pending(j)' /\ Pending(k)' /\ handler'[j].act = handler'[k].act => j = k
    BY <1>0, <1>2, <2>1 DEF Once
  <2>6. \A j \in Handlers : Pending(j)' => handler'[j].act \in chat'[Home(j)'].seen
    BY <1>0, <1>2, <2>1, <2>2, <2>3 DEF Once
  <2>7. CASE ran' = ran
    BY <1>0, <1>2, <2>1, <2>3, <2>4, <2>5, <2>6, <2>7 DEF Once
  <2>8. CASE JobAt(h, "reading") /\ job'[h].pc = "running" /\ ran' = [ran EXCEPT ![handler[h].act] = @ + 1]
    <3>1. Pending(h) /\ ~Pending(h)' /\ ran[handler[h].act] = 0 /\ handler[h].act \in chat[Home(h)].seen
      BY <1>0, <1>1, <1>2, <2>8 DEF Once, Pending, JobAt, MayStart
    <3>2. \A a \in Activities : ran'[a] = IF a = handler[h].act THEN 1 ELSE ran[a]
      BY <2>2, <2>4, <2>8, <3>1
    <3>3. \A a \in Activities : ran'[a] <= 1 /\ (ran'[a] = 1 => a \in chat'[ChatOf[a]].seen)
      BY <1>0, <2>2, <2>3, <2>4, <3>1, <3>2 DEF Once
    <3>4. \A j \in Handlers : Pending(j)' => ran'[handler'[j].act] = 0
      BY <1>0, <1>2, <2>1, <2>2, <3>1, <3>2 DEF Once
    <3> QED BY <2>5, <2>6, <3>3, <3>4 DEF Once
  <2> QED BY <2>7, <2>8 DEF JobMoves
<1> QED BY <1>6, <1>7, <1>8, <1>9, <1>10, DocumentsKept DEF Inv

LEMMA EnterKept ==
    ASSUME Inv, TypeOK', NEW h \in Handlers, Enters(h)
    PROVE  Inv'
<1>0. TypeOK /\ Places /\ Locks /\ Eras /\ Results /\ Once
  BY DEF Inv
<1>1. job' = job /\ chat' = chat /\ job[h].pc = "none" /\ Home(h)' \in Chats /\ ~slot[Home(h)'].locked
  BY <1>0 DEF Places, Enters, At, Home
<1>2. \A j \in Handlers \ {h} : handler'[j] = handler[j] /\ Home(j)' = Home(j) /\ Working(j)' = Working(j)
  BY DEF Enters, Home, Working
<1>3. \A j \in Handlers : Running(j)' = Running(j) /\ JobHolds(j)' = JobHolds(j) /\ Ended(j)' = Ended(j)
  BY <1>1 DEF Running, Ended, JobHolds
<1>4. ~Running(h) /\ ~JobHolds(h) /\ ~Pending(h)'
  BY <1>1 DEF Running, JobHolds, Pending, Enters, MayStart
<1>5. Places'
  BY <1>0, <1>1, <1>2, <1>3, <1>4 DEF Places, Enters, ForActivity, Home
<1>6. \A j \in Handlers \ {h} : Working(j) \/ JobHolds(j) =>
          Home(j) # Home(h)' /\ slot[Home(j)].locked /\ slot'[Home(j)].locked
  BY <1>0, <1>1 DEF Locks, Enters, Home, Places, Working, JobHolds
<1>7. Locks'
  BY <1>0, <1>1, <1>2, <1>3, <1>4, <1>6 DEF Locks, Enters, Home
<1>8. Eras'
  <2>1. \A j \in Handlers : Running(j) => j # h /\ Home(j) \in Chats
    BY <1>0, <1>4 DEF Places, Running
  <2>2. \A c \in Chats : slot'[c].gen = slot[c].gen /\ slot[c].gen \in Nat
    BY <1>0 DEF Enters, TypeOK, SlotType
  <2>3. \A j \in Handlers \ {h} : Working(j) => Home(j) \in Chats
    BY <1>0 DEF Places, Working
  <2>4. handler'[h].gen = slot'[Home(h)'].gen /\ handler'[h].era = chat'[Home(h)'].era /\ ~At(h, "forgetting")'
    BY <1>1, <2>2 DEF Enters, Home, At
  <2>5. \A j \in Handlers : Working(j)' \/ Running(j)' => handler'[j].gen <= slot'[Home(j)'].gen
    BY <1>0, <1>1, <1>2, <1>3, <2>1, <2>2, <2>3, <2>4 DEF Eras
  <2>6. \A j \in Handlers : Working(j)' \/ JobHolds(j)' => handler'[j].era = chat'[Home(j)'].era
    BY <1>0, <1>1, <1>2, <1>3, <2>4 DEF Eras
  <2>7. \A j \in Handlers : Running(j)' /\ handler'[j].gen = slot'[Home(j)'].gen => handler'[j].era = chat'[Home(j)'].era
    BY <1>0, <1>1, <1>2, <1>3, <2>1, <2>2, <2>4 DEF Eras
  <2>8. ASSUME NEW j \in Handlers, At(j, "forgetting")', NEW k \in Handlers, Running(k)', Home(k)' = Home(j)'
        PROVE  handler'[k].gen < slot'[Home(j)'].gen
    <3>1. j # h /\ k # h /\ Running(k)
      BY <1>3, <1>4, <2>4, <2>8
    <3>2. At(j, "forgetting") /\ Home(j) \in Chats /\ Home(k) = Home(j) /\ handler'[k] = handler[k] /\ Home(j)' = Home(j)
      BY <1>2, <2>3, <2>8, <3>1 DEF At, Working
    <3>3. handler[k].gen < slot[Home(j)].gen
      BY <1>0, <3>1, <3>2 DEF Eras
    <3> QED BY <2>2, <3>2, <3>3
  <2> QED BY <2>5, <2>6, <2>7, <2>8 DEF Eras
<1>9. Results'
  <2>1. sent' = sent /\ \A j \in Handlers : sent[j] = 1 \/ JobAt(j, "sending") => j # h
    BY <1>0, <1>1 DEF Enters, Results, JobAt, Past
  <2> QED BY <1>0, <1>1, <1>2, <2>1 DEF Results, Task, JobAt
<1>10. Once'
  <2>1. ran' = ran /\ \A j \in Handlers : Pending(j)' => j # h /\ Pending(j)
    BY <1>1, <1>2, <1>4 DEF Pending, Enters
  <2> QED BY <1>0, <1>1, <1>2, <2>1 DEF Once
<1>11. ForgottenStays' /\ GoneInactive'
  BY <1>1 DEF Inv, ForgottenStays, GoneInactive
<1> QED BY <1>5, <1>7, <1>8, <1>9, <1>10, <1>11 DEF Inv

LEMMA OutsideKept ==
    ASSUME Inv, TypeOK', Outside, DocumentStep
    PROVE  Inv'
<1>0. TypeOK /\ Places /\ Locks /\ Eras /\ Results /\ Once
  BY DEF Inv
<1>1. handler' = handler /\ \A j \in Handlers : /\ Home(j)' = Home(j) /\ Working(j)' = Working(j) /\ job'[j].pc = job[j].pc
                                                /\ Running(j)' = Running(j) /\ JobHolds(j)' = JobHolds(j)
                                                /\ Pending(j)' = Pending(j)
  BY DEF Outside, Home, Working, Running, Ended, JobHolds, Pending
<1>2. \A c \in Chats : /\ chat'[c].era = chat[c].era /\ slot'[c].locked = slot[c].locked
                       /\ slot'[c].gen >= slot[c].gen /\ slot'[c].gen \in Nat /\ slot[c].gen \in Nat
                       /\ chat[c].seen \subseteq chat'[c].seen
  BY <1>0, <1>1 DEF Outside, DocumentStep, At, TypeOK, SlotType
<1>3. \A j \in Handlers : /\ handler[j].gen \in Nat
                          /\ Working(j) \/ Running(j) \/ JobHolds(j) \/ job[j].pc # "none" => Home(j) \in Chats
  BY <1>0 DEF Places, Working, Running, JobHolds, TypeOK, CallType
<1>4. Places'
  BY <1>0, <1>1 DEF Places
<1>5. Locks'
  BY <1>0, <1>1, <1>2, <1>3 DEF Locks
<1>6. Eras'
  <2>1. \A j \in Handlers : Working(j)' \/ Running(j)' => handler'[j].gen <= slot'[Home(j)'].gen
    BY <1>0, <1>1, <1>2, <1>3 DEF Eras
  <2>2. \A j \in Handlers : Working(j)' \/ JobHolds(j)' => handler'[j].era = chat'[Home(j)'].era
    BY <1>0, <1>1, <1>2, <1>3 DEF Eras
  <2>3. ASSUME NEW j \in Handlers, Running(j), handler[j].gen = slot'[Home(j)].gen PROVE handler[j].era = chat[Home(j)].era
    <3>1. handler[j].gen <= slot[Home(j)].gen
      BY <1>0, <2>3 DEF Eras
    <3>2. handler[j].gen = slot[Home(j)].gen
      BY <1>2, <1>3, <2>3, <3>1
    <3> QED BY <1>0, <2>3, <3>2 DEF Eras
  <2>4. ASSUME NEW j \in Handlers, At(j, "forgetting")', NEW k \in Handlers, Running(k)', Home(k)' = Home(j)'
        PROVE  handler'[k].gen < slot'[Home(j)'].gen
    <3>1. At(j, "forgetting") /\ Home(j) \in Chats /\ Running(k) /\ Home(k) = Home(j)
      BY <1>1, <1>3, <2>4 DEF At, Working
    <3>2. handler[k].gen < slot[Home(j)].gen
      BY <1>0, <3>1 DEF Eras
    <3> QED BY <1>1, <1>2, <1>3, <3>1, <3>2
  <2> QED BY <1>1, <1>2, <1>3, <2>1, <2>2, <2>3, <2>4 DEF Eras
<1>7. Results'
  <2>1. \A j \in Handlers : job[j].pc # "none" /\ Task(j).status \in HasEnded => Task(j)'.status \in HasEnded
    BY <1>1, <1>3 DEF DocumentStep, Task
  <2>2. \A j \in Handlers : JobAt(j, "sending") => slot[Home(j)].locked /\ ~chat[Home(j)].gone /\ Home(j) \in Chats
    BY <1>0, <1>3 DEF Locks, JobHolds, JobAt, Results
  <2>3. \A j \in Handlers : JobAt(j, "sending") => ~chat'[Home(j)].gone
    BY <2>2 DEF DocumentStep
  <2>4. sent' = sent /\ \A j \in Handlers : sent[j] = 1 => job[j].pc # "none"
    BY <1>0 DEF Outside, Results, Past
  <2> QED BY <1>0, <1>1, <2>1, <2>3, <2>4 DEF Results, JobAt
<1>8. Once'
  <2>1. ran' = ran /\ \A j \in Handlers : Pending(j) => Home(j) \in Chats
    BY <1>0 DEF Outside, Pending, Places, MayStart
  <2>2. ChatOf \in [Activities -> Chats]
    BY ConversationAssumption
  <2> QED BY <1>0, <1>1, <1>2, <2>1, <2>2 DEF Once
<1> QED BY <1>4, <1>5, <1>6, <1>7, <1>8, DocumentsKept DEF Inv

LEMMA CrashKept ==
    ASSUME Inv, TypeOK', Crash
    PROVE  Inv'
<1>0. TypeOK /\ Places /\ Results /\ Once
  BY DEF Inv
<1>1. chat' = chat /\ ran' = ran /\ sent' = sent
  BY DEF Crash
<1>2. \A j \in Handlers : /\ handler'[j].pc \in {"idle", "done"} /\ job'[j].pc \in {"none", "done"}
                          /\ handler'[j].act = None
                          /\ (job[j].pc = "none" <=> job'[j].pc = "none")
                          /\ (handler[j].pc = "idle" <=> handler'[j].pc = "idle")
                          /\ handler[j].pc # "idle" => Home(j)' = Home(j)
  BY DEF Crash, NoCall, NoJob, At, JobAt, Home
<1>3. \A j \in Handlers : ~Working(j)' /\ ~Running(j)' /\ ~JobHolds(j)' /\ ~Pending(j)' /\ ~At(j, "forgetting")'
  BY <1>2 DEF Working, Running, Ended, JobHolds, Pending, MayStart, At
<1>4. Places'
  BY <1>0, <1>2, <1>3, ConversationAssumption DEF Places, ForActivity
<1>5. Locks' /\ Eras'
  BY <1>3 DEF Locks, Eras
<1>6. Results'
  <2>1. \A j \in Handlers : sent[j] = 1 => job'[j].pc \in Past /\ Task(j)' = Task(j)
    BY <1>0, <1>1, <1>2 DEF Results, Places, Past, Task
  <2>2. \A j \in Handlers : ~JobAt(j, "sending")'
    BY <1>2 DEF JobAt
  <2> QED BY <1>0, <1>1, <2>1, <2>2 DEF Results
<1>7. Once'
  BY <1>0, <1>1, <1>3 DEF Once
<1>8. ForgottenStays' /\ GoneInactive'
  BY <1>1 DEF Inv, ForgottenStays, GoneInactive
<1> QED BY <1>4, <1>5, <1>6, <1>7, <1>8 DEF Inv

-----------------------------------------------------------------------------
(* Each action is a step of one of those kinds.                            *)

LEMMA SameEdits == ASSUME Inv, chat' = chat PROVE DocumentStep /\ chat' \in [Chats -> DocumentType]
BY DEF Inv, TypeOK, DocumentStep, ForgottenStays, GoneInactive, Clean

\* A mild edit, of the chat that h is of.
LEMMA MildEdits ==
    ASSUME Inv, NEW c \in Chats, NEW d, Mild(c, d), chat' = [chat EXCEPT ![c] = d]
    PROVE  DocumentStep /\ chat' \in [Chats -> DocumentType] /\ chat'[c] = d
<1>1. chat \in [Chats -> DocumentType]
  BY DEF Inv, TypeOK
<1>2. d \in DocumentType
  BY DEF Mild
<1>3. chat' \in [Chats -> DocumentType] /\ chat'[c] = d /\ \A b \in Chats \ {c} : chat'[b] = chat[b]
  BY <1>1, <1>2
<1>4. \A b \in Chats : Mild(b, chat'[b])
  BY <1>3, SameMild
<1> QED BY <1>3, <1>4 DEF DocumentStep, Mild

LEMMA WorkingFacts ==
    ASSUME Inv, NEW h \in Handlers, Working(h)
    PROVE  /\ Home(h) \in Chats /\ handler[h].era = chat[Home(h)].era /\ handler[h].gen \in Nat
           /\ slot[Home(h)].locked
           /\ handler[h].pc \in ForActivity => handler[h].act \in Activities
           /\ job[h].pc # "none" => At(h, "compacting")
BY DEF Inv, Working, Places, Eras, Locks, TypeOK, CallType, At

LEMMA GoFacts ==
    ASSUME TypeOK, NEW h \in Handlers, Home(h) \in Chats, NEW pc \in CallPcs, Go(h, pc)
    PROVE  /\ handler' \in [Handlers -> CallType] /\ slot' \in [Chats -> SlotType]
           /\ handler'[h].pc = pc /\ handler'[h].chat = handler[h].chat /\ handler'[h].act \in {handler[h].act, None}
           /\ pc # "done" \/ job[h].pc # "none" =>
                handler'[h].act = handler[h].act /\ handler'[h].gen = handler[h].gen /\ handler'[h].era = handler[h].era
           /\ \A j \in Handlers \ {h} : handler'[j] = handler[j]
           /\ \A c \in Chats : /\ slot'[c].gen = slot[c].gen
                               /\ c # Home(h) \/ pc # "done" => slot'[c].locked = slot[c].locked
<1> DEFINE r == IF pc = "done" THEN Returned(h) ELSE [handler[h] EXCEPT !.pc = pc]
<1>1. handler \in [Handlers -> CallType] /\ slot \in [Chats -> SlotType] /\ handler[h] \in CallType
  BY DEF TypeOK
<1>2. /\ r \in CallType /\ r.pc = pc /\ r.chat = handler[h].chat /\ r.act \in {handler[h].act, None}
      /\ pc # "done" \/ job[h].pc # "none" => r.act = handler[h].act /\ r.gen = handler[h].gen /\ r.era = handler[h].era
  BY <1>1 DEF Returned, NoCall, CallType, CallPcs, Home
<1>3. handler' = [handler EXCEPT ![h] = r]
  BY DEF Go
<1> HIDE DEF r
<1>4. handler' \in [Handlers -> CallType] /\ handler'[h] = r /\ \A j \in Handlers \ {h} : handler'[j] = handler[j]
  BY <1>1, <1>2, <1>3
<1>5. slot' \in [Chats -> SlotType] /\ \A c \in Chats :
          /\ slot'[c].gen = slot[c].gen
          /\ c # Home(h) \/ pc # "done" => slot'[c].locked = slot[c].locked
  BY <1>1 DEF Go, SlotType
<1> QED BY <1>2, <1>4, <1>5

\* A call that goes on moves as a call may.
LEMMA GoMoves ==
    ASSUME Inv, NEW h \in Handlers, Working(h), NEW pc \in CallPcs \ {"idle", "forgetting"}, Go(h, pc),
           ran' = ran, sent' = sent, \A j \in Handlers \ {h} : job'[j].pc = job[j].pc,
           \/ job'[h].pc = job[h].pc
           \/ handler[h].pc \in MayStart /\ pc = "compacting" /\ job'[h].pc = "queued",
           pc \in MayStart => \/ handler[h].pc \in MayStart
                              \/ First(h) /\ handler[h].act \in chat'[Home(h)].seen,
           pc \in ForActivity => handler[h].act \in Activities,
           At(h, "compacting") => pc = "done"
    PROVE  CallMoves(h) /\ handler' \in [Handlers -> CallType] /\ slot' \in [Chats -> SlotType]
<1>1. Home(h) \in Chats /\ TypeOK /\ (handler[h].pc \in MayStart => job[h].pc = "none")
  BY WorkingFacts DEF Inv, At, MayStart
<1>2. handler' \in [Handlers -> CallType] /\ slot' \in [Chats -> SlotType] /\ handler'[h].pc = pc
  BY <1>1, GoFacts
<1>3. \A j \in Handlers \ {h} : handler'[j] = handler[j] /\ job'[j].pc = job[j].pc
  BY <1>1, GoFacts
<1>4. handler'[h].pc # "done" \/ job'[h].pc # "none" =>
          handler'[h].act = handler[h].act /\ handler'[h].gen = handler[h].gen /\ handler'[h].era = handler[h].era
  BY <1>1, GoFacts
<1>5. handler'[h].chat = handler[h].chat /\ handler'[h].act \in {handler[h].act, None}
  BY <1>1, GoFacts
<1>6. \A c \in Chats : /\ slot'[c].gen = slot[c].gen
                       /\ c # Home(h) \/ pc # "done" => slot'[c].locked = slot[c].locked
  BY <1>1, GoFacts
<1> QED BY <1>1, <1>2, <1>3, <1>4, <1>5, <1>6 DEF CallMoves

\* A call that edits the document mildly and goes on.
LEMMA StepKept ==
    ASSUME Inv, NEW h \in Handlers, Working(h), NEW d, Mild(Home(h), d), Commit(h, d),
           NEW pc \in CallPcs \ {"idle", "forgetting"}, Go(h, pc),
           ran' = ran, sent' = sent, job' \in [Handlers -> JobType], \A j \in Handlers \ {h} : job'[j].pc = job[j].pc,
           \/ job'[h].pc = job[h].pc
           \/ handler[h].pc \in MayStart /\ pc = "compacting" /\ job'[h].pc = "queued",
           pc \in MayStart => \/ handler[h].pc \in MayStart
                              \/ First(h) /\ handler[h].act \in d.seen,
           pc \in ForActivity => handler[h].act \in Activities,
           At(h, "compacting") => pc = "done",
           admitted' \in SUBSET Handlers, faults' \in Nat, UNCHANGED rest
    PROVE  Inv'
<1>1. Home(h) \in Chats
  BY WorkingFacts
<1>2. DocumentStep /\ chat' \in [Chats -> DocumentType] /\ chat'[Home(h)] = d
  BY <1>1, MildEdits DEF Commit
<1>3. CallMoves(h) /\ handler' \in [Handlers -> CallType] /\ slot' \in [Chats -> SlotType]
  BY <1>2, GoMoves
<1>4. TypeOK'
  BY <1>2, <1>3 DEF Inv, TypeOK, rest
<1> QED BY <1>2, <1>3, <1>4, CallKept

LEMMA HandlersKept ==
    ASSUME Inv, NEW h \in Handlers, Handle(h)
    PROVE  Inv'
<1>0. /\ TypeOK /\ job \in [Handlers -> JobType] /\ admitted \in SUBSET Handlers /\ faults \in Nat /\ faults + 1 \in Nat
      /\ admitted \ {h} \in SUBSET Handlers /\ admitted \cup {h} \in SUBSET Handlers
  BY DEF Inv, TypeOK
<1>1. Working(h)
  BY DEF Handle, Recover, Rejoin, Activate, Claim, Forget, Note, Plan, Reply, Persist, Ack, StartFails, Unstart,
         UnstartFails, CallFails, At, Working
<1>2. /\ Home(h) \in Chats /\ handler[h].era = chat[Home(h)].era /\ handler[h].gen \in Nat
      /\ handler[h].pc \in ForActivity => handler[h].act \in Activities
      /\ job[h].pc # "none" => At(h, "compacting")
  BY <1>1, WorkingFacts
<1>3. CASE Recover(h)
  <2>1. Mild(Home(h), Recovered(h))
    BY <1>2, RecoveredMild
  <2>2. PICK pc \in {"rejoining", "activating", "done"} : Go(h, pc) /\ (pc = "activating" => handler[h].act # None)
    BY <1>3 DEF Recover
  <2>3. pc \in ForActivity => handler[h].act \in Activities
    BY <1>0, <2>2 DEF ForActivity, TypeOK, CallType
  <2>4. pc \notin MayStart /\ pc \in CallPcs \ {"idle", "forgetting"} /\ ~At(h, "compacting")
    BY <1>3, <2>2 DEF MayStart, CallPcs, Recover, At
  <2>5. Commit(h, Recovered(h)) /\ UNCHANGED <<tasksAlone, rest, faults>>
    BY <1>3 DEF Recover
  <2> QED BY <1>0, <1>1, <2>1, <2>2, <2>3, <2>4, <2>5, StepKept DEF tasksAlone
<1>4. CASE Rejoin(h)
  <2>1. Mild(Home(h), Rejoined(h))
    BY <1>2, RejoinedMild
  <2>2. PICK pc \in {"replying", "done"} : Go(h, pc)
    BY <1>4 DEF Rejoin
  <2>3. pc \notin MayStart /\ pc \notin ForActivity /\ pc \in CallPcs \ {"idle", "forgetting"} /\ ~At(h, "compacting")
    BY <1>4, <2>2 DEF MayStart, ForActivity, CallPcs, Rejoin, At
  <2>4. Commit(h, Rejoined(h)) /\ UNCHANGED <<tasksAlone, rest, faults>>
    BY <1>4 DEF Rejoin
  <2> QED BY <1>0, <1>1, <2>1, <2>2, <2>3, <2>4, StepKept DEF tasksAlone
<1>5. CASE Activate(h)
  <2>1. Mild(Home(h), Activated(h))
    BY <1>2, ActivatedMild
  <2>2. PICK pc \in {"claiming", "done"} : Go(h, pc)
    BY <1>5 DEF Activate
  <2>3. pc \notin MayStart /\ pc \in CallPcs \ {"idle", "forgetting"} /\ ~At(h, "compacting") /\ handler[h].act \in Activities
    BY <1>2, <1>5, <2>2 DEF MayStart, ForActivity, CallPcs, Activate, At
  <2>4. Commit(h, Activated(h)) /\ UNCHANGED <<tasksAlone, rest, faults>>
    BY <1>5 DEF Activate
  <2> QED BY <1>0, <1>1, <2>1, <2>2, <2>3, <2>4, StepKept DEF tasksAlone
<1>6. CASE Claim(h)
  <2>1. handler[h].act \in Activities /\ ~At(h, "compacting") /\ handler[h].pc # "idle"
    BY <1>2, <1>6 DEF Claim, At, ForActivity
  <2>2. Mild(Home(h), Received(h)) /\ handler[h].act \in Received(h).seen
    BY <1>2, <2>1, ReceivedMild
  <2>3. Commit(h, Received(h)) /\ UNCHANGED <<admitted, ran, sent, rest, faults>>
    BY <1>6 DEF Claim
  <2>4. CASE First(h) /\ Go(h, "noting") /\ UNCHANGED job
    <3>1. "noting" \in CallPcs \ {"idle", "forgetting"}
      BY DEF CallPcs
    <3> QED BY <1>0, <1>1, <2>1, <2>2, <2>3, <2>4, <3>1, StepKept
  <2>5. CASE Go(h, "done") /\ UNCHANGED job
    <3>1. "done" \in CallPcs \ {"idle", "forgetting"} /\ "done" \notin MayStart
      BY DEF CallPcs, MayStart
    <3> QED BY <1>0, <1>1, <2>1, <2>2, <2>3, <2>5, <3>1, StepKept
  <2>6. CASE /\ slot' = [slot EXCEPT ![Home(h)].gen = @ + 1]
             /\ handler' = [handler EXCEPT ![h].pc = "forgetting"]
             /\ Cancel(JobsOf(Home(h)))
    <3>1. /\ handler \in [Handlers -> CallType] /\ slot \in [Chats -> SlotType] /\ handler[h] \in CallType
          /\ slot[Home(h)] \in SlotType
      BY <1>0, <1>2 DEF TypeOK
    <3>2. handler' \in [Handlers -> CallType] /\ handler'[h] = [handler[h] EXCEPT !.pc = "forgetting"]
          /\ \A j \in Handlers \ {h} : handler'[j] = handler[j]
      BY <2>6, <3>1 DEF CallType
    <3>3. handler'[h].pc = "forgetting" /\ handler'[h].chat = handler[h].chat /\ handler'[h].act = handler[h].act
          /\ handler'[h].gen = handler[h].gen /\ handler'[h].era = handler[h].era
      BY <3>1, <3>2 DEF CallType
    <3>4. slot' \in [Chats -> SlotType] /\ \A c \in Chats :
              /\ slot'[c].gen = IF c = Home(h) THEN slot[c].gen + 1 ELSE slot[c].gen
              /\ slot'[c].locked = slot[c].locked
      BY <1>2, <2>6, <3>1 DEF SlotType
    <3>5. job' \in [Handlers -> JobType] /\ \A j \in Handlers : job'[j].pc = job[j].pc
      BY <1>0, <2>6 DEF Cancel, JobType
    <3>6. CallMoves(h)
      BY <1>1, <2>1, <2>3, <3>2, <3>3, <3>4, <3>5 DEF CallMoves, MayStart
    <3>7. DocumentStep /\ chat' \in [Chats -> DocumentType]
      BY <1>2, <2>2, <2>3, MildEdits DEF Commit
    <3>8. TypeOK'
      BY <1>0, <2>3, <3>2, <3>4, <3>5, <3>7 DEF TypeOK, rest
    <3> QED BY <3>6, <3>7, <3>8, CallKept
  <2> QED BY <1>6, <2>4, <2>5, <2>6 DEF Claim
<1>7. ASSUME At(h, "forgetting"), Go(h, "done"), UNCHANGED <<tasksAlone, rest>>, Commit(h, Forgotten(h)), faults' \in Nat
      PROVE  Inv'
  <2>2. CallMoves(h) /\ handler' \in [Handlers -> CallType] /\ slot' \in [Chats -> SlotType]
    <3>1. "done" \in CallPcs \ {"idle", "forgetting"} /\ "done" \notin MayStart /\ "done" \notin ForActivity
      BY DEF CallPcs, MayStart, ForActivity
    <3> QED BY <1>1, <1>7, <3>1, GoMoves DEF tasksAlone
  <2>3. handler'[h].pc = "done"
    BY <1>0, <1>2, <1>7, GoFacts DEF CallPcs
  <2>4. /\ Forgotten(h) \in DocumentType /\ Clean(Forgotten(h)) /\ Forgotten(h).seen = chat[Home(h)].seen
        /\ Forgotten(h).gone = chat[Home(h)].gone /\ Forgotten(h).active = chat[Home(h)].active
        /\ \A j \in Handlers : Forgotten(h).tasks[j].status \in HasEnded
    BY <1>2, ForgottenFacts
  <2>5. chat' \in [Chats -> DocumentType] /\ chat'[Home(h)] = Forgotten(h)
        /\ \A c \in Chats \ {Home(h)} : chat'[c] = chat[c]
    BY <1>0, <1>2, <1>7, <2>4 DEF TypeOK, Commit
  <2>6. \A c \in Chats : Clean(chat[c]) /\ (chat[c].gone => ~chat[c].active)
    BY DEF Inv, ForgottenStays, GoneInactive, Clean
  <2>7. DocumentStep
    BY <1>2, <1>7, <2>3, <2>4, <2>5, <2>6 DEF DocumentStep
  <2>8. TypeOK'
    BY <1>0, <1>7, <2>2, <2>5 DEF TypeOK, tasksAlone, rest
  <2> QED BY <2>2, <2>7, <2>8, CallKept
<1>8. CASE Note(h)
  <2>1. Mild(Home(h), Remembered(h)) /\ At(h, "noting")
    BY <1>2, <1>8, RememberedMild DEF Note
  <2>2. PICK pc \in {"planning", "done"} : Go(h, pc)
    BY <1>8 DEF Note
  <2>3. /\ handler[h].pc \in MayStart /\ handler[h].act \in Activities /\ pc \in CallPcs \ {"idle", "forgetting"}
        /\ ~At(h, "compacting")
    BY <1>2, <2>1, <2>2 DEF MayStart, ForActivity, CallPcs, At
  <2>4. Commit(h, Remembered(h)) /\ UNCHANGED <<tasksAlone, rest, faults>>
    BY <1>8 DEF Note
  <2> QED BY <1>0, <1>1, <2>1, <2>2, <2>3, <2>4, StepKept DEF tasksAlone
<1>9. CASE Plan(h)
  <2>1. Mild(Home(h), chat[Home(h)]) /\ At(h, "planning") /\ UNCHANGED <<chat, job, ran, sent, rest, faults>>
    BY <1>2, <1>9, SameMild DEF Plan
  <2>2. PICK pc \in {"replying", "persisting", "done"} : Go(h, pc)
    BY <1>9 DEF Plan
  <2>3. /\ handler[h].pc \in MayStart /\ handler[h].act \in Activities /\ pc \in CallPcs \ {"idle", "forgetting"}
        /\ ~At(h, "compacting")
    BY <1>2, <2>1, <2>2 DEF MayStart, ForActivity, CallPcs, At
  <2>4. Commit(h, chat[Home(h)])
    BY <1>0, <1>2, <2>1 DEF Commit, TypeOK
  <2>5. admitted' \in SUBSET Handlers
    BY <1>0, <1>9 DEF Plan
  <2> QED BY <1>0, <1>1, <2>1, <2>2, <2>3, <2>4, <2>5, StepKept
<1>10. CASE Reply(h)
  <2>1. Mild(Home(h), Remembered(h))
    BY <1>2, RememberedMild
  <2>2. PICK pc \in {"compacting", "done"} : Go(h, pc) /\ (At(h, "compacting") => pc = "done")
    BY <1>10 DEF Reply, At
  <2>3. pc \notin MayStart /\ pc \notin ForActivity /\ pc \in CallPcs \ {"idle", "forgetting"}
    BY <2>2 DEF MayStart, ForActivity, CallPcs
  <2>4. Commit(h, Remembered(h)) /\ UNCHANGED <<tasksAlone, rest, faults>>
    BY <1>10 DEF Reply
  <2> QED BY <1>0, <1>1, <2>1, <2>2, <2>3, <2>4, StepKept DEF tasksAlone
<1>11. ASSUME handler[h].pc \in {"persisting", "acking", "unstarting"}, NEW d, Mild(Home(h), d), Commit(h, d),
              \/ Launch(h) /\ ~At(h, "unstarting")
              \/ Withdraw(h)
              \/ Go(h, "acking") /\ ~At(h, "unstarting") /\ UNCHANGED <<admitted, job>>
              \/ Go(h, "unstarting") /\ UNCHANGED <<admitted, job>>,
              ran' = ran, sent' = sent, UNCHANGED rest, faults' \in Nat
       PROVE  Inv'
  <2>1. /\ handler[h].act \in Activities /\ job[h].pc = "none" /\ ~At(h, "compacting")
        /\ ~At(h, "unstarting") => handler[h].pc \in MayStart
    BY <1>2, <1>11 DEF At, ForActivity, MayStart
  <2>2. /\ {"compacting", "done", "acking", "unstarting"} \subseteq CallPcs \ {"idle", "forgetting"}
        /\ "compacting" \notin MayStart /\ "done" \notin MayStart /\ "unstarting" \notin MayStart
    BY DEF CallPcs, MayStart
  <2>3. CASE Launch(h) /\ ~At(h, "unstarting")
    <3>1. job' \in [Handlers -> JobType] /\ job'[h].pc = "queued" /\ \A j \in Handlers \ {h} : job'[j] = job[j]
      BY <1>0, <2>3 DEF Launch, NoJob, JobType
    <3>2. Go(h, "compacting") /\ admitted' = admitted
      BY <2>3 DEF Launch
    <3> QED BY <1>0, <1>1, <1>11, <2>1, <2>2, <2>3, <3>1, <3>2, StepKept
  <2>4. CASE Withdraw(h)
    <3>1. Go(h, "done") /\ job' = job /\ admitted' = admitted \ {h}
      BY <2>4 DEF Withdraw
    <3> QED BY <1>0, <1>1, <1>11, <2>1, <2>2, <3>1, StepKept
  <2>5. CASE Go(h, "acking") /\ ~At(h, "unstarting") /\ UNCHANGED <<admitted, job>>
    BY <1>0, <1>1, <1>11, <2>1, <2>2, <2>5, StepKept
  <2>6. CASE Go(h, "unstarting") /\ UNCHANGED <<admitted, job>>
    BY <1>0, <1>1, <1>11, <2>1, <2>2, <2>6, StepKept
  <2> QED BY <1>11, <2>3, <2>4, <2>5, <2>6
<1>12. At(h, "persisting") => \A d \in Persisted(h) : Mild(Home(h), d)
  BY <1>2, PersistedMild DEF At
<1>13. Mild(Home(h), Remembered(h)) /\ Mild(Home(h), chat[Home(h)]) /\ Mild(Home(h), Interrupted(Home(h), {h}))
  BY <1>2, RememberedMild, SameMild, InterruptedMild
<1>14. CASE Persist(h)
  <2>1. At(h, "persisting") /\ UNCHANGED <<ran, sent, rest, faults>>
    BY <1>14 DEF Persist
  <2>2. PICK d \in Persisted(h) : Commit(h, d)
    BY <1>14 DEF Persist
  <2>3. Launch(h) \/ (Go(h, "acking") /\ UNCHANGED <<admitted, job>>) \/ Withdraw(h)
    BY <1>14 DEF Persist
  <2> QED BY <1>0, <1>11, <1>12, <2>1, <2>2, <2>3 DEF At
<1>15. CASE Ack(h)
  <2>1. At(h, "acking") /\ UNCHANGED <<ran, sent, rest, faults>> /\ Commit(h, Remembered(h)) /\ (Launch(h) \/ Withdraw(h))
    BY <1>15 DEF Ack
  <2> QED BY <1>0, <1>11, <1>13, <2>1 DEF At
<1>16. CASE StartFails(h)
  <2>1. /\ handler[h].pc \in {"persisting", "acking"} /\ Go(h, "unstarting") /\ faults' = faults + 1
        /\ UNCHANGED <<tasksAlone, rest>>
    BY <1>16 DEF StartFails, At
  <2>2. PICK d : Mild(Home(h), d) /\ Commit(h, d)
    BY <1>12, <1>13, <1>16 DEF StartFails
  <2> QED BY <1>0, <1>11, <2>1, <2>2 DEF tasksAlone
<1>17. CASE Unstart(h) \/ UnstartFails(h)
  <2>1. At(h, "unstarting") /\ Withdraw(h) /\ UNCHANGED <<ran, sent, rest, faults>>
    BY <1>17 DEF Unstart, UnstartFails
  <2>2. PICK d : Mild(Home(h), d) /\ Commit(h, d)
    BY <1>13, <1>17 DEF Unstart, UnstartFails
  <2> QED BY <1>0, <1>11, <2>1, <2>2 DEF At
<1>18. CASE CallFails(h)
  <2>1. /\ Go(h, "done") /\ faults' = faults + 1 /\ UNCHANGED <<tasksAlone, rest>>
        /\ handler[h].pc \in {"recovering", "rejoining", "activating", "claiming", "forgetting",
                              "noting", "replying", "compacting"}
    BY <1>18 DEF CallFails
  <2>2. "done" \in CallPcs \ {"idle", "forgetting"} /\ "done" \notin MayStart /\ "done" \notin ForActivity
    BY DEF CallPcs, MayStart, ForActivity
  <2>3. PICK d : d \in {Edits(h), chat[Home(h)]} /\ Commit(h, d)
    BY <1>18 DEF CallFails
  <2>4. CASE At(h, "forgetting") /\ d = Forgotten(h)
    BY <1>0, <1>7, <2>1, <2>3, <2>4
  <2>5. CASE ~(At(h, "forgetting") /\ d = Forgotten(h))
    <3>1. Edits(h) \in {Recovered(h), Rejoined(h), Activated(h), Remembered(h)} \/ At(h, "forgetting") \/ At(h, "claiming")
      BY DEF Edits
    <3>2. At(h, "claiming") => Edits(h) = Received(h) /\ handler[h].act \in Activities
      BY <1>2 DEF Edits, At, ForActivity
    <3>3. At(h, "forgetting") => Edits(h) = Forgotten(h)
      BY DEF Edits, At
    <3>4. Mild(Home(h), d)
      BY <1>2, <1>13, <2>3, <2>5, <3>1, <3>2, <3>3, RecoveredMild, RejoinedMild, ActivatedMild, ReceivedMild
    <3> QED BY <1>0, <1>1, <2>1, <2>2, <2>3, <3>4, StepKept DEF tasksAlone
  <2> QED BY <2>4, <2>5
<1>19. Forget(h) => Inv'
  BY <1>0, <1>7 DEF Forget
<1> QED BY <1>3, <1>4, <1>5, <1>6, <1>8, <1>9, <1>10, <1>14, <1>15, <1>16, <1>17, <1>18, <1>19 DEF Handle

\* Where a job has the lock.
Holding == {"reading", "finishing", "sending", "delivering", "compacting"}

LEMMA JobFacts ==
    ASSUME Inv, NEW h \in Handlers, job[h].pc # "none"
    PROVE  /\ Home(h) \in Chats
           /\ JobHolds(h) => handler[h].era = chat[Home(h)].era /\ slot[Home(h)].locked
BY DEF Inv, Places, Eras, Locks

\* A job that goes on, at once or by an edit that is mild, moves as a job may.
LEMMA JobGoKept ==
    ASSUME Inv, NEW h \in Handlers, job[h].pc \notin {"none", "done"}, NEW pc \in JobPcs \ {"none", "queued"},
           NEW held \in BOOLEAN, held <=> pc \in Holding, JobGo(h, pc, held),
           \/ chat' = chat
           \/ \E d : Mild(Home(h), d) /\ Commit(h, d),
           \/ ran' = ran
           \/ /\ JobAt(h, "reading") /\ pc = "running" /\ handler[h].act \in Activities
              /\ ran' = [ran EXCEPT ![handler[h].act] = @ + 1],
           sent' = sent,
           JobAt(h, "ended") => pc = "done",
           job[h].pc \in Past => pc \in Past,
           pc = "reading" => JobAt(h, "queued"),
           pc = "sending" => chat'[Home(h)].tasks[h].status \in HasEnded /\ ~chat'[Home(h)].gone,
           held => JobHolds(h) \/ (~slot[Home(h)].locked /\ Live(h)),
           admitted' \in SUBSET Handlers, faults' \in Nat, UNCHANGED <<process, handler, removal, closing>>
    PROVE  Inv'
<1>0. TypeOK /\ Home(h) \in Chats /\ (JobHolds(h) => slot[Home(h)].locked)
  BY JobFacts DEF Inv
<1>1. job \in [Handlers -> JobType] /\ slot \in [Chats -> SlotType] /\ job[h] \in JobType
  BY <1>0 DEF TypeOK
<1>2. job' \in [Handlers -> JobType] /\ job'[h].pc = pc /\ \A j \in Handlers \ {h} : job'[j] = job[j]
  <2> DEFINE r == IF pc = "ended" THEN EndedJob ELSE [job[h] EXCEPT !.pc = pc]
  <2>1. r \in JobType /\ r.pc = pc
    BY <1>1 DEF JobType, EndedJob, NoJob, JobPcs
  <2>2. job' = [job EXCEPT ![h] = r]
    BY DEF JobGo
  <2> HIDE DEF r
  <2> QED BY <1>1, <2>1, <2>2
<1>3. /\ slot' \in [Chats -> SlotType]
      /\ \A c \in Chats : slot'[c].gen = slot[c].gen /\ (c # Home(h) => slot'[c].locked = slot[c].locked)
      /\ slot'[Home(h)].locked = IF held = JobHolds(h) THEN slot[Home(h)].locked ELSE held
  BY <1>0, <1>1 DEF JobGo, SlotType
<1>4. JobHolds(h)' <=> held
  BY <1>2 DEF JobHolds, Holding
<1>5. DocumentStep /\ chat' \in [Chats -> DocumentType]
  BY <1>0, SameEdits, MildEdits DEF Commit
<1>6. ran' \in [Activities -> Nat]
  BY <1>0 DEF TypeOK
<1>7. TypeOK'
  BY <1>0, <1>2, <1>3, <1>5, <1>6 DEF TypeOK
<1>8. JobHolds(h)' => slot'[Home(h)].locked /\ (JobHolds(h) \/ (~slot[Home(h)].locked /\ Live(h)))
  BY <1>0, <1>3, <1>4
<1>9. ~JobHolds(h)' /\ ~JobHolds(h) => slot'[Home(h)].locked = slot[Home(h)].locked
  <2>1. JobHolds(h) \in BOOLEAN
    BY DEF JobHolds
  <2> QED BY <1>3, <1>4, <2>1
<1>10. JobMoves(h)
  BY <1>2, <1>3, <1>8, <1>9 DEF JobMoves
<1> QED BY <1>5, <1>7, <1>10, JobKept

LEMMA JobsKept ==
    ASSUME Inv, NEW h \in Handlers, Run(h)
    PROVE  Inv'
<1>0. /\ TypeOK /\ job[h] \in JobType /\ admitted \in SUBSET Handlers /\ admitted \ {h} \in SUBSET Handlers
      /\ faults \in Nat /\ faults + 1 \in Nat
  BY DEF Inv, TypeOK
<1>1. job[h].pc \notin {"none", "done"}
  BY DEF Run, Begin, Read, Return, Collect, Finish, Send, SendFails, Deliver, Compact, Raise, JobFails, InterruptJob,
         InterruptFails, JobDone, JobAt
<1>2. /\ Home(h) \in Chats
      /\ JobHolds(h) => handler[h].era = chat[Home(h)].era /\ slot[Home(h)].locked
  BY <1>1, JobFacts
<1>3. {"reading", "running", "finishing", "sending", "delivering", "compacting", "interrupting", "ended", "done"}
          \subseteq JobPcs \ {"none", "queued"}
  BY DEF JobPcs
<1>4. \A d : d = chat[Home(h)] \/ d = Saved(h) \/ d = Interrupted(Home(h), {h}) => Mild(Home(h), d)
  BY <1>2, SameMild, SavedMild, InterruptedMild
<1>5. JobHolds(h) => Mild(Home(h), Remembered(h)) /\ Mild(Home(h), Delivered(h, job[h].ok))
  BY <1>0, <1>2, RememberedMild, DeliveredMild DEF JobType
<1>6. CASE Begin(h)
  <2>1. JobAt(h, "queued") /\ UNCHANGED <<chat, service, ran, sent, faults>>
    BY <1>6 DEF Begin
  <2>2. CASE Live(h) /\ ~slot[Home(h)].locked /\ JobGo(h, "reading", TRUE)
    BY <1>0, <1>1, <1>3, <2>1, <2>2, JobGoKept DEF Holding, Past, JobAt, service
  <2>3. CASE JobGo(h, "ended", FALSE)
    BY <1>0, <1>1, <1>3, <2>1, <2>3, JobGoKept DEF Holding, Past, JobAt, service
  <2> QED BY <1>6, <2>2, <2>3 DEF Begin
<1>7. CASE Read(h)
  <2>1. JobAt(h, "reading") /\ UNCHANGED <<chat, service, sent, faults>>
    BY <1>7 DEF Read
  <2>2. CASE JobGo(h, "running", FALSE) /\ ran' = [ran EXCEPT ![handler[h].act] = @ + 1]
    <3>1. handler[h].act \in Activities
      BY <2>1 DEF Inv, Places, Running, Ended, JobAt
    <3> QED BY <1>0, <1>1, <1>3, <2>1, <2>2, <3>1, JobGoKept DEF Holding, Past, JobAt, service
  <2>3. CASE JobGo(h, "ended", FALSE) /\ UNCHANGED ran
    BY <1>0, <1>1, <1>3, <2>1, <2>3, JobGoKept DEF Holding, Past, JobAt, service
  <2> QED BY <1>7, <2>2, <2>3 DEF Read
<1>8. CASE Collect(h)
  <2>1. JobAt(h, "returned") /\ UNCHANGED <<chat, service, ran, sent, faults>>
    BY <1>8 DEF Collect
  <2>2. CASE Live(h) /\ ~slot[Home(h)].locked /\ JobGo(h, "finishing", TRUE)
    BY <1>0, <1>1, <1>3, <2>1, <2>2, JobGoKept DEF Holding, Past, JobAt, service
  <2>3. CASE JobGo(h, "ended", FALSE)
    BY <1>0, <1>1, <1>3, <2>1, <2>3, JobGoKept DEF Holding, Past, JobAt, service
  <2> QED BY <1>8, <2>2, <2>3 DEF Collect
<1>9. CASE Finish(h)
  <2>1. JobAt(h, "finishing") /\ JobHolds(h) /\ Commit(h, Saved(h)) /\ UNCHANGED <<service, ran, sent, faults>>
    BY <1>9 DEF Finish, JobAt, JobHolds
  <2>2. PICK d : d = Saved(h) /\ Mild(Home(h), d) /\ Commit(h, d)
    BY <1>4, <2>1
  <2>3. CASE JobGo(h, "interrupting", FALSE) \/ JobGo(h, "ended", FALSE)
    BY <1>0, <1>1, <1>3, <2>1, <2>2, <2>3, JobGoKept DEF Holding, Past, JobAt, service
  <2>4. CASE Valid(h) /\ JobGo(h, "sending", TRUE)
    <3>1. chat'[Home(h)] = Saved(h)
      BY <1>0, <1>2, <2>1 DEF Commit, TypeOK
    <3>2. chat'[Home(h)].tasks[h].status \in HasEnded /\ ~chat'[Home(h)].gone
      BY <1>2, <2>4, <3>1, SavedMild DEF HasEnded
    <3> QED BY <1>0, <1>1, <1>3, <2>1, <2>2, <2>4, <3>2, JobGoKept DEF Holding, Past, JobAt, service
  <2> QED BY <1>9, <2>3, <2>4 DEF Finish, After
<1>10. CASE Deliver(h)
  <2>1. JobAt(h, "delivering") /\ JobHolds(h) /\ UNCHANGED <<service, ran, sent, faults>>
    BY <1>10 DEF Deliver, JobAt, JobHolds
  <2>2. PICK d : Mild(Home(h), d) /\ Commit(h, d)
    BY <1>5, <1>10, <2>1 DEF Deliver
  <2>3. JobGo(h, "interrupting", FALSE) \/ JobGo(h, "compacting", TRUE)
    BY <1>10 DEF Deliver, After
  <2> QED BY <1>0, <1>1, <1>3, <2>1, <2>2, <2>3, JobGoKept DEF Holding, Past, JobAt, service
<1>11. CASE Compact(h)
  <2>1. JobAt(h, "compacting") /\ JobHolds(h) /\ UNCHANGED <<service, ran, sent, faults>>
    BY <1>11 DEF Compact, JobAt, JobHolds
  <2>2. PICK d : Mild(Home(h), d) /\ Commit(h, d)
    BY <1>5, <1>11, <2>1 DEF Compact
  <2>3. JobGo(h, "interrupting", FALSE) \/ JobGo(h, "ended", FALSE)
    BY <1>11 DEF Compact, After
  <2> QED BY <1>0, <1>1, <1>3, <2>1, <2>2, <2>3, JobGoKept DEF Holding, Past, JobAt, service
<1>12. CASE Raise(h)
  <2>1. /\ job[h].pc \in {"queued", "reading", "running", "returned", "sending"} /\ JobGo(h, "interrupting", FALSE)
        /\ UNCHANGED <<chat, service, ran, sent, faults>>
    BY <1>12 DEF Raise
  <2> QED BY <1>0, <1>1, <1>3, <2>1, JobGoKept DEF Holding, Past, JobAt, service
<1>13. CASE JobFails(h)
  <2>1. /\ job[h].pc \in {"reading", "finishing", "delivering", "compacting"} /\ JobHolds(h)
        /\ JobGo(h, "interrupting", FALSE) /\ faults' = faults + 1 /\ UNCHANGED <<service, ran, sent>>
    BY <1>13 DEF JobFails, JobHolds
  <2>2. JobEdits(h) \in {Saved(h), Delivered(h, job[h].ok), Remembered(h), chat[Home(h)]}
    BY DEF JobEdits
  <2>3. PICK d : Mild(Home(h), d) /\ Commit(h, d)
    BY <1>4, <1>5, <1>13, <2>1, <2>2 DEF JobFails
  <2> QED BY <1>0, <1>1, <1>3, <2>1, <2>3, JobGoKept DEF Holding, Past, JobAt, service
<1>14. ASSUME NEW r \in JobType, job' = [job EXCEPT ![h] = r], slot' = slot, ran' = ran, admitted' \in SUBSET Handlers,
              faults' \in Nat, UNCHANGED <<process, handler, removal, closing>>,
              chat' = chat \/ \E d : Mild(Home(h), d) /\ Commit(h, d),
              \/ sent' = sent /\ r.pc # "delivering"
              \/ JobAt(h, "sending") /\ r.pc = "delivering" /\ sent' \in {sent, [sent EXCEPT ![h] = @ + 1]},
              r.pc \in {"delivering", "returned", "interrupting", "ended", "done"},
              r.pc = "returned" => JobAt(h, "running"),
              r.pc # "delivering" => ~JobHolds(h),
              JobAt(h, "ended") => r.pc = "done"
       PROVE  Inv'
  <2>1. job' \in [Handlers -> JobType] /\ job'[h] = r /\ \A j \in Handlers \ {h} : job'[j] = job[j]
    BY <1>0, <1>14 DEF TypeOK
  <2>2. DocumentStep /\ chat' \in [Chats -> DocumentType]
    BY <1>2, <1>14, SameEdits, MildEdits DEF Commit
  <2>3. sent' \in [Handlers -> Nat]
    BY <1>0, <1>14 DEF TypeOK
  <2>4. TypeOK'
    BY <1>0, <1>14, <2>1, <2>2, <2>3 DEF TypeOK
  <2>5. JobHolds(h)' <=> r.pc = "delivering"
    BY <1>14, <2>1 DEF JobHolds
  <2>6. r.pc = "delivering" => JobHolds(h) /\ slot[Home(h)].locked
    BY <1>2, <1>14 DEF JobHolds, JobAt
  <2>7. job[h].pc \in Past => r.pc \in Past
    BY <1>14 DEF Past, JobAt
  <2>8. JobMoves(h)
    BY <1>1, <1>14, <2>1, <2>5, <2>6, <2>7 DEF JobMoves
  <2> QED BY <2>2, <2>4, <2>8, JobKept
<1>15. CASE Return(h)
  <2>1. JobAt(h, "running") /\ ~JobHolds(h) /\ ~JobAt(h, "ended") /\ UNCHANGED <<chat, slot, service, ran, sent, faults>>
    BY <1>15 DEF Return, JobAt, JobHolds
  <2>2. PICK r \in JobType : job' = [job EXCEPT ![h] = r] /\ r.pc \in {"returned", "interrupting"}
    <3>1. CASE job' = [job EXCEPT ![h].pc = "interrupting"]
      <4>1. [job[h] EXCEPT !.pc = "interrupting"] \in JobType /\ [job[h] EXCEPT !.pc = "interrupting"].pc = "interrupting"
        BY <1>0 DEF JobType
      <4>2. job' = [job EXCEPT ![h] = [job[h] EXCEPT !.pc = "interrupting"]]
        BY <3>1
      <4> QED BY <4>1, <4>2
    <3>2. CASE \E ok \in BOOLEAN : job' = [job EXCEPT ![h] = [pc |-> "returned", ok |-> ok, cancelling |-> FALSE]]
      <4>1. PICK ok \in BOOLEAN : job' = [job EXCEPT ![h] = [pc |-> "returned", ok |-> ok, cancelling |-> FALSE]]
        BY <3>2
      <4> DEFINE r == [pc |-> "returned", ok |-> ok, cancelling |-> FALSE]
      <4>2. r \in JobType /\ r.pc = "returned" /\ job' = [job EXCEPT ![h] = r]
        BY <4>1 DEF JobType
      <4> HIDE DEF r
      <4> QED BY <4>2
    <3> QED BY <1>15, <3>1, <3>2 DEF Return
  <2> QED BY <1>0, <1>14, <2>1, <2>2 DEF service
<1>16. CASE Send(h) \/ SendFails(h)
  <2>1. /\ JobAt(h, "sending") /\ UNCHANGED <<chat, slot, service, ran, faults>>
        /\ sent' \in {sent, [sent EXCEPT ![h] = @ + 1]}
    BY <1>16 DEF Send, SendFails
  <2>2. PICK ok \in BOOLEAN : job' = [job EXCEPT ![h].pc = "delivering", ![h].ok = ok]
    BY <1>16 DEF Send, SendFails
  <2> DEFINE r == [job[h] EXCEPT !.pc = "delivering", !.ok = ok]
  <2>3. r \in JobType /\ r.pc = "delivering"
    BY <1>0 DEF JobType
  <2>4. job' = [job EXCEPT ![h] = r]
    BY <1>0, <2>2 DEF TypeOK
  <2>5. ~JobAt(h, "ended")
    BY <2>1 DEF JobAt
  <2> HIDE DEF r
  <2> QED BY <1>0, <1>14, <2>1, <2>3, <2>4, <2>5 DEF service
<1>17. CASE InterruptJob(h) \/ InterruptFails(h)
  <2>1. /\ JobAt(h, "interrupting") /\ job' = [job EXCEPT ![h] = EndedJob] /\ UNCHANGED <<slot, service, ran, sent>>
        /\ faults' \in Nat
    BY <1>0, <1>17 DEF InterruptJob, InterruptFails
  <2>2. chat' = chat \/ \E d : Mild(Home(h), d) /\ Commit(h, d)
    BY <1>4, <1>17 DEF InterruptJob, InterruptFails
  <2>3. EndedJob \in JobType /\ EndedJob.pc = "ended" /\ ~JobHolds(h) /\ ~JobAt(h, "ended")
    BY <2>1 DEF EndedJob, NoJob, JobType, JobAt, JobHolds
  <2> QED BY <1>0, <1>14, <2>1, <2>2, <2>3 DEF service
<1>18. CASE JobDone(h)
  <2>1. /\ JobAt(h, "ended") /\ admitted' = admitted \ {h} /\ job' = [job EXCEPT ![h].pc = "done"]
        /\ UNCHANGED <<chat, slot, handler, rest, ran, sent, faults>>
    BY <1>18 DEF JobDone
  <2> DEFINE r == [job[h] EXCEPT !.pc = "done"]
  <2>2. r \in JobType /\ r.pc = "done" /\ job' = [job EXCEPT ![h] = r] /\ ~JobHolds(h)
    BY <1>0, <2>1 DEF JobType, JobAt, JobHolds
  <2> HIDE DEF r
  <2> QED BY <1>0, <1>14, <2>1, <2>2 DEF rest
<1> QED BY <1>6, <1>7, <1>8, <1>9, <1>10, <1>11, <1>12, <1>13, <1>15, <1>16, <1>17, <1>18 DEF Run

LEMMA EntersKept ==
    ASSUME Inv, NEW h \in Handlers, Enter(h) \/ Welcome(h)
    PROVE  Inv'
<1>0. /\ TypeOK /\ slot \in [Chats -> SlotType] /\ handler \in [Handlers -> CallType] /\ chat \in [Chats -> DocumentType]
      /\ admitted \in SUBSET Handlers
  BY DEF Inv, TypeOK
<1>1. /\ At(h, "idle") /\ UNCHANGED <<chat, tasksAlone, rest, faults>>
  BY DEF Enter, Welcome
<1>2. PICK c \in Chats, a \in Activities \cup {None}, s \in SlotType :
          /\ ~slot[c].locked /\ slot' = [slot EXCEPT ![c] = s] /\ s.locked /\ s.gen = slot[c].gen
          /\ handler' = [handler EXCEPT ![h] = Entered(c, a)]
          /\ a \in Activities => ChatOf[a] = c
  <2>1. CASE Enter(h)
    <3>1. PICK a \in Activities : /\ ~slot[ChatOf[a]].locked
                                  /\ slot' = [slot EXCEPT ![ChatOf[a]].locked = TRUE]
                                  /\ handler' = [handler EXCEPT ![h] = Entered(ChatOf[a], a)]
      BY <2>1 DEF Enter
    <3> DEFINE s == [slot[ChatOf[a]] EXCEPT !.locked = TRUE]
    <3>2. ChatOf[a] \in Chats
      BY ConversationAssumption
    <3>3. s \in SlotType /\ s.locked /\ s.gen = slot[ChatOf[a]].gen /\ slot' = [slot EXCEPT ![ChatOf[a]] = s]
      BY <1>0, <3>1, <3>2 DEF SlotType
    <3> HIDE DEF s
    <3> QED BY <3>1, <3>2, <3>3
  <2>2. CASE Welcome(h)
    <3>1. PICK c \in Chats : /\ ~slot[c].locked
                             /\ slot' = [slot EXCEPT ![c].locked = TRUE, ![c].removed = FALSE]
                             /\ handler' = [handler EXCEPT ![h] = Entered(c, None)]
      BY <2>2 DEF Welcome
    <3> DEFINE s == [slot[c] EXCEPT !.locked = TRUE, !.removed = FALSE]
    <3>2. s \in SlotType /\ s.locked /\ s.gen = slot[c].gen
      BY <1>0 DEF SlotType
    <3>3. slot' = [slot EXCEPT ![c] = s]
      BY <1>0, <3>1 DEF SlotType
    <3> HIDE DEF s
    <3> QED BY <3>1, <3>2, <3>3, ConversationAssumption
  <2> QED BY <2>1, <2>2
<1>3. slot' \in [Chats -> SlotType] /\ slot'[c] = s /\ \A b \in Chats \ {c} : slot'[b] = slot[b]
  BY <1>0, <1>2
<1>4. /\ Entered(c, a) \in CallType /\ Entered(c, a).pc = "recovering" /\ Entered(c, a).chat = c /\ Entered(c, a).act = a
      /\ Entered(c, a).gen = slot[c].gen /\ Entered(c, a).era = chat[c].era
  <2>1. slot[c].gen \in Nat /\ chat[c].era \in Nat
    BY <1>0 DEF SlotType, DocumentType
  <2> QED BY <1>0, <2>1 DEF Entered, CallType
<1>5. handler' \in [Handlers -> CallType] /\ handler'[h] = Entered(c, a) /\ \A j \in Handlers \ {h} : handler'[j] = handler[j]
  BY <1>0, <1>2, <1>4
<1>6. Enters(h)
  BY <1>1, <1>2, <1>3, <1>4, <1>5 DEF Enters, tasksAlone
<1>7. TypeOK'
  BY <1>0, <1>1, <1>3, <1>5 DEF TypeOK, tasksAlone, rest
<1> QED BY <1>6, <1>7, EnterKept

\* The cancellation of jobs leaves them where they are.
LEMMA CancelFacts ==
    ASSUME TypeOK, NEW jobs, Cancel(jobs)
    PROVE  job' \in [Handlers -> JobType] /\ \A j \in Handlers : job'[j].pc = job[j].pc
BY DEF TypeOK, Cancel, JobType

LEMMA OutsidesKept ==
    ASSUME Inv, (\E x \in Removals : Remove(x) \/ Removing(x)) \/ Close \/ Closes
    PROVE  Inv'
<1>0. /\ TypeOK /\ chat \in [Chats -> DocumentType] /\ slot \in [Chats -> SlotType] /\ removal \in [Removals -> RemovalType]
      /\ closing \in ClosingType /\ faults \in Nat /\ faults + 1 \in Nat
      /\ \A c \in Chats : slot[c].gen >= slot[c].gen
  BY DEF Inv, TypeOK, SlotType
<1>1. ASSUME NEW x \in Removals, Remove(x) PROVE Inv'
  <2>1. PICK c \in Chats :
          /\ slot' = [slot EXCEPT ![c].gen = @ + 1, ![c].removed = TRUE]
          /\ removal' = [removal EXCEPT ![x] = [pc |-> "locking", chat |-> c, waits |-> JobsOf(c)]]
          /\ Cancel(JobsOf(c))
    BY <1>1 DEF Remove
  <2>2. UNCHANGED <<chat, process, admitted, handler, closing, ran, sent, faults>>
    BY <1>1 DEF Remove
  <2>3. /\ slot' \in [Chats -> SlotType]
        /\ \A b \in Chats : slot'[b].locked = slot[b].locked /\ slot'[b].gen >= slot[b].gen
    <3> DEFINE t == [slot[c] EXCEPT !.gen = @ + 1]
               s == [t EXCEPT !.removed = TRUE]
    <3>1. slot[c] \in SlotType /\ slot[c].gen \in Nat
      BY <1>0 DEF SlotType
    <3>2. t \in SlotType /\ t.locked = slot[c].locked /\ t.gen = slot[c].gen + 1
      BY <3>1 DEF SlotType
    <3>3. slot' = [slot EXCEPT ![c] = s]
      BY <1>0, <2>1
    <3> HIDE DEF t
    <3>4. s \in SlotType /\ s.locked = t.locked /\ s.gen = t.gen
      BY <3>2 DEF SlotType
    <3> HIDE DEF s
    <3>5. s.gen >= slot[c].gen
      BY <3>1, <3>2, <3>4
    <3> QED BY <1>0, <3>2, <3>3, <3>4, <3>5
  <2>4. [pc |-> "locking", chat |-> c, waits |-> JobsOf(c)] \in RemovalType
    BY <1>0 DEF RemovalType, JobsOf, TypeOK
  <2>5. removal' \in [Removals -> RemovalType]
    BY <1>0, <2>1, <2>4
  <2>6. job' \in [Handlers -> JobType] /\ \A j \in Handlers : job'[j].pc = job[j].pc
    BY <1>0, <2>1, CancelFacts
  <2>7. TypeOK' /\ Outside
    BY <1>0, <2>2, <2>3, <2>5, <2>6 DEF TypeOK, Outside
  <2> QED BY <2>2, <2>7, SameEdits, OutsideKept
<1>2. ASSUME NEW x \in Removals, Leave(x) \/ LeaveFails(x) PROVE Inv'
  <2> DEFINE c == removal[x].chat
  <2>1. /\ ~slot[c].locked /\ removal[x] \in RemovalType
        /\ removal' = [removal EXCEPT ![x].pc = "draining"] /\ faults' \in Nat
        /\ UNCHANGED <<slot, process, admitted, handler, job, closing, ran, sent>>
    BY <1>0, <1>2 DEF Leave, LeaveFails
  <2>2. removal' \in [Removals -> RemovalType]
    BY <1>0, <2>1 DEF RemovalType
  <2>3. PICK d \in {Left(c), chat[c]} : chat' = [chat EXCEPT ![c] = d]
    BY <1>2 DEF Leave, LeaveFails
  <2>4. \A b \in Chats : Clean(chat[b]) /\ (chat[b].gone => ~chat[b].active)
    BY DEF Inv, ForgottenStays, GoneInactive, Clean
  <2>5. c \in Chats => /\ d \in DocumentType /\ Clean(d) /\ d.seen = chat[c].seen /\ d.era = chat[c].era
                       /\ d.gone => ~d.active
                       /\ \A j \in Handlers : chat[c].tasks[j].status \in HasEnded => d.tasks[j].status \in HasEnded
    BY <1>0, <2>3, <2>4, LeftFacts
  <2>6. chat' \in [Chats -> DocumentType] /\ \A b \in Chats : chat'[b] = IF b = c THEN d ELSE chat[b]
    BY <1>0, <2>3, <2>5
  <2>7. DocumentStep
    BY <2>1, <2>4, <2>5, <2>6 DEF DocumentStep
  <2>8. TypeOK' /\ Outside
    BY <1>0, <2>1, <2>2, <2>6 DEF TypeOK, Outside
  <2> QED BY <2>7, <2>8, OutsideKept
<1>3. ASSUME NEW x \in Removals, Drained(x) PROVE Inv'
  <2>1. /\ removal' = [removal EXCEPT ![x].pc = "done", ![x].waits = {}]
        /\ UNCHANGED <<chat, slot, process, admitted, handler, job, closing, ran, sent, faults>>
    BY <1>3 DEF Drained
  <2>2. removal' \in [Removals -> RemovalType]
    BY <1>0, <2>1 DEF RemovalType
  <2>3. TypeOK' /\ Outside
    BY <1>0, <2>1, <2>2 DEF TypeOK, Outside
  <2> QED BY <2>1, <2>3, SameEdits, OutsideKept
<1>4. CASE Close
  <2>1. slot' = [c \in Chats |-> [slot[c] EXCEPT !.gen = @ + 1]] /\ Cancel({h \in admitted : Running(h)})
        /\ UNCHANGED <<chat, process, admitted, handler, removal, ran, sent, faults>>
    BY <1>4 DEF Close
  <2>2. closing' \in ClosingType
    BY <1>0, <1>4 DEF Close, ClosingType, TypeOK
  <2>3. /\ slot' \in [Chats -> SlotType]
        /\ \A b \in Chats : slot'[b].locked = slot[b].locked /\ slot'[b].gen >= slot[b].gen
    BY <1>0, <2>1 DEF SlotType
  <2>4. job' \in [Handlers -> JobType] /\ \A j \in Handlers : job'[j].pc = job[j].pc
    BY <1>0, <2>1, CancelFacts
  <2>5. TypeOK' /\ Outside
    BY <1>0, <2>1, <2>2, <2>3, <2>4 DEF TypeOK, Outside
  <2> QED BY <2>1, <2>5, SameEdits, OutsideKept
<1>5. ASSUME NEW c \in Chats, CloseChat(c) PROVE Inv'
  <2>1. /\ chat' = [chat EXCEPT ![c] = Interrupted(c, Ours(c))] /\ closing' = [closing EXCEPT !.left = @ \ {c}]
        /\ UNCHANGED <<slot, process, admitted, handler, job, removal, ran, sent, faults>>
    BY <1>5 DEF CloseChat
  <2>2. DocumentStep /\ chat' \in [Chats -> DocumentType]
    BY <2>1, InterruptedMild, MildEdits
  <2>3. closing' \in ClosingType
    BY <1>0, <2>1 DEF ClosingType
  <2>4. TypeOK' /\ Outside
    BY <1>0, <2>1, <2>2, <2>3 DEF TypeOK, Outside
  <2> QED BY <2>2, <2>4, OutsideKept
<1>6. ASSUME NEW c \in Chats, CloseFails(c) PROVE Inv'
  <2>1. /\ closing' = [closing EXCEPT !.left = @ \ {c}, !.failed = TRUE] /\ faults' = faults + 1
        /\ UNCHANGED <<chat, slot, process, admitted, handler, job, removal, ran, sent>>
    BY <1>6 DEF CloseFails
  <2>2. closing' \in ClosingType
    BY <1>0, <2>1 DEF ClosingType
  <2>3. TypeOK' /\ Outside
    BY <1>0, <2>1, <2>2 DEF TypeOK, Outside
  <2> QED BY <2>1, <2>3, SameEdits, OutsideKept
<1>7. CASE CloseEnds
  <2>1. /\ closing' = [Open EXCEPT !.pc = IF closing.failed THEN "failed" ELSE "complete"]
        /\ UNCHANGED <<chat, slot, process, admitted, handler, job, removal, ran, sent, faults>>
    BY <1>7 DEF CloseEnds
  <2>2. closing' \in ClosingType
    BY <2>1 DEF ClosingType, Open
  <2>3. TypeOK' /\ Outside
    BY <1>0, <2>1, <2>2 DEF TypeOK, Outside
  <2> QED BY <2>1, <2>3, SameEdits, OutsideKept
<1> QED BY <1>1, <1>2, <1>3, <1>4, <1>5, <1>6, <1>7 DEF Removing, Closes

LEMMA CrashesKept == ASSUME Inv, Crash PROVE Inv'
<1>0. TypeOK /\ Places
  BY DEF Inv
<1>1. UNCHANGED <<chat, ran, sent>> /\ process' = process + 1 /\ faults' = faults + 1 /\ admitted' = {} /\ closing' = Open
      /\ slot' = [c \in Chats |-> NewSlot]
  BY DEF Crash
<1>2. /\ process' \in Nat /\ faults' \in Nat /\ chat' \in [Chats -> DocumentType]
      /\ ran' \in [Activities -> Nat] /\ sent' \in [Handlers -> Nat]
  BY <1>0, <1>1 DEF TypeOK
<1>7. NewSlot \in SlotType /\ Open \in ClosingType
  BY DEF NewSlot, SlotType, Open, ClosingType
<1>3. handler' \in [Handlers -> CallType]
  <2>1. \A h \in Handlers : At(h, "idle") \/ Home(h) \in Chats
    BY <1>0 DEF Places, At
  <2>2. NoCall \in CallType /\ \A c \in Chats : [NoCall EXCEPT !.pc = "done", !.chat = c] \in CallType
    BY DEF NoCall, CallType
  <2> QED BY <2>1, <2>2 DEF Crash
<1>4. job' \in [Handlers -> JobType]
  BY DEF Crash, NoJob, JobType
<1>5. removal' \in [Removals -> RemovalType]
  BY <1>0 DEF Crash, NoRemoval, RemovalType, TypeOK
<1>6. TypeOK'
  BY <1>1, <1>2, <1>3, <1>4, <1>5, <1>7 DEF TypeOK
<1> QED BY <1>6, CrashKept

-----------------------------------------------------------------------------
(* The theorems.                                                           *)

LEMMA InvInit == Init => Inv
<1> SUFFICES ASSUME Init PROVE Inv
  OBVIOUS
<1>1. NoTask \in TaskType /\ NoTask.status = "none" /\ [h \in Handlers |-> NoTask] \in [Handlers -> TaskType]
  BY DEF NoTask, TaskType, Statuses, Deliveries
<1>2. NoDocument \in DocumentType /\ Clean(NoDocument) /\ ~NoDocument.gone /\ ~NoDocument.active
  BY <1>1 DEF NoDocument, DocumentType, Clean
<1>3. chat \in [Chats -> DocumentType] /\ \A c \in Chats : chat[c] = NoDocument
  BY <1>2 DEF Init
<1>4. TypeOK
  BY <1>3 DEF Init, TypeOK, NewSlot, SlotType, NoCall, CallType, NoJob, JobType, NoRemoval, RemovalType, Open, ClosingType
<1>5. \A h \in Handlers : /\ handler[h].pc = "idle" /\ handler[h].act = None /\ job[h].pc = "none" /\ sent[h] = 0
                          /\ ~Working(h) /\ ~Running(h) /\ ~JobHolds(h) /\ ~Pending(h)
  BY DEF Init, NoCall, NoJob, Working, Running, JobHolds, Pending, MayStart
<1>6. Places
  BY <1>5, ConversationAssumption DEF Places, ForActivity
<1>7. Locks /\ Eras
  BY <1>5 DEF Locks, Eras, At
<1>8. ForgottenStays /\ GoneInactive
  BY <1>2, <1>3 DEF ForgottenStays, GoneInactive, Clean
<1>9. Results /\ Once
  BY <1>5 DEF Init, Results, Once, JobAt
<1> QED BY <1>4, <1>6, <1>7, <1>8, <1>9 DEF Inv

LEMMA InvStep == Inv /\ [Next]_vars => Inv'
<1> SUFFICES ASSUME Inv, [Next]_vars PROVE Inv'
  OBVIOUS
<1>1. CASE UNCHANGED vars
  BY <1>1 DEF vars, Inv, TypeOK, Places, Locks, Eras, ForgottenStays, GoneInactive, Results, Once, Working, Running, Ended,
     JobHolds, Pending, Home, At, JobAt, Task
<1>2. CASE Next
  BY <1>2, EntersKept, HandlersKept, JobsKept, OutsidesKept, CrashesKept DEF Next
<1> QED BY <1>1, <1>2

LEMMA Invariance == Spec => []Inv
BY InvInit, InvStep, PTL DEF Spec

\* Documents, locks, calls, tasks, removals and close keep their shapes, whatever
\* is under way when they meet, and whatever fails.
THEOREM TypesHold == Spec => []TypeOK
<1>1. Inv => TypeOK
  BY DEF Inv
<1> QED BY <1>1, Invariance, PTL

\* However many messages, tasks, removals and crashes meet: what was forgotten
\* does not come back to a chat's memory or tasks.
THEOREM ForgottenHolds == Spec => []ForgottenStays
<1>1. Inv => ForgottenStays
  BY DEF Inv
<1> QED BY <1>1, Invariance, PTL

\* However often a message is delivered, its task is run at most once.
THEOREM ActivityHolds == Spec => []ActivityOnce
<1>1. Inv => ActivityOnce
  BY DEF Inv, Once, ActivityOnce
<1> QED BY <1>1, Invariance, PTL

\* A result is sent at most once, and only when its record has it.
THEOREM ResultsHold == Spec => []ResultsSaved
<1>1. Inv => ResultsSaved
  BY DEF Inv, Results, ResultsSaved, HasEnded
<1> QED BY <1>1, Invariance, PTL

\* No result is sent to a chat that was forgotten, or left, since its request.
THEOREM SuppressionHolds == Spec => LateSuppressed
<1> DEFINE Sends == \A h \in Handlers : sent'[h] # sent[h] => ~chat[Home(h)].gone /\ handler[h].era = chat[Home(h)].era
<1>1. Inv /\ [Next]_vars => [Sends]_vars
  <2> SUFFICES ASSUME Inv, Next, NEW h \in Handlers, sent'[h] # sent[h]
               PROVE  ~chat[Home(h)].gone /\ handler[h].era = chat[Home(h)].era
    OBVIOUS
  <2>1. PICK j \in Handlers : Send(j)
    BY DEF Next, Enter, Welcome, tasksAlone, Handle, Recover, Rejoin, Activate, Claim, Forget, Note, Plan, Reply, Persist,
       Ack, StartFails, Unstart, UnstartFails, CallFails, Run, Begin, Read, Return, Collect, Finish, SendFails,
       Deliver, Compact, Raise, JobFails, InterruptJob, InterruptFails, JobDone, Remove, Removing, Leave, LeaveFails,
       Drained, Close, Closes, CloseChat, CloseFails, CloseEnds, Crash
  <2>2. j = h
    BY <2>1 DEF Send, Inv, TypeOK
  <2> QED BY <2>1, <2>2 DEF Send, JobAt, Inv, Results, Eras, JobHolds
<1> QED BY <1>1, Invariance, PTL DEF Spec, LateSuppressed
-----------------------------------------------------------------------------
(* The second part: who has a place, and who settles a task.               *)

\* A task that is not settled in one of its statuses.
Unfinished(task) == task.status = "running" \/ task.delivery = "pending"

\* A call or job has a place of the process.
Admits(h) == handler[h].pc \in {"persisting", "acking", "unstarting"} \/ job[h].pc \notin {"none", "done"}
Admission ==
    /\ IsFiniteSet(admitted) /\ Cardinality(admitted) <= MaxTasks
    /\ \A h \in Handlers : h \in admitted <=> Admits(h)

\* A call's task is recorded when it is persisted, and not before.
Born(h) == handler[h].pc \in {"acking", "unstarting", "done"} \/ job[h].pc # "none"
Fresh == \A c \in Chats, h \in Handlers : chat[c].tasks[h].status # "none" => Born(h)

\* What a call has recovered, it knows; it is of the chat's generation until
\* that is forgotten or left, and till then its task does not go on.
Known == \A h \in Handlers :
    /\ handler[h].pc \notin {"idle", "done", "recovering"} =>
          \A j \in Handlers : chat[Home(h)].tasks[j].status = "running" => j \in handler[h].saw \/ j = h
    /\ At(h, "forgetting") => handler[h].gen < slot[Home(h)].gen
    /\ At(h, "unstarting") => faults > 0
    /\ Working(h) /\ handler[h].gen = slot[Home(h)].gen =>
          /\ ~slot[Home(h)].removed
          /\ job[h].pc # "none" /\ ~Closed => job[h].pc \in {"queued", "interrupting"}

\* Somebody settles the tasks of the chat before a live call looks at them.
Doomed(c) ==
    \/ Closed
    \/ \E x \in Removals : removal[x].pc = "locking" /\ removal[x].chat = c
    \/ \E h \in Handlers : At(h, "forgetting") /\ Home(h) = c

\* The job of a task that is not settled will settle it, and is able to.
Attended(c, j) ==
    /\ j \in admitted /\ Home(j) = c /\ Live(j) /\ chat[c].active
    /\ chat[c].tasks[j].owner = process /\ chat[c].tasks[j].gen = handler[j].gen
    /\ IF chat[c].tasks[j].status = "running"
       THEN job[j].pc \in {"none", "queued", "reading", "running", "returned", "finishing", "interrupting"}
       ELSE chat[c].tasks[j].status # "none" /\ job[j].pc \in {"sending", "delivering", "interrupting"}
Honest == faults = 0 =>
    \A c \in Chats, j \in Handlers : Unfinished(chat[c].tasks[j]) => Doomed(c) \/ Attended(c, j)

\* A chat that was left, and one that close is past, has nothing under way.
Settles(c) == \A j \in Handlers : ~Unfinished(chat[c].tasks[j])
GoneQuiet == \A c \in Chats : chat[c].gone => Settles(c)

\* What close has still to settle, it knows, or another is at it.
Remains(c, j) ==
    \/ j \in closing.jobs /\ Home(j) = c /\ chat[c].tasks[j].owner = process
    \/ \E x \in closing.behind : removal[x].pc = "locking" /\ removal[x].chat = c
    \/ \E h \in Handlers : At(h, "forgetting") /\ Home(h) = c
ClosingKnown == faults = 0 =>
    /\ closing.pc = "closing" =>
          /\ ~closing.failed
          /\ \A h \in Handlers : Running(h) => h \in closing.waits
          /\ \A c \in Chats \ closing.left : ~slot[c].locked /\ Settles(c)
          /\ \A c \in closing.left, j \in Handlers : Unfinished(chat[c].tasks[j]) => Remains(c, j)
    /\ closing.pc = "complete" =>
          /\ \A h \in Handlers : ~Running(h)
          /\ \A c \in Chats : ~slot[c].locked /\ Settles(c)
    /\ closing.pc # "failed"

Orderly == Admission /\ Fresh /\ Known /\ Honest /\ GoneQuiet /\ ClosingKnown

-----------------------------------------------------------------------------
(* The edits of a chat's document, again.                                  *)

\* The task is as it was, is settled, is dropped, or its result was sent.
Calmer(new, old) ==
    /\ new.status # "none" => old.status # "none"
    /\ Unfinished(new) => Unfinished(old) /\ new.status = old.status /\ new.owner = old.owner /\ new.gen = old.gen
Calm(c, d) ==
    /\ \A j \in Handlers : Calmer(d.tasks[j], chat[c].tasks[j])
    /\ chat[c].active => d.active
    /\ d.gone => chat[c].gone

LEMMA CalmTasks ==
    ASSUME NEW t \in TaskType
    PROVE  /\ Calmer(t, t) /\ Calmer(Settled(t), t) /\ Calmer(NoTask, t)
           /\ ~Unfinished(Settled(t)) /\ ~Unfinished(NoTask)
BY DEF TaskType, Settled, NoTask, Calmer, Unfinished

LEMMA SameCalm == ASSUME Inv, NEW c \in Chats PROVE Calm(c, chat[c])
BY ChatTypes, CalmTasks DEF Inv, Calm

\* Only the tasks are edited.
LEMMA FollowsCalm ==
    ASSUME Inv, NEW c \in Chats, NEW t, Follows(t, chat[c].tasks)
    PROVE  /\ Calm(c, [chat[c] EXCEPT !.tasks = t])
           /\ [chat[c] EXCEPT !.tasks = t].tasks = t
<1> DEFINE d == [chat[c] EXCEPT !.tasks = t]
<1>1. d.tasks = t /\ d.active = chat[c].active /\ d.gone = chat[c].gone
  BY ChatTypes DEF Inv, DocumentType
<1>2. \A j \in Handlers : Calmer(t[j], chat[c].tasks[j])
  BY ChatTypes, CalmTasks DEF Inv, Follows
<1> QED BY <1>1, <1>2 DEF Calm

LEMMA RecoveredCalm ==
    ASSUME Inv, NEW h \in Handlers, Home(h) \in Chats
    PROVE  /\ Calm(Home(h), Recovered(h))
           /\ \A j \in Handlers : Recovered(h).tasks[j].status = "running" => j \in handler[h].saw
<1> DEFINE old == chat[Home(h)].tasks
           t == [j \in Handlers |-> IF old[j].owner # process \/ j \notin handler[h].saw THEN Settled(old[j]) ELSE old[j]]
<1>1. Follows(t, old)
  BY DEF Follows
<1>2. Recovered(h) = [chat[Home(h)] EXCEPT !.tasks = t]
  BY ChatTypes DEF Inv, Recovered, DocumentType
<1>3. \A j \in Handlers : t[j].status = "running" => j \in handler[h].saw
  BY ChatTypes DEF Inv, Settled, TaskType
<1> HIDE DEF t
<1> QED BY <1>1, <1>2, <1>3, FollowsCalm

LEMMA InterruptedCalm ==
    ASSUME Inv, NEW c \in Chats, NEW ids
    PROVE  /\ Calm(c, Interrupted(c, ids))
           /\ \A j \in Handlers : j \in ids /\ chat[c].tasks[j].owner = process => ~Unfinished(Interrupted(c, ids).tasks[j])
<1> DEFINE old == chat[c].tasks
           t == [j \in Handlers |-> IF j \in ids /\ old[j].owner = process THEN Settled(old[j]) ELSE old[j]]
<1>1. Follows(t, old)
  BY DEF Follows
<1>2. Interrupted(c, ids) = [chat[c] EXCEPT !.tasks = t]
  BY ChatTypes DEF Inv, Interrupted, DocumentType
<1>3. \A j \in Handlers : j \in ids /\ old[j].owner = process => ~Unfinished(t[j])
  BY ChatTypes, CalmTasks DEF Inv
<1> HIDE DEF t
<1> QED BY <1>1, <1>2, <1>3, FollowsCalm

\* The other parts are edited.
LEMMA PartsCalm ==
    ASSUME Inv, NEW h \in Handlers, Home(h) \in Chats
    PROVE  /\ Calm(Home(h), Rejoined(h)) /\ Calm(Home(h), Activated(h)) /\ Calm(Home(h), Received(h))
           /\ Calm(Home(h), Remembered(h))
<1> DEFINE c == Home(h)
<1>1. chat[c] \in DocumentType
  BY ChatTypes DEF Inv
<1>2. ASSUME NEW d, d.tasks = chat[c].tasks, chat[c].active => d.active, d.gone => chat[c].gone PROVE Calm(c, d)
  BY <1>2, SameCalm DEF Calm
<1>3. Calm(c, Rejoined(h))
  <2>1. Rejoined(h).tasks = chat[c].tasks
    BY <1>1 DEF Rejoined, DocumentType
  <2>2. (chat[c].active => Rejoined(h).active) /\ (Rejoined(h).gone => chat[c].gone)
    BY <1>1 DEF Rejoined, DocumentType
  <2> QED BY <1>2, <2>1, <2>2
<1>4. Calm(c, Activated(h))
  <2>1. /\ Activated(h).tasks = chat[c].tasks /\ (chat[c].active => Activated(h).active)
        /\ Activated(h).gone => chat[c].gone
    BY <1>1 DEF Activated, DocumentType
  <2> QED BY <1>2, <2>1
<1>5. Calm(c, Received(h))
  <2>1. /\ Received(h).tasks = chat[c].tasks /\ (chat[c].active => Received(h).active)
        /\ Received(h).gone => chat[c].gone
    BY <1>1 DEF Received, DocumentType
  <2> QED BY <1>2, <2>1
<1>6. Calm(c, Remembered(h))
  <2>1. /\ Remembered(h).tasks = chat[c].tasks /\ (chat[c].active => Remembered(h).active)
        /\ Remembered(h).gone => chat[c].gone
    BY <1>1 DEF Remembered, DocumentType
  <2> QED BY <1>2, <2>1
<1> QED BY <1>3, <1>4, <1>5, <1>6

\* What a chat is left with, or forgotten to.
LEMMA LeftCalm ==
    ASSUME Inv, NEW c \in Chats
    PROVE  \A j \in Handlers : Calmer(Left(c).tasks[j], chat[c].tasks[j]) /\ ~Unfinished(Left(c).tasks[j])
<1>1. \A j \in Handlers : Left(c).tasks[j] = Settled(chat[c].tasks[j])
  BY ChatTypes DEF Inv, Left, DocumentType
<1> QED BY <1>1, ChatTypes, CalmTasks DEF Inv

LEMMA ForgottenCalm ==
    ASSUME Inv, NEW h \in Handlers, Home(h) \in Chats
    PROVE  Calm(Home(h), Forgotten(h)) /\ \A j \in Handlers : ~Unfinished(Forgotten(h).tasks[j])
<1>1. /\ \A j \in Handlers : Forgotten(h).tasks[j] = NoTask
      /\ Forgotten(h).active = chat[Home(h)].active /\ Forgotten(h).gone = chat[Home(h)].gone
  BY ChatTypes DEF Inv, Forgotten, DocumentType
<1> QED BY <1>1, ChatTypes, CalmTasks DEF Inv, Calm

\* A task is begun: the others are kept or dropped.
LEMMA PersistedCalm ==
    ASSUME Inv, NEW h \in Handlers, Home(h) \in Chats, NEW d \in Persisted(h)
    PROVE  /\ ~Admissible(h) => Calm(Home(h), d)
           /\ \A j \in Handlers : ~Calmer(d.tasks[j], chat[Home(h)].tasks[j])
                                 => j = h /\ Admissible(h) /\ d.tasks[j] = Started(h)
           /\ d.active = chat[Home(h)].active /\ d.gone = chat[Home(h)].gone
<1> DEFINE c == Home(h)  new == [chat[c].tasks EXCEPT ![h] = Started(h)]
<1>1. CASE Admissible(h)
  <2>1. PICK t \in Trimmed(new) : d = [chat[c] EXCEPT !.tasks = t]
    BY <1>1 DEF Persisted
  <2>2. chat[c] \in DocumentType
    BY ChatTypes DEF Inv
  <2>3. d.tasks = t /\ d.active = chat[c].active /\ d.gone = chat[c].gone
    BY <2>1, <2>2 DEF DocumentType
  <2>4. \A j \in Handlers : new[j] = IF j = h THEN Started(h) ELSE chat[c].tasks[j]
    BY <2>2 DEF DocumentType
  <2> HIDE DEF new
  <2>5. \A j \in Handlers : t[j] = new[j] \/ t[j] = NoTask
    BY <2>1 DEF Trimmed
  <2>6. \A j \in Handlers : Calmer(chat[c].tasks[j], chat[c].tasks[j]) /\ Calmer(NoTask, chat[c].tasks[j])
    BY ChatTypes, CalmTasks DEF Inv
  <2> QED BY <1>1, <2>3, <2>4, <2>5, <2>6
<1>2. CASE ~Admissible(h)
  BY <1>2, SameCalm DEF Persisted, Calm
<1> QED BY <1>1, <1>2

\* A result is saved, and its delivery.
LEMMA SavedCalm ==
    ASSUME Inv, NEW h \in Handlers, Home(h) \in Chats
    PROVE  /\ ~Valid(h) => Calm(Home(h), Saved(h))
           /\ \A j \in Handlers \ {h} : Calmer(Saved(h).tasks[j], chat[Home(h)].tasks[j])
           /\ Valid(h) => /\ Saved(h).tasks[h].status \in {"completed", "failed"}
                          /\ Saved(h).tasks[h].owner = Task(h).owner /\ Saved(h).tasks[h].gen = Task(h).gen
           /\ Saved(h).active = chat[Home(h)].active /\ Saved(h).gone = chat[Home(h)].gone
<1> DEFINE c == Home(h)
           t == [Task(h) EXCEPT !.status = IF job[h].ok THEN "completed" ELSE "failed", !.delivery = "pending"]
<1>1. CASE Valid(h)
  <2>1. Task(h) \in TaskType /\ chat[c] \in DocumentType
    BY ChatTypes DEF Inv, Task
  <2>2. t.status \in {"completed", "failed"} /\ t.owner = Task(h).owner /\ t.gen = Task(h).gen
    BY <2>1 DEF TaskType
  <2>3. Saved(h) = [chat[c] EXCEPT !.tasks = [@ EXCEPT ![h] = t]]
    BY <1>1, <2>1 DEF Saved, Task, DocumentType, TaskType
  <2> HIDE DEF t
  <2>4. /\ Saved(h).tasks[h] = t /\ \A j \in Handlers \ {h} : Saved(h).tasks[j] = chat[c].tasks[j]
        /\ Saved(h).active = chat[c].active /\ Saved(h).gone = chat[c].gone
    BY <2>1, <2>3 DEF DocumentType
  <2> QED BY <1>1, <2>2, <2>4, ChatTypes, CalmTasks DEF Inv
<1>2. CASE ~Valid(h)
  BY <1>2, SameCalm DEF Saved, Calm
<1> QED BY <1>1, <1>2

LEMMA DeliveredCalm ==
    ASSUME Inv, NEW h \in Handlers, Home(h) \in Chats, NEW ok
    PROVE  /\ Calm(Home(h), Delivered(h, ok))
           /\ Live(h) /\ chat[Home(h)].active /\ Task(h).status \notin {"none", "running"} /\ Task(h).owner = process
                 => ~Unfinished(Delivered(h, ok).tasks[h])
<1> DEFINE c == Home(h)
           t == [Task(h) EXCEPT !.delivery = IF ok THEN "sent" ELSE "failed"]
<1>1. CASE Live(h) /\ chat[c].active /\ Task(h).status # "none" /\ Task(h).owner = process
  <2>1. Task(h) \in TaskType /\ chat[c] \in DocumentType
    BY ChatTypes DEF Inv, Task
  <2>2. t.status = Task(h).status /\ t.owner = Task(h).owner /\ t.gen = Task(h).gen /\ t.delivery \in {"sent", "failed"}
    BY <2>1 DEF TaskType
  <2>3. Delivered(h, ok) = [chat[c] EXCEPT !.tasks = [@ EXCEPT ![h] = t],
                                           !.memory = IF ok THEN @ \cup {handler[h].era} ELSE @]
    BY <1>1, <2>1 DEF Delivered, Task, DocumentType, TaskType
  <2> HIDE DEF t
  <2>4. /\ Delivered(h, ok).tasks[h] = t /\ \A j \in Handlers \ {h} : Delivered(h, ok).tasks[j] = chat[c].tasks[j]
        /\ Delivered(h, ok).active = chat[c].active /\ Delivered(h, ok).gone = chat[c].gone
    BY <2>1, <2>3 DEF DocumentType
  <2>5. Calmer(t, Task(h)) /\ (Task(h).status # "running" => ~Unfinished(t))
    BY <2>2 DEF Calmer, Unfinished
  <2> QED BY <2>4, <2>5, ChatTypes, CalmTasks DEF Inv, Calm, Task
<1>2. CASE ~(Live(h) /\ chat[c].active /\ Task(h).status # "none" /\ Task(h).owner = process)
  <2>1. Delivered(h, ok) = chat[c]
    BY <1>2 DEF Delivered
  <2> QED BY <1>2, <2>1, SameCalm
<1> QED BY <1>1, <1>2

-----------------------------------------------------------------------------
(* The kinds of steps, and that each keeps the process orderly.            *)

\* A step of the chat c edits the others' documents, locks and generations not.
Within(c) ==
    /\ \A b \in Chats \ {c} : chat'[b] = chat[b]
    /\ \A b \in Chats : slot'[b].gen = slot[b].gen /\ slot'[b].removed = slot[b].removed
    /\ chat[c].active => chat'[c].active
    /\ chat'[c].gone => chat[c].gone

\* A call goes on or returns; one that begins a forget is another kind.
CallGoes(h) ==
    /\ Working(h) /\ UNCHANGED rest /\ faults' >= faults /\ Within(Home(h))
    /\ \A j \in Handlers \ {h} : handler'[j] = handler[j] /\ job'[j].pc = job[j].pc
    /\ handler'[h].pc \notin {"idle", "recovering", "forgetting"} /\ handler'[h].chat = handler[h].chat
    /\ handler'[h].pc # "done" => handler'[h].saw = handler[h].saw
    /\ handler'[h].pc # "done" \/ job'[h].pc # "none" => handler'[h].gen = handler[h].gen
    /\ handler'[h].pc = "unstarting" => faults' > 0
    /\ job'[h].pc = job[h].pc \/ (Live(h) /\ job'[h].pc = "queued" /\ job[h].pc = "none")
    /\ \A c \in Chats : slot'[c].locked => slot[c].locked
    /\ At(h, "recovering") /\ handler'[h].pc # "done" =>
          \A j \in Handlers : chat'[Home(h)].tasks[j].status = "running" => j \in handler[h].saw
    /\ At(h, "forgetting") => faults' > 0 \/ Settles(Home(h))'
    /\ \A j \in Handlers : ~Calmer(chat'[Home(h)].tasks[j], chat[Home(h)].tasks[j])
                            => j = h /\ Admissible(h) /\ chat'[Home(h)].tasks[h] = Started(h) /\ Born(h)' /\ Admits(h)'
                               /\ job[h].pc = "none"
    /\ Born(h) => Born(h)'
    /\ Admission'
    /\ \A j \in Handlers \ {h} : j \in admitted' <=> j \in admitted
    /\ h \in admitted \ admitted' => faults' > 0 \/ ~Live(h) \/ Task(h).status = "none"

LEMMA FaultTypes == ASSUME TypeOK, TypeOK', faults' >= faults PROVE faults' = 0 => faults = 0
BY DEF TypeOK

LEMMA CallOrderly ==
    ASSUME Inv, Inv', Orderly, NEW h \in Handlers, CallGoes(h)
    PROVE  Orderly'
<1>0. /\ TypeOK /\ TypeOK' /\ Places /\ Locks /\ Eras /\ GoneInactive
      /\ Admission /\ Fresh /\ Known /\ Honest /\ GoneQuiet /\ ClosingKnown
  BY DEF Inv, Orderly
<1>1. Home(h) \in Chats /\ slot[Home(h)].locked
  BY <1>0 DEF CallGoes, Working, Places, Locks
<1>2. \A j \in Handlers : Home(j)' = Home(j)
  BY DEF CallGoes, Home
<1>3. Closed' = Closed /\ closing' = closing /\ removal' = removal /\ process' = process
  BY DEF CallGoes, rest, Closed
<1>4. faults' = 0 => faults = 0
  BY <1>0, FaultTypes DEF CallGoes
<1>5. \A j \in Handlers \ {h} : /\ handler'[j] = handler[j] /\ job'[j].pc = job[j].pc
                                /\ Working(j)' = Working(j) /\ Running(j)' = Running(j) /\ Born(j)' = Born(j)
                                /\ At(j, "forgetting")' = At(j, "forgetting")
  BY DEF CallGoes, Working, Running, Ended, Born, At
<1>6. \A j \in Handlers \ {h} : Working(j) => Home(j) # Home(h) /\ Home(j) \in Chats
  BY <1>0 DEF CallGoes, Locks, Places, Working
\* What the step does to the tasks.
<1>7. ASSUME NEW c \in Chats, NEW j \in Handlers,
             ~Calmer(chat'[c].tasks[j], chat[c].tasks[j])
      PROVE  c = Home(h) /\ j = h /\ Admissible(h) /\ chat'[c].tasks[h] = Started(h) /\ Born(h)' /\ Admits(h)'
             /\ job[h].pc = "none"
  <2>1. c = Home(h)
    BY <1>0, <1>7, ChatTypes, CalmTasks DEF CallGoes, Within
  <2> QED BY <1>7, <2>1 DEF CallGoes
<1>8. \A c \in Chats : (chat[c].active => chat'[c].active) /\ (chat'[c].gone => chat[c].gone)
  BY <1>1 DEF CallGoes, Within
<1>9. Fresh'
  <2> SUFFICES ASSUME NEW c \in Chats, NEW j \in Handlers, chat'[c].tasks[j].status # "none" PROVE Born(j)'
    BY DEF Fresh
  <2>1. CASE Calmer(chat'[c].tasks[j], chat[c].tasks[j])
    BY <2>1, <1>0, <1>5 DEF Calmer, Fresh, CallGoes
  <2> QED BY <2>1, <1>7
<1>10. Known'
  <2> SUFFICES ASSUME NEW j \in Handlers
               PROVE  /\ handler'[j].pc \notin {"idle", "done", "recovering"} => \A k \in Handlers :
                            chat'[Home(j)'].tasks[k].status = "running" => k \in handler'[j].saw \/ k = j
                      /\ At(j, "forgetting")' => handler'[j].gen < slot'[Home(j)'].gen
                      /\ At(j, "unstarting")' => faults' > 0
                      /\ Working(j)' /\ handler'[j].gen = slot'[Home(j)'].gen =>
                            /\ ~slot'[Home(j)'].removed
                            /\ job'[j].pc # "none" /\ ~Closed' => job'[j].pc \in {"queued", "interrupting"}
    BY DEF Known
  <2>1. CASE j = h
    <3>1. ASSUME handler'[h].pc \notin {"idle", "done", "recovering"}, NEW k \in Handlers,
                 chat'[Home(h)].tasks[k].status = "running"
          PROVE  k \in handler'[h].saw \/ k = h
      <4>1. handler'[h].saw = handler[h].saw
        BY <3>1 DEF CallGoes
      <4>2. CASE At(h, "recovering")
        BY <3>1, <4>1, <4>2 DEF CallGoes
      <4>3. CASE ~At(h, "recovering")
        <5>1. handler[h].pc \notin {"idle", "done", "recovering"}
          BY <4>3 DEF At, CallGoes, Working
        <5>2. chat[Home(h)].tasks[k].status = "running" \/ k = h
          BY <1>1, <1>7, <3>1 DEF Calmer, Unfinished
        <5> QED BY <1>0, <4>1, <5>1, <5>2 DEF Known
      <4> QED BY <4>2, <4>3
    <3>2. ASSUME Working(h)', handler'[h].gen = slot'[Home(h)].gen
          PROVE  /\ ~slot'[Home(h)].removed
                 /\ job'[h].pc # "none" /\ ~Closed' => job'[h].pc \in {"queued", "interrupting"}
      <4>1. Working(h) /\ handler[h].gen = slot[Home(h)].gen /\ slot'[Home(h)].removed = slot[Home(h)].removed
        BY <1>1, <3>2 DEF CallGoes, Working, Within
      <4> QED BY <1>0, <1>3, <4>1 DEF Known, CallGoes
    <3> QED BY <1>2, <2>1, <3>1, <3>2 DEF CallGoes, At
  <2>2. CASE j # h
    <3>1. Working(j) => chat'[Home(j)] = chat[Home(j)] /\ slot'[Home(j)].gen = slot[Home(j)].gen
                        /\ slot'[Home(j)].removed = slot[Home(j)].removed
      BY <1>6, <2>2 DEF CallGoes, Within
    <3>2. handler[j].pc \notin {"idle", "done"} <=> Working(j)
      BY DEF Working
    <3>3. At(j, "unstarting") => faults' > 0
      BY <1>0, <1>4 DEF Known, TypeOK
    <3> QED BY <1>0, <1>2, <1>3, <1>5, <2>2, <3>1, <3>2, <3>3 DEF Known, At
  <2> QED BY <2>1, <2>2
<1>11. Honest'
  <2> SUFFICES ASSUME faults' = 0, NEW c \in Chats, NEW j \in Handlers, Unfinished(chat'[c].tasks[j])
               PROVE  Doomed(c)' \/ Attended(c, j)'
    BY DEF Honest
  <2>1. CASE Calmer(chat'[c].tasks[j], chat[c].tasks[j])
    <3>1. /\ Unfinished(chat[c].tasks[j]) /\ chat'[c].tasks[j].status = chat[c].tasks[j].status
          /\ chat'[c].tasks[j].owner = chat[c].tasks[j].owner /\ chat'[c].tasks[j].gen = chat[c].tasks[j].gen
      BY <2>1 DEF Calmer
    <3>2. CASE Doomed(c)
      <4>1. ASSUME NEW k \in Handlers, At(k, "forgetting"), Home(k) = c PROVE Doomed(c)'
        <5>1. CASE k = h
          BY <1>2, <4>1, <5>1 DEF CallGoes, Settles
        <5>2. CASE k # h
          BY <1>2, <1>5, <4>1, <5>2 DEF Doomed
        <5> QED BY <5>1, <5>2
      <4> QED BY <1>3, <3>2, <4>1 DEF Doomed
    <3>3. CASE Attended(c, j)
      <4>1. j \in admitted /\ Home(j) = c /\ Live(j) /\ chat[c].active /\ chat[c].tasks[j].status # "none"
        BY <3>3 DEF Attended
      <4>2. j \in admitted'
        BY <4>1 DEF CallGoes, Task
      <4>3. handler'[j].gen = handler[j].gen
        <5>1. Admits(j)'
          BY <4>2 DEF CallGoes, Admission
        <5> QED BY <5>1 DEF CallGoes, Admits
      <4>4. Live(j)'
        BY <1>2, <1>3, <4>1, <4>3 DEF Live, CallGoes, Within
      <4>5. job'[j].pc = job[j].pc \/ (job[j].pc = "none" /\ job'[j].pc = "queued")
        BY <1>5 DEF CallGoes
      <4> QED BY <1>2, <1>3, <1>8, <3>1, <3>3, <4>1, <4>2, <4>3, <4>4, <4>5 DEF Attended
    <3> QED BY <1>0, <1>4, <3>1, <3>2, <3>3 DEF Honest
  <2>2. CASE ~Calmer(chat'[c].tasks[j], chat[c].tasks[j])
    <3>1. /\ c = Home(h) /\ j = h /\ Admissible(h) /\ chat'[c].tasks[h] = Started(h) /\ Admits(h)'
          /\ job[h].pc = "none"
      BY <1>7, <2>2
    <3>2. h \in admitted' /\ handler'[h].gen = handler[h].gen
      BY <3>1 DEF CallGoes, Admission, Admits
    <3>3. Live(h)' /\ chat'[c].active
      BY <1>1, <1>2, <1>3, <1>8, <3>1, <3>2 DEF Admissible, Live, CallGoes, Within
    <3>4. job'[h].pc \in {"none", "queued"}
      BY <3>1 DEF CallGoes
    <3> QED BY <1>2, <1>3, <3>1, <3>2, <3>3, <3>4 DEF Attended, Started
  <2> QED BY <2>1, <2>2
<1>12. GoneQuiet'
  <2> SUFFICES ASSUME NEW c \in Chats, chat'[c].gone, NEW j \in Handlers PROVE ~Unfinished(chat'[c].tasks[j])
    BY DEF GoneQuiet, Settles
  <2>1. chat[c].gone /\ ~chat[c].active /\ ~Unfinished(chat[c].tasks[j])
    BY <1>0, <1>8 DEF GoneQuiet, Settles, GoneInactive
  <2> QED BY <1>7, <2>1 DEF Calmer, Admissible
<1>13. ClosingKnown'
  <2> SUFFICES ASSUME faults' = 0
               PROVE  /\ closing.pc = "closing" =>
                            /\ ~closing.failed
                            /\ \A j \in Handlers : Running(j)' => j \in closing.waits
                            /\ \A c \in Chats \ closing.left : ~slot'[c].locked /\ Settles(c)'
                            /\ \A c \in closing.left, j \in Handlers : Unfinished(chat'[c].tasks[j]) => Remains(c, j)'
                      /\ closing.pc = "complete" =>
                            /\ \A j \in Handlers : ~Running(j)'
                            /\ \A c \in Chats : ~slot'[c].locked /\ Settles(c)'
                      /\ closing.pc # "failed"
    BY <1>3 DEF ClosingKnown
  <2>1. closing.pc \in {"closing", "complete"} => ~Live(h)
    BY DEF Live, Closed
  <2>2. ~Live(h) => \A j \in Handlers : Running(j)' = Running(j)
    BY <1>5 DEF CallGoes, Running, Ended
  <2>3. ~Live(h) => \A c \in Chats, j \in Handlers : Calmer(chat'[c].tasks[j], chat[c].tasks[j])
    BY <1>7 DEF Admissible
  <2>4. ~Live(h) => \A c \in Chats : Settles(c) => Settles(c)'
    BY <2>3 DEF Settles, Calmer
  <2>5. ASSUME ~Live(h), NEW c \in Chats, NEW j \in Handlers, Unfinished(chat'[c].tasks[j]), Remains(c, j)
        PROVE  Remains(c, j)'
    <3>1. chat'[c].tasks[j].owner = chat[c].tasks[j].owner
      BY <2>3, <2>5 DEF Calmer
    <3>2. ASSUME NEW k \in Handlers, At(k, "forgetting"), Home(k) = c PROVE At(k, "forgetting")' /\ Home(k)' = c
      <4>1. k # h
        BY <1>2, <2>5, <3>2 DEF CallGoes, Settles
      <4> QED BY <1>2, <1>5, <3>2, <4>1
    <3> QED BY <1>2, <1>3, <2>5, <3>1, <3>2 DEF Remains
  <2>6. \A c \in Chats : slot'[c].locked => slot[c].locked
    BY DEF CallGoes
  <2>7. faults = 0 /\ closing.left \subseteq Chats
    BY <1>0, <1>4 DEF TypeOK, ClosingType
  <2>8. \A c \in Chats, j \in Handlers : ~Live(h) /\ Unfinished(chat'[c].tasks[j]) => Unfinished(chat[c].tasks[j])
    BY <2>3 DEF Calmer
  <2> QED BY <1>0, <2>1, <2>2, <2>4, <2>5, <2>6, <2>7, <2>8 DEF ClosingKnown
<1>14. Admission'
  BY DEF CallGoes
<1> QED BY <1>9, <1>10, <1>11, <1>12, <1>13, <1>14 DEF Orderly

\* A call that begins a forget: what goes on in its chat is of an older generation.
LEMMA ForgetBegins ==
    ASSUME Inv, Inv', Orderly, NEW h \in Handlers, At(h, "claiming"), Live(h), Commit(h, Received(h)),
           slot' = [slot EXCEPT ![Home(h)].gen = @ + 1], handler' = [handler EXCEPT ![h].pc = "forgetting"],
           \A j \in Handlers : job'[j].pc = job[j].pc, UNCHANGED <<admitted, rest, faults>>
    PROVE  Orderly'
<1>0. /\ TypeOK /\ TypeOK' /\ Places /\ Locks
      /\ Admission /\ Fresh /\ Known /\ Honest /\ GoneQuiet /\ ClosingKnown
  BY DEF Inv, Orderly
<1>1. Working(h) /\ Home(h) \in Chats /\ chat \in [Chats -> DocumentType] /\ handler \in [Handlers -> CallType]
      /\ slot \in [Chats -> SlotType]
  BY <1>0 DEF At, Working, Places, TypeOK
<1>2. /\ \A j \in Handlers \ {h} : handler'[j] = handler[j]
      /\ handler'[h].pc = "forgetting" /\ handler'[h].chat = handler[h].chat /\ handler'[h].gen = handler[h].gen
      /\ handler'[h].saw = handler[h].saw
  BY <1>1 DEF CallType
<1>3. \A j \in Handlers : Home(j)' = Home(j) /\ Born(j)' = Born(j) /\ Admits(j)' = Admits(j) /\ Running(j)' = Running(j)
                          /\ Working(j)' = Working(j)
  BY <1>1, <1>2 DEF Home, Born, Admits, Running, Ended, Working, At
<1>4. \A c \in Chats \ {Home(h)} : chat'[c] = chat[c] /\ slot'[c] = slot[c]
  BY <1>1 DEF Commit
<1>5. /\ slot'[Home(h)].gen = slot[Home(h)].gen + 1 /\ slot[Home(h)].gen \in Nat
  BY <1>1 DEF SlotType
<1>6. /\ \A c \in Chats, j \in Handlers : Calmer(chat'[c].tasks[j], chat[c].tasks[j])
      /\ \A c \in Chats : chat'[c].gone => chat[c].gone
  <2>1. chat'[Home(h)] = Received(h)
    BY <1>1 DEF Commit
  <2>2. Calm(Home(h), Received(h))
    BY <1>1, PartsCalm
  <2> QED BY <1>0, <1>4, <2>1, <2>2, SameCalm DEF Calm
<1>7. closing.pc = "open" /\ closing' = closing /\ removal' = removal /\ process' = process /\ admitted' = admitted
      /\ faults' = faults
  BY DEF Live, Closed, rest
<1>8. Admission'
  BY <1>0, <1>3, <1>7 DEF Admission
<1>9. Fresh'
  BY <1>0, <1>3, <1>6 DEF Fresh, Calmer
<1>10. GoneQuiet'
  BY <1>0, <1>6 DEF GoneQuiet, Settles, Calmer
<1>11. ClosingKnown'
  BY <1>7 DEF ClosingKnown
<1>12. Known'
  <2> SUFFICES ASSUME NEW j \in Handlers
               PROVE  /\ handler'[j].pc \notin {"idle", "done", "recovering"} => \A k \in Handlers :
                            chat'[Home(j)'].tasks[k].status = "running" => k \in handler'[j].saw \/ k = j
                      /\ At(j, "forgetting")' => handler'[j].gen < slot'[Home(j)'].gen
                      /\ At(j, "unstarting")' => faults' > 0
                      /\ Working(j)' /\ handler'[j].gen = slot'[Home(j)'].gen =>
                            /\ ~slot'[Home(j)'].removed
                            /\ job'[j].pc # "none" /\ ~Closed' => job'[j].pc \in {"queued", "interrupting"}
    BY DEF Known
  <2>1. CASE j = h
    <3>1. handler[h].gen = slot[Home(h)].gen /\ handler'[h].gen < slot'[Home(h)].gen /\ handler'[h].gen # slot'[Home(h)].gen
      BY <1>2, <1>5 DEF Live
    <3>2. \A k \in Handlers : chat'[Home(h)].tasks[k].status = "running" => k \in handler'[h].saw \/ k = h
      BY <1>0, <1>1, <1>2, <1>6 DEF Known, At, Calmer, Unfinished
    <3> QED BY <1>2, <1>3, <2>1, <3>1, <3>2 DEF At
  <2>2. CASE j # h
    <3>1. Working(j) => Home(j) # Home(h) /\ Home(j) \in Chats
      BY <1>0, <1>1, <2>2 DEF Locks, Places, Working
    <3>2. handler[j].pc \notin {"idle", "done"} <=> Working(j)
      BY DEF Working
    <3>3. Closed' = Closed
      BY <1>7 DEF Closed
    <3> QED BY <1>0, <1>2, <1>3, <1>4, <1>7, <2>2, <3>1, <3>2, <3>3 DEF Known, At
  <2> QED BY <2>1, <2>2
<1>13. Honest'
  <2> SUFFICES ASSUME faults' = 0, NEW c \in Chats, NEW j \in Handlers, Unfinished(chat'[c].tasks[j]), c # Home(h)
               PROVE  Doomed(c)' \/ Attended(c, j)'
    BY <1>2, <1>3 DEF Honest, Doomed, At
  <2>1. Doomed(c) => Doomed(c)'
    <3>1. \A k \in Handlers : At(k, "forgetting") => k # h
      BY DEF At
    <3> QED BY <1>2, <1>3, <1>7, <3>1 DEF Doomed, Closed, At
  <2>2. Attended(c, j) => Attended(c, j)'
    <3>1. ASSUME Attended(c, j) PROVE j # h
      BY <3>1 DEF Attended
    <3> QED BY <1>2, <1>3, <1>4, <1>7, <3>1 DEF Attended, Live, Closed
  <2> QED BY <1>0, <1>4, <1>7, <2>1, <2>2 DEF Honest
<1> QED BY <1>8, <1>9, <1>10, <1>11, <1>12, <1>13 DEF Orderly

\* A job goes on.
Going == {"none", "queued", "reading", "running", "returned", "finishing", "interrupting"}
Reporting == {"sending", "delivering", "interrupting"}
JobGoes(h) ==
    /\ job[h].pc \notin {"none", "done"} /\ UNCHANGED <<process, handler, removal, closing>> /\ faults' >= faults
    /\ Within(Home(h))
    /\ \A j \in Handlers \ {h} : job'[j].pc = job[j].pc
    /\ job'[h].pc \notin {"none", "queued"} /\ (JobAt(h, "ended") => job'[h].pc = "done")
    /\ admitted' = IF job'[h].pc = "done" THEN admitted \ {h} ELSE admitted
    /\ Live(h) /\ slot[Home(h)].locked /\ job[h].pc \in {"queued", "interrupting"} => job'[h].pc = "interrupting"
    /\ \A c \in Chats : slot'[c].locked => slot[c].locked \/ ~Closed
    /\ \A j \in Handlers : ~Calmer(chat'[Home(h)].tasks[j], chat[Home(h)].tasks[j])
                            => /\ j = h /\ Valid(h) /\ chat'[Home(h)].tasks[h].status \in {"completed", "failed"}
                               /\ chat'[Home(h)].tasks[h].owner = Task(h).owner
                               /\ chat'[Home(h)].tasks[h].gen = Task(h).gen
    /\ faults' = 0 /\ Attended(Home(h), h) /\ Unfinished(Task(h)) /\ Unfinished(chat'[Home(h)].tasks[h])
          => job'[h].pc \in IF chat'[Home(h)].tasks[h].status = "running" THEN Going ELSE Reporting

LEMMA JobOrderly ==
    ASSUME Inv, Inv', Orderly, NEW h \in Handlers, JobGoes(h)
    PROVE  Orderly'
<1>0. /\ TypeOK /\ TypeOK' /\ Places /\ Locks /\ GoneInactive
      /\ Admission /\ Fresh /\ Known /\ Honest /\ GoneQuiet /\ ClosingKnown
  BY DEF Inv, Orderly
<1>1. Home(h) \in Chats /\ handler[h].pc \in {"compacting", "done"}
  BY <1>0 DEF JobGoes, Places
<1>2. handler' = handler /\ closing' = closing /\ removal' = removal /\ process' = process /\ Closed' = Closed
      /\ \A j \in Handlers : Home(j)' = Home(j) /\ Working(j)' = Working(j) /\ At(j, "forgetting")' = At(j, "forgetting")
  BY DEF JobGoes, Home, Working, Closed, At
<1>3. faults' = 0 => faults = 0
  BY <1>0, FaultTypes DEF JobGoes
<1>4. /\ \A j \in Handlers : (Running(j)' => Running(j)) /\ (Born(j) => Born(j)')
      /\ \A j \in Handlers \ {h} : Admits(j)' = Admits(j)
      /\ Admits(h) /\ (Admits(h)' <=> job'[h].pc # "done")
  BY <1>1, <1>2 DEF JobGoes, Running, Ended, Born, Admits, JobAt
<1>5. ASSUME NEW c \in Chats, NEW j \in Handlers, ~Calmer(chat'[c].tasks[j], chat[c].tasks[j])
      PROVE  /\ c = Home(h) /\ j = h /\ Valid(h) /\ chat'[c].tasks[h].status \in {"completed", "failed"}
             /\ chat'[c].tasks[h].owner = chat[c].tasks[h].owner /\ chat'[c].tasks[h].gen = chat[c].tasks[h].gen
  <2>1. c = Home(h)
    BY <1>0, <1>5, ChatTypes, CalmTasks DEF JobGoes, Within
  <2> QED BY <1>5, <2>1 DEF JobGoes, Task
<1>6. \A c \in Chats : /\ (chat[c].active => chat'[c].active) /\ (chat'[c].gone => chat[c].gone)
                       /\ slot'[c].gen = slot[c].gen /\ slot'[c].removed = slot[c].removed
  BY <1>1 DEF JobGoes, Within
<1>7. Admission'
  <2>1. IsFiniteSet(admitted') /\ Cardinality(admitted') <= MaxTasks
    <3>1. CASE job'[h].pc = "done"
      <4>1. admitted' = admitted \ {h} /\ IsFiniteSet(admitted)
        BY <1>0, <3>1 DEF JobGoes, Admission
      <4>2. /\ IsFiniteSet(admitted') /\ Cardinality(admitted') \in Nat /\ Cardinality(admitted) \in Nat
            /\ Cardinality(admitted') <= Cardinality(admitted)
        BY <4>1, FS_Subset, FS_CardinalityType
      <4> QED BY <1>0, <4>2, ConversationAssumption DEF Admission
    <3> QED BY <1>0, <3>1 DEF JobGoes, Admission
  <2> QED BY <1>0, <1>4, <2>1 DEF Admission, JobGoes
<1>8. Fresh'
  <2> SUFFICES ASSUME NEW c \in Chats, NEW j \in Handlers, chat'[c].tasks[j].status # "none" PROVE Born(j)'
    BY DEF Fresh
  <2>1. chat[c].tasks[j].status # "none"
    <3>1. CASE Calmer(chat'[c].tasks[j], chat[c].tasks[j])
      BY <3>1 DEF Calmer
    <3>2. CASE ~Calmer(chat'[c].tasks[j], chat[c].tasks[j])
      BY <1>5, <3>2 DEF Valid, Task
    <3> QED BY <3>1, <3>2
  <2> QED BY <1>0, <1>4, <2>1 DEF Fresh
<1>9. \A c \in Chats, j \in Handlers : chat'[c].tasks[j].status = "running" => chat[c].tasks[j].status = "running"
  <2> SUFFICES ASSUME NEW c \in Chats, NEW j \in Handlers, chat'[c].tasks[j].status = "running"
               PROVE  chat[c].tasks[j].status = "running"
    OBVIOUS
  <2>1. Calmer(chat'[c].tasks[j], chat[c].tasks[j])
    BY <1>5
  <2> QED BY <2>1 DEF Calmer, Unfinished
<1>10. Known'
  <2> SUFFICES ASSUME NEW j \in Handlers
               PROVE  /\ handler[j].pc \notin {"idle", "done", "recovering"} => \A k \in Handlers :
                            chat'[Home(j)].tasks[k].status = "running" => k \in handler[j].saw \/ k = j
                      /\ At(j, "forgetting") => handler[j].gen < slot'[Home(j)].gen
                      /\ At(j, "unstarting") => faults' > 0
                      /\ Working(j) /\ handler[j].gen = slot'[Home(j)].gen =>
                            /\ ~slot'[Home(j)].removed
                            /\ job'[j].pc # "none" /\ ~Closed => job'[j].pc \in {"queued", "interrupting"}
    BY <1>2 DEF Known, At
  <2>1. handler[j].pc # "idle" => Home(j) \in Chats
    BY <1>0 DEF Places
  <2>2. At(j, "unstarting") => faults' > 0
    BY <1>0, <1>3 DEF Known, TypeOK
  <2>3. ASSUME Working(j), handler[j].gen = slot'[Home(j)].gen
        PROVE  /\ ~slot'[Home(j)].removed
               /\ job'[j].pc # "none" /\ ~Closed => job'[j].pc \in {"queued", "interrupting"}
    <3>1. Home(j) \in Chats /\ slot[Home(j)].locked
      BY <1>0, <2>1, <2>3 DEF Working, Locks
    <3>2. /\ ~slot[Home(j)].removed /\ handler[j].gen = slot[Home(j)].gen
          /\ job[j].pc # "none" /\ ~Closed => job[j].pc \in {"queued", "interrupting"}
      BY <1>0, <1>6, <2>3, <3>1 DEF Known
    <3>3. CASE j = h
      BY <1>6, <3>1, <3>2, <3>3 DEF JobGoes, Live
    <3>4. CASE j # h
      BY <1>6, <3>1, <3>2, <3>4 DEF JobGoes
    <3> QED BY <3>3, <3>4
  <2> QED BY <1>0, <1>6, <1>9, <2>1, <2>2, <2>3 DEF Known, At, Working
<1>11. \A c \in Chats : Doomed(c)' <=> Doomed(c)
  BY <1>2 DEF Doomed
<1>12. Honest'
  <2> SUFFICES ASSUME faults' = 0, NEW c \in Chats, NEW j \in Handlers, Unfinished(chat'[c].tasks[j]), ~Doomed(c)
               PROVE  Attended(c, j)'
    BY <1>11 DEF Honest
  <2>1. /\ Unfinished(chat[c].tasks[j])
        /\ chat'[c].tasks[j].owner = chat[c].tasks[j].owner /\ chat'[c].tasks[j].gen = chat[c].tasks[j].gen
        /\ chat'[c].tasks[j].status = chat[c].tasks[j].status \/ chat'[c].tasks[j].status \notin {"none", "running"}
    <3>1. CASE Calmer(chat'[c].tasks[j], chat[c].tasks[j])
      BY <3>1 DEF Calmer
    <3>2. CASE ~Calmer(chat'[c].tasks[j], chat[c].tasks[j])
      BY <1>5, <3>2 DEF Valid, Task, Unfinished
    <3> QED BY <3>1, <3>2
  <2>2. Attended(c, j)
    BY <1>0, <1>3, <2>1 DEF Honest
  <2>3. Home(j) = c /\ chat'[c].active /\ Live(j)'
    BY <1>2, <1>6, <2>2 DEF Attended, Live
  <2>4. CASE j = h
    <3>1. job'[h].pc \in IF chat'[c].tasks[h].status = "running" THEN Going ELSE Reporting
      BY <2>1, <2>2, <2>3, <2>4 DEF JobGoes, Task
    <3>2. h \in admitted'
      BY <2>2, <2>4, <3>1 DEF JobGoes, Attended, Going, Reporting
    <3>3. chat[c].tasks[h].status # "none"
      BY <2>2, <2>4 DEF Attended
    <3> QED BY <1>2, <2>1, <2>2, <2>3, <2>4, <3>1, <3>2, <3>3 DEF Attended, Going, Reporting
  <2>5. CASE j # h
    <3>1. job'[j].pc = job[j].pc /\ (j \in admitted => j \in admitted')
      BY <2>5 DEF JobGoes
    <3>2. chat'[c].tasks[j].status = chat[c].tasks[j].status
      <4>1. Calmer(chat'[c].tasks[j], chat[c].tasks[j])
        BY <1>5, <2>5
      <4> QED BY <4>1 DEF Calmer
    <3> QED BY <1>2, <2>1, <2>2, <2>3, <3>1, <3>2 DEF Attended
  <2> QED BY <2>4, <2>5
<1>13. GoneQuiet'
  <2> SUFFICES ASSUME NEW c \in Chats, chat'[c].gone, NEW j \in Handlers PROVE ~Unfinished(chat'[c].tasks[j])
    BY DEF GoneQuiet, Settles
  <2>1. chat[c].gone /\ ~chat[c].active /\ ~Unfinished(chat[c].tasks[j])
    BY <1>0, <1>6 DEF GoneQuiet, Settles, GoneInactive
  <2> QED BY <1>5, <2>1 DEF Calmer, Valid
<1>14. ClosingKnown'
  <2>1. Closed => \A c \in Chats, j \in Handlers : Calmer(chat'[c].tasks[j], chat[c].tasks[j])
    BY <1>5 DEF Valid, Live
  <2>2. Closed => \A c \in Chats : (Settles(c) => Settles(c)') /\ (slot'[c].locked => slot[c].locked)
    BY <2>1 DEF Settles, Calmer, JobGoes
  <2>3. Closed => \A c \in Chats, j \in Handlers :
            Unfinished(chat'[c].tasks[j]) => Unfinished(chat[c].tasks[j]) /\ (Remains(c, j) => Remains(c, j)')
    BY <1>2, <2>1 DEF Remains, Calmer
  <2>4. closing.left \subseteq Chats
    BY <1>0 DEF TypeOK, ClosingType
  <2> QED BY <1>0, <1>2, <1>3, <1>4, <2>2, <2>3, <2>4 DEF ClosingKnown, Closed
<1> QED BY <1>7, <1>8, <1>10, <1>12, <1>13, <1>14 DEF Orderly

\* A call takes the lock of a chat that is live, and sees the jobs there are.
LEMMA EntersOrderly ==
    ASSUME Inv, Orderly, NEW h \in Handlers, Enter(h) \/ Welcome(h)
    PROVE  Orderly'
<1>0. /\ TypeOK /\ Places /\ Locks /\ Admission /\ Fresh /\ Known /\ Honest /\ GoneQuiet /\ ClosingKnown
      /\ slot \in [Chats -> SlotType] /\ handler \in [Handlers -> CallType]
  BY DEF Inv, Orderly, TypeOK
<1>1. At(h, "idle") /\ ~Closed /\ UNCHANGED <<chat, tasksAlone, rest, faults>>
  BY DEF Enter, Welcome
<1>2. PICK c \in Chats, a \in Activities \cup {None}, s \in SlotType :
          /\ ~slot[c].locked /\ slot' = [slot EXCEPT ![c] = s] /\ s.gen = slot[c].gen /\ ~s.removed
          /\ handler' = [handler EXCEPT ![h] = Entered(c, a)]
  <2>1. CASE Enter(h)
    <3>1. PICK a \in Activities : /\ ~slot[ChatOf[a]].locked /\ ~slot[ChatOf[a]].removed
                                  /\ slot' = [slot EXCEPT ![ChatOf[a]].locked = TRUE]
                                  /\ handler' = [handler EXCEPT ![h] = Entered(ChatOf[a], a)]
      BY <2>1 DEF Enter
    <3> DEFINE s == [slot[ChatOf[a]] EXCEPT !.locked = TRUE]
    <3>2. ChatOf[a] \in Chats
      BY ConversationAssumption
    <3>3. s \in SlotType /\ ~s.removed /\ s.gen = slot[ChatOf[a]].gen /\ slot' = [slot EXCEPT ![ChatOf[a]] = s]
      BY <1>0, <3>1, <3>2 DEF SlotType
    <3> HIDE DEF s
    <3> QED BY <3>1, <3>2, <3>3
  <2>2. CASE Welcome(h)
    <3>1. PICK c \in Chats : /\ ~slot[c].locked
                             /\ slot' = [slot EXCEPT ![c].locked = TRUE, ![c].removed = FALSE]
                             /\ handler' = [handler EXCEPT ![h] = Entered(c, None)]
      BY <2>2 DEF Welcome
    <3> DEFINE s == [slot[c] EXCEPT !.locked = TRUE, !.removed = FALSE]
    <3>2. s \in SlotType /\ ~s.removed /\ s.gen = slot[c].gen
      BY <1>0 DEF SlotType
    <3>3. slot' = [slot EXCEPT ![c] = s]
      BY <1>0, <3>1 DEF SlotType
    <3> HIDE DEF s
    <3> QED BY <3>1, <3>2, <3>3
  <2> QED BY <1>0, <2>1, <2>2
<1>3. /\ handler'[h].pc = "recovering" /\ handler'[h].chat = c
      /\ \A j \in Handlers \ {h} : /\ handler'[j] = handler[j] /\ Home(j)' = Home(j) /\ Working(j)' = Working(j)
                                   /\ Admits(j)' = Admits(j) /\ Born(j)' = Born(j)
  BY <1>0, <1>1, <1>2 DEF Entered, Home, Working, Admits, Born, tasksAlone
<1>4. /\ chat' = chat /\ job' = job /\ admitted' = admitted /\ closing' = closing /\ removal' = removal
      /\ process' = process /\ faults' = faults /\ Closed' = Closed
  BY <1>1 DEF tasksAlone, rest, Closed
<1>5. /\ \A b \in Chats : slot'[b].gen = slot[b].gen /\ (slot'[b].removed => slot[b].removed)
      /\ ~slot'[c].removed /\ \A b \in Chats \ {c} : slot'[b] = slot[b]
  BY <1>0, <1>2
<1>6. job[h].pc = "none" /\ ~Admits(h) /\ ~Born(h) /\ ~Admits(h)'
  BY <1>0, <1>1, <1>3, <1>4 DEF Places, At, Admits, Born
<1>7. Admission' /\ Fresh' /\ GoneQuiet' /\ ClosingKnown'
  BY <1>0, <1>1, <1>3, <1>4, <1>6 DEF Admission, Fresh, GoneQuiet, Settles, ClosingKnown, Closed
<1>8. Known'
  <2> SUFFICES ASSUME NEW j \in Handlers
               PROVE  /\ handler'[j].pc \notin {"idle", "done", "recovering"} => \A k \in Handlers :
                            chat'[Home(j)'].tasks[k].status = "running" => k \in handler'[j].saw \/ k = j
                      /\ At(j, "forgetting")' => handler'[j].gen < slot'[Home(j)'].gen
                      /\ At(j, "unstarting")' => faults' > 0
                      /\ Working(j)' /\ handler'[j].gen = slot'[Home(j)'].gen =>
                            /\ ~slot'[Home(j)'].removed
                            /\ job'[j].pc # "none" /\ ~Closed' => job'[j].pc \in {"queued", "interrupting"}
    BY DEF Known
  <2>1. CASE j = h
    BY <1>3, <1>4, <1>5, <1>6, <2>1 DEF At, Home
  <2>2. CASE j # h
    <3>1. Working(j) => Home(j) \in Chats \ {c}
      BY <1>0, <1>2 DEF Locks, Places, Working
    <3>2. handler[j].pc \notin {"idle", "done"} <=> Working(j)
      BY DEF Working
    <3> QED BY <1>0, <1>3, <1>4, <1>5, <2>2, <3>1, <3>2 DEF Known, At
  <2> QED BY <2>1, <2>2
<1>9. Honest'
  <2> SUFFICES ASSUME faults = 0, NEW b \in Chats, NEW j \in Handlers, Unfinished(chat[b].tasks[j])
               PROVE  Doomed(b)' \/ Attended(b, j)'
    BY <1>4 DEF Honest
  <2>1. Doomed(b) => Doomed(b)'
    <3>1. \A k \in Handlers : At(k, "forgetting") => k # h
      BY <1>1 DEF At
    <3> QED BY <1>3, <1>4, <3>1 DEF Doomed, At
  <2>2. Attended(b, j) => Attended(b, j)'
    <3> SUFFICES ASSUME Attended(b, j) PROVE Attended(b, j)'
      OBVIOUS
    <3>1. j # h
      BY <1>0, <1>6 DEF Attended, Admission
    <3>2. Live(j)'
      BY <1>3, <1>4, <1>5, <3>1 DEF Attended, Live
    <3> QED BY <1>3, <1>4, <3>1, <3>2 DEF Attended
  <2> QED BY <1>0, <2>1, <2>2 DEF Honest
<1> QED BY <1>7, <1>8, <1>9 DEF Orderly

\* Removals and close, which leave the calls and the jobs where they are.
Stays ==
    /\ handler' = handler /\ admitted' = admitted /\ process' = process /\ faults' >= faults
    /\ \A j \in Handlers : job'[j].pc = job[j].pc
    /\ \A c \in Chats : /\ slot'[c].locked = slot[c].locked /\ slot'[c].gen >= slot[c].gen
                        /\ slot'[c].gen = slot[c].gen => slot'[c].removed = slot[c].removed
    /\ \A c \in Chats, j \in Handlers : Calmer(chat'[c].tasks[j], chat[c].tasks[j])
    /\ \A c \in Chats : chat'[c].gone => chat[c].gone \/ Settles(c)'
    /\ Closed => Closed'
\* What was seen to, still is.
Sees == faults' = 0 => \A c \in Chats :
    \/ Doomed(c)' \/ Settles(c)'
    \/ ~Doomed(c) /\ slot'[c] = slot[c] /\ ~Closed' /\ (chat[c].active => chat'[c].active)

LEMMA OutsideOrderly ==
    ASSUME Inv, Inv', Orderly, Stays, Sees, ClosingKnown'
    PROVE  Orderly'
<1>0. TypeOK /\ TypeOK' /\ Places /\ Eras /\ Admission /\ Fresh /\ Known /\ Honest /\ GoneQuiet
  BY DEF Inv, Orderly
<1>1. handler' = handler /\ \A j \in Handlers : /\ Home(j)' = Home(j) /\ Working(j)' = Working(j) /\ job'[j].pc = job[j].pc
                                                /\ Born(j)' = Born(j) /\ Admits(j)' = Admits(j)
  BY DEF Stays, Home, Working, Born, Admits
<1>2. faults' = 0 => faults = 0
  BY <1>0, FaultTypes DEF Stays
<1>3. Admission' /\ Fresh' /\ GoneQuiet'
  <2>1. Admission'
    BY <1>0, <1>1 DEF Stays, Admission
  <2>2. Fresh'
    BY <1>0, <1>1 DEF Stays, Fresh, Calmer
  <2>3. GoneQuiet'
    BY <1>0 DEF Stays, GoneQuiet, Settles, Calmer
  <2> QED BY <2>1, <2>2, <2>3
<1>4. Known'
  <2> SUFFICES ASSUME NEW j \in Handlers
               PROVE  /\ handler[j].pc \notin {"idle", "done", "recovering"} => \A k \in Handlers :
                            chat'[Home(j)].tasks[k].status = "running" => k \in handler[j].saw \/ k = j
                      /\ At(j, "forgetting") => handler[j].gen < slot'[Home(j)].gen
                      /\ At(j, "unstarting") => faults' > 0
                      /\ Working(j) /\ handler[j].gen = slot'[Home(j)].gen =>
                            /\ ~slot'[Home(j)].removed
                            /\ job'[j].pc # "none" /\ ~Closed' => job'[j].pc \in {"queued", "interrupting"}
    BY <1>1 DEF Known, At
  <2>1. Working(j) => /\ Home(j) \in Chats /\ handler[j].gen <= slot[Home(j)].gen /\ handler[j].gen \in Nat
                      /\ slot[Home(j)].gen \in Nat /\ slot'[Home(j)].gen \in Nat /\ slot'[Home(j)].gen >= slot[Home(j)].gen
    <3>1. /\ handler[j] \in CallType
          /\ \A c \in Chats : slot[c].gen \in Nat /\ slot'[c].gen \in Nat /\ slot'[c].gen >= slot[c].gen
      <4>1. slot \in [Chats -> SlotType] /\ slot' \in [Chats -> SlotType] /\ handler \in [Handlers -> CallType]
        BY <1>0 DEF TypeOK
      <4>2. /\ \A c \in Chats : slot[c].gen \in Nat /\ slot'[c].gen \in Nat
            /\ handler[j] \in CallType
        BY <4>1 DEF SlotType
      <4>3. \A c \in Chats : slot'[c].gen >= slot[c].gen
        BY DEF Stays
      <4> QED BY <4>2, <4>3
    <3> QED BY <1>0, <3>1 DEF Places, Eras, Working, CallType
  <2>2. handler[j].pc \notin {"idle", "done"} <=> Working(j)
    BY DEF Working
  <2>3. handler[j].pc \notin {"idle", "done", "recovering"} => \A k \in Handlers :
            chat'[Home(j)].tasks[k].status = "running" => k \in handler[j].saw \/ k = j
    BY <1>0, <2>1, <2>2 DEF Known, Stays, Calmer, Unfinished
  <2>4. At(j, "forgetting") => handler[j].gen < slot'[Home(j)].gen
    BY <1>0, <2>1, <2>2 DEF Known, At
  <2>5. At(j, "unstarting") => faults' > 0
    BY <1>0, <1>2 DEF Known, TypeOK
  <2>6. ASSUME Working(j), handler[j].gen = slot'[Home(j)].gen
        PROVE  /\ ~slot'[Home(j)].removed
               /\ job'[j].pc # "none" /\ ~Closed' => job'[j].pc \in {"queued", "interrupting"}
    <3>1. slot'[Home(j)].gen = slot[Home(j)].gen
      BY <2>1, <2>6
    <3>2. slot'[Home(j)].removed = slot[Home(j)].removed /\ (Closed => Closed')
      BY <2>1, <2>6, <3>1 DEF Stays
    <3>3. /\ ~slot[Home(j)].removed
          /\ job[j].pc # "none" /\ ~Closed => job[j].pc \in {"queued", "interrupting"}
      BY <1>0, <2>6, <3>1 DEF Known
    <3> QED BY <1>1, <3>2, <3>3
  <2> QED BY <2>3, <2>4, <2>5, <2>6
<1>5. Honest'
  <2> SUFFICES ASSUME faults' = 0, NEW c \in Chats, NEW j \in Handlers, Unfinished(chat'[c].tasks[j]), ~Doomed(c)'
               PROVE  Attended(c, j)'
    BY DEF Honest
  <2>1. /\ Unfinished(chat[c].tasks[j]) /\ chat'[c].tasks[j].status = chat[c].tasks[j].status
        /\ chat'[c].tasks[j].owner = chat[c].tasks[j].owner /\ chat'[c].tasks[j].gen = chat[c].tasks[j].gen
    BY DEF Stays, Calmer
  <2>2. ~Doomed(c) /\ slot'[c] = slot[c] /\ ~Closed' /\ (chat[c].active => chat'[c].active)
    BY DEF Sees, Settles
  <2>3. Attended(c, j)
    BY <1>0, <1>2, <2>1, <2>2 DEF Honest
  <2>4. Live(j)'
    BY <1>1, <2>2, <2>3 DEF Attended, Live
  <2> QED BY <1>1, <2>1, <2>2, <2>3, <2>4 DEF Attended, Stays
<1> QED BY <1>3, <1>4, <1>5 DEF Orderly

LEMMA CrashOrderly ==
    ASSUME Inv, Orderly, Crash
    PROVE  Orderly'
<1>0. TypeOK /\ Places /\ Fresh /\ GoneQuiet
  BY DEF Inv, Orderly
<1>1. chat' = chat /\ admitted' = {} /\ faults' \in Nat \ {0}
  <2>1. chat' = chat /\ admitted' = {} /\ faults' = faults + 1
    BY DEF Crash
  <2>2. faults \in Nat
    BY <1>0 DEF TypeOK
  <2> QED BY <2>1, <2>2
<1>2. \A j \in Handlers : /\ handler'[j].pc \in {"idle", "done"} /\ job'[j].pc \in {"none", "done"}
                          /\ (handler'[j].pc = "idle" <=> handler[j].pc = "idle")
                          /\ (job'[j].pc = "none" <=> job[j].pc = "none")
  BY DEF Crash, NoCall, NoJob, At, JobAt
<1>3. Admission'
  BY <1>1, <1>2, FS_EmptySet, ConversationAssumption DEF Admission, Admits
<1>4. Fresh'
  BY <1>0, <1>1, <1>2 DEF Fresh, Born
<1>5. Known'
  <2>1. \A j \in Handlers : ~Working(j)' /\ ~At(j, "forgetting")' /\ ~At(j, "unstarting")'
    BY <1>2 DEF Working, At
  <2> QED BY <1>2, <2>1 DEF Known
<1>6. Honest' /\ ClosingKnown' /\ GoneQuiet'
  <2>1. faults' # 0
    BY <1>1
  <2> QED BY <1>0, <1>1, <2>1 DEF Honest, ClosingKnown, GoneQuiet, Settles
<1> QED BY <1>3, <1>4, <1>5, <1>6 DEF Orderly

-----------------------------------------------------------------------------
(* Each action is a step of one of those kinds.                            *)

\* Where a call has a place for its task.
Starting == {"persisting", "acking", "unstarting"}

\* What going on changes, and what it does not.
LEMMA GoesOn ==
    ASSUME Inv, NEW h \in Handlers, Working(h), NEW pc \in CallPcs, Go(h, pc), NEW d, Commit(h, d)
    PROVE  /\ Home(h) \in Chats /\ handler'[h].pc = pc /\ handler'[h].chat = handler[h].chat
           /\ pc # "done" => handler'[h].saw = handler[h].saw
           /\ pc # "done" \/ job[h].pc # "none" => handler'[h].gen = handler[h].gen
           /\ \A j \in Handlers \ {h} : handler'[j] = handler[j]
           /\ \A c \in Chats : /\ slot'[c].gen = slot[c].gen /\ slot'[c].removed = slot[c].removed
                               /\ slot'[c].locked => slot[c].locked
           /\ chat'[Home(h)] = d /\ \A c \in Chats \ {Home(h)} : chat'[c] = chat[c]
<1>1. TypeOK /\ Home(h) \in Chats
  BY WorkingFacts DEF Inv
<1>2. /\ handler'[h].pc = pc /\ handler'[h].chat = handler[h].chat
      /\ pc # "done" \/ job[h].pc # "none" => handler'[h].gen = handler[h].gen
      /\ \A j \in Handlers \ {h} : handler'[j] = handler[j]
  BY <1>1, GoFacts
<1>3. pc # "done" => handler'[h].saw = handler[h].saw
  BY <1>1 DEF Go, TypeOK, CallType
<1>4. \A c \in Chats : /\ slot'[c].gen = slot[c].gen /\ slot'[c].removed = slot[c].removed
                       /\ slot'[c].locked => slot[c].locked
  BY <1>1 DEF Go, TypeOK, SlotType
<1>5. chat'[Home(h)] = d /\ \A c \in Chats \ {Home(h)} : chat'[c] = chat[c]
  BY <1>1 DEF Commit, TypeOK
<1> QED BY <1>1, <1>2, <1>3, <1>4, <1>5

\* Places that are kept, given and given up.
LEMMA PlacesGo ==
    ASSUME Orderly, NEW h \in Handlers
    PROVE  /\ IsFiniteSet(admitted) /\ Cardinality(admitted) <= MaxTasks
           /\ IsFiniteSet(admitted \ {h}) /\ Cardinality(admitted \ {h}) <= MaxTasks
           /\ Cardinality(admitted) < MaxTasks =>
                 IsFiniteSet(admitted \cup {h}) /\ Cardinality(admitted \cup {h}) <= MaxTasks
<1>1. IsFiniteSet(admitted) /\ Cardinality(admitted) <= MaxTasks /\ Cardinality(admitted) \in Nat /\ MaxTasks \in Nat
  BY FS_CardinalityType, ConversationAssumption DEF Orderly, Admission
<1>2. IsFiniteSet(admitted \ {h}) /\ Cardinality(admitted \ {h}) \in {Cardinality(admitted), Cardinality(admitted) - 1}
  BY <1>1, FS_RemoveElement
<1>3. IsFiniteSet(admitted \cup {h}) /\ Cardinality(admitted \cup {h}) \in {Cardinality(admitted), Cardinality(admitted) + 1}
  BY <1>1, FS_AddElement
<1> QED BY <1>1, <1>2, <1>3

LEMMA CallSteps ==
    ASSUME Inv, Inv', Orderly, NEW h \in Handlers, Working(h), UNCHANGED rest, faults' >= faults,
           NEW pc \in CallPcs \ {"idle", "recovering", "forgetting"}, Go(h, pc), NEW d, Commit(h, d),
           chat[Home(h)].active => d.active,
           d.gone => chat[Home(h)].gone,
           \A j \in Handlers : ~Calmer(d.tasks[j], chat[Home(h)].tasks[j])
                               => /\ j = h /\ Admissible(h) /\ d.tasks[h] = Started(h) /\ job[h].pc = "none"
                                  /\ pc \in {"acking", "unstarting"} \/ job'[h].pc = "queued",
           At(h, "recovering") /\ pc # "done" => \A j \in Handlers : d.tasks[j].status = "running" => j \in handler[h].saw,
           At(h, "forgetting") => faults' > 0 \/ \A j \in Handlers : ~Unfinished(d.tasks[j]),
           pc = "unstarting" => faults' > 0,
           \A j \in Handlers \ {h} : job'[j].pc = job[j].pc,
           \/ /\ admitted' = admitted /\ job'[h].pc = job[h].pc
              /\ handler[h].pc \in Starting <=> pc \in Starting
              /\ handler[h].pc \in {"acking", "unstarting"} => pc # "persisting"
           \/ /\ admitted' = admitted /\ handler[h].pc \in Starting /\ Live(h) /\ job'[h].pc = "queued"
              /\ pc = "compacting"
           \/ /\ admitted' = admitted \cup {h} /\ Cardinality(admitted) < MaxTasks /\ job'[h].pc = job[h].pc
              /\ At(h, "planning") /\ pc = "persisting"
           \/ /\ admitted' = admitted \ {h} /\ handler[h].pc \in Starting /\ job'[h].pc = job[h].pc
              /\ pc = "done" /\ (faults' > 0 \/ ~Live(h) \/ Task(h).status = "none")
    PROVE  Orderly'
<1>0. Admission
  BY DEF Orderly
<1>1. /\ Home(h) \in Chats /\ handler'[h].pc = pc /\ handler'[h].chat = handler[h].chat
      /\ pc # "done" => handler'[h].saw = handler[h].saw
      /\ pc # "done" \/ job[h].pc # "none" => handler'[h].gen = handler[h].gen
      /\ \A j \in Handlers \ {h} : handler'[j] = handler[j]
      /\ \A c \in Chats : /\ slot'[c].gen = slot[c].gen /\ slot'[c].removed = slot[c].removed
                          /\ slot'[c].locked => slot[c].locked
      /\ chat'[Home(h)] = d /\ \A c \in Chats \ {Home(h)} : chat'[c] = chat[c]
  BY GoesOn
<1>2. handler[h].pc \in Starting \cup {"planning"} => job[h].pc = "none"
  BY WorkingFacts DEF Starting, At
<1>3. \A j \in Handlers \ {h} : (j \in admitted' <=> j \in admitted) /\ Admits(j)' = Admits(j)
  BY <1>1 DEF Admits
<1>4. h \in admitted' <=> Admits(h)'
  BY <1>0, <1>1, <1>2 DEF Admission, Admits, Starting, At
<1>5. Admission'
  <2>1. IsFiniteSet(admitted') /\ Cardinality(admitted') <= MaxTasks
    BY PlacesGo
  <2> QED BY <1>0, <1>3, <1>4, <2>1 DEF Admission
<1>6. Within(Home(h)) /\ Home(h)' = Home(h)
  BY <1>1 DEF Within, Home
<1>7. Born(h) => Born(h)'
  BY <1>1, <1>2 DEF Born, Starting, Working, At
<1>8. \A j \in Handlers : ~Calmer(chat'[Home(h)].tasks[j], chat[Home(h)].tasks[j])
                         => j = h /\ Admissible(h) /\ chat'[Home(h)].tasks[h] = Started(h) /\ Born(h)' /\ Admits(h)'
                            /\ job[h].pc = "none"
  BY <1>1 DEF Born, Admits
<1>9. job'[h].pc = job[h].pc \/ (Live(h) /\ job'[h].pc = "queued" /\ job[h].pc = "none")
  BY <1>2
<1>10. At(h, "forgetting") => faults' > 0 \/ Settles(Home(h))'
  BY <1>1, <1>6 DEF Settles
<1>11. h \in admitted \ admitted' => faults' > 0 \/ ~Live(h) \/ Task(h).status = "none"
  OBVIOUS
<1>12. CallGoes(h)
  BY <1>1, <1>3, <1>5, <1>6, <1>7, <1>8, <1>9, <1>10, <1>11 DEF CallGoes
<1> QED BY <1>12, CallOrderly

\* A call that is not at its task.
LEMMA PlainSteps ==
    ASSUME Inv, Inv', Orderly, NEW h \in Handlers, Working(h), UNCHANGED <<rest, admitted>>, faults' >= faults,
           NEW pc \in CallPcs \ ({"idle", "recovering", "forgetting"} \cup Starting), Go(h, pc),
           handler[h].pc \notin Starting, NEW d, Commit(h, d), Calm(Home(h), d),
           At(h, "recovering") /\ pc # "done" => \A j \in Handlers : d.tasks[j].status = "running" => j \in handler[h].saw,
           At(h, "forgetting") => faults' > 0 \/ \A j \in Handlers : ~Unfinished(d.tasks[j]),
           \A j \in Handlers : job'[j].pc = job[j].pc
    PROVE  Orderly'
<1>1. pc # "unstarting" /\ pc # "persisting" /\ pc \notin Starting
  BY DEF Starting
<1> QED BY <1>1, CallSteps DEF Calm, Starting

LEMMA HandlersOrderly ==
    ASSUME Inv, Inv', Orderly, NEW h \in Handlers, Handle(h)
    PROVE  Orderly'
<1>0. /\ TypeOK /\ faults \in Nat /\ faults >= faults /\ faults + 1 >= faults /\ faults + 1 > 0
      /\ Fresh /\ Known /\ handler \in [Handlers -> CallType]
  BY DEF Inv, TypeOK, Orderly
<1>1. Working(h)
  BY DEF Handle, Recover, Rejoin, Activate, Claim, Forget, Note, Plan, Reply, Persist, Ack, StartFails, Unstart,
         UnstartFails, CallFails, At, Working
<1>2. Home(h) \in Chats /\ (handler[h].pc # "compacting" => job[h].pc = "none")
  BY <1>1, WorkingFacts DEF At
<1>3. /\ {"rejoining", "activating", "claiming", "noting", "planning", "replying", "compacting", "done"}
            \subseteq CallPcs \ ({"idle", "recovering", "forgetting"} \cup Starting)
      /\ Starting \subseteq CallPcs \ {"idle", "recovering", "forgetting"}
  BY DEF CallPcs, Starting
<1>4. /\ Calm(Home(h), chat[Home(h)]) /\ Calm(Home(h), Rejoined(h)) /\ Calm(Home(h), Activated(h))
      /\ Calm(Home(h), Received(h)) /\ Calm(Home(h), Remembered(h)) /\ Calm(Home(h), Recovered(h))
      /\ Calm(Home(h), Forgotten(h)) /\ Calm(Home(h), Interrupted(Home(h), {h}))
  BY <1>2, SameCalm, PartsCalm, RecoveredCalm, ForgottenCalm, InterruptedCalm
\* The calls that are not at their task.
<1>5. CASE Recover(h)
  <2>1. At(h, "recovering") /\ Commit(h, Recovered(h)) /\ UNCHANGED <<tasksAlone, rest, faults>>
    BY <1>5 DEF Recover
  <2>2. PICK pc \in {"rejoining", "activating", "done"} : Go(h, pc)
    BY <1>5 DEF Recover
  <2>3. \A j \in Handlers : Recovered(h).tasks[j].status = "running" => j \in handler[h].saw
    BY <1>2, RecoveredCalm
  <2>4. handler[h].pc \notin Starting /\ ~At(h, "forgetting") /\ job' = job /\ admitted' = admitted
    BY <2>1 DEF At, Starting, tasksAlone
  <2> QED BY <1>0, <1>1, <1>3, <1>4, <2>1, <2>2, <2>3, <2>4, PlainSteps
<1>6. ASSUME handler[h].pc \in {"rejoining", "activating", "claiming", "noting", "replying", "compacting", "planning"},
             NEW pc \in {"claiming", "noting", "planning", "replying", "compacting", "done"}, Go(h, pc),
             NEW d \in {chat[Home(h)], Rejoined(h), Activated(h), Received(h), Remembered(h)}, Commit(h, d),
             job' = job, admitted' = admitted, UNCHANGED rest, faults' = faults
      PROVE  Orderly'
  <2>1. handler[h].pc \notin Starting /\ ~At(h, "forgetting") /\ ~At(h, "recovering")
    BY <1>6 DEF At, Starting
  <2> QED BY <1>0, <1>1, <1>3, <1>4, <1>6, <2>1, PlainSteps
<1>7. CASE Rejoin(h) \/ Activate(h) \/ Note(h) \/ Reply(h)
  BY <1>6, <1>7 DEF Rejoin, Activate, Note, Reply, At, tasksAlone
<1>8. CASE Claim(h)
  <2>1. At(h, "claiming") /\ Commit(h, Received(h)) /\ UNCHANGED <<admitted, rest, faults>>
    BY <1>8 DEF Claim
  <2>2. CASE (Go(h, "noting") \/ Go(h, "done")) /\ UNCHANGED job
    BY <1>6, <2>1, <2>2 DEF At
  <2>3. CASE /\ Live(h)
             /\ slot' = [slot EXCEPT ![Home(h)].gen = @ + 1]
             /\ handler' = [handler EXCEPT ![h].pc = "forgetting"]
             /\ Cancel(JobsOf(Home(h)))
    <3>1. \A j \in Handlers : job'[j].pc = job[j].pc
      BY <1>0, <2>3, CancelFacts
    <3> QED BY <2>1, <2>3, <3>1, ForgetBegins
  <2> QED BY <1>8, <2>2, <2>3 DEF Claim
<1>9. CASE Forget(h)
  <2>1. At(h, "forgetting") /\ Commit(h, Forgotten(h)) /\ Go(h, "done") /\ UNCHANGED <<tasksAlone, rest, faults>>
    BY <1>9 DEF Forget
  <2>2. handler[h].pc \notin Starting /\ ~At(h, "recovering") /\ job' = job /\ admitted' = admitted
    BY <2>1 DEF At, Starting, tasksAlone
  <2>3. \A j \in Handlers : ~Unfinished(Forgotten(h).tasks[j])
    BY <1>2, ForgottenCalm
  <2> QED BY <1>0, <1>1, <1>3, <1>4, <2>1, <2>2, <2>3, PlainSteps
<1>10. CASE CallFails(h)
  <2>1. /\ handler[h].pc \notin Starting /\ Go(h, "done") /\ faults' = faults + 1 /\ UNCHANGED <<tasksAlone, rest>>
    BY <1>10 DEF CallFails, Starting
  <2>2. PICK d \in {Edits(h), chat[Home(h)]} : Commit(h, d)
    BY <1>10 DEF CallFails
  <2>3. Calm(Home(h), d)
    BY <1>4, <2>2 DEF Edits
  <2>4. faults' >= faults /\ faults' > 0 /\ job' = job /\ admitted' = admitted
    BY <1>0, <2>1 DEF tasksAlone
  <2> QED BY <1>1, <1>3, <2>1, <2>2, <2>3, <2>4, PlainSteps
\* The calls that have a task, or are given a place for it.
<1>11. CASE Plan(h)
  <2>1. At(h, "planning") /\ UNCHANGED <<chat, job, ran, sent, rest, faults>>
    BY <1>11 DEF Plan
  <2>2. Commit(h, chat[Home(h)])
    BY <1>0, <1>2, <2>1 DEF Commit, TypeOK
  <2>3. CASE (Go(h, "replying") \/ Go(h, "done")) /\ UNCHANGED admitted
    BY <1>6, <2>1, <2>2, <2>3 DEF At
  <2>4. CASE Cardinality(admitted) < MaxTasks /\ admitted' = admitted \cup {h} /\ Go(h, "persisting")
    <3>1. "persisting" \in CallPcs \ {"idle", "recovering", "forgetting"} /\ ~At(h, "recovering") /\ ~At(h, "forgetting")
      BY <1>3, <2>1 DEF Starting, At
    <3>2. \A j \in Handlers : Calmer(chat[Home(h)].tasks[j], chat[Home(h)].tasks[j])
      BY <1>4 DEF Calm
    <3> QED BY <1>0, <1>1, <2>1, <2>2, <2>4, <3>1, <3>2, CallSteps
  <2> QED BY <1>11, <2>3, <2>4 DEF Plan
<1>12. ASSUME handler[h].pc \in Starting, NEW d, Commit(h, d), chat[Home(h)].active => d.active, d.gone => chat[Home(h)].gone,
              faults' \in {faults, faults + 1}, UNCHANGED rest,
              \/ Launch(h) /\ Live(h)
              \/ Go(h, "acking") /\ At(h, "persisting") /\ UNCHANGED <<admitted, job>>
              \/ Go(h, "unstarting") /\ UNCHANGED <<admitted, job>> /\ faults' > 0
              \/ Withdraw(h) /\ Calm(Home(h), d) /\ (faults' > 0 \/ ~Live(h) \/ Task(h).status = "none"),
              \A j \in Handlers : ~Calmer(d.tasks[j], chat[Home(h)].tasks[j])
                                  => j = h /\ Admissible(h) /\ d.tasks[h] = Started(h)
       PROVE  Orderly'
  <2>1. /\ job[h].pc = "none" /\ ~At(h, "recovering") /\ ~At(h, "forgetting") /\ faults' >= faults
        /\ {"compacting", "done", "acking", "unstarting"} \subseteq CallPcs \ {"idle", "recovering", "forgetting"}
    BY <1>0, <1>2, <1>3, <1>12 DEF At, Starting
  <2>2. CASE Launch(h) /\ Live(h)
    <3>1. job'[h].pc = "queued" /\ (\A j \in Handlers \ {h} : job'[j].pc = job[j].pc) /\ Go(h, "compacting")
          /\ admitted' = admitted
      BY <1>0, <2>2 DEF Launch, NoJob, TypeOK
    <3> QED BY <1>1, <1>12, <2>1, <2>2, <3>1, CallSteps
  <2>3. CASE Go(h, "acking") /\ At(h, "persisting") /\ UNCHANGED <<admitted, job>>
    <3>1. "acking" \in Starting
      BY DEF Starting
    <3> QED BY <1>1, <1>12, <2>1, <2>3, <3>1, CallSteps
  <2>4. CASE Go(h, "unstarting") /\ UNCHANGED <<admitted, job>> /\ faults' > 0
    <3>1. "unstarting" \in Starting
      BY DEF Starting
    <3> QED BY <1>1, <1>12, <2>1, <2>4, <3>1, CallSteps
  <2>5. CASE Withdraw(h) /\ Calm(Home(h), d) /\ (faults' > 0 \/ ~Live(h) \/ Task(h).status = "none")
    <3>1. Go(h, "done") /\ job' = job /\ admitted' = admitted \ {h} /\ \A j \in Handlers : Calmer(d.tasks[j], chat[Home(h)].tasks[j])
      BY <2>5 DEF Withdraw, Calm
    <3> QED BY <1>1, <1>12, <2>1, <2>5, <3>1, CallSteps
  <2> QED BY <1>12, <2>2, <2>3, <2>4, <2>5
<1>13. CASE Persist(h)
  <2>1. At(h, "persisting") /\ handler[h].pc \in Starting /\ UNCHANGED <<ran, sent, rest, faults>>
    BY <1>13 DEF Persist, At, Starting
  <2>2. PICK d \in Persisted(h) : Commit(h, d)
    BY <1>13 DEF Persist
  <2>3. /\ ~Admissible(h) => Calm(Home(h), d)
        /\ \A j \in Handlers : ~Calmer(d.tasks[j], chat[Home(h)].tasks[j])
                               => j = h /\ Admissible(h) /\ d.tasks[j] = Started(h)
        /\ d.active = chat[Home(h)].active /\ d.gone = chat[Home(h)].gone
    BY <1>2, PersistedCalm
  <2>4. Task(h).status = "none"
    BY <1>0, <1>2, <2>1 DEF Fresh, Born, At, Task
  <2>5. \/ Live(h) /\ Launch(h)
        \/ Go(h, "acking") /\ UNCHANGED <<admitted, job>>
        \/ ~Admissible(h) /\ Withdraw(h)
    BY <1>13 DEF Persist, Admissible
  <2> QED BY <1>12, <2>1, <2>2, <2>3, <2>4, <2>5
<1>14. CASE Ack(h)
  <2>1. At(h, "acking") /\ handler[h].pc \in Starting /\ Commit(h, Remembered(h)) /\ UNCHANGED <<ran, sent, rest, faults>>
    BY <1>14 DEF Ack, At, Starting
  <2>2. (Live(h) /\ Launch(h)) \/ (~Live(h) /\ Withdraw(h))
    BY <1>14 DEF Ack
  <2> QED BY <1>4, <1>12, <2>1, <2>2 DEF Calm
<1>15. CASE StartFails(h)
  <2>1. /\ handler[h].pc \in Starting /\ Go(h, "unstarting") /\ faults' = faults + 1 /\ UNCHANGED <<tasksAlone, rest>>
    BY <1>15 DEF StartFails, At, Starting
  <2>2. PICK d \in Persisted(h) \cup {chat[Home(h)], Remembered(h)} : Commit(h, d)
    BY <1>15 DEF StartFails
  <2>3. /\ \A j \in Handlers : ~Calmer(d.tasks[j], chat[Home(h)].tasks[j])
                               => j = h /\ Admissible(h) /\ d.tasks[j] = Started(h)
        /\ chat[Home(h)].active => d.active
        /\ d.gone => chat[Home(h)].gone
    <3>1. CASE d \in Persisted(h)
      BY <1>2, <3>1, PersistedCalm
    <3>2. CASE d \in {chat[Home(h)], Remembered(h)}
      BY <1>4, <3>2 DEF Calm
    <3> QED BY <2>2, <3>1, <3>2
  <2> QED BY <1>0, <1>12, <2>1, <2>2, <2>3 DEF tasksAlone
<1>16. CASE Unstart(h) \/ UnstartFails(h)
  <2>1. At(h, "unstarting") /\ handler[h].pc \in Starting /\ Withdraw(h) /\ UNCHANGED <<ran, sent, rest, faults>>
    BY <1>16 DEF Unstart, UnstartFails, At, Starting
  <2>2. PICK d \in {Interrupted(Home(h), {h}), chat[Home(h)]} : Commit(h, d)
    BY <1>16 DEF Unstart, UnstartFails
  <2>3. Calm(Home(h), d) /\ faults' > 0
    BY <1>0, <1>4, <2>1, <2>2 DEF Known
  <2> QED BY <1>12, <2>1, <2>2, <2>3 DEF Calm
<1> QED BY <1>5, <1>7, <1>8, <1>9, <1>10, <1>11, <1>13, <1>14, <1>15, <1>16 DEF Handle

LEMMA JobGoesOn ==
    ASSUME Inv, NEW h \in Handlers, job[h].pc # "none", NEW pc \in JobPcs, NEW held \in BOOLEAN, JobGo(h, pc, held)
    PROVE  /\ job'[h].pc = pc /\ \A j \in Handlers \ {h} : job'[j] = job[j]
           /\ \A c \in Chats : slot'[c].gen = slot[c].gen /\ slot'[c].removed = slot[c].removed
           /\ \A c \in Chats : slot'[c].locked => slot[c].locked \/ (held /\ ~JobHolds(h))
<1>1. /\ job \in [Handlers -> JobType] /\ slot \in [Chats -> SlotType] /\ Home(h) \in Chats
  BY JobFacts DEF Inv, TypeOK
<1>2. job'[h].pc = pc /\ \A j \in Handlers \ {h} : job'[j] = job[j]
  BY <1>1 DEF JobGo, JobType, EndedJob, NoJob
<1>3. \A c \in Chats : slot'[c].gen = slot[c].gen /\ slot'[c].removed = slot[c].removed
  BY <1>1 DEF JobGo, SlotType
<1>4. JobHolds(h) \in BOOLEAN
  BY DEF JobHolds
<1>5. \A c \in Chats : slot'[c].locked => slot[c].locked \/ (held /\ ~JobHolds(h))
  BY <1>1, <1>4 DEF JobGo, SlotType
<1> QED BY <1>2, <1>3, <1>5

\* A job that goes on to pc, by an edit that leaves the document as d.
LEMMA JobSteps ==
    ASSUME Inv, Inv', Orderly, NEW h \in Handlers, job[h].pc \notin {"none", "done"},
           UNCHANGED <<process, handler, removal, closing>>, faults' >= faults,
           NEW d, Commit(h, d), NEW pc, pc \notin {"none", "queued"}, job'[h].pc = pc,
           \A j \in Handlers \ {h} : job'[j].pc = job[j].pc,
           \A c \in Chats : slot'[c].gen = slot[c].gen /\ slot'[c].removed = slot[c].removed,
           \A c \in Chats : slot'[c].locked => slot[c].locked \/ Live(h),
           admitted' = IF pc = "done" THEN admitted \ {h} ELSE admitted,
           JobAt(h, "ended") => pc = "done",
           Live(h) /\ slot[Home(h)].locked /\ job[h].pc \in {"queued", "interrupting"} => pc = "interrupting",
           Calm(Home(h), d) \/ (Valid(h) /\ d = Saved(h)),
           faults' = 0 /\ Attended(Home(h), h) /\ Unfinished(Task(h)) /\ Unfinished(d.tasks[h])
                => pc \in IF d.tasks[h].status = "running" THEN Going ELSE Reporting
    PROVE  Orderly'
<1>1. Home(h) \in Chats /\ chat \in [Chats -> DocumentType]
  BY JobFacts DEF Inv, TypeOK
<1>2. chat'[Home(h)] = d /\ \A c \in Chats \ {Home(h)} : chat'[c] = chat[c]
  BY <1>1 DEF Commit
<1>3. /\ chat[Home(h)].active => d.active
      /\ d.gone => chat[Home(h)].gone
      /\ \A j \in Handlers : ~Calmer(d.tasks[j], chat[Home(h)].tasks[j])
                             => /\ j = h /\ Valid(h) /\ d.tasks[h].status \in {"completed", "failed"}
                                /\ d.tasks[h].owner = Task(h).owner /\ d.tasks[h].gen = Task(h).gen
  BY <1>1, SavedCalm DEF Calm
<1>4. Within(Home(h))
  BY <1>2, <1>3 DEF Within
<1>5. \A c \in Chats : slot'[c].locked => slot[c].locked \/ ~Closed
  BY DEF Live
<1>6. JobGoes(h)
  BY <1>2, <1>3, <1>4, <1>5 DEF JobGoes
<1> QED BY <1>6, JobOrderly

LEMMA JobsOrderly ==
    ASSUME Inv, Inv', Orderly, NEW h \in Handlers, Run(h)
    PROVE  Orderly'
<1>0. /\ TypeOK /\ faults \in Nat /\ faults >= faults /\ faults + 1 >= faults /\ faults + 1 # 0 /\ job[h] \in JobType
      /\ job \in [Handlers -> JobType] /\ chat \in [Chats -> DocumentType]
  BY DEF Inv, TypeOK
<1>1. job[h].pc \notin {"none", "done"}
  BY DEF Run, Begin, Read, Return, Collect, Finish, Send, SendFails, Deliver, Compact, Raise, JobFails, InterruptJob,
         InterruptFails, JobDone, JobAt
<1>2. Home(h) \in Chats
  BY <1>1, JobFacts
<1>3. {"reading", "running", "finishing", "sending", "delivering", "compacting", "interrupting", "ended", "done"}
          \subseteq JobPcs \ {"none", "queued"}
  BY DEF JobPcs
<1>4. /\ Calm(Home(h), chat[Home(h)]) /\ Calm(Home(h), Remembered(h)) /\ Calm(Home(h), Interrupted(Home(h), {h}))
      /\ Calm(Home(h), Delivered(h, job[h].ok)) /\ (Calm(Home(h), Saved(h)) \/ Valid(h))
  BY <1>2, SameCalm, PartsCalm, InterruptedCalm, DeliveredCalm, SavedCalm
<1>5. chat' = chat => Commit(h, chat[Home(h)])
  BY <1>0, <1>2 DEF Commit
\* Who attends to an unfinished task is able to finish it.
<1>6. Attended(Home(h), h) => /\ Live(h) /\ chat[Home(h)].active /\ Task(h).owner = process /\ Task(h).gen = handler[h].gen
                              /\ job[h].pc \in IF Task(h).status = "running" THEN Going ELSE Reporting
                              /\ Task(h).status # "none" /\ (Task(h).status = "running" => Valid(h))
  BY DEF Attended, Task, Going, Reporting, Valid
\* A step from one await to the next, with the lock or without.
<1>7. ASSUME NEW d, Commit(h, d), Calm(Home(h), d) \/ (Valid(h) /\ d = Saved(h)),
             NEW pc \in JobPcs \ {"none", "queued", "done"}, NEW held \in BOOLEAN, JobGo(h, pc, held),
             held => JobHolds(h) \/ Live(h), ~JobAt(h, "ended"),
             UNCHANGED service, faults' >= faults,
             job[h].pc \in {"queued", "interrupting"} /\ Live(h) => pc = "interrupting" \/ ~slot[Home(h)].locked,
             faults' = 0 /\ Attended(Home(h), h) /\ Unfinished(Task(h)) /\ Unfinished(d.tasks[h])
                => pc \in IF d.tasks[h].status = "running" THEN Going ELSE Reporting
      PROVE  Orderly'
  <2>1. /\ job'[h].pc = pc /\ \A j \in Handlers \ {h} : job'[j] = job[j]
        /\ \A c \in Chats : slot'[c].gen = slot[c].gen /\ slot'[c].removed = slot[c].removed
        /\ \A c \in Chats : slot'[c].locked => slot[c].locked \/ Live(h)
    BY <1>1, <1>7, JobGoesOn
  <2> QED BY <1>1, <1>7, <2>1, JobSteps DEF service
<1>8. CASE Begin(h)
  <2>1. JobAt(h, "queued") /\ UNCHANGED <<chat, service, ran, sent, faults>> /\ ~JobAt(h, "ended")
    BY <1>8 DEF Begin, JobAt
  <2>2. Attended(Home(h), h) => Live(h) /\ Task(h).status = "running"
    BY <1>6, <2>1 DEF JobAt, Reporting
  <2>3. CASE Live(h) /\ ~slot[Home(h)].locked /\ JobGo(h, "reading", TRUE)
    BY <1>0, <1>3, <1>4, <1>5, <1>7, <2>1, <2>2, <2>3 DEF Going, Task
  <2>4. CASE ~Live(h) /\ JobGo(h, "ended", FALSE)
    BY <1>0, <1>3, <1>4, <1>5, <1>7, <2>1, <2>2, <2>4
  <2> QED BY <1>8, <2>3, <2>4 DEF Begin
<1>9. CASE Read(h)
  <2>1. JobAt(h, "reading") /\ UNCHANGED <<chat, service, sent, faults>> /\ ~JobAt(h, "ended")
        /\ job[h].pc \notin {"queued", "interrupting"}
    BY <1>9 DEF Read, JobAt
  <2>2. Attended(Home(h), h) => Valid(h) /\ Task(h).status = "running"
    BY <1>6, <2>1 DEF JobAt, Reporting
  <2>3. CASE Valid(h) /\ JobGo(h, "running", FALSE)
    BY <1>0, <1>3, <1>4, <1>5, <1>7, <2>1, <2>2, <2>3 DEF Going, Task
  <2>4. CASE ~Valid(h) /\ JobGo(h, "ended", FALSE)
    BY <1>0, <1>3, <1>4, <1>5, <1>7, <2>1, <2>2, <2>4
  <2> QED BY <1>9, <2>3, <2>4 DEF Read
<1>10. CASE Collect(h)
  <2>1. JobAt(h, "returned") /\ UNCHANGED <<chat, service, ran, sent, faults>> /\ ~JobAt(h, "ended")
        /\ job[h].pc \notin {"queued", "interrupting"}
    BY <1>10 DEF Collect, JobAt
  <2>2. Attended(Home(h), h) => Live(h) /\ Task(h).status = "running"
    BY <1>6, <2>1 DEF JobAt, Reporting
  <2>3. CASE Live(h) /\ JobGo(h, "finishing", TRUE)
    BY <1>0, <1>3, <1>4, <1>5, <1>7, <2>1, <2>2, <2>3 DEF Going, Task
  <2>4. CASE ~Live(h) /\ JobGo(h, "ended", FALSE)
    BY <1>0, <1>3, <1>4, <1>5, <1>7, <2>1, <2>2, <2>4
  <2> QED BY <1>10, <2>3, <2>4 DEF Collect
<1>11. CASE Finish(h)
  <2>1. JobAt(h, "finishing") /\ Commit(h, Saved(h)) /\ UNCHANGED <<service, ran, sent, faults>> /\ ~JobAt(h, "ended")
        /\ job[h].pc \notin {"queued", "interrupting"} /\ JobHolds(h)
    BY <1>11 DEF Finish, JobAt, JobHolds
  <2>2. Attended(Home(h), h) => Valid(h) /\ Saved(h).tasks[h].status # "running"
    BY <1>2, <1>6, <2>1, SavedCalm DEF JobAt, Reporting
  <2>3. CASE JobGo(h, "interrupting", FALSE)
    BY <1>0, <1>3, <1>4, <1>7, <2>1, <2>2, <2>3 DEF Reporting
  <2>4. CASE Valid(h) /\ JobGo(h, "sending", TRUE)
    BY <1>0, <1>3, <1>4, <1>7, <2>1, <2>2, <2>4 DEF Reporting
  <2>5. CASE ~Valid(h) /\ JobGo(h, "ended", FALSE)
    BY <1>0, <1>3, <1>4, <1>7, <2>1, <2>2, <2>5
  <2> QED BY <1>11, <2>3, <2>4, <2>5 DEF Finish, After
<1>12. CASE Deliver(h)
  <2>1. JobAt(h, "delivering") /\ Commit(h, Delivered(h, job[h].ok)) /\ UNCHANGED <<service, ran, sent, faults>>
        /\ ~JobAt(h, "ended") /\ job[h].pc \notin {"queued", "interrupting"} /\ JobHolds(h)
    BY <1>12 DEF Deliver, JobAt, JobHolds
  <2>2. Attended(Home(h), h) => ~Unfinished(Delivered(h, job[h].ok).tasks[h])
    BY <1>2, <1>6, <2>1, DeliveredCalm DEF JobAt, Going
  <2>3. JobGo(h, "interrupting", FALSE) \/ JobGo(h, "compacting", TRUE)
    BY <1>12 DEF Deliver, After
  <2> QED BY <1>0, <1>3, <1>4, <1>7, <2>1, <2>2, <2>3
<1>13. CASE Compact(h)
  <2>1. JobAt(h, "compacting") /\ Commit(h, Remembered(h)) /\ UNCHANGED <<service, ran, sent, faults>>
        /\ ~JobAt(h, "ended") /\ job[h].pc \notin {"queued", "interrupting"} /\ JobHolds(h)
    BY <1>13 DEF Compact, JobAt, JobHolds
  <2>2. ~Attended(Home(h), h)
    BY <1>6, <2>1 DEF JobAt, Going, Reporting
  <2>3. JobGo(h, "interrupting", FALSE) \/ JobGo(h, "ended", FALSE)
    BY <1>13 DEF Compact, After
  <2> QED BY <1>0, <1>3, <1>4, <1>7, <2>1, <2>2, <2>3
<1>14. CASE Raise(h)
  <2>1. /\ job[h].pc \in {"queued", "reading", "running", "returned", "sending"} /\ JobGo(h, "interrupting", FALSE)
        /\ UNCHANGED <<chat, service, ran, sent, faults>> /\ ~JobAt(h, "ended")
    BY <1>14 DEF Raise, JobAt
  <2> QED BY <1>0, <1>3, <1>4, <1>5, <1>7, <2>1 DEF Going, Reporting
<1>15. CASE JobFails(h)
  <2>1. /\ job[h].pc \in {"reading", "finishing", "delivering", "compacting"} /\ JobHolds(h) /\ ~JobAt(h, "ended")
        /\ JobGo(h, "interrupting", FALSE) /\ faults' = faults + 1 /\ UNCHANGED <<service, ran, sent>>
    BY <1>15 DEF JobFails, JobHolds, JobAt
  <2>2. PICK d \in {JobEdits(h), chat[Home(h)]} : Commit(h, d)
    BY <1>15 DEF JobFails
  <2>3. Calm(Home(h), d) \/ (Valid(h) /\ d = Saved(h))
    BY <1>4, <2>2 DEF JobEdits
  <2> QED BY <1>0, <1>3, <1>7, <2>1, <2>2, <2>3
\* A step that leaves the locks as they are.
<1>16. ASSUME NEW d, Commit(h, d), Calm(Home(h), d), NEW pc, pc \notin {"none", "queued"}, job'[h].pc = pc,
              \A j \in Handlers \ {h} : job'[j] = job[j], slot' = slot,
              UNCHANGED <<process, handler, removal, closing>>, faults' >= faults,
              admitted' = IF pc = "done" THEN admitted \ {h} ELSE admitted, JobAt(h, "ended") => pc = "done",
              job[h].pc \in {"queued", "interrupting"} /\ Live(h) => ~slot[Home(h)].locked,
              faults' = 0 /\ Attended(Home(h), h) /\ Unfinished(Task(h)) /\ Unfinished(d.tasks[h])
                => pc \in IF d.tasks[h].status = "running" THEN Going ELSE Reporting
       PROVE  Orderly'
  BY <1>1, <1>16, JobSteps
<1>17. CASE Return(h)
  <2>1. JobAt(h, "running") /\ UNCHANGED <<chat, slot, service, ran, sent, faults>> /\ ~JobAt(h, "ended")
        /\ job[h].pc \notin {"queued", "interrupting"}
    BY <1>17 DEF Return, JobAt
  <2>2. job'[h].pc \in {"returned", "interrupting"} /\ \A j \in Handlers \ {h} : job'[j] = job[j]
    BY <1>0, <1>17 DEF Return, JobType
  <2>3. Attended(Home(h), h) => Task(h).status = "running"
    BY <1>6, <2>1 DEF JobAt, Reporting
  <2> QED BY <1>0, <1>4, <1>5, <1>16, <2>1, <2>2, <2>3 DEF service, Going, Task
<1>18. CASE Send(h) \/ SendFails(h)
  <2>1. JobAt(h, "sending") /\ UNCHANGED <<chat, slot, service, ran, faults>> /\ ~JobAt(h, "ended")
        /\ job[h].pc \notin {"queued", "interrupting"}
    BY <1>18 DEF Send, SendFails, JobAt
  <2>2. job'[h].pc = "delivering" /\ \A j \in Handlers \ {h} : job'[j] = job[j]
    BY <1>0, <1>18 DEF Send, SendFails, JobType
  <2>3. Attended(Home(h), h) => Task(h).status # "running"
    BY <1>6, <2>1 DEF JobAt, Going
  <2> QED BY <1>0, <1>4, <1>5, <1>16, <2>1, <2>2, <2>3 DEF service, Reporting, Task
<1>19. CASE InterruptJob(h) \/ InterruptFails(h)
  <2>1. /\ JobAt(h, "interrupting") /\ ~JobAt(h, "ended") /\ UNCHANGED <<slot, service, ran, sent>>
        /\ faults' \in {faults, faults + 1} /\ job' = [job EXCEPT ![h] = EndedJob]
    BY <1>19 DEF InterruptJob, InterruptFails, JobAt
  <2>2. job'[h].pc = "ended" /\ \A j \in Handlers \ {h} : job'[j] = job[j]
    BY <1>0, <2>1 DEF EndedJob, NoJob
  <2>3. Live(h) => ~slot[Home(h)].locked
    BY <1>19 DEF InterruptJob, InterruptFails
  <2>4. CASE InterruptJob(h) /\ Live(h)
    <3>1. Commit(h, Interrupted(Home(h), {h}))
      BY <2>4 DEF InterruptJob
    <3>2. Attended(Home(h), h) => ~Unfinished(Interrupted(Home(h), {h}).tasks[h])
      BY <1>2, <1>6, InterruptedCalm DEF Task
    <3> QED BY <1>0, <1>4, <1>16, <2>1, <2>2, <2>3, <3>1, <3>2 DEF service
  <2>5. CASE InterruptJob(h) /\ ~Live(h)
    <3>1. chat' = chat
      BY <2>5 DEF InterruptJob
    <3> QED BY <1>0, <1>4, <1>5, <1>6, <1>16, <2>1, <2>2, <2>3, <2>5, <3>1 DEF service
  <2>6. CASE InterruptFails(h)
    <3>1. PICK d \in {Interrupted(Home(h), {h}), chat[Home(h)]} : Commit(h, d)
      BY <2>6 DEF InterruptFails
    <3>2. faults' >= faults /\ faults' # 0
      BY <1>0, <2>6 DEF InterruptFails
    <3> QED BY <1>4, <1>16, <2>1, <2>2, <2>3, <3>1, <3>2 DEF service
  <2> QED BY <1>19, <2>4, <2>5, <2>6
<1>20. CASE JobDone(h)
  <2>1. JobAt(h, "ended") /\ admitted' = admitted \ {h} /\ UNCHANGED <<chat, slot, handler, rest, ran, sent, faults>>
        /\ job[h].pc \notin {"queued", "interrupting"}
    BY <1>20 DEF JobDone, JobAt
  <2>2. job'[h].pc = "done" /\ \A j \in Handlers \ {h} : job'[j] = job[j]
    BY <1>0, <1>20 DEF JobDone, JobType
  <2>3. ~Attended(Home(h), h)
    BY <1>6, <2>1 DEF JobAt, Going, Reporting
  <2> QED BY <1>0, <1>4, <1>5, <1>16, <2>1, <2>2, <2>3 DEF rest
<1> QED BY <1>8, <1>9, <1>10, <1>11, <1>12, <1>13, <1>14, <1>15, <1>17, <1>18, <1>19, <1>20 DEF Run

LEMMA OutsidesOrderly ==
    ASSUME Inv, Inv', Orderly, (\E x \in Removals : Remove(x) \/ Removing(x)) \/ Close \/ Closes
    PROVE  Orderly'
<1>0. /\ TypeOK /\ Places /\ Locks /\ Admission /\ Honest /\ GoneQuiet /\ ClosingKnown
      /\ chat \in [Chats -> DocumentType] /\ slot \in [Chats -> SlotType] /\ removal \in [Removals -> RemovalType]
      /\ closing \in ClosingType /\ faults \in Nat /\ faults >= faults /\ faults + 1 >= faults /\ faults + 1 # 0
      /\ closing.left \subseteq Chats
  BY DEF Inv, TypeOK, ClosingType, Orderly
<1>1. /\ \A c \in Chats, j \in Handlers : Calmer(chat[c].tasks[j], chat[c].tasks[j])
      /\ \A c \in Chats : slot[c].gen \in Nat /\ slot[c].gen >= slot[c].gen /\ slot[c].gen + 1 >= slot[c].gen
                          /\ slot[c].gen + 1 # slot[c].gen
  BY <1>0, ChatTypes, CalmTasks DEF SlotType
<1>2. ASSUME handler' = handler, \A j \in Handlers : job'[j].pc = job[j].pc
      PROVE  \A j \in Handlers : /\ Home(j)' = Home(j) /\ Running(j)' = Running(j) /\ At(j, "forgetting")' = At(j, "forgetting")
  BY <1>2 DEF Home, Running, Ended, At
<1>3. ASSUME NEW x \in Removals, Remove(x) PROVE Orderly'
  <2>1. PICK c \in Chats :
          /\ slot' = [slot EXCEPT ![c].gen = @ + 1, ![c].removed = TRUE]
          /\ removal' = [removal EXCEPT ![x] = [pc |-> "locking", chat |-> c, waits |-> JobsOf(c)]]
          /\ Cancel(JobsOf(c))
    BY <1>3 DEF Remove
  <2>2. UNCHANGED <<chat, process, admitted, handler, closing, faults>> /\ removal[x].pc = "idle"
    BY <1>3 DEF Remove
  <2>3. \A j \in Handlers : job'[j].pc = job[j].pc
    BY <1>0, <2>1, CancelFacts
  <2>4. /\ \A b \in Chats \ {c} : slot'[b] = slot[b]
        /\ slot'[c].gen = slot[c].gen + 1 /\ slot'[c].locked = slot[c].locked
    <3> DEFINE s == [slot[c] EXCEPT !.gen = @ + 1, !.removed = TRUE]
    <3>1. s.gen = slot[c].gen + 1 /\ s.locked = slot[c].locked
      BY <1>0 DEF SlotType
    <3>2. slot' = [slot EXCEPT ![c] = s]
      BY <1>0, <2>1 DEF SlotType
    <3> HIDE DEF s
    <3> QED BY <1>0, <3>1, <3>2
  <2>5. /\ removal'[x].pc = "locking" /\ removal'[x].chat = c
        /\ \A y \in Removals \ {x} : removal'[y] = removal[y]
    BY <1>0, <2>1
  <2>6. Stays
    BY <1>0, <1>1, <2>2, <2>3, <2>4 DEF Stays, Closed
  <2>7. Doomed(c)'
    BY <2>5 DEF Doomed
  <2>8. Sees
    <3> SUFFICES ASSUME NEW b \in Chats \ {c}, ~Doomed(b)'
                 PROVE  ~Doomed(b) /\ slot'[b] = slot[b] /\ ~Closed' /\ (chat[b].active => chat'[b].active)
      BY <2>7 DEF Sees
    <3>1. ASSUME Doomed(b) PROVE FALSE
      <4>1. \A y \in Removals : removal[y].pc = "locking" => removal'[y] = removal[y]
        BY <2>2, <2>5
      <4> QED BY <1>2, <2>2, <2>3, <3>1, <4>1 DEF Doomed, Closed
    <3> QED BY <2>2, <2>4, <3>1 DEF Doomed
  <2>9. ClosingKnown'
    <3>1. \A b \in Chats, j \in Handlers : Remains(b, j) => Remains(b, j)'
      <4>1. closing.behind \subseteq Removals
        BY <1>0 DEF ClosingType
      <4>2. \A y \in Removals : removal[y].pc = "locking" => removal'[y] = removal[y]
        BY <2>2, <2>5
      <4> QED BY <1>2, <2>2, <2>3, <4>1, <4>2 DEF Remains
    <3>2. \A b \in Chats : slot'[b].locked = slot[b].locked
      BY <2>4
    <3> QED BY <1>0, <1>2, <2>2, <2>3, <3>1, <3>2 DEF ClosingKnown, Settles
  <2> QED BY <2>6, <2>8, <2>9, OutsideOrderly
<1>4. ASSUME NEW x \in Removals, Leave(x) \/ LeaveFails(x) PROVE Orderly'
  <2>0. PICK c : c = removal[x].chat
    OBVIOUS
  <2>1. /\ removal[x].pc = "locking" /\ removal' = [removal EXCEPT ![x].pc = "draining"]
        /\ UNCHANGED <<slot, process, admitted, handler, job, closing>> /\ faults' \in {faults, faults + 1}
    BY <1>4 DEF Leave, LeaveFails
  <2>2. PICK d \in {Left(c), chat[c]} : chat' = [chat EXCEPT ![c] = d] /\ (faults' = 0 => d = Left(c))
    <3>1. CASE Leave(x)
      BY <2>0, <3>1 DEF Leave
    <3>2. CASE LeaveFails(x)
      BY <1>0, <2>0, <3>2 DEF LeaveFails
    <3> QED BY <1>4, <3>1, <3>2
  <2>3. \A y \in Removals \ {x} : removal'[y] = removal[y]
    BY <1>0, <2>1
  <2>4. /\ \A b \in Chats : chat'[b] = IF b = c THEN d ELSE chat[b]
        /\ c \in Chats => \A j \in Handlers : Calmer(Left(c).tasks[j], chat[c].tasks[j]) /\ ~Unfinished(Left(c).tasks[j])
    BY <1>0, <2>2, LeftCalm
  <2>5. /\ \A b \in Chats, j \in Handlers : Calmer(chat'[b].tasks[j], chat[b].tasks[j])
        /\ \A b \in Chats : chat'[b].gone => chat[b].gone \/ Settles(b)'
        /\ faults' = 0 /\ c \in Chats => Settles(c)'
    <3>1. ASSUME c \in Chats
          PROVE  /\ d = Left(c) => Settles(c)'
                 /\ \A j \in Handlers : Calmer(chat'[c].tasks[j], chat[c].tasks[j])
                 /\ chat'[c].gone => chat[c].gone \/ Settles(c)'
      <4>1. chat'[c] = d
        BY <2>4, <3>1
      <4>2. d = Left(c) => Settles(c)'
        BY <2>4, <3>1, <4>1 DEF Settles
      <4>3. \A j \in Handlers : Calmer(chat[c].tasks[j], chat[c].tasks[j])
        BY <3>1, SameCalm DEF Calm
      <4>4. CASE d = Left(c)
        BY <2>4, <3>1, <4>1, <4>2, <4>4
      <4>5. CASE d = chat[c]
        BY <4>1, <4>2, <4>3, <4>5
      <4> QED BY <4>4, <4>5
    <3>2. ASSUME NEW b \in Chats, b # c
          PROVE  chat'[b] = chat[b] /\ \A j \in Handlers : Calmer(chat'[b].tasks[j], chat[b].tasks[j])
      <4>1. chat'[b] = chat[b]
        BY <2>4, <3>2
      <4>2. \A j \in Handlers : Calmer(chat[b].tasks[j], chat[b].tasks[j])
        BY SameCalm DEF Calm
      <4> QED BY <4>1, <4>2
    <3>3. \A b \in Chats, j \in Handlers : Calmer(chat'[b].tasks[j], chat[b].tasks[j])
      BY <3>1, <3>2
    <3>4. ASSUME NEW b \in Chats, chat'[b].gone PROVE chat[b].gone \/ Settles(b)'
      <4>1. CASE b = c
        <5>1. c \in Chats
          BY <4>1
        <5> QED BY <3>1, <3>4, <4>1, <5>1
      <4>2. CASE b # c
        BY <3>2, <3>4, <4>2
      <4> QED BY <4>1, <4>2
    <3>5. faults' = 0 /\ c \in Chats => Settles(c)'
      BY <2>2, <3>1
    <3> QED BY <3>3, <3>4, <3>5
  <2>6. Stays
    BY <1>0, <1>1, <2>1, <2>5 DEF Stays, Closed
  <2>7. Sees
    <3> SUFFICES ASSUME faults' = 0, NEW b \in Chats, b # c, ~Doomed(b)'
                 PROVE  ~Doomed(b) /\ slot'[b] = slot[b] /\ ~Closed' /\ (chat[b].active => chat'[b].active)
      <4>1. ASSUME faults' = 0, NEW b \in Chats, ~Settles(b)' PROVE b # c
        BY <2>5, <4>1
      <4> QED BY <4>1 DEF Sees
    <3>1. ASSUME Doomed(b) PROVE FALSE
      <4>1. \A y \in Removals : removal[y].chat = b => removal'[y] = removal[y]
        BY <2>0, <2>3, <3>1
      <4> QED BY <1>2, <2>0, <2>1, <3>1, <4>1 DEF Doomed, Closed
    <3> QED BY <2>1, <2>4, <3>1 DEF Doomed
  <2>8. ClosingKnown'
    <3>1. \A b \in Chats : Settles(b) => Settles(b)'
      BY <2>5 DEF Settles, Calmer
    <3>2. ASSUME faults' = 0, NEW b \in Chats, NEW j \in Handlers, Unfinished(chat'[b].tasks[j]), Remains(b, j)
          PROVE  Remains(b, j)'
      <4>1. b # c /\ chat'[b] = chat[b]
        <5>1. ASSUME b = c PROVE FALSE
          BY <2>5, <3>2, <5>1 DEF Settles
        <5> QED BY <2>4, <5>1
      <4>2. \A y \in closing.behind : removal[y].chat = b => removal'[y] = removal[y]
        BY <1>0, <2>0, <2>3, <4>1 DEF ClosingType
      <4> QED BY <1>2, <2>1, <3>2, <4>1, <4>2 DEF Remains
    <3>3. \A b \in Chats, j \in Handlers : Unfinished(chat'[b].tasks[j]) => Unfinished(chat[b].tasks[j])
      BY <2>5 DEF Calmer
    <3>4. faults' = 0 => faults = 0
      BY <1>0, <2>1
    <3> QED BY <1>0, <1>2, <2>1, <3>1, <3>2, <3>3, <3>4 DEF ClosingKnown
  <2> QED BY <2>6, <2>7, <2>8, OutsideOrderly
<1>5. ASSUME chat' = chat, slot' = slot, handler' = handler, job' = job, UNCHANGED <<process, admitted, faults>>,
             \A x \in Removals : removal[x].pc = "locking" \/ removal'[x].pc = "locking" => removal'[x] = removal[x],
             Closed, Closed', ClosingKnown'
      PROVE  Orderly'
  <2>1. Stays
    BY <1>0, <1>1, <1>5 DEF Stays
  <2>2. Sees
    BY <1>5 DEF Sees, Doomed
  <2> QED BY <1>5, <2>1, <2>2, OutsideOrderly
<1>6. ASSUME NEW x \in Removals, Drained(x) PROVE Orderly'
  <2>1. /\ UNCHANGED <<chat, slot, process, admitted, handler, job, closing, faults>>
        /\ removal[x].pc = "draining" /\ removal' = [removal EXCEPT ![x].pc = "done", ![x].waits = {}]
    BY <1>6 DEF Drained
  <2>2. removal'[x].pc = "done" /\ \A y \in Removals \ {x} : removal'[y] = removal[y]
    BY <1>0, <2>1 DEF RemovalType
  <2>3. \A y \in Removals : removal[y].pc = "locking" \/ removal'[y].pc = "locking" => removal'[y] = removal[y]
    BY <2>1, <2>2
  <2>4. Stays
    BY <1>0, <1>1, <2>1 DEF Stays, Closed
  <2>5. \A b \in Chats : Doomed(b)' = Doomed(b)
    BY <1>2, <2>1, <2>3 DEF Doomed, Closed
  <2>6. Sees
    <3> SUFFICES ASSUME NEW b \in Chats, ~Doomed(b)'
                 PROVE  ~Doomed(b) /\ slot'[b] = slot[b] /\ ~Closed' /\ (chat[b].active => chat'[b].active)
      BY DEF Sees
    <3> QED BY <2>1, <2>5 DEF Doomed
  <2>7. ClosingKnown'
    <3>1. closing.behind \subseteq Removals
      BY <1>0 DEF ClosingType
    <3>2. \A b \in Chats, j \in Handlers : Remains(b, j) => Remains(b, j)'
      BY <1>2, <2>1, <2>3, <3>1 DEF Remains
    <3> QED BY <1>0, <1>2, <2>1, <3>2 DEF ClosingKnown, Settles
  <2> QED BY <2>4, <2>6, <2>7, OutsideOrderly
<1>7. CASE Close
  <2>1. /\ slot' = [c \in Chats |-> [slot[c] EXCEPT !.gen = @ + 1]] /\ Cancel({h \in admitted : Running(h)})
        /\ UNCHANGED <<chat, process, admitted, handler, removal, faults>>
        /\ closing.pc \in {"open", "failed"}
        /\ closing' = [pc |-> "closing", left |-> Chats, jobs |-> admitted,
                       waits |-> {h \in admitted : Running(h)},
                       behind |-> {x \in Removals : removal[x].pc = "locking"}, failed |-> FALSE]
    BY <1>7 DEF Close
  <2>2. \A j \in Handlers : job'[j].pc = job[j].pc
    BY <1>0, <2>1, CancelFacts
  <2>3. \A c \in Chats : slot'[c].gen = slot[c].gen + 1 /\ slot'[c].locked = slot[c].locked
    BY <1>0, <2>1 DEF SlotType
  <2>4. Closed' /\ \A c \in Chats : Doomed(c)'
    BY <2>1 DEF Closed, Doomed
  <2>5. Stays
    BY <1>0, <1>1, <2>1, <2>2, <2>3, <2>4 DEF Stays
  <2>6. Sees
    BY <2>4 DEF Sees
  <2>7. ClosingKnown'
    <3> SUFFICES ASSUME faults = 0
                 PROVE  /\ \A j \in Handlers : Running(j)' => j \in {h \in admitted : Running(h)}
                        /\ \A c \in Chats, j \in Handlers : Unfinished(chat[c].tasks[j]) => Remains(c, j)'
      BY <2>1 DEF ClosingKnown
    <3>1. closing.pc = "open" /\ ~Closed
      BY <1>0, <2>1 DEF ClosingKnown, Closed
    <3>2. \A j \in Handlers : Running(j) => j \in admitted
      BY <1>0 DEF Admission, Admits, Running, Ended
    <3>3. ASSUME NEW c \in Chats, NEW j \in Handlers, Unfinished(chat[c].tasks[j]) PROVE Remains(c, j)'
      <4>1. Doomed(c) \/ Attended(c, j)
        BY <1>0, <3>3 DEF Honest
      <4>2. CASE Attended(c, j)
        BY <1>2, <2>1, <2>2, <4>2 DEF Attended, Remains
      <4>3. CASE Doomed(c)
        BY <1>2, <2>1, <2>2, <3>1, <4>3 DEF Doomed, Remains
      <4> QED BY <4>1, <4>2, <4>3
    <3> QED BY <1>2, <2>1, <2>2, <3>2, <3>3
  <2> QED BY <2>5, <2>6, <2>7, OutsideOrderly
<1>8. ASSUME NEW c \in Chats, CloseChat(c) PROVE Orderly'
  <2>1. /\ Turn(c) /\ chat' = [chat EXCEPT ![c] = Interrupted(c, Ours(c))] /\ closing' = [closing EXCEPT !.left = @ \ {c}]
        /\ UNCHANGED <<slot, process, admitted, handler, job, removal, faults>>
    BY <1>8 DEF CloseChat
  <2>2. /\ closing'.left = closing.left \ {c} /\ closing'.pc = "closing" /\ closing.pc = "closing" /\ Closed /\ Closed'
        /\ closing'.jobs = closing.jobs /\ closing'.behind = closing.behind /\ closing'.waits = closing.waits
        /\ closing'.failed = closing.failed
    BY <1>0, <2>1 DEF ClosingType, Turn, Closed
  <2>3. chat'[c] = Interrupted(c, Ours(c)) /\ \A b \in Chats \ {c} : chat'[b] = chat[b]
    BY <1>0, <2>1
  <2>4. /\ \A b \in Chats, j \in Handlers : Calmer(chat'[b].tasks[j], chat[b].tasks[j])
        /\ \A b \in Chats : chat'[b].gone => chat[b].gone
    BY <1>1, <2>3, InterruptedCalm DEF Calm
  <2>5. Stays
    BY <1>0, <1>1, <2>1, <2>2, <2>4 DEF Stays
  <2>6. Sees
    BY <2>2 DEF Sees, Doomed
  <2>7. ClosingKnown'
    <3> SUFFICES ASSUME faults = 0
                 PROVE  /\ ~closing.failed
                        /\ \A j \in Handlers : Running(j)' => j \in closing.waits
                        /\ \A b \in Chats \ (closing.left \ {c}) : ~slot[b].locked /\ Settles(b)'
                        /\ \A b \in closing.left \ {c}, j \in Handlers : Unfinished(chat'[b].tasks[j]) => Remains(b, j)'
      BY <2>1, <2>2 DEF ClosingKnown
    <3>1. Settles(c)'
      <4> SUFFICES ASSUME NEW j \in Handlers, Unfinished(chat'[c].tasks[j]) PROVE FALSE
        BY DEF Settles
      <4>1. Unfinished(chat[c].tasks[j]) /\ c \in closing.left /\ ~slot[c].locked
        BY <2>1, <2>4 DEF Calmer, Turn
      <4>2. Remains(c, j)
        BY <1>0, <2>2, <4>1 DEF ClosingKnown
      <4>3. ~(j \in Ours(c) /\ chat[c].tasks[j].owner = process)
        BY <2>3, InterruptedCalm
      <4>4. ~(\E x \in closing.behind : removal[x].pc = "locking" /\ removal[x].chat = c)
        BY <2>1 DEF Turn
      <4>5. ~(\E h \in Handlers : At(h, "forgetting") /\ Home(h) = c)
        BY <1>0, <4>1 DEF Locks, Working, At
      <4> QED BY <4>2, <4>3, <4>4, <4>5 DEF Remains, Ours
    <3>2. \A b \in Chats : Settles(b) => Settles(b)'
      BY <2>4 DEF Settles, Calmer
    <3>3. \A b \in Chats \ {c}, j \in Handlers : Remains(b, j) => Remains(b, j)'
      BY <1>2, <2>1, <2>2, <2>3 DEF Remains
    <3>4. ~slot[c].locked
      BY <2>1 DEF Turn
    <3> QED BY <1>0, <1>2, <2>1, <2>2, <2>3, <3>1, <3>2, <3>3, <3>4 DEF ClosingKnown
  <2> QED BY <2>5, <2>6, <2>7, OutsideOrderly
<1>9. ASSUME NEW c \in Chats, CloseFails(c) PROVE Orderly'
  <2>1. /\ closing.pc = "closing" /\ closing' = [closing EXCEPT !.left = @ \ {c}, !.failed = TRUE] /\ faults' = faults + 1
        /\ UNCHANGED <<chat, slot, process, admitted, handler, job, removal>>
    BY <1>9 DEF CloseFails, Turn
  <2>2. Closed /\ Closed' /\ faults' # 0
    BY <1>0, <2>1 DEF Closed, ClosingType
  <2>3. Stays
    BY <1>0, <1>1, <2>1, <2>2 DEF Stays
  <2> QED BY <2>2, <2>3, OutsideOrderly DEF Sees, ClosingKnown
<1>10. CASE CloseEnds
  <2>1. /\ closing.pc = "closing" /\ closing.left = {} /\ (\A h \in closing.waits : Ended(h))
        /\ closing'.pc = (IF closing.failed THEN "failed" ELSE "complete")
        /\ UNCHANGED <<chat, slot, process, admitted, handler, job, removal, faults>>
    BY <1>10 DEF CloseEnds, Open
  <2>2. Closed /\ Closed'
    BY <2>1 DEF Closed
  <2>3. ClosingKnown'
    <3> SUFFICES ASSUME faults = 0
                 PROVE  /\ ~closing.failed /\ \A h \in Handlers : ~Running(h)
                        /\ \A c \in Chats : ~slot[c].locked /\ Settles(c)
      BY <1>2, <2>1 DEF ClosingKnown, Settles
    <3> QED BY <1>0, <2>1 DEF ClosingKnown, Running
  <2> QED BY <1>5, <2>1, <2>2, <2>3
<1> QED BY <1>3, <1>4, <1>6, <1>7, <1>8, <1>9, <1>10 DEF Removing, Closes

LEMMA OrderlyInit == Init => Orderly
<1> SUFFICES ASSUME Init PROVE Orderly
  OBVIOUS
<1>1. \A h \in Handlers : /\ handler[h].pc = "idle" /\ job[h].pc = "none" /\ ~Working(h) /\ ~Admits(h)
  BY DEF Init, NoCall, NoJob, Working, Admits
<1>2. \A c \in Chats, h \in Handlers : chat[c].tasks[h].status = "none" /\ ~Unfinished(chat[c].tasks[h])
  BY DEF Init, NoDocument, NoTask, Unfinished
<1>3. Admission
  BY <1>1, FS_EmptySet, ConversationAssumption DEF Init, Admission
<1>4. Fresh /\ Known /\ Honest /\ GoneQuiet
  BY <1>1, <1>2 DEF Fresh, Known, Honest, GoneQuiet, Settles, At
<1>5. ClosingKnown
  BY DEF Init, Open, ClosingKnown
<1> QED BY <1>3, <1>4, <1>5 DEF Orderly

LEMMA OrderlyStep == Inv /\ Inv' /\ Orderly /\ [Next]_vars => Orderly'
<1> SUFFICES ASSUME Inv, Inv', Orderly, [Next]_vars PROVE Orderly'
  OBVIOUS
<1>1. CASE UNCHANGED vars
  <2>1. /\ \A h, j \in Handlers : Admits(h)' = Admits(h) /\ Born(h)' = Born(h) /\ Working(h)' = Working(h) /\ Home(h)' = Home(h)
                                  /\ Running(h)' = Running(h) /\ Live(h)' = Live(h)
        /\ \A c \in Chats, j \in Handlers : Doomed(c)' = Doomed(c) /\ Settles(c)' = Settles(c) /\ Remains(c, j)' = Remains(c, j)
    BY <1>1 DEF vars, Admits, Born, Working, Home, Running, Ended, Live, Closed, Doomed, Settles, Remains, At
  <2>2. Closed' = Closed
    BY <1>1 DEF vars, Closed
  <2>3. Admission' /\ Fresh' /\ GoneQuiet'
    <3>1. admitted' = admitted /\ chat' = chat
      BY <1>1 DEF vars
    <3>2. Admission'
      BY <2>1, <3>1 DEF Orderly, Admission
    <3>3. Fresh'
      BY <2>1, <3>1 DEF Orderly, Fresh
    <3>4. GoneQuiet'
      BY <3>1 DEF Orderly, GoneQuiet, Settles
    <3> QED BY <3>2, <3>3, <3>4
  <2>4. Known'
    BY <1>1, <2>1, <2>2 DEF vars, Orderly, Known, At
  <2>5. Honest'
    BY <1>1, <2>1 DEF vars, Orderly, Honest, Attended
  <2>6. ClosingKnown'
    <3>1. closing' = closing /\ slot' = slot /\ chat' = chat /\ faults' = faults
      BY <1>1 DEF vars
    <3>2. closing.left \subseteq Chats
      BY DEF Inv, TypeOK, ClosingType
    <3>3. SUFFICES ASSUME faults = 0 PROVE ClosingKnown'
      BY <3>1 DEF ClosingKnown
    <3>4. ASSUME closing.pc = "closing"
          PROVE  /\ ~closing.failed /\ \A h \in Handlers : Running(h)' => h \in closing.waits
                 /\ \A c \in Chats \ closing.left : ~slot[c].locked /\ Settles(c)'
                 /\ \A c \in closing.left, j \in Handlers : Unfinished(chat[c].tasks[j]) => Remains(c, j)'
      BY <2>1, <3>2, <3>3, <3>4 DEF Orderly, ClosingKnown, Settles
    <3>5. ASSUME closing.pc = "complete"
          PROVE  /\ \A h \in Handlers : ~Running(h)'
                 /\ \A c \in Chats : ~slot[c].locked /\ Settles(c)'
      BY <2>1, <3>3, <3>5 DEF Orderly, ClosingKnown, Settles
    <3>6. closing.pc # "failed"
      BY <3>3 DEF Orderly, ClosingKnown
    <3> QED BY <3>1, <3>4, <3>5, <3>6 DEF ClosingKnown
  <2> QED BY <2>3, <2>4, <2>5, <2>6 DEF Orderly
<1>2. CASE Next
  BY <1>2, EntersOrderly, HandlersOrderly, JobsOrderly, OutsidesOrderly, CrashOrderly DEF Next
<1> QED BY <1>1, <1>2

LEMMA Order == Spec => [](Inv /\ Orderly)
<1>1. Init => Inv /\ Orderly
  BY InvInit, OrderlyInit
<1>2. (Inv /\ Orderly) /\ [Next]_vars => (Inv /\ Orderly)'
  BY InvStep, OrderlyStep
<1> QED BY <1>1, <1>2, PTL DEF Spec

\* However messages, tasks, forgets, removals and close meet: no more jobs go on
\* than are admitted, and no call takes a task for running that has no job, unless
\* its end could not be saved.
THEOREM TasksHold == Spec => []TasksTrue
<1>1. Inv /\ Orderly => TasksTrue
  <2> SUFFICES ASSUME Inv, Orderly PROVE TasksTrue
    OBVIOUS
  <2>0. /\ TypeOK /\ Places /\ Locks /\ Eras /\ Admission /\ Fresh /\ Known /\ Honest
    BY DEF Inv, Orderly
  <2>1. Capacity
    BY <2>0 DEF Capacity, Admission, Admits, Running, Ended
  <2>2. StatusTrue
    <3> SUFFICES ASSUME NEW h \in Handlers, NEW j \in Handlers,
                        handler[h].pc \notin {"idle", "done", "recovering"}, Live(h),
                        chat[Home(h)].tasks[j].status = "running",
                        \A x \in Removals : removal[x].chat = Home(h) => removal[x].pc # "locking"
                 PROVE  j \in admitted \/ (faults > 0 /\ j \in handler[h].saw)
      BY DEF StatusTrue
    <3>1. Working(h) /\ Home(h) \in Chats /\ slot[Home(h)].gen \in Nat
      BY <2>0 DEF Working, Places, TypeOK, SlotType
    <3>2. CASE faults = 0
      <4>1. ~(\E k \in Handlers : At(k, "forgetting") /\ Home(k) = Home(h))
        <5> SUFFICES ASSUME NEW k \in Handlers, At(k, "forgetting"), Home(k) = Home(h) PROVE FALSE
          OBVIOUS
        <5>1. k = h
          BY <2>0, <3>1 DEF Locks, Working, At
        <5>2. handler[h].gen < slot[Home(h)].gen /\ handler[h].gen = slot[Home(h)].gen
          BY <2>0, <5>1 DEF Known, Live
        <5> QED BY <3>1, <5>2
      <4>2. ~Doomed(Home(h))
        BY <4>1 DEF Doomed, Live
      <4>3. Attended(Home(h), j)
        BY <2>0, <3>1, <3>2, <4>2 DEF Honest, Unfinished
      <4> QED BY <4>3 DEF Attended
    <3>3. CASE faults # 0
      <4>1. faults > 0
        BY <2>0, <3>3 DEF TypeOK
      <4>2. j \in handler[h].saw \/ j = h
        BY <2>0 DEF Known
      <4>3. CASE j = h
        <5>1. Born(h)
          BY <2>0, <3>1, <4>3 DEF Fresh
        <5>2. job[h].pc # "none" => job[h].pc \in {"queued", "interrupting"}
          BY <2>0, <3>1 DEF Known, Live
        <5>3. Admits(h)
          BY <3>1, <5>1, <5>2 DEF Born, Admits, Working
        <5> QED BY <2>0, <4>3, <5>3 DEF Admission
      <4> QED BY <4>1, <4>2, <4>3
    <3> QED BY <3>2, <3>3
  <2> QED BY <2>1, <2>2 DEF TasksTrue
<1> QED BY <1>1, Order, PTL

\* A chat the agent left has no task under way; and when close returns, with no
\* store call failing, neither has the process, nor any call.
THEOREM QuietHolds == Spec => []Quiet
<1>1. Inv /\ Orderly => Quiet
  <2> SUFFICES ASSUME Inv, Orderly PROVE Quiet
    OBVIOUS
  <2>0. TypeOK /\ Places /\ Locks /\ GoneInactive /\ GoneQuiet /\ ClosingKnown
    BY DEF Inv, Orderly
  <2>1. \A c \in Chats : chat[c].gone =>
          /\ ~chat[c].active
          /\ \A h \in Handlers : chat[c].tasks[h].status # "running" /\ chat[c].tasks[h].delivery # "pending"
    BY <2>0 DEF GoneInactive, GoneQuiet, Settles, Unfinished
  <2>2. ASSUME closing.pc = "complete", faults = 0
        PROVE  /\ \A h \in Handlers : handler[h].pc \in {"idle", "done"} /\ ~Running(h)
               /\ \A c \in Chats, h \in Handlers :
                    chat[c].tasks[h].status # "running" /\ chat[c].tasks[h].delivery # "pending"
    <3>1. (\A h \in Handlers : ~Running(h)) /\ \A c \in Chats : ~slot[c].locked /\ Settles(c)
      BY <2>0, <2>2 DEF ClosingKnown
    <3>2. \A h \in Handlers : ~Working(h)
      BY <2>0, <3>1 DEF Locks, Places, Working
    <3> QED BY <3>1, <3>2 DEF Working, Settles, Unfinished
  <2> QED BY <2>1, <2>2 DEF Quiet
<1> QED BY <1>1, Order, PTL
=============================================================================
