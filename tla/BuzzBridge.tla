----------------------------- MODULE BuzzBridge -----------------------------
(***************************************************************************)
(* Conversations with a bot: the chat page and the Buzz relay.  In both    *)
(* the ChatTaskManager asks for a confirmation before it schedules a task. *)
(* On the relay the monitor's handlers dispatch through the                *)
(* BuzzTaskBridge, and the result comes back to the thread as a reply.     *)
(*                                                                         *)
(* An event is a message in a thread: a request for a task, a              *)
(* confirmation, a cancellation or anything else.  The relay delivers an   *)
(* event more than once (it replays after a reconnection), and a channel   *)
(* may be read by two subscriptions at once; on the chat page a user may   *)
(* send the same words again.  Each reader handles one event at a time;    *)
(* the queue, the bots and the stores answer in between.                   *)
(*                                                                         *)
(* Abstracted: author gate, the size limit and the detection heuristic (an *)
(* event stands for one that passes), history replay, typing indicators,   *)
(* the encryption of direct messages.  A task that is only scheduled stays *)
(* pending here: module TaskDispatch runs it.  The tasks that one trigger  *)
(* makes of one request share a record here: a later one takes the place   *)
(* of an earlier one, whose answer no longer counts.                       *)
(***************************************************************************)
EXTENDS Naturals, FiniteSets

CONSTANTS
  Readers,       \* goroutines that handle events or requests
  Threads,       \* conversations
  Relayed,       \* the threads on the relay; the others are on the chat page
  Events,        \* messages
  In,            \* per event: its thread
  Says,          \* per event: "task", "yes", "no" or "plain"
  Mentions,      \* the events that mention the bot
  Serves,        \* per reader: the threads it reads
  MaxDeliveries, \* per event: bound on its deliveries
  MaxFailures,   \* bound on the dispatches that fail before the message is sent
  MayDelete,     \* the events whose task an operator may delete
  MaxDeletions,  \* bound on the tasks that an operator deletes
  MayExpire,     \* the events after which ten minutes may pass, the TTL of marks and intents
  NoEvent        \* no event

ASSUME EventsAreTyped ==
  /\ In \in [Events -> Threads]
  /\ Says \in [Events -> {"task", "yes", "no", "plain"}]
  /\ Serves \in [Readers -> SUBSET Threads] /\ IsFiniteSet(Readers)
  /\ Relayed \subseteq Threads
  /\ Mentions \subseteq Events /\ MayExpire \subseteq Events /\ MayDelete \subseteq Events
  /\ MaxDeliveries \in [Events -> Nat] /\ MaxFailures \in Nat /\ MaxDeletions \in Nat
  /\ NoEvent \notin Events

VARIABLES
  pc,         \* per reader: its next step
  cur,        \* per reader: the event it handles
  what,       \* per reader: the event whose words become the task
  deliveries, \* per event: deliveries so far
  failures,   \* dispatches that have failed before the message was sent
  deletions,  \* tasks that an operator has deleted
  seen,       \* events marked as seen
  known,      \* threads the bot has dispatched in
  intent,     \* per thread: the request that waits for a confirmation
  task,       \* per pair of a trigger and a request: the status of its task
  item,       \* per task: its board item
  queued,     \* tasks whose message a bot has, and has not answered
  result,     \* per task: how far its result has come
  awaited,    \* tasks whose result somebody will publish
  replied,    \* tasks whose result has been published
  copies,     \* per task: how often it was dispatched
  lost,       \* per task: how often it was deleted while it was dispatched
  handled,    \* events whose handling ended without an error
  expired,    \* events whose mark or intent has expired
  ended       \* requests that were cancelled, expired or replaced

vars == <<pc, cur, what, deliveries, failures, deletions, seen, known, intent, task, item,
          queued, result, awaited, replied, copies, lost, handled, expired, ended>>
bounds == <<deliveries, failures, deletions>>
bridge == <<seen, known, intent>>
bots == <<task, item, queued, result, awaited, replied>>
history == <<copies, lost, handled, expired, ended>>

OnRelay(e) == In[e] \in Relayed

\* The monitor wraps what it reads on the relay in the delimiters of untrusted content:
\* a request is still found in it, but it equals no confirmation or cancellation.
Hears(e) == IF OnRelay(e) /\ Says[e] \in {"yes", "no"} THEN "plain" ELSE Says[e]

\* A task is named by the event that triggered it and the one it executes, which
\* is the same or a request that it confirms.
Tasks ==
  {t \in Events \X Events :
     \/ t[1] = t[2] /\ Hears(t[1]) # "task"
     \/ In[t[1]] = In[t[2]] /\ Hears(t[1]) = "yes" /\ Hears(t[2]) = "task"}

TypeOK ==
  /\ pc \in [Readers -> {"idle", "mark", "load", "confirm", "cancel", "detect", "send",
                         "link", "backlog", "item", "await", "undo"}]
  /\ cur \in [Readers -> Events \cup {NoEvent}]
  /\ what \in [Readers -> Events \cup {NoEvent}]
  /\ deliveries \in [Events -> Nat] /\ \A e \in Events : deliveries[e] <= MaxDeliveries[e]
  /\ failures \in 0 .. MaxFailures /\ deletions \in 0 .. MaxDeletions
  /\ seen \subseteq Events
  /\ known \subseteq Threads
  /\ intent \in [Threads -> Events \cup {NoEvent}]
  /\ task \in [Tasks -> {"none", "scheduled", "pending", "running", "done"}]
  /\ item \in [Tasks -> {"none", "backlog", "in-progress", "done"}]
  /\ result \in [Tasks -> {"none", "stored", "boarded", "delivered"}]
  /\ queued \subseteq Tasks /\ awaited \subseteq Tasks
  /\ replied \subseteq Tasks
  /\ copies \in [Tasks -> Nat] /\ lost \in [Tasks -> Nat]
  /\ handled \subseteq Events
  /\ expired \subseteq MayExpire
  /\ ended \subseteq Events

Goto(r, label) == pc' = [pc EXCEPT ![r] = label]
Thread(r) == In[cur[r]]
Current(r) == <<cur[r], what[r]>>

\* The reader is free again.  Dispatch ends without an error unless it undoes its mark;
\* publishing its answer may fail, which changes nothing.
Finish(r) ==
  /\ Goto(r, "idle")
  /\ cur' = [cur EXCEPT ![r] = NoEvent]
  /\ what' = [what EXCEPT ![r] = NoEvent]

-----------------------------------------------------------------------------
(* The handlers *)

\* On the relay an event without a mention counts if the bot has dispatched in its thread.
Triggers(e) == OnRelay(e) => e \in Mentions \/ In[e] \in known

Receive(r) ==
  /\ pc[r] = "idle"
  /\ \E e \in Events :
       /\ In[e] \in Serves[r]
       /\ deliveries[e] < MaxDeliveries[e]
       /\ deliveries' = [deliveries EXCEPT ![e] = @ + 1]
       /\ IF Triggers(e)
          THEN /\ cur' = [cur EXCEPT ![r] = e]
               /\ Goto(r, IF OnRelay(e) THEN "mark" ELSE "load")
          ELSE UNCHANGED <<cur, pc>>
  /\ UNCHANGED <<what, failures, deletions, bridge, bots, history>>

MarkUnchecked(r) ==
  /\ pc[r] = "mark"
  /\ seen' = seen \cup {cur[r]}
  /\ known' = known \cup {Thread(r)}
  /\ Goto(r, "load")
  /\ UNCHANGED <<cur, what, bounds, intent, bots, history>>

\* checkAndMarkSeen: the check and the mark are one step.  An event that is new makes
\* its thread known.
Mark(r) ==
  /\ pc[r] = "mark"
  /\ seen' = seen \cup {cur[r]}
  /\ IF cur[r] \in seen
     THEN Finish(r) /\ UNCHANGED known
     ELSE /\ Goto(r, "load")
          /\ known' = known \cup {Thread(r)}
          /\ UNCHANGED <<cur, what>>
  /\ UNCHANGED <<bounds, intent, bots, history>>

\* loadPending drops an intent that is too old.
Load(r) ==
  /\ pc[r] = "load"
  /\ LET got == intent[Thread(r)] IN
     /\ IF got \in expired
        THEN intent' = [intent EXCEPT ![Thread(r)] = NoEvent] /\ ended' = ended \cup {got}
        ELSE UNCHANGED <<intent, ended>>
     /\ IF got = NoEvent \/ got \in expired \/ Hears(cur[r]) \notin {"yes", "no"}
        THEN Goto(r, "detect") /\ UNCHANGED what
        ELSE /\ what' = [what EXCEPT ![r] = got]
             /\ Goto(r, IF Hears(cur[r]) = "yes" THEN "confirm" ELSE "cancel")
  /\ UNCHANGED <<cur, bounds, seen, known, bots, copies, lost, handled, expired>>

ClearNothing(r) == intent' = intent

\* The pending intent is deleted by its thread, before the dispatch.
Clear(r) == intent' = [intent EXCEPT ![Thread(r)] = NoEvent]

Confirm(r) ==
  /\ pc[r] = "confirm"
  /\ Clear(r)
  /\ Goto(r, "send")
  /\ UNCHANGED <<cur, what, bounds, seen, known, bots, history>>

Cancel(r) ==
  /\ pc[r] = "cancel"
  /\ Clear(r)
  /\ ended' = ended \cup {what[r]}
  /\ handled' = handled \cup {cur[r]}
  /\ Finish(r)
  /\ UNCHANGED <<bounds, seen, known, bots, copies, lost, expired>>

\* detectIntent: a request waits for a confirmation, and replaces the one that waits; other
\* words go to the bot as they are.
Detect(r) ==
  /\ pc[r] = "detect"
  /\ IF Hears(cur[r]) = "task"
     THEN /\ intent' = [intent EXCEPT ![Thread(r)] = cur[r]]
          /\ ended' = ended \cup ({intent[Thread(r)]} \ {NoEvent, cur[r]})
          /\ handled' = handled \cup {cur[r]}
          /\ Finish(r)
     ELSE /\ what' = [what EXCEPT ![r] = cur[r]]
          /\ Goto(r, "send")
          /\ UNCHANGED <<cur, intent, ended, handled>>
  /\ UNCHANGED <<bounds, seen, known, bots, copies, lost, expired>>

\* A failed dispatch undoes the mark on the relay, and is an error on the chat page.
Fail(r) == IF OnRelay(cur[r]) THEN Goto(r, "undo") /\ UNCHANGED <<cur, what>> ELSE Finish(r)

\* The message cannot be sent: the task stays behind, marked as failed.
Refuse(r) ==
  /\ failures < MaxFailures
  /\ failures' = failures + 1
  /\ Fail(r)
  /\ UNCHANGED <<task, queued, result, copies, handled>>

\* What follows the dispatch: a board item on the relay, the reply on the chat page.
Continue(r, next) ==
  IF OnRelay(cur[r])
  THEN Goto(r, next) /\ UNCHANGED <<cur, what, handled>>
  ELSE Finish(r) /\ handled' = handled \cup {cur[r]}

\* DispatchWithSchedule: the task is stored and its message sent, or a request is left
\* to the scheduler.
Dispatch(r) ==
  /\ copies' = [copies EXCEPT ![Current(r)] = @ + 1]
  /\ result' = [result EXCEPT ![Current(r)] = "none"]
  /\ \/ /\ what[r] # cur[r]
        /\ task' = [task EXCEPT ![Current(r)] = "scheduled"]
        /\ queued' = queued \ {Current(r)}
        /\ Continue(r, "backlog")
     \/ /\ task' = [task EXCEPT ![Current(r)] = "pending"]
        /\ queued' = queued \cup {Current(r)}
        /\ Goto(r, "link")
        /\ UNCHANGED <<cur, what, handled>>
  /\ UNCHANGED failures

Send(r) ==
  /\ pc[r] = "send"
  /\ Refuse(r) \/ Dispatch(r)
  /\ UNCHANGED <<deliveries, deletions, bridge, item, awaited, replied, lost, expired, ended>>

\* dispatchNow stores the task as running once its message is sent, whatever it has become:
\* an answer that was faster is overwritten, and a task that was deleted is an error, as
\* if it had not been dispatched.
Link(r) ==
  /\ pc[r] = "link"
  /\ IF task[Current(r)] = "none"
     THEN /\ lost' = [lost EXCEPT ![Current(r)] = @ + 1]
          /\ Fail(r)
          /\ UNCHANGED <<task, handled>>
     ELSE /\ task' = [task EXCEPT ![Current(r)] = "running"]
          /\ Continue(r, "item")
          /\ UNCHANGED lost
  /\ UNCHANGED <<bounds, bridge, item, queued, result, awaited, replied, copies, expired, ended>>

UnmarkNothing(r) == seen' = seen

Unmark(r) == seen' = seen \ {cur[r]}

Undo(r) ==
  /\ pc[r] = "undo"
  /\ Unmark(r)
  /\ Finish(r)
  /\ UNCHANGED <<bounds, known, intent, bots, history>>

\* The status of the copy that the dispatch returned decides, not that of the store.
CreateItem(r) ==
  /\ pc[r] \in {"backlog", "item"}
  /\ handled' = handled \cup {cur[r]}
  /\ item' = [item EXCEPT ![Current(r)] = IF pc[r] = "backlog" THEN "backlog" ELSE "in-progress"]
  /\ IF pc[r] = "backlog" THEN Finish(r) ELSE Goto(r, "await") /\ UNCHANGED <<cur, what>>
  /\ UNCHANGED <<bounds, bridge, task, queued, result, awaited, replied, copies, lost, expired,
                 ended>>

Await(r) ==
  /\ pc[r] = "await"
  /\ awaited' = awaited \cup {Current(r)}
  /\ Finish(r)
  /\ UNCHANGED <<bounds, bridge, task, item, queued, result, replied, history>>

Handle(r) ==
  \/ Mark(r) \/ Load(r) \/ Confirm(r) \/ Cancel(r) \/ Detect(r) \/ Send(r)
  \/ Link(r) \/ Undo(r) \/ CreateItem(r) \/ Await(r)

-----------------------------------------------------------------------------
(* The result: handleSharedTaskResult, then HandleResult *)

\* The task of a chat has no board item, and no channel waits for its result.
StoreResult(t) ==
  /\ t \in queued
  /\ queued' = queued \ {t}
  /\ task' = [task EXCEPT ![t] = "done"]
  /\ result' = [result EXCEPT ![t] = IF OnRelay(t[1]) THEN "stored" ELSE "delivered"]
  /\ UNCHANGED <<pc, cur, what, bounds, bridge, item, awaited, replied, history>>

\* The item that carries the task, if there is one by now.
SettleItem(t) ==
  /\ result[t] = "stored"
  /\ item' = IF item[t] = "none" THEN item ELSE [item EXCEPT ![t] = "done"]
  /\ result' = [result EXCEPT ![t] = "boarded"]
  /\ UNCHANGED <<pc, cur, what, bounds, bridge, task, queued, awaited, replied, history>>

HandleDeleted(t) ==
  /\ result[t] = "boarded"
  /\ result' = [result EXCEPT ![t] = "delivered"]
  /\ awaited' = awaited \ {t}
  /\ replied' = replied \cup (awaited' \cap {t})
  /\ UNCHANGED <<pc, cur, what, bounds, bridge, task, item, queued, history>>

\* A result that nobody awaits is ignored.
HandleResult(t) ==
  /\ result[t] = "boarded"
  /\ result' = [result EXCEPT ![t] = "delivered"]
  /\ awaited' = awaited \ {t}
  /\ replied' = replied \cup (awaited \cap {t})
  /\ UNCHANGED <<pc, cur, what, bounds, bridge, task, item, queued, history>>

Answer(t) == StoreResult(t) \/ SettleItem(t) \/ HandleResult(t)

\* An operator deletes a task at any time.  The answer to its message is an answer to no task.
DeleteTask(t) ==
  /\ t[1] \in MayDelete /\ task[t] # "none" /\ deletions < MaxDeletions
  /\ deletions' = deletions + 1
  /\ task' = [task EXCEPT ![t] = "none"]
  /\ queued' = queued \ {t}
  /\ UNCHANGED <<pc, cur, what, deliveries, failures, bridge, item, result, awaited, replied,
                 history>>

\* Ten minutes pass after the event: its mark goes, its intent is stale.
Expire(e) ==
  /\ e \in MayExpire \ expired
  /\ e \in seen \/ intent[In[e]] = e
  /\ expired' = expired \cup {e}
  /\ seen' = seen \ {e}
  /\ UNCHANGED <<pc, cur, what, bounds, known, intent, bots, copies, lost, handled, ended>>

Init ==
  /\ pc = [r \in Readers |-> "idle"]
  /\ cur = [r \in Readers |-> NoEvent]
  /\ what = [r \in Readers |-> NoEvent]
  /\ deliveries = [e \in Events |-> 0]
  /\ failures = 0 /\ deletions = 0
  /\ seen = {}
  /\ known = {}
  /\ intent = [t \in Threads |-> NoEvent]
  /\ task = [t \in Tasks |-> "none"]
  /\ item = [t \in Tasks |-> "none"]
  /\ result = [t \in Tasks |-> "none"]
  /\ queued = {}
  /\ awaited = {}
  /\ replied = {}
  /\ copies = [t \in Tasks |-> 0]
  /\ lost = [t \in Tasks |-> 0]
  /\ handled = {}
  /\ expired = {}
  /\ ended = {}

Next ==
  \/ \E r \in Readers : Receive(r) \/ Handle(r)
  \/ \E t \in Tasks : Answer(t) \/ DeleteTask(t)
  \/ \E e \in Events : Expire(e)

Spec == Init /\ [][Next]_vars

\* Some handler goes on while one can, and so does some bot that has its message;
\* their steps are finitely many, so that each comes to its end.
FairSpec ==
  /\ Spec
  /\ WF_vars(\E r \in Readers : Handle(r))
  /\ WF_vars(\E t \in Tasks : Answer(t))

-----------------------------------------------------------------------------
(* Properties *)

\* "only one of them can ever observe not seen and proceed" (checkAndMarkSeen): until its
\* mark expires an event of the relay is dispatched once, however often and to however many
\* readers it is delivered, but again for every time its task was deleted while it was
\* dispatched, which dispatchNow takes for a message that was not sent.
OneTaskPerEvent ==
  \A t \in Tasks : OnRelay(t[1]) /\ t[1] \notin expired => copies[t] <= 1 + lost[t]

\* An event sends one message.  It does not hold: the bot has the message of a task that was
\* deleted before dispatchNow stored it as running, and a replay of the event sends another.
OneMessagePerEvent ==
  \A t \in Tasks : OnRelay(t[1]) /\ t[1] \notin expired => copies[t] <= 1

\* "a later relay reconnect/replay of the same event ID is retried" (FR-101): an event
\* that counts as seen is being handled or was handled; none is swallowed.
NothingSwallowed ==
  \A e \in seen : e \in handled \/ \E r \in Readers : cur[r] = e

SingleReader(t) == Cardinality({r \in Readers : t \in Serves[r]}) = 1

\* In a thread with one reader a request that does not outlive its TTL ends once: it
\* waits, or it was cancelled or replaced, or it was dispatched, once (DetectAndHandle reads
\* the intent and deletes it in two steps, so that two readers may both dispatch it).
\* On the chat page the same words sent again are a request again.
RequestEndsOnce ==
  \A e \in Events \ expired :
    Says[e] = "task" /\ SingleReader(In[e]) /\ (OnRelay(e) \/ deliveries[e] <= 1) =>
    LET executed == {t \in Tasks : t[2] = e /\ copies[t] > 0} IN
    /\ Cardinality(executed) <= 1 /\ \A t \in executed : copies[t] = 1
    /\ executed # {} => e \notin ended /\ intent[In[e]] # e

\* A task of the relay that has its board item and its reply registered before the bot answers ends
\* with both, the item done and the reply published (HandleResult), or is deleted.
VisibleTaskSettles ==
  \A t \in {relayed \in Tasks : OnRelay(relayed[1])} :
    item[t] = "in-progress" /\ t \in awaited /\ result[t] = "none"
      ~> task[t] = "none" \/ (item[t] = "done" /\ t \in replied)

\* "If msg looks like a confirmation and a pending intent exists for threadID: dispatches
\* the task" (DetectAndHandle, which the relay's conversations are said to reuse).
ConfirmationIsTaken ==
  [][\A r \in Readers :
       pc[r] = "load" /\ Says[cur[r]] = "yes" /\ intent[Thread(r)] \notin expired \cup {NoEvent}
         => pc'[r] \in {"load", "confirm"}]_vars
=============================================================================
