--------------------------------- MODULE Slack ---------------------------------
(***************************************************************************)
(* The Slack monitor and the way back of its results: events of a socket,  *)
(* the task that is sent to the bot's queue, the bot, and the handler that *)
(* the team manager gives to every bot.  The web page sends tasks to the   *)
(* same bot.                                                               *)
(*                                                                         *)
(* Abstracted: the text of a message, which is empty or not, and the       *)
(* outcome of a task.  External: Slack delivers an event again when its    *)
(* acknowledgement was lost; a reply that cannot be posted is only logged. *)
(***************************************************************************)
EXTENDS Naturals, FiniteSets

CONSTANTS
  Events,     \* the messages that Slack delivers
  Ignored,    \* those written by a bot, to nobody in a channel, or empty
  MaxTasks,   \* bound on the tasks
  Room,       \* the capacity of the bot's queue
  MaxLost,    \* bound on lost acknowledgements
  None        \* no task, no message

Tasks == 1 .. MaxTasks

VARIABLES
  toCome,     \* the events that Slack will deliver, for the first time or again
  last,       \* the number of the latest task
  task,       \* per task: "none", "queued", "running", "reported" or "handled"
  stored,     \* the tasks in the store of direct tasks
  sent,       \* dispatch has sent this task and has not registered its message
  pending,    \* per task: the message, with its channel and thread, that awaits its result
  replies,    \* the replies that were posted
  lost

vars == <<toCome, last, task, stored, sent, pending, replies, lost>>

TypeOK ==
  /\ toCome \subseteq Events
  /\ last \in 0 .. MaxTasks
  /\ task \in [Tasks -> {"none", "queued", "running", "reported", "handled"}]
  /\ stored \subseteq Tasks
  /\ sent \in [id : Tasks \cup {None}, event : Events \cup {None}]
  /\ pending \in [Tasks -> Events \cup {None}]
  /\ replies \subseteq [task : Tasks, to : Events]
  /\ lost \in 0 .. MaxLost

NotSending == [id |-> None, event |-> None]
Queued == {t \in Tasks : task[t] = "queued"}

-----------------------------------------------------------------------------
(* The monitor *)

\* A queue that is full refuses the task.
Send(t) == Cardinality(Queued) < Room /\ task' = [task EXCEPT ![t] = "queued"]
Refused == Cardinality(Queued) = Room /\ UNCHANGED task

NewTask == last < MaxTasks /\ last' = last + 1

\* The loop takes the next event when it has done with the last one, and acknowledges it.  The
\* event of a refused task is dropped.
handleCallbackEvent(e) ==
  /\ sent = NotSending
  /\ e \in toCome
  /\ \/ toCome' = toCome \ {e} /\ UNCHANGED lost
     \/ lost < MaxLost /\ lost' = lost + 1 /\ UNCHANGED toCome
  /\ \/ e \in Ignored /\ UNCHANGED <<last, task, sent>>
     \/ /\ e \notin Ignored /\ NewTask /\ Send(last + 1)
        /\ sent' = [id |-> last + 1, event |-> e]
     \/ e \notin Ignored /\ Refused /\ UNCHANGED <<last, sent>>
  /\ UNCHANGED <<stored, pending, replies>>

\* The task is registered when Send has returned; the bot may have answered by then.
dispatch ==
  /\ sent # NotSending
  /\ pending' = [pending EXCEPT ![sent.id] = sent.event]
  /\ sent' = NotSending
  /\ UNCHANGED <<toCome, last, task, stored, replies, lost>>

\* Nothing is done for a task that no message awaits.
HandleResult(t) ==
  IF pending[t] = None THEN UNCHANGED <<pending, replies>>
  ELSE /\ pending' = [pending EXCEPT ![t] = None]
       /\ replies' = replies \cup {[task |-> t, to |-> pending[t]]}

-----------------------------------------------------------------------------
(* The other tasks, the bot, and the handler of its results *)

\* The dispatcher stores a task before it sends it.
ChatTask ==
  /\ NewTask
  /\ stored' = stored \cup {last + 1}
  /\ Send(last + 1) \/ Refused
  /\ UNCHANGED <<toCome, sent, pending, replies, lost>>

Bot(t, from, to) ==
  /\ task[t] = from
  /\ task' = [task EXCEPT ![t] = to]
  /\ UNCHANGED <<toCome, last, stored, sent, pending, replies, lost>>

Receive(t) == Bot(t, "queued", "running")
Report(t) == Bot(t, "running", "reported")

\* A result of a task that is not in the store goes no further; the others are forwarded to
\* every monitor.
handleSharedTaskResult(t) ==
  /\ task[t] = "reported"
  /\ task' = [task EXCEPT ![t] = "handled"]
  /\ IF t \in stored THEN HandleResult(t) ELSE UNCHANGED <<pending, replies>>
  /\ UNCHANGED <<toCome, last, stored, sent, lost>>

Init ==
  /\ toCome = Events
  /\ last = 0
  /\ task = [t \in Tasks |-> "none"]
  /\ stored = {}
  /\ sent = NotSending
  /\ pending = [t \in Tasks |-> None]
  /\ replies = {}
  /\ lost = 0

Next ==
  \/ \E e \in Events : handleCallbackEvent(e)
  \/ dispatch \/ ChatTask
  \/ \E t \in Tasks : Receive(t) \/ Report(t) \/ handleSharedTaskResult(t)

Spec == Init /\ [][Next]_vars
-----------------------------------------------------------------------------
(* Properties *)

\* "when the bot finishes processing a Slack message, the result is posted back to Slack
\* automatically" (Slack-Adoption-Config.md): the result of a task that a message awaits
\* is posted in answer to it when it is handled.
ResultIsPosted ==
  [][\A t \in Tasks :
       task[t] = "reported" /\ task'[t] = "handled" /\ pending[t] # None
         => [task |-> t, to |-> pending[t]] \in replies']_vars
=============================================================================
