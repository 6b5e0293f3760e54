---------------------------- MODULE KanbanQueue ----------------------------
(***************************************************************************)
(* The Kanban queue of the orchestrator: the board of work items, the      *)
(* queue runner that launches queued items, the dispatch of a board item   *)
(* to its bot as a direct task, the HTTP handlers that edit the board, and *)
(* the handler of a finished task.                                         *)
(*                                                                         *)
(* Every store call of the code is one critical section, hence one atomic  *)
(* step here.  Between two calls each goroutine works on its own copy of   *)
(* the item (copy, found, todo), and Update writes that whole copy back:   *)
(* these are the stale reads the properties are about.                     *)
(*                                                                         *)
(* Abstracted: titles, descriptions, work directories, results' text, who  *)
(* created an item, attachments, LastResult and a task's Output; with it   *)
(* the progress handler, which can only store pending again for running.   *)
(* Tasks are not deleted or run again here: see TaskDispatch.              *)
(***************************************************************************)
EXTENDS Integers, FiniteSets

CONSTANTS
  Items,          \* item ids, numbered in the order of CreatedAt
  Bots, NoBot,    \* what AssignedTo can be
  Clients,        \* concurrent HTTP requests
  Patches,        \* bodies of PATCH /board/{id}; Keep marks an absent field
  Keep,
  Loaded,         \* boards the orchestrator may have loaded from disk
  MaxConcurrent,  \* the concurrency limit
  MaxTasks,       \* bound: direct tasks created
  MaxRequests,    \* bound: HTTP requests served
  MaxTime,        \* bound: the clock
  NoTask, NoItem, NoTime

TaskIds == 1..MaxTasks
Runner == "runner"
Procs == {Runner} \cup Clients

ASSUME ItemsAreNumbers == Items \subseteq Nat \ {0} /\ IsFiniteSet(Items)
ASSUME BoundsAreNumbers == /\ MaxConcurrent \in Nat \ {0}
                           /\ MaxTasks \in Nat /\ MaxRequests \in Nat
                           /\ MaxTime \in Nat

-----------------------------------------------------------------------------
(* Types *)

ItemStatus == {"backlog", "queued", "in-progress", "blocked", "done", "errored"}
QueueMode == {"asap", "run_at", "run_after", "run_when"}
Time == 0..MaxTime

Item == [id : Items, status : ItemStatus, bot : Bots \cup {NoBot},
         active : TaskIds \cup {NoTask},
         mode : QueueMode, runAt : Time \cup {NoTime},
         after : Items \cup {NoItem}, requireSuccess : BOOLEAN,
         queuedAt : Time \cup {NoTime}, pos : Nat]

\* The body of a PATCH: the fields it does not mention are Keep.
Patch == [status : ItemStatus \cup {Keep}, bot : Bots \cup {NoBot, Keep},
          mode : QueueMode \cup {Keep}, runAt : Time \cup {NoTime, Keep},
          after : Items \cup {NoItem, Keep}, requireSuccess : BOOLEAN \cup {Keep}]

Outcome == {"succeeded", "blocked", "errored"}
TaskStatus == {"none", "pending", "running", "failed"} \cup Outcome
\* A task's instruction is the text of one item: itemOf names it.
Task == [status : TaskStatus, itemOf : Items \cup {NoItem}]

ASSUME NullsAreDistinct ==
  /\ NoTask \notin TaskIds /\ NoTime \notin Nat /\ NoBot \notin Bots
  /\ NoItem \notin Items /\ NoItem \notin Item
  /\ Keep \notin ItemStatus /\ Keep \notin Bots \cup {NoBot} /\ Keep \notin QueueMode
  /\ Keep \notin Time \cup {NoTime} /\ Keep \notin Items \cup {NoItem}
  /\ Keep \notin BOOLEAN
  /\ Runner \notin Clients

\* The boards a run starts from: no item has a task yet.
Fits(b) == \A i \in Items : b[i] # NoItem => b[i].id = i /\ b[i].active = NoTask
ASSUME LoadedBoardsFit ==
  Loaded \subseteq {b \in [Items -> Item \cup {NoItem}] : Fits(b)}
ASSUME PatchesAreBodies == Patches \subseteq Patch /\ Keep \notin Patches

\* The stages of one task at its bot: the message is queued or executed
\* ("bot"), then the result handler records it, finds its item, settles it.
Stage == {"none", "bot", "record", "find", "settle", "over", "lost"}

PC == {"idle", "reconcile", "finish", "collect", "pick", "launch",
       "dispatch", "sent", "store", "patch", "write", "list", "reorder", "close"}

VARIABLES
  board,     \* InMemoryBoardStore.items, NoItem where there is none
  unborn,    \* ids never created
  tasks,     \* InMemoryDirectTaskStore.tasks
  work,      \* per task: its stage at the bot
  outcome,   \* per task: what the bot answered
  found,     \* per task: the copy of the item its result handler read
  pc,        \* per process: what it does next
  copy,      \* per process: the copy of the item it works on
  sent,      \* per process: the task it dispatched
  patch,     \* per client: the PATCH body
  order,     \* per client: the positions it is about to give, 0 for none
  todo,      \* runner: items listed and not yet visited
  slots,     \* runner: free slots left in this tick
  clock, requests

vars == <<board, unborn, tasks, work, outcome, found, pc, copy, sent, patch, order,
          todo, slots, clock, requests>>

runnerVars == <<todo, slots>>
botVars == <<work, outcome, found>>
clientVars == <<patch, order, requests>>

TypeOK ==
  /\ board \in [Items -> Item \cup {NoItem}]
  /\ unborn \in SUBSET Items
  /\ tasks \in [TaskIds -> Task]
  /\ work \in [TaskIds -> Stage]
  /\ outcome \in [TaskIds -> Outcome]
  /\ found \in [TaskIds -> Item \cup {NoItem}]
  /\ pc \in [Procs -> PC]
  /\ copy \in [Procs -> Item \cup {NoItem}]
  /\ sent \in [Procs -> TaskIds \cup {NoTask}]
  /\ patch \in [Clients -> Patches \cup {Keep}]
  /\ order \in [Clients -> [Items -> Nat]]
  /\ todo \in SUBSET Item
  /\ slots \in Int
  /\ clock \in Time
  /\ requests \in 0..MaxRequests

-----------------------------------------------------------------------------
(* The board store and the task store *)

Present(i) == board[i] # NoItem
OnBoard == {i \in Items : Present(i)}
WithStatus(st) == {board[i] : i \in {j \in OnBoard : board[j].status = st}}
Terminal == {"failed"} \cup Outcome

\* List: SortPosition ascending with 0 last, then CreatedAt.
ListBefore(a, b) ==
  \/ a.pos # 0 /\ (b.pos = 0 \/ a.pos < b.pos)
  \/ a.pos = b.pos /\ a.id < b.id

UpdateUpserts(it) == board' = [board EXCEPT ![it.id] = it]

\* Update replaces the stored item by the caller's copy, if it still exists.
Update(it) == board' = IF Present(it.id) THEN [board EXCEPT ![it.id] = it] ELSE board

FreshReusesIds(t) == tasks[t].status \in {"none"} \cup Terminal

\* Ids are random in the code; here the least one never used.
Fresh(t) == /\ tasks[t].status = "none"
            /\ \A u \in TaskIds : tasks[u].status = "none" => t <= u

Goto(p, label) == pc' = [pc EXCEPT ![p] = label]
Hold(p, it) == copy' = [copy EXCEPT ![p] = it]

\* The item's copy goes out of scope.
Release(p, label) == Goto(p, label) /\ Hold(p, NoItem)

\* Where process p continues once its dispatch is over.
AfterDispatch(p) == IF p = Runner THEN "pick" ELSE "idle"

-----------------------------------------------------------------------------
(* DispatchBoardItem and LocalTaskDispatcher.Dispatch, run by process p on  *)
(* copy[p]: create the task and send it, mark it, store it on the item.     *)

\* The task is created and its message enters the bot's queue.  Nobody knows
\* the new id before the message is sent, so creation and send are one step.
SendTask(p, t) ==
  /\ pc[p] = "dispatch"
  /\ Fresh(t)
  /\ tasks' = [tasks EXCEPT ![t] = [status |-> "pending", itemOf |-> copy[p].id]]
  /\ work' = [work EXCEPT ![t] = "bot"]
  /\ sent' = [sent EXCEPT ![p] = t]
  /\ Goto(p, "sent")
  /\ UNCHANGED <<board, unborn, outcome, found, copy, runnerVars, clientVars, clock>>

\* The bot's queue is full or unknown: the task is failed, the item is left
\* in progress without a task.
RejectTask(p, t) ==
  /\ pc[p] = "dispatch"
  /\ Fresh(t)
  /\ tasks' = [tasks EXCEPT ![t] = [status |-> "failed", itemOf |-> copy[p].id]]
  /\ Release(p, AfterDispatch(p))
  /\ UNCHANGED <<board, unborn, botVars, sent, runnerVars, clientVars, clock>>

\* dispatchNow writes its own copy of the task, status running, whatever the
\* bot has recorded since the message was sent.
MarkRunning(p) ==
  /\ pc[p] = "sent"
  /\ tasks' = [tasks EXCEPT ![sent[p]].status = "running"]
  /\ Goto(p, "store")
  /\ UNCHANGED <<board, unborn, botVars, copy, sent, runnerVars, clientVars, clock>>

\* The item, as it was when the dispatch began, is stored with its task.
StoreActive(p) ==
  /\ pc[p] = "store"
  /\ Update([copy[p] EXCEPT !.active = sent[p]])
  /\ Release(p, AfterDispatch(p))
  /\ sent' = [sent EXCEPT ![p] = NoTask]
  /\ UNCHANGED <<unborn, tasks, botVars, runnerVars, clientVars, clock>>

-----------------------------------------------------------------------------
(* The queue runner: one tick reconciles, counts, collects and launches. *)

Tick ==
  /\ pc[Runner] = "idle"
  /\ todo' = WithStatus("in-progress")
  /\ Goto(Runner, "reconcile")
  /\ UNCHANGED <<board, unborn, tasks, botVars, copy, sent, slots, clientVars, clock>>

\* Item status for a finished task.
Settled(st) == CASE st = "succeeded" -> "done"
                 [] st = "blocked" -> "blocked"
                 [] OTHER -> "errored"

FinishedForgetsBlocked(it) ==
  it.active # NoTask /\ tasks[it.active].status \in {"failed", "succeeded"}

Finished(it) == it.active # NoTask /\ tasks[it.active].status \in Terminal

\* The next listed item is visited; a finished one is settled in the copy.
ReconcileNext(it) ==
  /\ pc[Runner] = "reconcile"
  /\ \A other \in todo \ {it} : ListBefore(it, other)
  /\ todo' = todo \ {it}
  /\ IF Finished(it)
     THEN /\ Hold(Runner, [it EXCEPT !.status = Settled(tasks[it.active].status),
                                     !.active = NoTask])
          /\ Goto(Runner, "finish")
     ELSE UNCHANGED <<copy, pc>>
  /\ UNCHANGED <<board, unborn, tasks, botVars, sent, slots, clientVars, clock>>

ReconcileWrite ==
  /\ pc[Runner] = "finish"
  /\ Update(copy[Runner])
  /\ Release(Runner, "reconcile")
  /\ UNCHANGED <<unborn, tasks, botVars, sent, runnerVars, clientVars, clock>>

FreeSlotsIgnoresRunning == MaxConcurrent
FreeSlotsOneShort == MaxConcurrent - 1 - Cardinality(WithStatus("in-progress"))

\* The slots a tick may fill.
FreeSlots == MaxConcurrent - Cardinality(WithStatus("in-progress"))

CountSlots ==
  /\ pc[Runner] = "reconcile"
  /\ todo = {}
  /\ IF FreeSlots <= 0 THEN slots' = 0 /\ Goto(Runner, "idle")
                       ELSE slots' = FreeSlots /\ Goto(Runner, "collect")
  /\ UNCHANGED <<board, unborn, tasks, botVars, copy, sent, todo, clientVars, clock>>

Collect ==
  /\ pc[Runner] = "collect"
  /\ todo' = WithStatus("queued")
  /\ Goto(Runner, "pick")
  /\ UNCHANGED <<board, unborn, tasks, botVars, copy, sent, slots, clientVars, clock>>


\* An item without QueuedAt counts from its creation, which is before the clock
\* starts and in the order of the ids.
QueuedAtOf(it) == IF it.queuedAt = NoTime THEN -1 ELSE it.queuedAt
QueuedEarlier(a, b) == \/ QueuedAtOf(a) < QueuedAtOf(b)
                       \/ a.queuedAt = NoTime /\ b.queuedAt = NoTime /\ a.id < b.id

\* The empty mode of an item never queued is "asap" too.
Asap(it) == it.mode = "asap"

QueueBeforeUnsorted(a, b) == ListBefore(a, b)

\* ASAP items first, then by QueuedAt; the sort is stable over List's order.
QueueBefore(a, b) ==
  \/ Asap(a) /\ ~Asap(b)
  \/ /\ Asap(a) <=> Asap(b)
     /\ \/ QueuedEarlier(a, b)
        \/ ~QueuedEarlier(b, a) /\ ListBefore(a, b)

AfterDoneIgnoresSuccess(it) ==
  \/ it.after = NoItem
  \/ Present(it.after) /\ board[it.after].status \in {"done", "errored"}

\* The predecessor's status is read afresh; a deleted one is never done.
AfterDone(it) ==
  \/ it.after = NoItem
  \/ /\ Present(it.after)
     /\ \/ board[it.after].status = "done"
        \/ board[it.after].status = "errored" /\ ~it.requireSuccess

Ready(it) ==
  \/ it.mode = "asap"
  \/ it.mode = "run_at" /\ it.runAt # NoTime /\ it.runAt <= clock
  \/ it.mode = "run_after" /\ AfterDone(it)
  \/ it.mode = "run_when" /\ (it.runAt = NoTime \/ it.runAt <= clock) /\ AfterDone(it)

LaunchedStaysQueued(it) == [it EXCEPT !.queuedAt = NoTime]

Launched(it) == [it EXCEPT !.status = "in-progress", !.mode = "asap", !.runAt = NoTime,
                           !.after = NoItem, !.queuedAt = NoTime]

EndTick ==
  /\ pc[Runner] = "pick"
  /\ todo = {} \/ slots <= 0
  /\ todo' = {}
  /\ slots' = 0
  /\ Goto(Runner, "idle")
  /\ UNCHANGED <<board, unborn, tasks, botVars, copy, sent, clientVars, clock>>

PickNext(it) ==
  /\ pc[Runner] = "pick"
  /\ slots > 0
  /\ \A other \in todo \ {it} : QueueBefore(it, other)
  /\ todo' = todo \ {it}
  /\ IF Ready(it)
     THEN /\ Hold(Runner, Launched(it))
          /\ Goto(Runner, "launch")
     ELSE UNCHANGED <<copy, pc>>
  /\ UNCHANGED <<board, unborn, tasks, botVars, sent, slots, clientVars, clock>>

\* The copy from the listing is stored in progress; it takes a slot if the
\* item still exists, and is dispatched if it has a bot.
LaunchWrite ==
  /\ pc[Runner] = "launch"
  /\ Update(copy[Runner])
  /\ slots' = IF Present(copy[Runner].id) THEN slots - 1 ELSE slots
  /\ IF Present(copy[Runner].id) /\ copy[Runner].bot # NoBot
     THEN Goto(Runner, "dispatch") /\ UNCHANGED copy
     ELSE Release(Runner, "pick")
  /\ UNCHANGED <<unborn, tasks, botVars, sent, todo, clientVars, clock>>

-----------------------------------------------------------------------------
(* The HTTP handlers *)

Begin(c) == /\ pc[c] = "idle"
            /\ requests < MaxRequests
            /\ requests' = requests + 1

\* POST /board: a new item at the bottom of the backlog.
CreateItem(c, i, b) ==
  /\ Begin(c)
  /\ i \in unborn /\ \A j \in unborn : i <= j
  /\ board' = [board EXCEPT ![i] =
        [id |-> i, status |-> "backlog", bot |-> b, active |-> NoTask, mode |-> "asap",
         runAt |-> NoTime, after |-> NoItem, requireSuccess |-> FALSE,
         queuedAt |-> NoTime, pos |-> Cardinality(WithStatus("backlog")) + 1]]
  /\ unborn' = unborn \ {i}
  /\ UNCHANGED <<tasks, botVars, pc, copy, sent, patch, order, runnerVars, clock>>

DeleteItem(c, i) ==
  /\ Begin(c)
  /\ Present(i)
  /\ board' = [board EXCEPT ![i] = NoItem]
  /\ UNCHANGED <<unborn, tasks, botVars, pc, copy, sent, patch, order, runnerVars, clock>>

\* POST /board/{id}/close, in two store calls.  ActiveTaskID is kept.
CloseGet(c, i) ==
  /\ Begin(c)
  /\ Present(i)
  /\ Hold(c, [board[i] EXCEPT !.status = "done"])
  /\ Goto(c, "close")
  /\ UNCHANGED <<board, unborn, tasks, botVars, sent, patch, order, runnerVars, clock>>

CloseWrite(c) ==
  /\ pc[c] = "close"
  /\ Update(copy[c])
  /\ Release(c, "idle")
  /\ UNCHANGED <<unborn, tasks, botVars, sent, runnerVars, clientVars, clock>>

\* PATCH /board/{id} reads the item.  A PATCH of the bot alone is also what
\* POST /board/{id}/assign does.
PatchGet(c, i, p) ==
  /\ Begin(c)
  /\ Present(i)
  /\ Hold(c, board[i])
  /\ patch' = [patch EXCEPT ![c] = p]
  /\ Goto(c, "patch")
  /\ UNCHANGED <<board, unborn, tasks, botVars, sent, order, runnerVars, clock>>

EndRequest(c) == Release(c, "idle") /\ patch' = [patch EXCEPT ![c] = Keep]

\* The capacity check of a move to in-progress; 409 ends the request.
CheckCapacity(c) ==
  /\ pc[c] = "patch"
  /\ LET starts == patch[c].status = "in-progress" /\ copy[c].status # "in-progress"
         full == Cardinality(WithStatus("in-progress")) >= MaxConcurrent
     IN  IF starts /\ full THEN EndRequest(c) ELSE Goto(c, "write") /\ UNCHANGED <<copy, patch>>
  /\ UNCHANGED <<board, unborn, tasks, botVars, sent, order, runnerVars, requests, clock>>

Overlay(new, old) == IF new = Keep THEN old ELSE new

\* The copy with the body's fields applied: a status other than in-progress
\* clears the task, one other than queued clears the queue fields, and the
\* body's own queue fields are applied last.
Patched(it, p) ==
  LET moves == p.status # Keep
      st == Overlay(p.status, it.status)
      clear == moves /\ st # "queued"
      enters == moves /\ st = "queued" /\ it.status # "queued"
  IN  [it EXCEPT
        !.status = st,
        !.bot = Overlay(p.bot, @),
        !.active = IF moves /\ st # "in-progress" THEN NoTask ELSE @,
        !.queuedAt = IF clear THEN NoTime ELSE IF enters THEN clock ELSE @,
        !.mode = Overlay(p.mode, IF clear THEN "asap" ELSE @),
        !.runAt = Overlay(p.runAt, IF clear THEN NoTime ELSE @),
        !.after = Overlay(p.after, IF clear THEN NoItem ELSE @),
        !.requireSuccess = Overlay(p.requireSuccess, IF clear THEN FALSE ELSE @)]

PatchWrite(c) ==
  /\ pc[c] = "write"
  /\ LET new == Patched(copy[c], patch[c])
     IN  /\ Update(new)
         /\ IF Present(new.id) /\ new.status # copy[c].status
            THEN Hold(c, new) /\ Goto(c, "list") /\ UNCHANGED patch
            ELSE EndRequest(c)
  /\ UNCHANGED <<unborn, tasks, botVars, sent, order, runnerVars, requests, clock>>

\* Position of item i once the column's other items are followed by item m.
Position(column, m, i) ==
  IF i = m THEN Cardinality(column) + 1
  ELSE Cardinality({j \in column : ListBefore(board[j], board[i])}) + 1

NoOrder == [i \in Items |-> 0]

\* The new column is listed: the others keep their order, the moved item is last.
ListColumn(c) ==
  /\ pc[c] = "list"
  /\ LET m == copy[c].id
         column == {i \in OnBoard \ {m} : board[i].status = copy[c].status}
     IN  order' = [order EXCEPT ![c] = [i \in Items |->
                     IF i \in column \cup {m} THEN Position(column, m, i) ELSE 0]]
  /\ Goto(c, "reorder")
  /\ UNCHANGED <<board, unborn, tasks, botVars, copy, sent, patch, runnerVars, requests, clock>>

\* Reorder gives the listed items their positions, wherever they are by then; a
\* move to in-progress then dispatches the copy written before the reordering.
ReorderColumn(c) ==
  /\ pc[c] = "reorder"
  /\ board' = [i \in Items |-> IF Present(i) /\ order[c][i] # 0
                               THEN [board[i] EXCEPT !.pos = order[c][i]] ELSE board[i]]
  /\ order' = [order EXCEPT ![c] = NoOrder]
  /\ IF copy[c].status = "in-progress" /\ copy[c].bot # NoBot
     THEN Goto(c, "dispatch") /\ patch' = [patch EXCEPT ![c] = Keep] /\ UNCHANGED copy
     ELSE EndRequest(c)
  /\ UNCHANGED <<unborn, tasks, botVars, sent, runnerVars, requests, clock>>

-----------------------------------------------------------------------------
(* The bot and the handler of its result *)

\* The bot finishes, possibly before dispatchNow has marked the task.
BotAnswers(t, o) ==
  /\ work[t] = "bot"
  /\ work' = [work EXCEPT ![t] = "record"]
  /\ outcome' = [outcome EXCEPT ![t] = o]
  /\ UNCHANGED <<board, unborn, tasks, found, pc, copy, sent, runnerVars, clientVars, clock>>

\* A panic in the worker is recovered and no result is ever reported.
BotPanics(t) ==
  /\ work[t] = "bot"
  /\ work' = [work EXCEPT ![t] = "lost"]
  /\ UNCHANGED <<board, unborn, tasks, outcome, found, pc, copy, sent, runnerVars,
                 clientVars, clock>>

RecordResult(t) ==
  /\ work[t] = "record"
  /\ tasks' = [tasks EXCEPT ![t].status = outcome[t]]
  /\ work' = [work EXCEPT ![t] = "find"]
  /\ UNCHANGED <<board, unborn, outcome, found, pc, copy, sent, runnerVars, clientVars, clock>>

\* The item whose ActiveTaskID is this task, if one has it already.
LinkedItems(t) == {board[i] : i \in {j \in OnBoard : board[j].active = t}}

FindItem(t, it) ==
  /\ work[t] = "find"
  /\ it \in LinkedItems(t)
  /\ \A other \in LinkedItems(t) \ {it} : ListBefore(it, other)
  /\ work' = [work EXCEPT ![t] = "settle"]
  /\ found' = [found EXCEPT ![t] = [it EXCEPT !.active = NoTask,
                                             !.status = Settled(outcome[t])]]
  /\ UNCHANGED <<board, unborn, tasks, outcome, pc, copy, sent, runnerVars, clientVars, clock>>

FindNothing(t) ==
  /\ work[t] = "find"
  /\ LinkedItems(t) = {}
  /\ work' = [work EXCEPT ![t] = "over"]
  /\ UNCHANGED <<board, unborn, tasks, outcome, found, pc, copy, sent, runnerVars,
                 clientVars, clock>>

SettleItem(t) ==
  /\ work[t] = "settle"
  /\ Update(found[t])
  /\ found' = [found EXCEPT ![t] = NoItem]
  /\ work' = [work EXCEPT ![t] = "over"]
  /\ UNCHANGED <<unborn, tasks, outcome, pc, copy, sent, runnerVars, clientVars, clock>>

TimePasses ==
  /\ clock < MaxTime
  /\ clock' = clock + 1
  /\ UNCHANGED <<board, unborn, tasks, botVars, pc, copy, sent, runnerVars, clientVars>>

-----------------------------------------------------------------------------
Init ==
  /\ board \in Loaded
  /\ unborn = {i \in Items : board[i] = NoItem}
  /\ tasks = [t \in TaskIds |-> [status |-> "none", itemOf |-> NoItem]]
  /\ work = [t \in TaskIds |-> "none"]
  /\ outcome = [t \in TaskIds |-> "errored"]
  /\ found = [t \in TaskIds |-> NoItem]
  /\ pc = [p \in Procs |-> "idle"]
  /\ copy = [p \in Procs |-> NoItem]
  /\ sent = [p \in Procs |-> NoTask]
  /\ patch = [c \in Clients |-> Keep]
  /\ order = [c \in Clients |-> NoOrder]
  /\ todo = {}
  /\ slots = 0
  /\ clock = 0
  /\ requests = 0

DispatchStep(p) == \/ \E t \in TaskIds : SendTask(p, t) \/ RejectTask(p, t)
                   \/ MarkRunning(p)
                   \/ StoreActive(p)

RunnerStep == \/ Tick \/ ReconcileWrite \/ CountSlots \/ Collect \/ EndTick
              \/ \E it \in todo : ReconcileNext(it) \/ PickNext(it)
              \/ LaunchWrite
              \/ DispatchStep(Runner)

ServeStep(c) == \/ CloseWrite(c) \/ CheckCapacity(c) \/ PatchWrite(c)
                \/ ListColumn(c) \/ ReorderColumn(c) \/ DispatchStep(c)

NewRequest(c) ==
  \E i \in Items : \/ \E b \in Bots \cup {NoBot} : CreateItem(c, i, b)
                   \/ DeleteItem(c, i)
                   \/ CloseGet(c, i)
                   \/ \E p \in Patches : PatchGet(c, i, p)

ResultStep(t) == \/ RecordResult(t)
                 \/ \E it \in LinkedItems(t) : FindItem(t, it)
                 \/ FindNothing(t)
                 \/ SettleItem(t)

BotStep(t) == BotPanics(t) \/ \E o \in Outcome : BotAnswers(t, o)

Next ==
  \/ RunnerStep
  \/ \E c \in Clients : NewRequest(c) \/ ServeStep(c)
  \/ \E t \in TaskIds : BotStep(t) \/ ResultStep(t)
  \/ TimePasses

Spec == Init /\ [][Next]_vars

\* A ticker drives the runner forever, a handler that has begun runs to its
\* end, and a result that was reported is handled.  Nothing obliges a bot to
\* answer, an operator to make a request or the clock to reach a date.
Fairness ==
  /\ WF_vars(RunnerStep)
  /\ \A c \in Clients : WF_vars(ServeStep(c))
  /\ \A t \in TaskIds : WF_vars(ResultStep(t))

FairSpec == Spec /\ Fairness
-----------------------------------------------------------------------------
(* Properties *)

\* An item's ActiveTaskID always names a task whose instruction was built from
\* that very item, however stale the copies that the runner, the handlers and
\* the bots write back: handleSharedTaskResult can only settle the right item.
ActiveTaskIsOwn ==
  \A i \in OnBoard : board[i].active # NoTask => tasks[board[i].active].itemOf = i

\* An item that is not being worked on carries no task: launch, which does not
\* clear ActiveTaskID, never starts a run with the task of an earlier one, which
\* reconcile would take for the end of the new run.  Only a closed item keeps it.
IdleItemHasNoTask ==
  \A i \in OnBoard :
    board[i].active # NoTask => board[i].status \in {"in-progress", "done"}

\* A deleted item never comes back, whatever copy of it is still being written.
DeletedStaysDeleted ==
  [][\A i \in Items \ unborn : ~Present(i) => board'[i] = NoItem]_vars

\* The running items never exceed the limit (product-details: MaxConcurrent
\* "caps how many items can be in-progress at once").
CapacityRespected == Cardinality(WithStatus("in-progress")) <= MaxConcurrent

Starts(i) == /\ Present(i) /\ board[i].status = "queued"
             /\ board'[i] # NoItem /\ board'[i].status = "in-progress"

\* The runner starts ready items in order: no ASAP item starts while one that
\* was queued earlier still waits.
NoOvertaking ==
  [][\A i, j \in Items :
       Starts(i) /\ Present(j) /\ board[j].status = "queued" /\ Asap(board[j])
         => Asap(board[i]) /\ board[i].queuedAt <= board[j].queuedAt]_vars

\* With a runner alone, a dependent item starts only when the predecessor stored
\* with it is over, and over successfully if that is required: the status isReady
\* read a step before the launch is still the predecessor's.
StartsAfterPredecessor ==
  [][\A i, j \in Items :
       Starts(i) /\ board[i].after = j /\ Present(j)
                /\ board[i].mode \in {"run_after", "run_when"}
         => board[j].status \in IF board[i].requireSuccess THEN {"done"}
                                                          ELSE {"done", "errored"}]_vars

\* The order of the queue: an asap item is not overtaken, and an item that waits for another
\* one starts after it (QueueRunner.tick, isReady).
StartsInOrder == NoOvertaking /\ StartsAfterPredecessor

Dispatched(i) == {t \in TaskIds : tasks[t].itemOf = i}

\* Queued once, dispatched once: no second task is created for an item that
\* nobody has queued again.
DispatchedOnce == \A i \in Items : Cardinality(Dispatched(i)) <= 1

Linked(i, t) == Present(i) /\ board[i].status = "in-progress" /\ board[i].active = t

\* "any in-progress item whose task has succeeded or failed is automatically
\* transitioned": once the task stored on an item has ended, the item leaves it.
LinkedItemSettles ==
  \A i \in Items, t \in TaskIds :
    Linked(i, t) /\ tasks[t].status \in Terminal ~> ~Linked(i, t)

Waiting(i) == Present(i) /\ board[i].status = "queued" /\ Ready(board[i])
FreeSlot == Cardinality(WithStatus("in-progress")) < MaxConcurrent

\* A ready item does not wait forever while a slot stays free.
ReadyItemStarts == \A i \in Items : ~<>[](Waiting(i) /\ FreeSlot)

\* The same sentence of product-details, from the bot's side: once the result of
\* an item's task has been handled, the item does not stay in progress with it.
ResultReachesItem ==
  \A i \in Items, t \in TaskIds :
    work[t] = "over" /\ outcome[t] = "succeeded" /\ tasks[t].itemOf = i ~> ~Linked(i, t)
=============================================================================
