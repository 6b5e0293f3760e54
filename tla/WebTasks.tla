------------------------------ MODULE WebTasks -----------------------------
(***************************************************************************)
(* The tasks of the web page: the list with its filter and its check       *)
(* boxes, and a panel on one task with three tabs, of which two poll every *)
(* two seconds.  The page refreshes itself every 30 seconds besides.       *)
(*                                                                         *)
(* As in WebBoard a handler runs alone, the answers come in any order, and *)
(* a handler is a function of the page's state ui that collects in ui.send *)
(* the requests it makes.                                                  *)
(*                                                                         *)
(* Abstracted: a task is its status and whether it has output; of the      *)
(* filters the one by schedule; the requests for the checked tasks are     *)
(* answered together; equal requests under way are one; the server is what *)
(* TaskDispatch models, here any order of changes.  The user is signed in. *)
(***************************************************************************)
EXTENDS Naturals, FiniteSets

CONSTANTS
  Tasks,        \* tasks of a bot
  Scheduled,    \* those with a date
  None,         \* no task
  MaxClicks,    \* bound on what the user does
  MaxChanges,   \* bound on what others change on the server
  MaxRequests   \* bound on the requests under way when the user acts

VARIABLES
  tasks,    \* the server's tasks
  talk,     \* the server's messages on each task: the last one's direction
  net,      \* requests under way, answered or not
  ui,       \* the page
  clicks,   \* number of actions of the user so far
  changes   \* number of changes by others so far

vars == <<tasks, talk, net, ui, clicks, changes>>

Statuses == {"none", "pending", "running", "succeeded"}
TaskCopy == [status : Statuses, output : BOOLEAN]
Talks == {"none", "outbound", "inbound"}
Ids == Tasks \cup {None}
Reads == {"list", "task", "poll", "messages", "askPoll"}
Writes == {"create", "run", "remove", "ask"}
Request == [op : Reads \cup Writes, task : Ids, ids : SUBSET Tasks,
            code : {"sent", "ok", "failed"}, seen : [Tasks -> TaskCopy], said : Talks]
Bodies == [kind : {"blank", "detail", "output", "talk"}, task : Ids, copy : TaskCopy]

TypeOK ==
  /\ tasks \in [Tasks -> TaskCopy]
  /\ talk \in [Tasks -> Talks]
  /\ net \subseteq Request
  /\ ui \in [activeTab : {"tasks", "board"}, allTasksList : [Tasks -> TaskCopy],
             currentTaskFilter : {"all", "immediate", "scheduled"}, checked : SUBSET Tasks,
             taskCtxTask : Ids, copy : TaskCopy, taskCtxActiveTab : {"detail", "ask", "output"},
             body : Bodies, taskOutputPollTimer : Ids, taskAskPollTimer : Ids,
             taskAskPending : BOOLEAN, send : {{}}]
  /\ clicks \in 0 .. MaxClicks
  /\ changes \in 0 .. MaxChanges

NoTask == [status |-> "none", output |-> FALSE]
Nothing == [t \in Tasks |-> NoTask]
Call(op, t, ids) == [op |-> op, task |-> t, ids |-> ids, code |-> "sent",
                     seen |-> Nothing, said |-> "none"]

Api(u, op, t) == [u EXCEPT !.send = @ \cup {Call(op, t, {})}]

-----------------------------------------------------------------------------
(* Functions of the script *)

loadTasks(u) == Api(u, "list", None)

getFilteredTasks(u) ==
  {t \in Tasks : /\ u.allTasksList[t] # NoTask
                 /\ CASE u.currentTaskFilter = "all" -> TRUE
                      [] u.currentTaskFilter = "immediate" -> t \notin Scheduled
                      [] u.currentTaskFilter = "scheduled" -> t \in Scheduled}

\* The rows are made anew: none is checked.
renderTaskList(u) == [u EXCEPT !.checked = {}]

setTaskFilter(u, f) == renderTaskList([u EXCEPT !.currentTaskFilter = f])

Body(kind, u) == [kind |-> kind, task |-> u.taskCtxTask, copy |-> u.copy]

\* Only a running task without output is polled.
showOutput(u) ==
  [u EXCEPT !.body = Body("output", u),
            !.taskOutputPollTimer =
               IF u.copy.output \/ u.copy.status # "running" THEN None
               ELSE IF @ = None THEN u.taskCtxTask ELSE @]

loadTaskAsk(u) == IF u.taskCtxTask = None THEN u ELSE Api(u, "messages", u.taskCtxTask)

loadTaskCtx(u) ==
  IF u.taskCtxTask = None THEN u
  ELSE CASE u.taskCtxActiveTab = "output" -> showOutput(u)
         [] u.taskCtxActiveTab = "ask" -> loadTaskAsk(u)
         [] u.taskCtxActiveTab = "detail" -> [u EXCEPT !.body = Body("detail", u)]

tctxTab(u, name) ==
  loadTaskCtx([u EXCEPT !.taskCtxActiveTab = name,
                        !.taskAskPollTimer = IF name = "ask" THEN @ ELSE None,
                        !.taskOutputPollTimer = IF name = "output" THEN @ ELSE None])

openTaskCtx(u, t) ==
  tctxTab([u EXCEPT !.taskCtxTask = t, !.copy = u.allTasksList[t]], u.taskCtxActiveTab)

closeTaskCtx(u) ==
  [u EXCEPT !.taskCtxTask = None, !.copy = NoTask,
            !.taskAskPollTimer = None, !.taskOutputPollTimer = None]

\* The task of the answer becomes the one of the panel, whichever that is by now.
TaskLoaded(u, t, seen) == loadTaskCtx([u EXCEPT !.taskCtxTask = t, !.copy = seen])

MessagesLoaded(u, t, said) ==
  [u EXCEPT !.body = [kind |-> "talk", task |-> t, copy |-> NoTask],
            !.taskAskPending = @ /\ said # "inbound"]

\* A closed panel has no task to poll: the script stops there.
Asked(u) ==
  LET asked == loadTaskAsk([u EXCEPT !.taskAskPending = TRUE])
  IN [asked EXCEPT !.taskAskPollTimer = IF @ = None THEN u.taskCtxTask ELSE @]

AskPolled(u) ==
  LET polled == loadTaskAsk(u)
  IN IF u.taskAskPending THEN polled ELSE [polled EXCEPT !.taskAskPollTimer = None]

\* The dialog either stays open for another task, or the tab is opened anew.
Created(u) ==
  {loadTasks(setTaskFilter(u, "immediate")),
   loadTasks(closeTaskCtx([setTaskFilter(u, "immediate") EXCEPT !.activeTab = "tasks"]))}

Removed(u, ids) == loadTasks(IF u.taskCtxTask \in ids THEN closeTaskCtx(u) ELSE u)

\* What becomes of an answer; of most errors the user only gets a message.
Handled(u, r) ==
  CASE r.code = "failed" -> {IF r.op \in {"run", "remove"} THEN loadTasks(u) ELSE u}
    [] r.op = "list" -> {renderTaskList([u EXCEPT !.allTasksList = r.seen])}
    [] r.op \in {"task", "poll"} -> {TaskLoaded(u, r.task, r.seen[r.task])}
    [] r.op = "messages" -> {MessagesLoaded(u, r.task, r.said)}
    [] r.op = "askPoll" -> {AskPolled(u)}
    [] r.op = "create" -> Created(u)
    [] r.op = "run" -> {loadTasks(u)}
    [] r.op = "remove" -> {Removed(u, r.ids)}
    [] r.op = "ask" -> {Asked(u)}

-----------------------------------------------------------------------------
(* The page's steps *)

\* A handler has run: its requests go out.
Run(u, pending) ==
  /\ ui' = [u EXCEPT !.send = {}]
  /\ net' = pending \cup u.send

Answer(op) ==
  \E r \in net :
     /\ r.op = op
     /\ r.code # "sent"
     /\ \E u \in Handled(ui, r) : Run(u, net \ {r})
     /\ UNCHANGED <<tasks, talk, clicks, changes>>

\* A timer waits while a request of the kind it makes is under way.
Tick(u) ==
  /\ \A r \in net, s \in u.send : r.op # s.op
  /\ Run(u, net)
  /\ UNCHANGED <<tasks, talk, clicks, changes>>

OutputTick ==
  /\ ui.taskOutputPollTimer # None
  /\ Tick(IF ui.taskCtxActiveTab = "output" /\ ui.taskCtxTask = ui.taskOutputPollTimer
          THEN Api(ui, "poll", ui.taskOutputPollTimer)
          ELSE [ui EXCEPT !.taskOutputPollTimer = None])

AskTick ==
  /\ ui.taskAskPollTimer # None
  /\ Tick(IF ui.taskCtxActiveTab = "ask" /\ ui.taskCtxTask = ui.taskAskPollTimer
          THEN Api(ui, "askPoll", ui.taskAskPollTimer)
          ELSE [ui EXCEPT !.taskAskPollTimer = None])

refreshAll(u) ==
  LET listed == IF u.activeTab = "tasks" THEN loadTasks(u) ELSE u
  IN IF u.taskCtxTask = None THEN listed ELSE Api(listed, "task", u.taskCtxTask)

RefreshTick == Tick(refreshAll(ui))

Click(u) ==
  /\ clicks < MaxClicks
  /\ clicks' = clicks + 1
  /\ Cardinality(net) < MaxRequests
  /\ Run(u, net)
  /\ UNCHANGED <<tasks, talk, changes>>

OnTasks == ui.activeTab = "tasks"
OnPanel == ui.taskCtxTask # None

\* The tab's panels are closed whichever tab is opened.
OpenTab == ~OnTasks /\ Click(loadTasks(closeTaskCtx([ui EXCEPT !.activeTab = "tasks"])))
LeaveTab == OnTasks /\ Click(closeTaskCtx([ui EXCEPT !.activeTab = "board"]))

SetFilter ==
  OnTasks /\ \E f \in {"all", "immediate", "scheduled"} : Click(setTaskFilter(ui, f))
CheckTask ==
  OnTasks /\ \E t \in getFilteredTasks(ui) \ ui.checked : Click([ui EXCEPT !.checked = @ \cup {t}])
OpenTask == OnTasks /\ \E t \in getFilteredTasks(ui) : Click(openTaskCtx(ui, t))
SelectPanelTab == OnPanel /\ \E name \in {"detail", "ask", "output"} : Click(tctxTab(ui, name))
ClosePanel == OnPanel /\ Click(closeTaskCtx(ui))

\* A dialog that any tab offers.
doDispatchTask == Click(Api(ui, "create", None))

deleteSelectedTasks ==
  /\ OnTasks
  /\ ui.checked # {}
  /\ Click([ui EXCEPT !.send = @ \cup {Call("remove", None, ui.checked)}])

runSelectedTasks ==
  LET ids == {t \in ui.checked : ui.allTasksList[t].status # "running"}
  IN /\ OnTasks
     /\ ids # {}
     /\ Click([ui EXCEPT !.send = @ \cup {Call("run", None, ids)}])

taskAsk == OnPanel /\ ui.taskCtxActiveTab = "ask" /\ Click(Api(ui, "ask", ui.taskCtxTask))

User ==
  \/ OpenTab \/ LeaveTab \/ SetFilter \/ CheckTask \/ OpenTask \/ SelectPanelTab \/ ClosePanel
  \/ doDispatchTask \/ deleteSelectedTasks \/ runSelectedTasks \/ taskAsk

-----------------------------------------------------------------------------
(* The server *)

Reply(r, code, seen, said) ==
  net' = (net \ {r}) \cup {[r EXCEPT !.code = code, !.seen = seen, !.said = said]}

Failure(r) == Reply(r, "failed", Nothing, "none") /\ UNCHANGED <<tasks, talk>>

handleTaskList(r) == Reply(r, "ok", tasks, "none") /\ UNCHANGED <<tasks, talk>>

handleTaskMessages(r) == Reply(r, "ok", Nothing, talk[r.task]) /\ UNCHANGED <<tasks, talk>>

handleTaskGet(r) ==
  IF tasks[r.task] = NoTask THEN Failure(r)
  ELSE /\ Reply(r, "ok", [Nothing EXCEPT ![r.task] = tasks[r.task]], "none")
       /\ UNCHANGED <<tasks, talk>>

handleBotTaskCreate(r) ==
  /\ \E t \in Tasks : tasks[t] = NoTask /\ tasks' = [tasks EXCEPT ![t].status = "pending"]
  /\ Reply(r, "ok", Nothing, "none")
  /\ UNCHANGED talk

\* Of the requests for several tasks any may fail.
ForChecked(r, Changed(_)) ==
  \E done \in SUBSET r.ids :
     /\ tasks' = [t \in Tasks |-> IF t \in done /\ tasks[t] # NoTask THEN Changed(tasks[t])
                                ELSE tasks[t]]
     /\ Reply(r, IF done = r.ids THEN "ok" ELSE "failed", Nothing, "none")
     /\ UNCHANGED talk

handleTaskRunNow(r) == LET Running(copy) == [copy EXCEPT !.status = "running"]
                       IN ForChecked(r, Running)
handleTaskDelete(r) == LET Gone(copy) == NoTask IN ForChecked(r, Gone)

handleTaskAsk(r) ==
  /\ tasks[r.task] # NoTask
  /\ talk' = [talk EXCEPT ![r.task] = "outbound"]
  /\ Reply(r, "ok", Nothing, "none")
  /\ UNCHANGED tasks

Handle(r) ==
  \/ r.op = "list" /\ handleTaskList(r)
  \/ r.op \in {"messages", "askPoll"} /\ handleTaskMessages(r)
  \/ r.op \in {"task", "poll"} /\ handleTaskGet(r)
  \/ r.op = "create" /\ handleBotTaskCreate(r)
  \/ r.op = "run" /\ handleTaskRunNow(r)
  \/ r.op = "remove" /\ handleTaskDelete(r)
  \/ r.op = "ask" /\ handleTaskAsk(r)
  \/ r.op \in {"create", "ask"} /\ Failure(r)

Serve(op) ==
  /\ \E r \in net : r.op = op /\ r.code = "sent" /\ Handle(r)
  /\ UNCHANGED <<ui, clicks, changes>>

\* The scheduler starts a task, a bot reports output, ends, answers.
Others ==
  /\ changes < MaxChanges
  /\ changes' = changes + 1
  /\ \E t \in Tasks :
        \/ /\ tasks[t].status = "pending"
           /\ tasks' = [tasks EXCEPT ![t].status = "running"]
           /\ UNCHANGED talk
        \/ /\ tasks[t].status = "running"
           /\ tasks' = [tasks EXCEPT ![t].output = TRUE]
           /\ UNCHANGED talk
        \/ /\ tasks[t].status = "running"
           /\ tasks' = [tasks EXCEPT ![t] = [status |-> "succeeded", output |-> TRUE]]
           /\ UNCHANGED talk
        \/ talk[t] = "outbound" /\ talk' = [talk EXCEPT ![t] = "inbound"] /\ UNCHANGED tasks
  /\ UNCHANGED <<net, ui, clicks>>

-----------------------------------------------------------------------------
\* The tasks have been created already, and those without a date are running.
Init ==
  /\ tasks = [t \in Tasks |-> [status |-> IF t \in Scheduled THEN "pending" ELSE "running",
                               output |-> FALSE]]
  /\ talk = [t \in Tasks |-> "none"]
  /\ net = {Call("list", None, {})}
  /\ ui = [activeTab |-> "tasks", allTasksList |-> Nothing, currentTaskFilter |-> "all",
           checked |-> {}, taskCtxTask |-> None, copy |-> NoTask, taskCtxActiveTab |-> "detail",
           body |-> [kind |-> "blank", task |-> None, copy |-> NoTask],
           taskOutputPollTimer |-> None, taskAskPollTimer |-> None,
           taskAskPending |-> FALSE, send |-> {}]
  /\ clicks = 0
  /\ changes = 0

\* A request is served and its answer handled.
Progress(op) == Serve(op) \/ Answer(op)

OtherProgress == \E op \in (Reads \cup Writes) \ {"list", "task", "messages"} : Progress(op)

Timers == OutputTick \/ AskTick \/ RefreshTick

Next == User \/ Timers \/ Others \/ \E op \in Reads \cup Writes : Progress(op)

Spec == Init /\ [][Next]_vars

\* The server answers and the refreshing goes on; nothing makes a user or a bot act.
FairSpec ==
  /\ Spec
  /\ WF_vars(RefreshTick)
  /\ WF_vars(Progress("list"))
  /\ WF_vars(Progress("task"))
  /\ WF_vars(Serve("messages"))
  /\ WF_vars(Answer("messages"))
  /\ WF_vars(OtherProgress)
-----------------------------------------------------------------------------
(* Properties *)

\* The list and the panel come to show the server's tasks, though the answer for one
\* task may come when the panel is on another, and the messages of a tab that has been
\* left are drawn over the one that is open (loadTaskCtx, loadTaskAsk, refreshAll).
UpToDate ==
  /\ OnTasks => ui.allTasksList = tasks
  /\ OnPanel /\ tasks[ui.taskCtxTask] # NoTask =>
       /\ ui.copy = tasks[ui.taskCtxTask]
       /\ ui.body.kind # "talk" => ui.body = Body(ui.taskCtxActiveTab, ui)
       /\ ui.body.kind = "talk" => ui.taskCtxActiveTab = "ask"
TasksCatchUp == <>[]UpToDate

\* An answer of the bot ends the waiting that the panel shows, although the polling for
\* it stops when another task or tab is opened (loadTaskAsk, tctxTab).
NotThinking ==
  OnPanel /\ ui.taskCtxActiveTab = "ask" /\ tasks[ui.taskCtxTask] # NoTask
    /\ talk[ui.taskCtxTask] = "inbound" => ~ui.taskAskPending
ThinkingEnds == <>[]NotThinking
=============================================================================
