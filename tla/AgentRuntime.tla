---------------------------- MODULE AgentRuntime ----------------------------
(***************************************************************************)
(* A bot of the team: its queue in the router, the loop that receives      *)
(* messages and starts a goroutine for each, the worker that executes      *)
(* tasks, the channel of questions asked meanwhile, and, for a tech-lead,  *)
(* its sub-team.  The team manager starts the bot again when starting      *)
(* failed, and stops it by cancelling its context.                         *)
(*                                                                         *)
(* All tasks of a bot share one worker: its list of allowed directories    *)
(* is read and written without a lock, in two steps each time.  A process  *)
(* that crashes leaves only the session file of the sub-team behind.       *)
(*                                                                         *)
(* Abstracted: the words of the model and its tools, memory, rules files;  *)
(* a round of the worker is a call of the model with its tool calls.  The  *)
(* orchestrator's own stores are those of KanbanQueue and TaskDispatch.    *)
(***************************************************************************)
EXTENDS SubTeam, Sequences, SequencesExt

CONSTANTS
  Tasks,       \* task messages
  Spawns,      \* messages that spawn an agent
  Terminates,  \* messages that terminate one
  NameIn,      \* per spawn or termination: the name of the agent
  DirOf,       \* per task: the directory it works in
  Questions,   \* questions asked while a task is thought to run
  TaskOf,      \* per question: the task it is about
  QueueSize,   \* capacity of the queue
  AskSize,     \* capacity of the channel of questions
  MaxRounds,   \* rounds of a task (50 in the code)
  MaxFailures, \* bound on failing starts, panics and failing answers
  MaxCrashes   \* bound on crashes of the process

Messages == Tasks \cup Spawns \cup Terminates
Dirs == {DirOf[t] : t \in Tasks}

ASSUME RuntimeAssumption ==
  /\ Callers = Terminates /\ Agents = Spawns
  /\ NameIn \in [Spawns \cup Terminates -> Names]
  /\ TaskOf \in [Questions -> Tasks]
  /\ QueueSize \in Nat \ {0} /\ AskSize \in Nat \ {0}
  /\ {MaxRounds, MaxFailures, MaxCrashes} \subseteq Nat

VARIABLES
  bot,       \* "down", "starting", "polling", "tearing", "stopped"
  stopping,  \* whether the bot's context is cancelled
  failures,  \* failures so far
  crashes,   \* crashes so far
  queue,     \* the messages in the bot's channel
  pc,        \* per message: where it is
  rounds,    \* per task: rounds so far
  copy,      \* per task: the list of directories it has read
  dirs,      \* the directories the worker's tools may use
  reports,   \* per task: how often its result was reported
  asks       \* per question: what has become of it

runtime == <<bot, stopping, failures, crashes, queue, pc, rounds, copy, dirs, reports, asks>>
vars == <<runtime, subTeam>>

TypeOK ==
  /\ SubTeamTypeOK
  /\ bot \in {"down", "starting", "polling", "tearing", "stopped"}
  /\ stopping \in BOOLEAN
  /\ failures \in 0 .. MaxFailures /\ crashes \in 0 .. MaxCrashes
  /\ queue \in Seq(Messages) /\ Len(queue) <= QueueSize
  /\ pc \in [Messages -> {"unsent", "refused", "queued", "taken", "allowing", "working",
                          "closing", "failing", "report", "waiting", "done"}]
  /\ rounds \in [Tasks -> 0 .. MaxRounds]
  /\ copy \in [Tasks -> SUBSET Dirs]
  /\ dirs \subseteq Dirs
  /\ reports \in [Tasks -> Nat]
  /\ asks \in [Questions -> {"none", "waiting", "answered", "lost", "dispatched"}]

Goto(m, label) == pc' = [pc EXCEPT ![m] = label]

-----------------------------------------------------------------------------
(* Starting and stopping: runBotWithRestart, startBot, Run, Shutdown *)

\* A new manager discards the records that an earlier process has left.
Start ==
  /\ bot = "down" /\ ~stopping
  /\ bot' = "starting"
  /\ DiscardRecords
  /\ UNCHANGED <<stopping, failures, crashes, queue, pc, rounds, copy, dirs, reports, asks>>

\* Registering with the orchestrator fails when its queue is full: the bot starts again.
Register ==
  /\ bot = "starting"
  /\ \/ bot' = "polling" /\ UNCHANGED failures
     \/ /\ failures < MaxFailures
        /\ failures' = failures + 1
        /\ bot' = "down"
  /\ UNCHANGED <<stopping, crashes, queue, pc, rounds, copy, dirs, reports, asks, subTeam>>

Shutdown ==
  /\ ~stopping
  /\ stopping' = TRUE
  /\ cancelled' = cancelled \cup {a \in Agents : loop[a] = "running"}
  /\ UNCHANGED <<bot, failures, crashes, queue, pc, rounds, copy, dirs, reports, asks,
                 bots, nameOf, status, loop, waits, session>>

\* The poll loop returns, and the sub-team is torn down.
LeavePoll ==
  /\ stopping /\ bot = "polling"
  /\ bot' = "tearing"
  /\ BeginTearDown
  /\ UNCHANGED <<stopping, failures, crashes, queue, pc, rounds, copy, dirs, reports, asks>>

\* TearDownAll waits for the agents it has cancelled, ten seconds at most.
FinishStop ==
  /\ \/ bot = "tearing"
     \/ bot = "down" /\ stopping
  /\ bot' = "stopped"
  /\ UNCHANGED <<stopping, failures, crashes, queue, pc, rounds, copy, dirs, reports, asks,
                 subTeam>>

\* A new process starts with the session file only; the messages that had been sent are
\* gone.
Crash ==
  /\ crashes < MaxCrashes
  /\ crashes' = crashes + 1
  /\ bot' = "down" /\ stopping' = FALSE
  /\ queue' = <<>>
  /\ pc' = [m \in Messages |-> IF pc[m] = "unsent" THEN "unsent" ELSE "done"]
  /\ rounds' = [t \in Tasks |-> 0]
  /\ reports' = [t \in Tasks |-> 0]
  /\ copy' = [t \in Tasks |-> {}] /\ dirs' = {}
  /\ asks' = [q \in Questions |-> IF asks[q] = "none" THEN "none" ELSE "lost"]
  /\ bots' = [n \in Names |-> NoAgent]
  /\ nameOf' = [a \in Agents |-> NoAgent]
  /\ status' = [a \in Agents |-> "none"]
  /\ loop' = [a \in Agents |-> "none"]
  /\ cancelled' = {}
  /\ waits' = [c \in Callers |-> NoAgent]
  /\ UNCHANGED <<failures, session>>

-----------------------------------------------------------------------------
(* The queue *)

\* send fails when the channel is full.
Send(m) ==
  /\ pc[m] = "unsent"
  /\ IF Len(queue) < QueueSize
     THEN queue' = Append(queue, m) /\ Goto(m, "queued")
     ELSE Goto(m, "refused") /\ UNCHANGED queue
  /\ UNCHANGED <<bot, stopping, failures, crashes, rounds, copy, dirs, reports, asks, subTeam>>

\* Receive drains the channel, and every message gets a goroutine of its own.
Receive ==
  /\ bot = "polling"
  /\ queue # <<>>
  /\ queue' = <<>>
  /\ pc' = [m \in Messages |-> IF m \in ToSet(queue) THEN "taken" ELSE pc[m]]
  /\ UNCHANGED <<bot, stopping, failures, crashes, rounds, copy, dirs, reports, asks, subTeam>>

-----------------------------------------------------------------------------
(* Messages for the sub-team *)

\* The agent is named by the message that spawns it.  Spawning an active name is an error
\* that is logged.
HandleSpawn(m) ==
  /\ m \in Spawns /\ pc[m] = "taken"
  /\ Goto(m, "done")
  /\ \/ SpawnAgent(NameIn[m], m, stopping)
     \/ Active(NameIn[m]) /\ UNCHANGED subTeam
  /\ UNCHANGED <<bot, stopping, failures, crashes, queue, rounds, copy, dirs, reports, asks>>

HandleTerminate(m) ==
  /\ m \in Terminates /\ pc[m] = "taken"
  /\ \/ BeginTerminate(m, NameIn[m]) /\ Goto(m, "waiting")
     \/ ~Active(NameIn[m]) /\ Goto(m, "done") /\ UNCHANGED subTeam
  /\ UNCHANGED <<bot, stopping, failures, crashes, queue, rounds, copy, dirs, reports, asks>>

\* The agent is gone, or the caller gives up after five seconds or with its context.
FinishTerminate(m) ==
  /\ m \in Terminates /\ pc[m] = "waiting"
  /\ \/ Done(waits[m]) /\ Goto(m, "done")
     \/ ~Done(waits[m]) /\ Goto(m, "refused")
  /\ StopWaiting(m)
  /\ UNCHANGED <<bot, stopping, failures, crashes, queue, rounds, copy, dirs, reports, asks>>

-----------------------------------------------------------------------------
(* Tasks: Execute, and the report of handleTask *)

taskFrame == <<bot, stopping, crashes, queue, subTeam>>

\* AllowDir reads the list and appends to it.
ReadDirs(t) ==
  /\ pc[t] = "taken"
  /\ copy' = [copy EXCEPT ![t] = dirs]
  /\ Goto(t, "allowing")
  /\ UNCHANGED <<failures, rounds, dirs, reports, asks, taskFrame>>

AllowDir(t) ==
  /\ pc[t] = "allowing"
  /\ dirs' = copy[t] \cup {DirOf[t]}
  /\ copy' = [copy EXCEPT ![t] = {}]
  /\ Goto(t, "working")
  /\ UNCHANGED <<failures, rounds, reports, asks, taskFrame>>

\* After the tool calls of a round the waiting questions are answered; where the model
\* fails the question is gone.
Round(t) ==
  /\ pc[t] = "working"
  /\ rounds[t] < MaxRounds
  /\ rounds' = [rounds EXCEPT ![t] = @ + 1]
  /\ \E lost \in SUBSET {q \in Questions : asks[q] = "waiting"} :
       /\ lost # {} => failures < MaxFailures
       /\ failures' = IF lost = {} THEN failures ELSE failures + 1
       /\ asks' = [q \in Questions |->
            IF asks[q] # "waiting" THEN asks[q] ELSE IF q \in lost THEN "lost" ELSE "answered"]
  /\ UNCHANGED <<pc, copy, dirs, reports, taskFrame>>

\* The model gives its answer, fails, or has used its rounds up; or the worker panics.
\* The deferred function reads the list.
EndTask(t) ==
  /\ pc[t] = "working"
  /\ \/ Goto(t, "closing") /\ UNCHANGED failures
     \/ failures < MaxFailures /\ failures' = failures + 1 /\ Goto(t, "failing")
  /\ rounds' = [rounds EXCEPT ![t] = 0]
  /\ copy' = [copy EXCEPT ![t] = dirs]
  /\ UNCHANGED <<dirs, reports, asks, taskFrame>>

DisallowAndForget(t) ==
  /\ pc[t] \in {"closing", "failing"} /\ Goto(t, "done")
  /\ dirs' = copy[t] \ {DirOf[t]}
  /\ copy' = [copy EXCEPT ![t] = {}]
  /\ UNCHANGED <<failures, rounds, reports, asks, taskFrame>>

\* It takes every entry of the directory out of what it read.
DisallowDir(t) ==
  /\ \/ pc[t] = "closing" /\ Goto(t, "report")
     \/ pc[t] = "failing" /\ Goto(t, "done")
  /\ dirs' = copy[t] \ {DirOf[t]}
  /\ copy' = [copy EXCEPT ![t] = {}]
  /\ UNCHANGED <<failures, rounds, reports, asks, taskFrame>>

Report(t) ==
  /\ pc[t] = "report"
  /\ reports' = [reports EXCEPT ![t] = @ + 1]
  /\ Goto(t, "done")
  /\ UNCHANGED <<failures, rounds, copy, dirs, asks, taskFrame>>

-----------------------------------------------------------------------------
(* Questions *)

Waiting == {q \in Questions : asks[q] = "waiting"}

\* handleTaskAsk: whatever state its task is in, the question goes to the bot's channel;
\* if that is full it becomes a task of its own.
Ask(q) ==
  /\ asks[q] = "none"
  /\ bot = "polling" /\ pc[TaskOf[q]] # "unsent"
  /\ asks' = [asks EXCEPT ![q] =
       IF Cardinality(Waiting) < AskSize THEN "waiting" ELSE "dispatched"]
  /\ UNCHANGED <<bot, stopping, failures, crashes, queue, pc, rounds, copy, dirs, reports,
                 subTeam>>

-----------------------------------------------------------------------------
Init ==
  /\ NewManager
  /\ session = [n \in Names |-> 0]
  /\ bot = "down"
  /\ stopping = FALSE
  /\ failures = 0
  /\ crashes = 0
  /\ queue = <<>>
  /\ pc = [m \in Messages |-> "unsent"]
  /\ rounds = [t \in Tasks |-> 0]
  /\ copy = [t \in Tasks |-> {}]
  /\ dirs = {}
  /\ reports = [t \in Tasks |-> 0]
  /\ asks = [q \in Questions |-> "none"]

TaskStep(t) ==
  ReadDirs(t) \/ AllowDir(t) \/ Round(t) \/ EndTask(t) \/ DisallowDir(t) \/ Report(t)

Handler(m) ==
  \/ HandleSpawn(m) \/ HandleTerminate(m) \/ FinishTerminate(m)
  \/ m \in Tasks /\ TaskStep(m)

Lifecycle == Start \/ Register \/ Receive \/ LeavePoll \/ FinishStop

RunAgent(a) == AgentStep(a) /\ UNCHANGED runtime

Next ==
  \/ Lifecycle \/ Shutdown \/ Crash
  \/ \E m \in Messages : Send(m) \/ Handler(m)
  \/ \E a \in Agents : RunAgent(a)
  \/ \E q \in Questions : Ask(q)

Spec == Init /\ [][Next]_vars

\* The bot's loop, the handlers and the agents go on; an agent's timeout comes, as no
\* heartbeat is ever sent.
FairSpec ==
  /\ Spec
  /\ WF_vars(Lifecycle)
  /\ WF_vars(\E m \in Messages : Handler(m))
  /\ WF_vars(\E a \in Agents : RunAgent(a))

-----------------------------------------------------------------------------
(* Properties *)

\* Spawn and markTerminated: while a bot runs, the session file has one record of each
\* active agent and none of another one, whatever earlier processes have left in it.
SessionMatches ==
  bot \notin {"down", "stopped"} =>
    \A n \in Names : session[n] = IF Active(n) THEN 1 ELSE 0

\* "callers waiting on done can rely on the agent state being fully cleaned up when done
\* is unblocked" (runBot): a Terminate that succeeds leaves neither the agent nor its
\* record, unless the name has been given to another agent meanwhile.
TerminateCleansUp ==
  [][\A m \in Terminates :
       pc[m] = "waiting" /\ pc'[m] = "done" /\ crashes' = crashes =>
         /\ status[waits[m]] = "terminated"
         /\ bots[NameIn[m]] = waits[m] => session[NameIn[m]] = 0]_vars

\* A name that is being terminated becomes free, by the agent's own steps: again and
\* again no agent is terminating.
TerminatingEnds == []<>(\A a \in Agents : status[a] # "terminating")

\* The shutdown of a bot that has started leaves no agent and no record, however it
\* overlaps with a spawn (Shutdown, TearDownAll), unless the process dies first.
StopsClean ==
  (stopping /\ bot \in {"starting", "polling"}) ~>
    \/ ~stopping
    \/ /\ bot = "stopped"
       /\ \A n \in Names : session[n] = 0
       /\ \A a \in Agents : loop[a] \in {"none", "gone"}

\* A task the bot has received is reported, unless its worker panics or the process ends
\* (handleTask), and never twice.
TakenIsReported ==
  \A t \in Tasks : pc[t] = "taken" ~> reports[t] = 1 \/ pc[t] = "failing" \/ bot = "down"

\* "Temporarily allow the task's working directory so tools can access it" (Execute):
\* said to be "safe to call because bots process tasks sequentially" (AllowDir).
TaskMayUseItsDirectory == \A t \in Tasks : pc[t] = "working" => DirOf[t] \in dirs

\* "if the bot is not actively running fall back to dispatching a new task so the question
\* is always answered" (handleTaskAsk).
QuestionIsAnswered ==
  \A q \in Questions : asks[q] = "waiting" ~> asks[q] # "waiting" \/ stopping
=============================================================================
