---------------------------- MODULE TaskDispatch ----------------------------
(***************************************************************************)
(* Direct tasks: their store, LocalTaskDispatcher, the loop of the         *)
(* SchedulerService, the HTTP requests that create, run, requeue and       *)
(* delete a task, and what the bots write back.                            *)
(*                                                                         *)
(* A store call is one atomic step, and it is on disk when it returns.     *)
(* Every writer reads a task, works on its copy and writes the whole copy  *)
(* back.  The messages of the queues are in memory only: each one is a run *)
(* of the task, in a goroutine of its own.                                 *)
(*                                                                         *)
(* Abstracted: instructions, outputs, titles, threads and sources.         *)
(* Retention cleanup deletes tasks by their age; DeleteTask covers it.     *)
(***************************************************************************)
EXTENDS Integers, FiniteSets

CONSTANTS
  Clients,      \* concurrent HTTP requests
  Requests,     \* what they may ask for: a subset of RequestKind
  Outcomes,     \* how a run may end
  MaxTasks,     \* bound: tasks created
  MaxRuns,      \* bound: messages sent; no queue has room for more
  MaxRequests,  \* bound: HTTP requests served
  MaxTime,      \* bound: the clock
  MaxRestarts,  \* bound: restarts of the orchestrator
  NoTask, NoTime

TaskIds == 1..MaxTasks
RunIds == 1..MaxRuns
Time == 0..(MaxTime + 1)   \* the last one is never reached
Sched == "scheduler"
Procs == {Sched} \cup Clients

RequestKind == {"create", "schedule", "run", "requeue", "delete"}

ASSUME BoundsAreNumbers == /\ MaxTasks \in Nat /\ MaxRuns \in Nat
                           /\ MaxRequests \in Nat /\ MaxTime \in Nat
                           /\ MaxRestarts \in Nat
ASSUME RequestsAreKinds == Requests \subseteq RequestKind
ASSUME OutcomesAreFinal == Outcomes \subseteq {"succeeded", "blocked", "errored"}

-----------------------------------------------------------------------------
(* Types *)

Status == {"pending", "dispatching", "running", "failed"} \cup Outcomes

\* A task is recurring, or runs once: as soon as possible or at a date.
Task == [id : TaskIds, status : Status, recurring : BOOLEAN, next : Time \cup {NoTime}]

Stage == {"none", "bot", "progress", "answered", "record", "over", "lost"}
Run == [task : TaskIds \cup {NoTask}, stage : Stage, copy : Task \cup {NoTask},
        outcome : Outcomes \cup {NoTask}]

ASSUME NullsAreDistinct == /\ NoTask \notin TaskIds /\ NoTask \notin Task
                           /\ NoTask \notin Outcomes
                           /\ NoTime \notin Int
                           /\ Sched \notin Clients

VARIABLES
  tasks,    \* InMemoryDirectTaskStore.tasks, NoTask where there is none
  created,  \* how many tasks were ever created
  runs,     \* the messages sent and what their goroutines do with them
  pc,       \* per process: what it does next
  copy,     \* per process: its copy of the task it works on
  due,      \* scheduler: tasks listed as due and not yet visited
  claimed,  \* scheduler: the listed task it is processing
  now,      \* scheduler: the time of its tick
  asked,    \* history: the date a task that runs once was created for
  clock, requests, restarts

vars == <<tasks, created, runs, pc, copy, due, claimed, now, asked, clock, requests, restarts>>

schedVars == <<due, claimed, now>>
boundVars == <<asked, requests, restarts>>

PC == {"idle", "send", "mark", "put", "claim", "run", "fetch"}

TypeOK ==
  /\ tasks \in [TaskIds -> Task \cup {NoTask}]
  /\ created \in 0..MaxTasks
  /\ runs \in [RunIds -> Run]
  /\ pc \in [Procs -> PC]
  /\ copy \in [Procs -> Task \cup {NoTask}]
  /\ due \in SUBSET Task
  /\ claimed \in Task \cup {NoTask}
  /\ now \in 0..MaxTime
  /\ asked \in [TaskIds -> Time \cup {NoTime}]
  /\ clock \in 0..MaxTime
  /\ requests \in 0..MaxRequests
  /\ restarts \in 0..MaxRestarts

-----------------------------------------------------------------------------
(* The store *)

Exists(t) == tasks[t] # NoTask

\* Update replaces the stored task by the caller's copy, if it still exists.
Put(r) == tasks' = IF Exists(r.id) THEN [tasks EXCEPT ![r.id] = r] ELSE tasks

DueIgnoresDate(r, t) == r.status = "pending" /\ r.next # NoTime
DueIsLate(r, t) == r.status = "pending" /\ r.next # NoTime /\ r.next < t

\* Due: pending, with a date that is not after t.
Due(r, t) == r.status = "pending" /\ r.next # NoTime /\ r.next <= t

Listed(t) == {tasks[i] : i \in {j \in TaskIds : Exists(j) /\ Due(tasks[j], t)}}

ClaimedRuns(r) == [r EXCEPT !.status = "running"]

\* What ClaimDue makes of a pending task.
Claimed(r) == [r EXCEPT !.status = "dispatching"]

Goto(p, label) == pc' = [pc EXCEPT ![p] = label]
Hold(p, r) == copy' = [copy EXCEPT ![p] = r]

-----------------------------------------------------------------------------
(* dispatchNow, run by process p on copy[p] *)

\* Where p continues when its dispatch is over; only the scheduler reschedules a
\* recurring task, as it was when listed, and only after a dispatch without error.
AfterRun(p, ok) ==
  IF p # Sched THEN "idle" ELSE IF ok /\ claimed.recurring THEN "fetch" ELSE "claim"

FreeRun(e) == /\ runs[e].stage = "none"
              /\ \A f \in RunIds : runs[f].stage = "none" => e <= f

\* The message enters the bot's queue.
Send(p, e) ==
  /\ pc[p] = "send"
  /\ FreeRun(e)
  /\ runs' = [runs EXCEPT ![e] = [task |-> copy[p].id, stage |-> "bot", copy |-> NoTask,
                                  outcome |-> NoTask]]
  /\ Goto(p, "mark")
  /\ UNCHANGED <<tasks, created, copy, schedVars, clock, boundVars>>

\* The queue is full or unknown: the copy is stored as failed.
Reject(p) ==
  /\ pc[p] = "send"
  /\ Put([copy[p] EXCEPT !.status = "failed"])
  /\ Hold(p, NoTask)
  /\ Goto(p, AfterRun(p, FALSE))
  /\ UNCHANGED <<created, runs, schedVars, clock, boundVars>>

\* The copy read before the message was sent is stored as running.
Mark(p) ==
  /\ pc[p] = "mark"
  /\ Put([copy[p] EXCEPT !.status = "running"])
  /\ Hold(p, NoTask)
  /\ Goto(p, AfterRun(p, Exists(copy[p].id)))
  /\ UNCHANGED <<created, runs, schedVars, clock, boundVars>>

\* RunNow leaves a task alone that is running or being dispatched.
Dispatched(r) == r.status \in {"running", "dispatching"}

-----------------------------------------------------------------------------
(* The scheduler *)

Tick ==
  /\ pc[Sched] = "idle"
  /\ due' = Listed(clock)
  /\ now' = clock
  /\ Goto(Sched, IF due' = {} THEN "idle" ELSE "claim")
  /\ UNCHANGED <<tasks, created, runs, copy, claimed, clock, boundVars>>

EndTick ==
  /\ pc[Sched] = "claim"
  /\ due = {}
  /\ claimed' = NoTask
  /\ Goto(Sched, "idle")
  /\ UNCHANGED <<tasks, created, runs, copy, due, now, clock, boundVars>>

\* ClaimDue fails if the task is gone or not pending any more.
Claim(r) ==
  /\ pc[Sched] = "claim"
  /\ due' = due \ {r}
  /\ claimed' = r
  /\ IF Exists(r.id) /\ tasks[r.id].status = "pending"
     THEN /\ tasks' = [tasks EXCEPT ![r.id] = Claimed(@)]
          /\ Goto(Sched, "run")
     ELSE UNCHANGED <<tasks, pc>>
  /\ UNCHANGED <<created, runs, copy, now, clock, boundVars>>

\* RunNow(claimed.id)
RunClaimed ==
  /\ pc[Sched] = "run"
  /\ LET t == claimed.id
     IN  IF Exists(t) /\ ~Dispatched(tasks[t])
         THEN Hold(Sched, tasks[t]) /\ Goto(Sched, "send")
         ELSE Goto(Sched, AfterRun(Sched, Exists(t))) /\ UNCHANGED copy
  /\ UNCHANGED <<tasks, created, runs, schedVars, clock, boundVars>>

\* The task is read again, and given a next date after the tick's time.
Fetch(next) ==
  /\ pc[Sched] = "fetch"
  /\ next > now
  /\ IF Exists(claimed.id)
     THEN Hold(Sched, [tasks[claimed.id] EXCEPT !.next = next]) /\ Goto(Sched, "put")
     ELSE Goto(Sched, "claim") /\ UNCHANGED copy
  /\ UNCHANGED <<tasks, created, runs, schedVars, clock, boundVars>>

\* The scheduler stores the next date, or a client the task to run again.
Store(p) ==
  /\ pc[p] = "put"
  /\ Put(copy[p])
  /\ Hold(p, NoTask)
  /\ Goto(p, IF p = Sched THEN "claim" ELSE "idle")
  /\ UNCHANGED <<created, runs, schedVars, clock, boundVars>>

-----------------------------------------------------------------------------
(* The HTTP handlers *)

Begin(c, kind) == /\ pc[c] = "idle"
                  /\ kind \in Requests
                  /\ requests < MaxRequests
                  /\ requests' = requests + 1

NewTask(recurring, next) == [id |-> created + 1, status |-> "pending",
                             recurring |-> recurring, next |-> next]

Create(r) == /\ created < MaxTasks
             /\ created' = created + 1
             /\ tasks' = [tasks EXCEPT ![r.id] = r]

\* As soon as possible, or at a date that is past: dispatched by the request.
CreateNow(c) ==
  /\ Begin(c, "create")
  /\ Create(NewTask(FALSE, NoTime))
  /\ Hold(c, NewTask(FALSE, NoTime))
  /\ Goto(c, "send")
  /\ UNCHANGED <<runs, schedVars, asked, clock, restarts>>

\* At a date to come, or recurring: left to the scheduler.
CreateScheduled(c, recurring, at) ==
  /\ Begin(c, "schedule")
  /\ at > clock
  /\ Create(NewTask(recurring, at))
  /\ asked' = [asked EXCEPT ![created + 1] = IF recurring THEN NoTime ELSE at]
  /\ UNCHANGED <<runs, pc, copy, schedVars, clock, restarts>>

RunNow(c, t) ==
  /\ Begin(c, "run")
  /\ Exists(t) /\ ~Dispatched(tasks[t])
  /\ Hold(c, tasks[t])
  /\ Goto(c, "send")
  /\ UNCHANGED <<tasks, created, runs, schedVars, asked, clock, restarts>>

\* RequeueTask: pending again, as soon as possible.
Requeued(r) == [r EXCEPT !.status = "pending", !.recurring = FALSE, !.next = NoTime]

\* POST /notifications/{id}/requeue refuses a running task only.
Requeue(c, t) ==
  /\ Begin(c, "requeue")
  /\ Exists(t) /\ tasks[t].status # "running"
  /\ Hold(c, Requeued(tasks[t]))
  /\ Goto(c, "put")
  /\ UNCHANGED <<tasks, created, runs, schedVars, asked, clock, restarts>>

DeleteTask(c, t) ==
  /\ Begin(c, "delete")
  /\ Exists(t)
  /\ tasks' = [tasks EXCEPT ![t] = NoTask]
  /\ UNCHANGED <<created, runs, pc, copy, schedVars, asked, clock, restarts>>

-----------------------------------------------------------------------------
(* The goroutine of a run at its bot *)

Advance(e, stage, c) == runs' = [runs EXCEPT ![e].stage = stage, ![e].copy = c]

\* A line of progress: the handler reads the task and writes it back.
ReadProgress(e) ==
  /\ runs[e].stage = "bot"
  /\ Exists(runs[e].task)
  /\ Advance(e, "progress", tasks[runs[e].task])
  /\ UNCHANGED <<tasks, created, pc, copy, schedVars, clock, boundVars>>

WriteProgress(e) ==
  /\ runs[e].stage = "progress"
  /\ Put(runs[e].copy)
  /\ Advance(e, "bot", NoTask)
  /\ UNCHANGED <<created, pc, copy, schedVars, clock, boundVars>>

Answer(e, o) ==
  /\ runs[e].stage = "bot"
  /\ runs' = [runs EXCEPT ![e].stage = "answered", ![e].outcome = o]
  /\ UNCHANGED <<tasks, created, pc, copy, schedVars, clock, boundVars>>

\* A panic in the worker is recovered and no result is reported.
Panic(e) ==
  /\ runs[e].stage = "bot"
  /\ Advance(e, "lost", NoTask)
  /\ UNCHANGED <<tasks, created, pc, copy, schedVars, clock, boundVars>>

\* The result handler reads the task, which may be gone, and stores its outcome.
ReadResult(e) ==
  /\ runs[e].stage = "answered"
  /\ IF Exists(runs[e].task)
     THEN Advance(e, "record", [tasks[runs[e].task] EXCEPT !.status = runs[e].outcome])
     ELSE Advance(e, "over", NoTask)
  /\ UNCHANGED <<tasks, created, pc, copy, schedVars, clock, boundVars>>

WriteResult(e) ==
  /\ runs[e].stage = "record"
  /\ Put(runs[e].copy)
  /\ Advance(e, "over", NoTask)
  /\ UNCHANGED <<created, pc, copy, schedVars, clock, boundVars>>

TimePasses ==
  /\ clock < MaxTime
  /\ clock' = clock + 1
  /\ UNCHANGED <<tasks, created, runs, pc, copy, schedVars, boundVars>>

\* The process stops and starts again on the stored tasks; the messages in the
\* queues and the runs at the bots are gone.
Restart ==
  /\ restarts < MaxRestarts
  /\ restarts' = restarts + 1
  /\ runs' = [e \in RunIds |->
       IF runs[e].stage \in {"none", "over"} THEN runs[e]
       ELSE [runs[e] EXCEPT !.stage = "lost", !.copy = NoTask]]
  /\ pc' = [p \in Procs |-> "idle"]
  /\ copy' = [p \in Procs |-> NoTask]
  /\ due' = {}
  /\ claimed' = NoTask
  /\ UNCHANGED <<tasks, created, now, asked, clock, requests>>

-----------------------------------------------------------------------------
Init ==
  /\ tasks = [t \in TaskIds |-> NoTask]
  /\ created = 0
  /\ runs = [e \in RunIds |-> [task |-> NoTask, stage |-> "none", copy |-> NoTask,
                               outcome |-> NoTask]]
  /\ pc = [p \in Procs |-> "idle"]
  /\ copy = [p \in Procs |-> NoTask]
  /\ due = {}
  /\ claimed = NoTask
  /\ now = 0
  /\ asked = [t \in TaskIds |-> NoTime]
  /\ clock = 0
  /\ requests = 0
  /\ restarts = 0

DispatchStep(p) == (\E e \in RunIds : Send(p, e)) \/ Reject(p) \/ Mark(p) \/ Store(p)

SchedStep == \/ Tick \/ EndTick \/ RunClaimed
             \/ \E r \in due : Claim(r)
             \/ \E next \in Time : Fetch(next)
             \/ DispatchStep(Sched)

NewRequest(c) == \/ CreateNow(c)
                 \/ \E recurring \in BOOLEAN, at \in Time : CreateScheduled(c, recurring, at)
                 \/ \E t \in TaskIds : RunNow(c, t) \/ Requeue(c, t) \/ DeleteTask(c, t)

BotStep(e) == ReadProgress(e) \/ Panic(e) \/ \E o \in Outcomes : Answer(e, o)
HandlerStep(e) == WriteProgress(e) \/ ReadResult(e) \/ WriteResult(e)

Next ==
  \/ SchedStep
  \/ \E c \in Clients : NewRequest(c) \/ DispatchStep(c)
  \/ \E e \in RunIds : BotStep(e) \/ HandlerStep(e)
  \/ TimePasses
  \/ Restart

Spec == Init /\ [][Next]_vars

\* A ticker drives the scheduler forever, and a handler that has begun runs to
\* its end.  Nothing obliges a bot to answer or an operator to make a request.
FairSpec == /\ Spec
            /\ WF_vars(SchedStep)
            /\ \A c \in Clients : WF_vars(DispatchStep(c))
            /\ \A e \in RunIds : WF_vars(HandlerStep(e))

-----------------------------------------------------------------------------
(* Properties *)

Sent(t) == \E e \in RunIds : runs[e].task = t

\* Whatever copies are written back, and in which order, a task is shown as
\* running or ended only if a message for it was put into a bot's queue.
RunningWasSent ==
  \A t \in TaskIds :
    Exists(t) /\ tasks[t].status \in {"running"} \cup Outcomes => Sent(t)

\* A deleted task never comes back: not by the dispatch that was under way, the
\* scheduler's new date, a line of progress, a result, or a requeue.
DeletedStaysDeleted ==
  [][\A t \in 1..created : ~Exists(t) => tasks'[t] = NoTask]_vars

\* A task created to run once at a date is not claimed before that date, although
\* ClaimDue looks at the status alone and follows a listing that may be stale.
OneShotNotEarly ==
  [][\A t \in TaskIds :
       asked[t] # NoTime /\ Exists(t) /\ tasks[t].status = "pending"
       /\ tasks'[t] # NoTask /\ tasks'[t].status = "dispatching"
         => asked[t] <= clock]_vars

WaitsAtDate(t) == /\ Exists(t)
                  /\ tasks[t].status = "pending"
                  /\ tasks[t].next # NoTime /\ tasks[t].next <= clock

\* The scheduler does not leave a due task alone: it is claimed, run by someone,
\* given another date, requeued or deleted.
DueTaskIsClaimed == \A t \in TaskIds : WaitsAtDate(t) ~> ~WaitsAtDate(t)

\* product-details.md: a future task is "Dispatched at or after NextRunAt": once
\* it is due it is sent, unless it is deleted or no queue takes it.
DueTaskIsSent ==
  \A t \in TaskIds : WaitsAtDate(t) ~> Sent(t) \/ ~Exists(t) \/ tasks[t].status = "failed"
=============================================================================
