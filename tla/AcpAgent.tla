------------------------------ MODULE AcpAgent ------------------------------
(***************************************************************************)
(* A persona served over the Agent Client Protocol: the host opens and     *)
(* closes sessions and sends prompts, each of which is a turn of the one   *)
(* worker.  turnMu lets one turn run at a time; the mutex mu guards the    *)
(* map of sessions, their order, and each session's cancel function.       *)
(*                                                                         *)
(* A cancel function is named by the prompt whose context it cancels.  It  *)
(* is read under mu and called after mu is released, so that the call may  *)
(* come when the turn has ended (firing).  A prompt keeps the session that *)
(* it found on arrival, whatever happens to the map meanwhile.             *)
(*                                                                         *)
(* Abstracted: the words, the history put before them, the publication of  *)
(* the reply.  What the task manager makes of a prompt is a choice; it is  *)
(* the subject of BuzzBridge.  The stores are those of SharedStore: here   *)
(* each call succeeds or fails.                                            *)
(***************************************************************************)
EXTENDS Naturals, Sequences, SequencesExt

CONSTANTS
  Sessions,     \* session ids; an id is never given twice
  Prompts,      \* prompts, and the turns they become
  SessionOf,    \* per prompt: the session it is sent to
  NoPrompt,     \* no cancel function
  MaxSessions,  \* the limit on open sessions
  MaxThoughts,  \* bound on the keep-alive updates of a turn
  MaxFailures,  \* bound on failing calls of the stores
  MaxCrashes    \* bound on ends of the process

ASSUME AcpAssumption ==
  /\ NoPrompt \notin Prompts
  /\ SessionOf \in [Prompts -> Sessions]
  /\ MaxSessions \in Nat \ {0}
  /\ {MaxThoughts, MaxFailures, MaxCrashes} \subseteq Nat

VARIABLES
  opened,    \* sessions that have been opened
  live,      \* the keys of the map of sessions
  order,     \* sessions in the order they were opened
  cancel,    \* per session: its cancel function
  firing,    \* cancel functions that have been read and not yet called
  cancelled, \* turns whose context is cancelled
  turn,      \* the holder of turnMu
  pc,        \* per prompt: where it is
  outcome,   \* per prompt: what the worker returned
  answer,    \* per prompt: the stop reason it is answered with
  task,      \* per prompt: the status of its direct task
  item,      \* per prompt: the status of its board item
  beat,      \* per prompt: its keep-alive goroutine
  thoughts,  \* per prompt: the keep-alive updates sent for it
  failures,  \* failing calls so far
  crashes    \* ends of the process so far

table == <<opened, live, order>>
records == <<task, item, failures>>
turnState == <<turn, pc, outcome, answer, beat, thoughts>>
vars == <<table, cancel, firing, cancelled, turnState, records, crashes>>

TypeOK ==
  /\ live \subseteq opened /\ opened \subseteq Sessions
  /\ order \in Seq(Sessions) /\ Len(order) <= MaxSessions
  /\ ToSet(order) = live /\ IsInjective(order)
  /\ cancel \in [Sessions -> Prompts \cup {NoPrompt}]
  /\ firing \subseteq Prompts /\ cancelled \subseteq Prompts
  /\ turn \in Prompts \cup {NoPrompt}
  /\ pc \in [Prompts -> {"unsent", "queued", "locked", "checking", "starting", "working",
                         "ending", "settling", "moving", "deciding", "clearing",
                         "unlocking", "answered", "lost"}]
  /\ outcome \in [Prompts -> {"none", "ok", "failed"}]
  /\ answer \in [Prompts -> {"none", "end", "refusal", "cancelled", "unknown"}]
  /\ task \in [Prompts -> {"none", "scheduled", "running", "succeeded", "failed"}]
  /\ item \in [Prompts -> {"none", "backlog", "progress", "done", "errored"}]
  /\ beat \in [Prompts -> {"off", "on"}]
  /\ thoughts \in [Prompts -> 0 .. MaxThoughts]
  /\ failures \in 0 .. MaxFailures /\ crashes \in 0 .. MaxCrashes

Step(p, from, to) == pc[p] = from /\ pc' = [pc EXCEPT ![p] = to]

\* One more call of a store fails.
Fail == failures < MaxFailures /\ failures' = failures + 1

Registered(s) == IF cancel[s] = NoPrompt THEN {} ELSE {cancel[s]}

-----------------------------------------------------------------------------
(* Sessions *)

\* The oldest sessions go when there are too many.
NewSession(s) ==
  /\ s \notin opened
  /\ opened' = opened \cup {s}
  /\ LET all == Append(order, s)
         gone == {i \in DOMAIN all : i + MaxSessions <= Len(all)}
     IN  /\ order' = SubSeq(all, Cardinality(gone) + 1, Len(all))
         /\ live' = (live \cup {s}) \ {all[i] : i \in gone}
         /\ firing' = firing \cup UNION {Registered(all[i]) : i \in gone}
  /\ UNCHANGED <<cancel, cancelled, turnState, records, crashes>>

Cancel(s) ==
  /\ s \in live
  /\ firing' = firing \cup Registered(s)
  /\ UNCHANGED <<table, cancel, cancelled, turnState, records, crashes>>

CloseSession(s) ==
  /\ s \in live
  /\ live' = live \ {s}
  /\ \E i \in DOMAIN order : order[i] = s /\ order' = RemoveAt(order, i)
  /\ firing' = firing \cup Registered(s)
  /\ UNCHANGED <<opened, cancel, cancelled, turnState, records, crashes>>

\* The call of a cancel function that was read.
Fire(p) ==
  /\ p \in firing
  /\ firing' = firing \ {p}
  /\ cancelled' = cancelled \cup {p}
  /\ UNCHANGED <<table, cancel, turnState, records, crashes>>

-----------------------------------------------------------------------------
(* A turn *)

Arrive(p) ==
  /\ SessionOf[p] \in opened
  /\ \/ SessionOf[p] \in live /\ Step(p, "unsent", "queued") /\ UNCHANGED answer
     \/ /\ SessionOf[p] \notin live /\ Step(p, "unsent", "answered")
        /\ answer' = [answer EXCEPT ![p] = "unknown"]
  /\ UNCHANGED <<table, cancel, firing, cancelled, turn, outcome, beat, thoughts, records,
                 crashes>>

LockAnyway(p) ==
  /\ turn' = p
  /\ Step(p, "queued", "locked")
  /\ UNCHANGED <<table, cancel, firing, cancelled, outcome, answer, beat, thoughts, records,
                 crashes>>

Lock(p) ==
  /\ turn = NoPrompt
  /\ turn' = p
  /\ Step(p, "queued", "locked")
  /\ UNCHANGED <<table, cancel, firing, cancelled, outcome, answer, beat, thoughts, records,
                 crashes>>

SetCancel(p) ==
  /\ Step(p, "locked", "checking")
  /\ cancel' = [cancel EXCEPT ![SessionOf[p]] = p]
  /\ UNCHANGED <<table, firing, cancelled, turn, outcome, answer, beat, thoughts, records,
                 crashes>>

\* recordScheduledTask: the item of a task that the dispatcher has stored.
RecordScheduled(p) ==
  /\ task' = [task EXCEPT ![p] = "scheduled"]
  /\ \/ item' = [item EXCEPT ![p] = "backlog"] /\ UNCHANGED failures
     \/ UNCHANGED item /\ Fail

ReplyAtOnce(p) ==
  /\ \/ Step(p, "checking", "starting") /\ UNCHANGED <<answer, records>>
     \/ /\ Step(p, "checking", "answered")
        /\ answer' = [answer EXCEPT ![p] = "end"]
        /\ UNCHANGED records \/ RecordScheduled(p)
  /\ UNCHANGED <<table, cancel, firing, cancelled, turn, outcome, beat, thoughts, crashes>>

\* The task manager takes the prompt (asks back, gives up, cannot dispatch, or schedules a
\* task) and the turn ends; or the prompt goes on to the worker.
CheckSchedule(p) ==
  /\ \/ Step(p, "checking", "starting") /\ UNCHANGED <<answer, records>>
     \/ /\ Step(p, "checking", "clearing")
        /\ answer' = [answer EXCEPT ![p] = "end"]
        /\ UNCHANGED records \/ RecordScheduled(p)
  /\ UNCHANGED <<table, cancel, firing, cancelled, turn, outcome, beat, thoughts, crashes>>

\* startDirectTask, and the start of the keep-alive goroutine and of the worker.
StartDirectTask(p) ==
  /\ Step(p, "starting", "working")
  /\ \/ /\ task' = [task EXCEPT ![p] = "running"]
        /\ item' = [item EXCEPT ![p] = "progress"]
        /\ UNCHANGED failures
     \/ task' = [task EXCEPT ![p] = "running"] /\ UNCHANGED item /\ Fail
     \/ UNCHANGED <<task, item>> /\ Fail
  /\ beat' = [beat EXCEPT ![p] = "on"]
  /\ UNCHANGED <<table, cancel, firing, cancelled, turn, outcome, answer, thoughts, crashes>>

\* keepAlive sends an update, or finds that it is to end.
Think(p) ==
  /\ beat[p] = "on" /\ thoughts[p] < MaxThoughts
  /\ thoughts' = [thoughts EXCEPT ![p] = @ + 1]
  /\ UNCHANGED <<table, cancel, firing, cancelled, turn, pc, outcome, answer, beat, records,
                 crashes>>

StopThinking(p) ==
  /\ beat[p] = "on" /\ pc[p] \notin {"starting", "working"}
  /\ beat' = [beat EXCEPT ![p] = "off"]
  /\ UNCHANGED <<table, cancel, firing, cancelled, turn, pc, outcome, answer, thoughts,
                 records, crashes>>

\* The worker succeeds, or fails or panics; a cancelled one may do either.
EndWork(p) ==
  /\ Step(p, "working", "ending")
  /\ \E o \in {"ok", "failed"} : outcome' = [outcome EXCEPT ![p] = o]
  /\ UNCHANGED <<table, cancel, firing, cancelled, turn, answer, beat, thoughts, records,
                 crashes>>

JoinNobody(p) ==
  /\ Step(p, "ending", "settling")
  /\ UNCHANGED <<table, cancel, firing, cancelled, turn, outcome, answer, beat, thoughts,
                 records, crashes>>

JoinUnlessCancelled(p) ==
  /\ beat[p] = "off"
  /\ Step(p, "ending", IF p \in cancelled THEN "deciding" ELSE "settling")
  /\ UNCHANGED <<table, cancel, firing, cancelled, turn, outcome, answer, beat, thoughts,
                 records, crashes>>

\* keepAliveWG.Wait
Join(p) ==
  /\ beat[p] = "off"
  /\ Step(p, "ending", "settling")
  /\ UNCHANGED <<table, cancel, firing, cancelled, turn, outcome, answer, beat, thoughts,
                 records, crashes>>

Succeeded(p) == outcome[p] = "ok"

\* The item is moved only when the task is known and could be read; a failing update of the
\* task does not keep the item from being moved.
FinishDirectTask(p) ==
  /\ \/ task[p] = "none" /\ Step(p, "settling", "deciding") /\ UNCHANGED records
     \/ /\ task[p] # "none" /\ Step(p, "settling", "moving")
        /\ task' = [task EXCEPT ![p] = IF Succeeded(p) THEN "succeeded" ELSE "failed"]
        /\ UNCHANGED <<item, failures>>
     \/ task[p] # "none" /\ Step(p, "settling", "moving") /\ Fail /\ UNCHANGED <<task, item>>
     \/ task[p] # "none" /\ Step(p, "settling", "deciding") /\ Fail /\ UNCHANGED <<task, item>>
  /\ UNCHANGED <<table, cancel, firing, cancelled, turn, outcome, answer, beat, thoughts,
                 crashes>>

FinishBoardItem(p) ==
  /\ Step(p, "moving", "deciding")
  /\ \/ item[p] = "none" /\ UNCHANGED <<item, failures>>
     \/ /\ item[p] # "none"
        /\ item' = [item EXCEPT ![p] = IF Succeeded(p) THEN "done" ELSE "errored"]
        /\ UNCHANGED failures
     \/ item[p] # "none" /\ Fail /\ UNCHANGED item
  /\ UNCHANGED <<table, cancel, firing, cancelled, turn, outcome, answer, beat, thoughts,
                 task, crashes>>

Decide(p) ==
  /\ Step(p, "deciding", "clearing")
  /\ answer' = [answer EXCEPT ![p] =
       IF p \in cancelled THEN "cancelled" ELSE IF Succeeded(p) THEN "end" ELSE "refusal"]
  /\ UNCHANGED <<table, cancel, firing, cancelled, turn, outcome, beat, thoughts, records,
                 crashes>>

\* The deferred functions, last one first; the answer is sent when they have run.
ClearCancel(p) ==
  /\ Step(p, "clearing", "unlocking")
  /\ cancel' = [cancel EXCEPT ![SessionOf[p]] = NoPrompt]
  /\ outcome' = [outcome EXCEPT ![p] = "none"]
  /\ thoughts' = [thoughts EXCEPT ![p] = 0]
  /\ UNCHANGED <<table, firing, cancelled, turn, answer, beat, records, crashes>>

Unlock(p) ==
  /\ Step(p, "unlocking", "answered")
  /\ turn' = NoPrompt
  /\ cancelled' = cancelled \cup {p}
  /\ UNCHANGED <<table, cancel, firing, outcome, answer, beat, thoughts, records, crashes>>

-----------------------------------------------------------------------------
\* The host closes the pipe or the watchdog ends the process, in the middle of a turn too.
\* The stores are what the next process finds.
Crash ==
  /\ crashes < MaxCrashes
  /\ crashes' = crashes + 1
  /\ live' = {} /\ order' = <<>>
  /\ cancel' = [s \in Sessions |-> NoPrompt]
  /\ firing' = {} /\ cancelled' = {}
  /\ turn' = NoPrompt
  /\ pc' = [p \in Prompts |-> IF pc[p] \in {"unsent", "answered"} THEN pc[p] ELSE "lost"]
  /\ outcome' = [p \in Prompts |-> "none"]
  /\ beat' = [p \in Prompts |-> "off"]
  /\ thoughts' = [p \in Prompts |-> 0]
  /\ UNCHANGED <<opened, answer, records>>

Init ==
  /\ opened = {} /\ live = {} /\ order = <<>>
  /\ cancel = [s \in Sessions |-> NoPrompt]
  /\ firing = {} /\ cancelled = {}
  /\ turn = NoPrompt
  /\ pc = [p \in Prompts |-> "unsent"]
  /\ outcome = [p \in Prompts |-> "none"]
  /\ answer = [p \in Prompts |-> "none"]
  /\ task = [p \in Prompts |-> "none"]
  /\ item = [p \in Prompts |-> "none"]
  /\ beat = [p \in Prompts |-> "off"]
  /\ thoughts = [p \in Prompts |-> 0]
  /\ failures = 0 /\ crashes = 0

Prompt(p) ==
  \/ Lock(p) \/ SetCancel(p) \/ CheckSchedule(p) \/ StartDirectTask(p) \/ EndWork(p)
  \/ Join(p) \/ FinishDirectTask(p) \/ FinishBoardItem(p) \/ Decide(p)
  \/ ClearCancel(p) \/ Unlock(p)

Next ==
  \/ \E s \in Sessions : NewSession(s) \/ Cancel(s) \/ CloseSession(s)
  \/ \E p \in Prompts : Arrive(p) \/ Prompt(p) \/ Think(p) \/ StopThinking(p) \/ Fire(p)
  \/ Crash

Spec == Init /\ [][Next]_vars

\* Turns go on (the worker returns: its rounds are bounded and its calls end), and the
\* keep-alive goroutine sees that it is to end.
FairSpec ==
  /\ Spec
  /\ WF_vars(\E p \in Prompts : Prompt(p))
  /\ WF_vars(\E p \in Prompts : StopThinking(p))

-----------------------------------------------------------------------------
(* Properties *)

Cancellable(p) ==
  pc[p] \in {"checking", "starting", "working", "ending", "settling", "moving", "deciding",
             "clearing"}

\* "there is never a live cancel func to clobber" (Agent.turnMu): the cancel function of a
\* session is that of the turn that runs for it, from the start of the turn to its end,
\* also when several prompts wait for one session.
CancelIsCurrent ==
  \A p \in Prompts : cancel[SessionOf[p]] = p <=> Cancellable(p)

\* "Recorded regardless of outcome (including cancellation)" (Prompt): when a prompt is
\* answered, its task and its item have settled and agree with each other and with the
\* answer, unless a store has failed.
RecordsAgree ==
  \A p \in Prompts : pc[p] = "answered" =>
    /\ (task[p] = "running" \/ item[p] = "progress") => failures > 0
    /\ task[p] = "succeeded" => answer[p] \in {"end", "cancelled"} /\ item[p] # "errored"
    /\ task[p] = "failed" => answer[p] \in {"refusal", "cancelled"} /\ item[p] # "done"

\* "no session/update can arrive after this call has already responded" (Prompt).
QuietAfterAnswer ==
  [][\A p \in Prompts : thoughts'[p] > thoughts[p] => answer[p] = "none"]_vars

\* Every prompt that waits for its turn is answered, unless the process ends.
EveryPromptIsAnswered ==
  \A p \in Prompts : pc[p] = "queued" ~> pc[p] \in {"answered", "lost"}
=============================================================================
