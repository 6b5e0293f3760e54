------------------------- MODULE AgentRuntimeProofs -------------------------
(***************************************************************************)
(* What holds of a bot and its sub-team for any messages, names and        *)
(* bounds.                                                                 *)
(*                                                                         *)
(* The session file is right because a name belongs to one agent from its  *)
(* spawning to its markTerminated (Owned): what markTerminated writes for  *)
(* "the agent that has the name" is then what belongs to the goroutine     *)
(* that calls it.  That no handler is under way while the bot is down or   *)
(* starting (Quiet) is why discarding the old records discards no new one. *)
(***************************************************************************)
EXTENDS AgentRuntime, TLAPS

\* No agent, and no message that a handler of the sub-team has.
AllIdle ==
  /\ \A n \in Names : bots[n] = NoAgent
  /\ \A m \in Messages : pc[m] \notin {"taken", "waiting"}

Quiet == bot \in {"down", "starting"} => AllIdle

\* A queued message has not been handled.
Queued == \A i \in DOMAIN queue : pc[queue[i]] = "queued"

\* The goroutine of an agent that has not marked it has its name.
Owned ==
  \A a \in Agents :
    /\ loop[a] = "none" <=> status[a] = "none"
    /\ loop[a] \in {"marked", "gone"} <=> status[a] = "terminated"
    /\ loop[a] \in {"running", "leaving"} => nameOf[a] \in Names /\ bots[nameOf[a]] = a

\* The agent of a name has been spawned under it.
Named ==
  \A n \in Names : bots[n] # NoAgent => nameOf[bots[n]] = n /\ status[bots[n]] # "none"

\* A caller that waits does so for an agent that was spawned.
Awaited ==
  \A c \in Callers : pc[c] = "waiting" => waits[c] \in Agents /\ loop[waits[c]] # "none"

\* SessionMatches, and what it leaves out: a bot that has stopped with its agents.
Matches ==
  \/ bot \in {"down", "stopped"} /\ AllIdle
  \/ \A n \in Names : session[n] = IF Active(n) THEN 1 ELSE 0

\* A task is reported by its last step.
Reported == \A t \in Tasks : reports[t] > 0 => reports[t] = 1 /\ pc[t] = "done"

IInv == TypeOK /\ Quiet /\ Queued /\ Owned /\ Named /\ Awaited /\ Matches /\ Reported

\* The result of a task is not reported twice (handleTask).
ReportedOnce == \A t \in Tasks : reports[t] <= 1

LEMMA InitInv == Init => IInv
  <1> SUFFICES ASSUME Init PROVE IInv OBVIOUS
  <1> USE RuntimeAssumption, NoAgentIsNone DEF Init, NewManager
  <1>0. /\ 0 \in 0 .. MaxRounds /\ 0 \in 0 .. MaxFailures /\ 0 \in 0 .. MaxCrashes
        /\ queue \in Seq(Messages) /\ Len(queue) <= QueueSize
    OBVIOUS
  <1>1. TypeOK BY <1>0 DEF TypeOK, SubTeamTypeOK
  <1>2. Quiet /\ Matches BY DEF Quiet, AllIdle, Matches
  <1>3. Queued /\ Reported BY <1>0 DEF Queued, Reported
  <1>4. Owned /\ Named BY DEF Owned, Named
  <1>5. Awaited BY DEF Awaited, Messages
  <1> QED BY <1>1, <1>2, <1>3, <1>4, <1>5 DEF IInv

-----------------------------------------------------------------------------
(* Types *)

LEMMA QueueStep ==
  ASSUME queue \in Seq(Messages), Len(queue) <= QueueSize, [Next]_vars
  PROVE  queue' \in Seq(Messages) /\ Len(queue') <= QueueSize
  <1> USE RuntimeAssumption
  <1>1. ASSUME NEW m \in Messages, Send(m)
        PROVE  queue' \in Seq(Messages) /\ Len(queue') <= QueueSize
    <2>1. CASE Len(queue) < QueueSize /\ queue' = Append(queue, m)
      <3>1. queue' \in Seq(Messages) /\ Len(queue') = Len(queue) + 1 BY <2>1
      <3>2. Len(queue) \in Nat /\ QueueSize \in Nat OBVIOUS
      <3> QED BY <2>1, <3>1, <3>2
    <2>2. CASE UNCHANGED queue BY <2>2
    <2> QED BY <1>1, <2>1, <2>2 DEF Send
  <1>2. CASE queue' = <<>> BY <1>2
  <1>3. CASE UNCHANGED queue BY <1>3
  <1>4. Receive \/ Crash => queue' = <<>> BY DEF Receive, Crash
  <1>5. Start \/ Register \/ LeavePoll \/ FinishStop \/ Shutdown => UNCHANGED queue
    BY DEF Start, Register, LeavePoll, FinishStop, Shutdown
  <1>6. \A m \in Messages : Handler(m) => UNCHANGED queue
    BY DEF Handler, HandleSpawn, HandleTerminate, FinishTerminate, TaskStep, ReadDirs, AllowDir,
      Round, EndTask, DisallowDir, Report, taskFrame
  <1>7. \A a \in Agents : RunAgent(a) => UNCHANGED queue BY DEF RunAgent, runtime
  <1>8. \A q \in Questions : Ask(q) => UNCHANGED queue BY DEF Ask
  <1> QED BY <1>1, <1>2, <1>3, <1>4, <1>5, <1>6, <1>7, <1>8 DEF Next, Lifecycle, vars, runtime

LEMMA TypeStep == IInv /\ [Next]_vars => TypeOK'
  <1> SUFFICES ASSUME IInv, [Next]_vars PROVE TypeOK' OBVIOUS
  <1>0. /\ queue' \in Seq(Messages) /\ Len(queue') <= QueueSize
        /\ 0 \in 0 .. MaxRounds /\ MaxFailures \in Nat /\ MaxCrashes \in Nat
    BY QueueStep, RuntimeAssumption DEF IInv, TypeOK
  <1> USE RuntimeAssumption, <1>0 DEF IInv, TypeOK, SubTeamTypeOK, Goto, taskFrame, runtime, subTeam
  <1>1. CASE Start BY <1>1 DEF Start, DiscardRecords
  <1>2. CASE Register BY <1>2 DEF Register
  <1>3. CASE Receive BY <1>3 DEF Receive
  <1>4. CASE LeavePoll BY <1>4 DEF LeavePoll, BeginTearDown, ActiveAgents
  <1>5. CASE FinishStop BY <1>5 DEF FinishStop
  <1>6. CASE Shutdown BY <1>6 DEF Shutdown
  <1>7. CASE Crash
    <2>1. crashes' \in 0 .. MaxCrashes BY <1>7 DEF Crash
    <2>2. SubTeamTypeOK' BY <1>7 DEF Crash
    <2>3. pc' \in [Messages -> {"unsent", "done"}] BY <1>7 DEF Crash
    <2>4. asks' \in [Questions -> {"none", "lost"}] BY <1>7 DEF Crash
    <2> HIDE DEF SubTeamTypeOK
    <2> QED BY <1>7, <2>1, <2>2, <2>3, <2>4 DEF Crash
  <1>8. ASSUME NEW m \in Messages, Send(m) PROVE TypeOK' BY <1>8 DEF Send
  <1>9. ASSUME NEW m \in Messages, HandleSpawn(m) PROVE TypeOK'
    <2>1. CASE SpawnAgent(NameIn[m], m, stopping)
      <3>1. m \in Agents /\ NameIn[m] \in Names BY <1>9 DEF HandleSpawn
      <3>2. SubTeamTypeOK' BY <2>1, <3>1 DEF SpawnAgent
      <3> HIDE DEF SubTeamTypeOK
      <3> QED BY <1>9, <3>2 DEF HandleSpawn
    <2>2. CASE UNCHANGED subTeam BY <1>9, <2>2 DEF HandleSpawn
    <2> QED BY <1>9, <2>1, <2>2 DEF HandleSpawn
  <1>10. ASSUME NEW m \in Messages, HandleTerminate(m) PROVE TypeOK'
    <2>1. CASE BeginTerminate(m, NameIn[m])
      <3>1. m \in Callers /\ NameIn[m] \in Names /\ bots[NameIn[m]] \in Agents
        BY <1>10, <2>1 DEF HandleTerminate, BeginTerminate, Active
      <3>2. SubTeamTypeOK' BY <2>1, <3>1 DEF BeginTerminate
      <3> HIDE DEF SubTeamTypeOK
      <3> QED BY <1>10, <3>2 DEF HandleTerminate
    <2>2. CASE UNCHANGED subTeam BY <1>10, <2>2 DEF HandleTerminate
    <2> QED BY <1>10, <2>1, <2>2 DEF HandleTerminate
  <1>11. ASSUME NEW m \in Messages, FinishTerminate(m) PROVE TypeOK'
    BY <1>11 DEF FinishTerminate, StopWaiting
  <1>12. ASSUME NEW t \in Tasks, ReadDirs(t) PROVE TypeOK' BY <1>12 DEF ReadDirs
  <1>13. ASSUME NEW t \in Tasks, AllowDir(t) PROVE TypeOK'
    <2>1. copy[t] \cup {DirOf[t]} \subseteq Dirs BY DEF Dirs
    <2> QED BY <1>13, <2>1 DEF AllowDir
  <1>14. ASSUME NEW t \in Tasks, Round(t) PROVE TypeOK' BY <1>14 DEF Round
  <1>15. ASSUME NEW t \in Tasks, EndTask(t) PROVE TypeOK'
    <2>1. failures' \in 0 .. MaxFailures BY <1>15 DEF EndTask
    <2>2. \/ pc' = [pc EXCEPT ![t] = "closing"]
          \/ pc' = [pc EXCEPT ![t] = "failing"]
      BY <1>15 DEF EndTask
    <2>3. rounds' \in [Tasks -> 0 .. MaxRounds] /\ copy' \in [Tasks -> SUBSET Dirs]
      BY <1>15 DEF EndTask
    <2>4. UNCHANGED <<dirs, reports, asks, taskFrame>> BY <1>15 DEF EndTask
    <2> QED BY <2>1, <2>2, <2>3, <2>4
  <1>16. ASSUME NEW t \in Tasks, DisallowDir(t) PROVE TypeOK' BY <1>16 DEF DisallowDir
  <1>17. ASSUME NEW t \in Tasks, Report(t) PROVE TypeOK'
    <2>1. reports' \in [Tasks -> Nat] BY <1>17 DEF Report
    <2>2. pc' = [pc EXCEPT ![t] = "done"] BY <1>17 DEF Report
    <2>3. UNCHANGED <<failures, rounds, copy, dirs, asks, taskFrame>> BY <1>17 DEF Report
    <2> QED BY <2>1, <2>2, <2>3
  <1>18. ASSUME NEW a \in Agents, Leave(a), UNCHANGED runtime PROVE TypeOK' BY <1>18 DEF Leave
  <1>19. ASSUME NEW a \in Agents, MarkTerminated(a), UNCHANGED runtime PROVE TypeOK'
    BY <1>19 DEF MarkTerminated, Unrecord
  <1>20. ASSUME NEW a \in Agents, CloseDone(a), UNCHANGED runtime PROVE TypeOK'
    BY <1>20 DEF CloseDone
  <1>21. ASSUME NEW q \in Questions, Ask(q) PROVE TypeOK' BY <1>21 DEF Ask
  <1>22. CASE UNCHANGED vars BY <1>22 DEF vars
  <1> QED BY <1>1, <1>2, <1>3, <1>4, <1>5, <1>6, <1>7, <1>8, <1>9, <1>10, <1>11, <1>12, <1>13,
    <1>14, <1>15, <1>16, <1>17, <1>18, <1>19, <1>20, <1>21, <1>22
    DEF Next, Lifecycle, Handler, TaskStep, RunAgent, AgentStep, vars

-----------------------------------------------------------------------------
(* Messages *)

\* What a step other than Send, Receive and a crash does to the messages: one that is queued
\* or done stays so, and none becomes taken.
LEMMA HandlersStep ==
  ASSUME IInv, [Next]_vars, ~Receive, ~Crash, \A m \in Messages : ~Send(m)
  PROVE  /\ UNCHANGED queue
         /\ \A m \in Messages :
              /\ pc[m] \in {"queued", "done"} => pc'[m] = pc[m]
              /\ pc'[m] = "taken" => pc[m] = "taken"
              /\ pc'[m] = "waiting" /\ pc[m] # "waiting" => HandleTerminate(m)
  <1> USE RuntimeAssumption DEF IInv, TypeOK, Goto, taskFrame, runtime
  <1> DEFINE Stays == UNCHANGED queue /\ \A m \in Messages :
               /\ pc[m] \in {"queued", "done"} => pc'[m] = pc[m]
               /\ pc'[m] = "taken" => pc[m] = "taken"
               /\ pc'[m] = "waiting" /\ pc[m] # "waiting" => HandleTerminate(m)
  <1>1. CASE UNCHANGED <<queue, pc>> BY <1>1
  <1>2. ASSUME NEW m \in Messages, UNCHANGED queue, NEW to \in {"done", "refused", "allowing",
                  "working", "closing", "failing", "report", "waiting"},
               pc' = [pc EXCEPT ![m] = to], pc[m] \notin {"queued", "done"},
               to = "waiting" => HandleTerminate(m)
        PROVE  Stays
    BY <1>2
  <1>3. ASSUME NEW m \in Messages, HandleSpawn(m) PROVE Stays
    BY <1>2, <1>3 DEF HandleSpawn
  <1>4. ASSUME NEW m \in Messages, HandleTerminate(m) PROVE Stays
    BY <1>2, <1>4 DEF HandleTerminate
  <1>5. ASSUME NEW m \in Messages, FinishTerminate(m) PROVE Stays
    BY <1>2, <1>5 DEF FinishTerminate
  <1>6. ASSUME NEW t \in Tasks, TaskStep(t) PROVE Stays
    <2>1. t \in Messages BY DEF Messages
    <2>2. CASE Round(t) BY <1>1, <2>2 DEF Round
    <2>3. CASE ReadDirs(t) BY <1>2, <2>1, <2>3 DEF ReadDirs
    <2>4. CASE AllowDir(t) BY <1>2, <2>1, <2>4 DEF AllowDir
    <2>5. CASE EndTask(t) BY <1>2, <2>1, <2>5 DEF EndTask
    <2>6. CASE DisallowDir(t) BY <1>2, <2>1, <2>6 DEF DisallowDir
    <2>7. CASE Report(t) BY <1>2, <2>1, <2>7 DEF Report
    <2> QED BY <1>6, <2>2, <2>3, <2>4, <2>5, <2>6, <2>7 DEF TaskStep
  <1>7. Start \/ Register \/ LeavePoll \/ FinishStop \/ Shutdown => UNCHANGED <<queue, pc>>
    BY DEF Start, Register, LeavePoll, FinishStop, Shutdown
  <1>8. \A a \in Agents : RunAgent(a) => UNCHANGED <<queue, pc>> BY DEF RunAgent
  <1>9. \A q \in Questions : Ask(q) => UNCHANGED <<queue, pc>> BY DEF Ask
  <1>10. UNCHANGED vars => UNCHANGED <<queue, pc>> BY DEF vars
  <1> QED BY <1>1, <1>3, <1>4, <1>5, <1>6, <1>7, <1>8, <1>9, <1>10
    DEF Next, Lifecycle, Handler

LEMMA QueuedStep == IInv /\ [Next]_vars => Queued'
  <1> SUFFICES ASSUME IInv, [Next]_vars PROVE Queued' OBVIOUS
  <1> USE DEF IInv, TypeOK, Queued
  <1>1. \A i \in DOMAIN queue : queue[i] \in Messages OBVIOUS
  <1>2. ASSUME NEW m \in Messages, Send(m) PROVE Queued'
    <2>1. CASE queue' = Append(queue, m) /\ pc' = [pc EXCEPT ![m] = "queued"]
      BY <1>1, <2>1
    <2>2. CASE UNCHANGED queue /\ pc' = [pc EXCEPT ![m] = "refused"] /\ pc[m] = "unsent"
      BY <1>1, <2>2
    <2> QED BY <1>2, <2>1, <2>2 DEF Send, Goto
  <1>3. CASE Receive \/ Crash BY <1>3 DEF Receive, Crash
  <1> QED BY <1>1, <1>2, <1>3, HandlersStep

\* A task that is done stays done, and is reported on its way there.
LEMMA ReportedStep == IInv /\ [Next]_vars => Reported'
  <1> SUFFICES ASSUME IInv, [Next]_vars PROVE Reported' OBVIOUS
  <1> USE DEF IInv, TypeOK, Reported, Messages
  <1>1. CASE Crash BY <1>1 DEF Crash
  <1>2. ASSUME NEW t \in Tasks, Report(t) PROVE Reported' BY <1>2 DEF Report, Goto
  <1>3. CASE UNCHANGED reports
    <2>1. \A m \in Messages : pc[m] = "done" /\ ~Crash => pc'[m] = "done"
      <3>1. ASSUME NEW m \in Messages, Send(m) PROVE \A k \in Messages \ {m} : pc'[k] = pc[k]
        BY <3>1 DEF Send, Goto
      <3>2. ASSUME NEW m \in Messages, Send(m) PROVE pc[m] # "done" BY <3>2 DEF Send
      <3>3. CASE Receive
        <4>1. \A m \in ToSet(queue) : pc[m] = "queued" BY DEF ToSet, Queued
        <4> QED BY <3>3, <4>1 DEF Receive
      <3> QED BY <3>1, <3>2, <3>3, HandlersStep
    <2> QED BY <1>1, <1>3, <2>1
  <1>4. Start \/ Register \/ Receive \/ LeavePoll \/ FinishStop \/ Shutdown => UNCHANGED reports
    BY DEF Start, Register, Receive, LeavePoll, FinishStop, Shutdown
  <1>5. \A m \in Messages : Send(m) \/ HandleSpawn(m) \/ HandleTerminate(m) \/ FinishTerminate(m)
          => UNCHANGED reports
    BY DEF Send, HandleSpawn, HandleTerminate, FinishTerminate
  <1>6. \A t \in Tasks : ReadDirs(t) \/ AllowDir(t) \/ Round(t) \/ EndTask(t) \/ DisallowDir(t)
          => UNCHANGED reports
    BY DEF ReadDirs, AllowDir, Round, EndTask, DisallowDir
  <1>7. \A a \in Agents : RunAgent(a) => UNCHANGED reports BY DEF RunAgent, runtime
  <1>8. \A q \in Questions : Ask(q) => UNCHANGED reports BY DEF Ask
  <1> QED BY <1>1, <1>2, <1>3, <1>4, <1>5, <1>6, <1>7, <1>8
    DEF Next, Lifecycle, Handler, TaskStep, vars, runtime

-----------------------------------------------------------------------------
(* Agents *)

\* What a step does to the sub-team: one operation of the manager, one step of an agent, or
\* the end of the process.
SubTeamStep ==
  \/ UNCHANGED <<bots, nameOf, status, loop, session>>
  \/ DiscardRecords /\ bot = "down"
  \/ \E m \in Messages : HandleSpawn(m) /\ SpawnAgent(NameIn[m], m, stopping)
  \/ \E m \in Messages : HandleTerminate(m) /\ BeginTerminate(m, NameIn[m])
  \/ BeginTearDown
  \/ \E a \in Agents : AgentStep(a)
  \/ Crash

LEMMA SubTeamSteps == [Next]_vars => SubTeamStep
  <1> SUFFICES ASSUME [Next]_vars PROVE SubTeamStep OBVIOUS
  <1> USE DEF SubTeamStep, taskFrame, subTeam
  <1>1. CASE Start BY <1>1 DEF Start
  <1>2. Register \/ Receive \/ FinishStop \/ Shutdown
          => UNCHANGED <<bots, nameOf, status, loop, session>>
    BY DEF Register, Receive, FinishStop, Shutdown
  <1>3. CASE LeavePoll BY <1>3 DEF LeavePoll
  <1>4. ASSUME NEW m \in Messages, Send(m) \/ FinishTerminate(m)
        PROVE  UNCHANGED <<bots, nameOf, status, loop, session>>
    BY <1>4 DEF Send, FinishTerminate, StopWaiting
  <1>5. ASSUME NEW m \in Messages, HandleSpawn(m) PROVE SubTeamStep BY <1>5 DEF HandleSpawn
  <1>6. ASSUME NEW m \in Messages, HandleTerminate(m) PROVE SubTeamStep
    BY <1>6 DEF HandleTerminate
  <1>7. ASSUME NEW t \in Tasks, TaskStep(t) PROVE UNCHANGED <<bots, nameOf, status, loop, session>>
    BY <1>7 DEF TaskStep, ReadDirs, AllowDir, Round, EndTask, DisallowDir, Report
  <1>8. ASSUME NEW a \in Agents, RunAgent(a) PROVE SubTeamStep BY <1>8 DEF RunAgent
  <1>9. ASSUME NEW q \in Questions, Ask(q)
        PROVE  UNCHANGED <<bots, nameOf, status, loop, session>>
    BY <1>9 DEF Ask
  <1>10. UNCHANGED vars => UNCHANGED <<bots, nameOf, status, loop, session>> BY DEF vars
  <1> QED BY <1>1, <1>2, <1>3, <1>4, <1>5, <1>6, <1>7, <1>8, <1>9, <1>10
    DEF Next, Lifecycle, Handler

\* Without an agent and without a message in a handler nothing is spawned.
LEMMA IdleStep == IInv /\ AllIdle /\ [Next]_vars /\ ~Receive => AllIdle'
  <1> SUFFICES ASSUME IInv, AllIdle, [Next]_vars, ~Receive PROVE AllIdle' OBVIOUS
  <1> USE RuntimeAssumption DEF IInv, AllIdle
  <1>1. CASE Crash BY <1>1 DEF Crash
  <1>2. CASE ~Crash
    <2>1. \A m \in Messages : ~HandleSpawn(m) /\ ~HandleTerminate(m)
      BY DEF HandleSpawn, HandleTerminate
    <2>2. UNCHANGED bots
      BY <1>2, <2>1, SubTeamSteps DEF SubTeamStep, DiscardRecords, BeginTearDown, AgentStep, Leave,
        MarkTerminated, CloseDone
    <2>3. ASSUME NEW m \in Messages, Send(m)
          PROVE  \A k \in Messages : pc'[k] \notin {"taken", "waiting"}
      BY <2>3 DEF Send, Goto, TypeOK
    <2>4. \A k \in Messages : pc'[k] \notin {"taken", "waiting"}
      BY <1>2, <2>1, <2>3, HandlersStep
    <2> QED BY <2>2, <2>4
  <1> QED BY <1>1, <1>2

LEMMA QuietStep == IInv /\ [Next]_vars => Quiet'
  <1> SUFFICES ASSUME IInv, [Next]_vars, bot' \in {"down", "starting"} PROVE AllIdle'
    BY DEF Quiet
  <1> USE DEF IInv, Quiet
  <1>1. CASE Crash BY <1>1 DEF Crash, AllIdle
  <1>2. CASE ~Crash
    <2>1. bot \in {"down", "starting"} /\ ~Receive
      BY <1>2 DEF Next, Lifecycle, Start, Register, Receive, LeavePoll, FinishStop, Shutdown, Send,
        Handler, HandleSpawn, HandleTerminate, FinishTerminate, TaskStep, ReadDirs, AllowDir, Round,
        EndTask, DisallowDir, Report, taskFrame, RunAgent, runtime, Ask, vars
    <2> QED BY <2>1, IdleStep
  <1> QED BY <1>1, <1>2

\* The agent that marks its name as terminated still has it, so that no other agent's record
\* goes.
LEMMA OwnedStep == IInv /\ [Next]_vars => Owned' /\ Named'
  <1> SUFFICES ASSUME IInv, [Next]_vars PROVE Owned' /\ Named' OBVIOUS
  <1> USE RuntimeAssumption, NoAgentIsNone DEF IInv, TypeOK, SubTeamTypeOK, Owned, Named
  <1>1. CASE UNCHANGED <<bots, nameOf, status, loop, session>> BY <1>1
  <1>2. CASE DiscardRecords BY <1>2 DEF DiscardRecords
  <1>3. ASSUME NEW m \in Messages, HandleSpawn(m), SpawnAgent(NameIn[m], m, stopping)
        PROVE  Owned' /\ Named'
    <2> DEFINE n == NameIn[m]
    <2>1. m \in Agents /\ n \in Names BY <1>3 DEF HandleSpawn
    <2>2. /\ status[m] = "none" /\ ~Active(n)
          /\ bots' = [bots EXCEPT ![n] = m] /\ nameOf' = [nameOf EXCEPT ![m] = n]
          /\ status' = [status EXCEPT ![m] = "idle"] /\ loop' = [loop EXCEPT ![m] = "running"]
      BY <1>3 DEF SpawnAgent
    <2>3. ASSUME NEW a \in Agents, loop[a] \in {"running", "leaving"} PROVE nameOf[a] # n
      <3>1. bots[nameOf[a]] = a /\ status[a] # "terminated" BY <2>3
      <3>2. a # NoAgent OBVIOUS
      <3> QED BY <2>2, <3>1, <3>2 DEF Active
    <2> HIDE DEF n
    <2>4. Owned' BY <2>1, <2>2, <2>3
    <2>5. Named' BY <2>1, <2>2
    <2> QED BY <2>4, <2>5
  <1>4. ASSUME NEW m \in Messages, HandleTerminate(m), BeginTerminate(m, NameIn[m])
        PROVE  Owned' /\ Named'
    <2>1. bots[NameIn[m]] \in Agents /\ status[bots[NameIn[m]]] \notin {"none", "terminated"}
      BY <1>4 DEF HandleTerminate, BeginTerminate, Active
    <2>2. /\ status' = [status EXCEPT ![bots[NameIn[m]]] = "terminating"]
          /\ UNCHANGED <<bots, nameOf, loop>>
      BY <1>4 DEF BeginTerminate
    <2> QED BY <2>1, <2>2
  <1>5. CASE BeginTearDown BY <1>5 DEF BeginTearDown, ActiveAgents
  <1>6. ASSUME NEW a \in Agents, Leave(a) PROVE Owned' /\ Named' BY <1>6 DEF Leave
  <1>7. ASSUME NEW a \in Agents, MarkTerminated(a) PROVE Owned' /\ Named'
    <2>1. loop[a] = "leaving" /\ bots[nameOf[a]] = a BY <1>7 DEF MarkTerminated
    <2>2. /\ status' = [status EXCEPT ![a] = "terminated"]
          /\ loop' = [loop EXCEPT ![a] = "marked"] /\ UNCHANGED <<bots, nameOf>>
      BY <1>7, <2>1 DEF MarkTerminated, Unrecord
    <2> QED BY <2>1, <2>2
  <1>8. ASSUME NEW a \in Agents, CloseDone(a) PROVE Owned' /\ Named' BY <1>8 DEF CloseDone
  <1>9. CASE Crash BY <1>9 DEF Crash
  <1> QED BY <1>1, <1>2, <1>3, <1>4, <1>5, <1>6, <1>7, <1>8, <1>9, SubTeamSteps
    DEF SubTeamStep, AgentStep

LEMMA AwaitedStep == IInv /\ [Next]_vars => Awaited'
  <1> SUFFICES ASSUME IInv, [Next]_vars, NEW c \in Callers, pc'[c] = "waiting"
               PROVE  waits'[c] \in Agents /\ loop'[waits'[c]] # "none"
    BY DEF Awaited
  <1> USE RuntimeAssumption DEF IInv, TypeOK, SubTeamTypeOK, Awaited
  <1>1. c \in Messages BY DEF Messages
  <1>2. ~Crash
    <2>1. ASSUME Crash PROVE pc'[c] \in {"unsent", "done"} BY <1>1, <2>1 DEF Crash
    <2> QED BY <2>1
  <1>3. \A a \in Agents : loop[a] # "none" => loop'[a] # "none"
    BY <1>2, SubTeamSteps DEF SubTeamStep, DiscardRecords, SpawnAgent, BeginTerminate,
      BeginTearDown, AgentStep, Leave, MarkTerminated, CloseDone, HandleSpawn
  <1>4. CASE HandleTerminate(c) /\ pc[c] # "waiting"
    <2>1. BeginTerminate(c, NameIn[c]) BY <1>1, <1>4 DEF HandleTerminate, Goto
    <2>2. bots[NameIn[c]] \in Agents /\ status[bots[NameIn[c]]] # "none"
      BY <1>4, <2>1 DEF HandleTerminate, BeginTerminate, Active, Named
    <2>3. waits'[c] = bots[NameIn[c]] /\ loop' = loop BY <2>1 DEF BeginTerminate
    <2> QED BY <2>2, <2>3 DEF Owned
  <1>5. CASE pc[c] = "waiting"
    <2>1. ~FinishTerminate(c) BY <1>1 DEF FinishTerminate, Goto
    <2>2. ~HandleTerminate(c) BY <1>5 DEF HandleTerminate
    <2>3. waits'[c] = waits[c]
      <3>1. ASSUME NEW m \in Messages, HandleTerminate(m) \/ FinishTerminate(m)
            PROVE  waits'[c] = waits[c]
        BY <2>1, <2>2, <3>1 DEF HandleTerminate, FinishTerminate, BeginTerminate, StopWaiting, subTeam
      <3>2. ASSUME NEW m \in Messages, Send(m) \/ HandleSpawn(m) PROVE UNCHANGED waits
        BY <3>2 DEF Send, HandleSpawn, SpawnAgent, subTeam
      <3>3. ASSUME NEW t \in Tasks, TaskStep(t) PROVE UNCHANGED waits
        BY <3>3 DEF TaskStep, ReadDirs, AllowDir, Round, EndTask, DisallowDir, Report, taskFrame,
          subTeam
      <3>4. ASSUME NEW a \in Agents, RunAgent(a) PROVE UNCHANGED waits
        BY <3>4 DEF RunAgent, AgentStep, Leave, MarkTerminated, CloseDone
      <3>5. ASSUME Lifecycle \/ Shutdown PROVE UNCHANGED waits
        BY <3>5 DEF Lifecycle, Start, DiscardRecords, Register, Receive, LeavePoll, BeginTearDown,
          FinishStop, Shutdown, subTeam
      <3>6. ASSUME NEW q \in Questions, Ask(q) PROVE UNCHANGED waits BY <3>6 DEF Ask, subTeam
      <3> QED BY <1>2, <3>1, <3>2, <3>3, <3>4, <3>5, <3>6 DEF Next, Handler, vars, subTeam
    <2> QED BY <1>3, <1>5, <2>3
  <1>6. CASE pc[c] # "waiting" /\ ~HandleTerminate(c)
    <2>1. ~Receive BY <1>1, <1>6 DEF Receive
    <2>2. \A m \in Messages : ~Send(m) BY <1>1, <1>6 DEF Send, Goto
    <2> QED BY <1>1, <1>2, <1>6, <2>1, <2>2, HandlersStep
  <1> QED BY <1>4, <1>5, <1>6

\* The session file follows the map of the manager.
LEMMA MatchesStep == IInv /\ [Next]_vars => Matches'
  <1> SUFFICES ASSUME IInv, [Next]_vars PROVE Matches' OBVIOUS
  <1> USE RuntimeAssumption, NoAgentIsNone DEF IInv, TypeOK, SubTeamTypeOK
  <1> DEFINE Follows == \A n \in Names : session[n] = IF Active(n) THEN 1 ELSE 0
  <1>1. CASE Crash BY <1>1 DEF Crash, Matches, AllIdle
  <1>2. CASE ~Crash /\ bot \in {"down", "stopped"} /\ AllIdle
    <2>1. CASE Start
      <3>1. session' = [n \in Names |-> 0] /\ bots' = bots BY <2>1 DEF Start, DiscardRecords
      <3>2. \A n \in Names : ~Active(n)' BY <1>2, <3>1 DEF AllIdle, Active
      <3> QED BY <3>1, <3>2 DEF Matches
    <2>2. CASE ~Start
      <3>1. ~Receive BY <1>2 DEF Receive
      <3>2. bot' \in {"down", "stopped"}
        BY <1>2, <2>2, <3>1 DEF Next, Lifecycle, Register, LeavePoll, FinishStop, Shutdown, Send,
          Handler, HandleSpawn, HandleTerminate, FinishTerminate, TaskStep, ReadDirs, AllowDir, Round,
          EndTask, DisallowDir, Report, taskFrame, RunAgent, runtime, Ask, vars
      <3> QED BY <1>2, <3>1, <3>2, IdleStep DEF Matches
    <2> QED BY <2>1, <2>2
  <1>3. CASE ~Crash /\ Follows
    <2>1. CASE UNCHANGED <<bots, nameOf, status, loop, session>> BY <1>3, <2>1 DEF Active, Matches
    <2>2. CASE DiscardRecords /\ bot = "down"
      <3>1. \A n \in Names : ~Active(n) BY <2>2 DEF Quiet, AllIdle, Active
      <3> QED BY <2>2, <3>1 DEF DiscardRecords, Active, Matches
    <2>3. ASSUME NEW m \in Messages, HandleSpawn(m), SpawnAgent(NameIn[m], m, stopping)
          PROVE  Follows'
      <3> DEFINE n == NameIn[m]
      <3>1. m \in Agents /\ n \in Names BY <2>3 DEF HandleSpawn
      <3>2. /\ status[m] = "none" /\ ~Active(n)
            /\ bots' = [bots EXCEPT ![n] = m]
            /\ status' = [status EXCEPT ![m] = "idle"]
            /\ session' = [session EXCEPT ![n] = @ + 1]
        BY <2>3 DEF SpawnAgent
      <3> HIDE DEF n
      <3>3. Active(n)' /\ session'[n] = 1 BY <1>3, <3>1, <3>2 DEF Active
      <3>4. ASSUME NEW k \in Names \ {n} PROVE (Active(k)' <=> Active(k)) /\ session'[k] = session[k]
        <4>1. bots[k] # m BY <3>1, <3>2 DEF Named
        <4> QED BY <3>1, <3>2, <4>1 DEF Active
      <3>5. ASSUME NEW k \in Names PROVE session'[k] = IF Active(k)' THEN 1 ELSE 0
        <4>1. CASE k = n BY <3>3, <4>1
        <4>2. CASE k # n BY ONLY <1>3, <3>4, <3>5, <4>2
        <4> QED BY ONLY <4>1, <4>2
      <3> QED BY ONLY <3>5
    <2>4. ASSUME NEW m \in Messages, HandleTerminate(m), BeginTerminate(m, NameIn[m])
          PROVE  Follows'
      <3>1. bots[NameIn[m]] \in Agents /\ Active(NameIn[m])
        BY <2>4 DEF HandleTerminate, BeginTerminate, Active
      <3>2. /\ status' = [status EXCEPT ![bots[NameIn[m]]] = "terminating"]
            /\ UNCHANGED <<bots, session>>
        BY <2>4 DEF BeginTerminate
      <3>3. \A n \in Names : Active(n)' <=> Active(n) BY <3>1, <3>2 DEF Active
      <3> QED BY <1>3, <3>2, <3>3
    <2>5. CASE BeginTearDown
      <3>1. \A n \in Names : Active(n)' <=> Active(n)
        BY <2>5 DEF BeginTearDown, ActiveAgents, Active
      <3> QED BY <1>3, <2>5, <3>1 DEF BeginTearDown, Matches
    <2>6. ASSUME NEW a \in Agents, Leave(a) \/ CloseDone(a) PROVE Follows'
      BY <1>3, <2>6 DEF Leave, CloseDone, Active
    <2>7. ASSUME NEW a \in Agents, MarkTerminated(a) PROVE Follows'
      <3>1. PICK n \in Names : n = nameOf[a] /\ bots[n] = a BY <2>7 DEF MarkTerminated, Owned
      <3>2. /\ status' = [status EXCEPT ![a] = "terminated"] /\ bots' = bots
            /\ session' = [session EXCEPT ![n] = 0]
        BY <2>7, <3>1 DEF MarkTerminated, Unrecord
      <3>3. ASSUME NEW k \in Names \ {n} PROVE Active(k)' <=> Active(k)
        <4>1. bots[k] # a BY <3>1, <3>3 DEF Named
        <4> QED BY <3>2, <4>1 DEF Active
      <3>4. ~Active(n)' BY <3>1, <3>2 DEF Active
      <3>5. ASSUME NEW k \in Names PROVE session'[k] = IF Active(k)' THEN 1 ELSE 0
        <4>1. CASE k = n BY <3>1, <3>2, <3>4, <4>1
        <4>2. CASE k # n BY <1>3, <3>2, <3>3, <3>5, <4>2
        <4> QED BY ONLY <4>1, <4>2
      <3> QED BY ONLY <3>5
    <2> QED BY <1>3, <2>1, <2>2, <2>3, <2>4, <2>5, <2>6, <2>7, SubTeamSteps
      DEF SubTeamStep, AgentStep, Matches
  <1> QED BY <1>1, <1>2, <1>3 DEF Matches

LEMMA InvStep == IInv /\ [Next]_vars => IInv'
  BY TypeStep, QuietStep, QueuedStep, OwnedStep, AwaitedStep, MatchesStep, ReportedStep DEF IInv

-----------------------------------------------------------------------------
(* Theorems *)

\* Every variable keeps its type, and the bot's queue its limit (send).
THEOREM TypesAreRespected == Spec => []TypeOK
  <1>1. IInv => TypeOK BY DEF IInv
  <1> QED BY <1>1, InitInv, InvStep, PTL DEF Spec

\* While a bot runs the session file has one record of each active agent and none of another
\* one (Spawn, markTerminated, WithSessionFile).
THEOREM SessionFollowsAgents == Spec => []SessionMatches
  <1>1. IInv => SessionMatches BY DEF IInv, Matches, SessionMatches
  <1> QED BY <1>1, InitInv, InvStep, PTL DEF Spec

\* A Terminate that succeeds leaves neither the agent nor its record (runBot).
THEOREM TerminationsCleanUp == Spec => TerminateCleansUp
  <1>1. IInv /\ [Next]_vars =>
          [\A m \in Terminates :
             pc[m] = "waiting" /\ pc'[m] = "done" /\ crashes' = crashes =>
               /\ status[waits[m]] = "terminated"
               /\ bots[NameIn[m]] = waits[m] => session[NameIn[m]] = 0]_vars
    <2> SUFFICES ASSUME IInv, [Next]_vars, NEW m \in Terminates,
                        pc[m] = "waiting", pc'[m] = "done", crashes' = crashes
                 PROVE  /\ status[waits[m]] = "terminated"
                        /\ bots[NameIn[m]] = waits[m] => session[NameIn[m]] = 0
      OBVIOUS
    <2> USE RuntimeAssumption DEF IInv, TypeOK
    <2>1. FinishTerminate(m)
      <3>1. m \in Messages BY DEF Messages
      <3>2. ~Crash BY DEF Crash
      <3>3. ~Receive
        <4>1. ASSUME Receive PROVE pc'[m] = IF m \in ToSet(queue) THEN "taken" ELSE pc[m]
          BY <3>1, <4>1 DEF Receive
        <4> QED BY <4>1
      <3>4. ASSUME NEW k \in Messages, Send(k) PROVE FALSE BY <3>1, <3>4 DEF Send, Goto
      <3>5. ASSUME NEW k \in Messages, HandleSpawn(k) \/ HandleTerminate(k) PROVE FALSE
        BY <3>1, <3>5 DEF HandleSpawn, HandleTerminate, Goto
      <3>6. ASSUME NEW k \in Messages, FinishTerminate(k) PROVE k = m
        BY <3>1, <3>6 DEF FinishTerminate, Goto
      <3>7. ASSUME NEW t \in Tasks, TaskStep(t) PROVE FALSE
        BY <3>1, <3>7 DEF TaskStep, ReadDirs, AllowDir, Round, EndTask, DisallowDir, Report, Goto,
          Messages
      <3>8. ~Start /\ ~Register /\ ~LeavePoll /\ ~FinishStop /\ ~Shutdown
        BY DEF Start, Register, LeavePoll, FinishStop, Shutdown
      <3>9. \A a \in Agents : ~RunAgent(a) BY DEF RunAgent, runtime
      <3>10. \A q \in Questions : ~Ask(q) BY DEF Ask
      <3>11. ~UNCHANGED vars BY DEF vars, runtime
      <3> QED BY <3>2, <3>3, <3>4, <3>5, <3>6, <3>7, <3>8, <3>9, <3>10, <3>11
        DEF Next, Lifecycle, Handler
    <2>2. Done(waits[m]) /\ waits[m] \in Agents
      BY <2>1 DEF FinishTerminate, Goto, Awaited, Messages
    <2>3. status[waits[m]] = "terminated" BY <2>2 DEF Done, Owned
    <2>4. ASSUME bots[NameIn[m]] = waits[m] PROVE session[NameIn[m]] = 0
      <3>1. NameIn[m] \in Names /\ ~Active(NameIn[m]) BY <2>3, <2>4 DEF Active
      <3>2. ~AllIdle BY DEF AllIdle, Messages
      <3> QED BY <3>1, <3>2 DEF Matches
    <2> QED BY <2>3, <2>4
  <1> QED BY <1>1, InitInv, InvStep, PTL DEF Spec, TerminateCleansUp

\* The result of a task is reported at most once while the process runs (handleTask).
THEOREM TasksAreReportedOnce == Spec => []ReportedOnce
  <1>1. IInv => ReportedOnce BY DEF IInv, TypeOK, Reported, ReportedOnce
  <1> QED BY <1>1, InitInv, InvStep, PTL DEF Spec
=============================================================================
