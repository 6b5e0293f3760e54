------------------------------ MODULE SubTeam ------------------------------
(***************************************************************************)
(* The sub-team manager of a tech-lead bot: it spawns agents, terminates   *)
(* them one by one or all together, and records the active ones in a       *)
(* session file.                                                           *)
(*                                                                         *)
(* An agent is one run of a goroutine; a name may be used again once its   *)
(* agent has terminated, and gets a new agent then.  An agent's goroutine  *)
(* leaves its loop when its context is cancelled or when no heartbeat has  *)
(* come in time; the program has no caller of SendHeartbeat, so that every *)
(* agent runs into the timeout.  It then marks the name as terminated and  *)
(* removes its record (markTerminated), and closes its channel last.       *)
(*                                                                         *)
(* The manager's mutex makes every operation on the map one step.  Saving  *)
(* the session file succeeds (a failure is only logged).                   *)
(***************************************************************************)
EXTENDS Naturals

CONSTANTS
  Names,    \* names of agents
  Callers,  \* those who terminate agents
  Agents,   \* runs of agents, a bound on the spawns
  NoAgent   \* no agent

ASSUME NoAgentIsNone == NoAgent \notin Agents

VARIABLES
  bots,      \* per name: the agent that has it (the map of the manager)
  nameOf,    \* per agent: its name
  status,    \* per agent: its status
  loop,      \* per agent: how far its goroutine is
  cancelled, \* agents whose context is cancelled
  waits,     \* per caller: the agent it waits for
  session    \* per name: its records in the session file

subTeam == <<bots, nameOf, status, loop, cancelled, waits, session>>

SubTeamTypeOK ==
  /\ bots \in [Names -> Agents \cup {NoAgent}]
  /\ nameOf \in [Agents -> Names \cup {NoAgent}]
  /\ status \in [Agents -> {"none", "idle", "terminating", "terminated"}]
  /\ loop \in [Agents -> {"none", "running", "leaving", "marked", "gone"}]
  /\ cancelled \subseteq Agents
  /\ waits \in [Callers -> Agents \cup {NoAgent}]
  /\ session \in [Names -> Nat]

Active(n) == bots[n] # NoAgent /\ status[bots[n]] # "terminated"

\* Spawn: the goroutine is started and the record appended under the mutex.
\* parent: whether the context it is given has been cancelled.
SpawnAgent(n, a, parent) ==
  /\ ~Active(n)
  /\ status[a] = "none"
  /\ bots' = [bots EXCEPT ![n] = a]
  /\ nameOf' = [nameOf EXCEPT ![a] = n]
  /\ status' = [status EXCEPT ![a] = "idle"]
  /\ loop' = [loop EXCEPT ![a] = "running"]
  /\ cancelled' = IF parent THEN cancelled \cup {a} ELSE cancelled
  /\ session' = [session EXCEPT ![n] = @ + 1]
  /\ UNCHANGED waits

\* Terminate, up to the unlock and the cancellation.
BeginTerminate(c, n) ==
  /\ Active(n)
  /\ status' = [status EXCEPT ![bots[n]] = "terminating"]
  /\ cancelled' = cancelled \cup {bots[n]}
  /\ waits' = [waits EXCEPT ![c] = bots[n]]
  /\ UNCHANGED <<bots, nameOf, loop, session>>

DoneAtOnce(a) == loop[a] # "running"

\* The channel of the agent is closed.
Done(a) == loop[a] = "gone"

StopWaiting(c) ==
  /\ waits' = [waits EXCEPT ![c] = NoAgent]
  /\ UNCHANGED <<bots, nameOf, status, loop, cancelled, session>>

ActiveAgents == {a \in Agents : status[a] \in {"idle", "terminating"}}

\* TearDownAll, up to the cancellations.
BeginTearDown ==
  /\ status' = [a \in Agents |-> IF a \in ActiveAgents THEN "terminating" ELSE status[a]]
  /\ cancelled' = cancelled \cup ActiveAgents
  /\ UNCHANGED <<bots, nameOf, loop, waits, session>>

\* The loop of an agent ends with its context, or with the timeout.
Leave(a) ==
  /\ loop[a] = "running"
  /\ loop' = [loop EXCEPT ![a] = "leaving"]
  /\ UNCHANGED <<bots, nameOf, status, cancelled, waits, session>>

UnrecordStatusOnly(n) ==
  /\ status' = [status EXCEPT ![bots[n]] = "terminated"]
  /\ UNCHANGED session

UnrecordSessionOnly(n) ==
  /\ session' = [session EXCEPT ![n] = 0]
  /\ UNCHANGED status

\* The status of the agent that has the name now, and every record of the name.
Unrecord(n) ==
  /\ status' = [status EXCEPT ![bots[n]] = "terminated"]
  /\ session' = [session EXCEPT ![n] = 0]

MarkTerminated(a) ==
  /\ loop[a] = "leaving"
  /\ Unrecord(nameOf[a])
  /\ loop' = [loop EXCEPT ![a] = "marked"]
  /\ UNCHANGED <<bots, nameOf, cancelled, waits>>

CloseDone(a) ==
  /\ loop[a] = "marked"
  /\ loop' = [loop EXCEPT ![a] = "gone"]
  /\ UNCHANGED <<bots, nameOf, status, cancelled, waits, session>>

AgentStep(a) == Leave(a) \/ MarkTerminated(a) \/ CloseDone(a)

\* New: a manager without agents.  The records of an earlier run are discarded.
NewManager ==
  /\ bots = [n \in Names |-> NoAgent]
  /\ nameOf = [a \in Agents |-> NoAgent]
  /\ status = [a \in Agents |-> "none"]
  /\ loop = [a \in Agents |-> "none"]
  /\ cancelled = {}
  /\ waits = [c \in Callers |-> NoAgent]

DiscardRecords ==
  /\ session' = [n \in Names |-> 0]
  /\ UNCHANGED <<bots, nameOf, status, loop, cancelled, waits>>
=============================================================================
