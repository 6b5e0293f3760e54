---------------------------- MODULE TechLeadPool ----------------------------
(***************************************************************************)
(* The pool of tech-lead instances and the board hook that drives it.      *)
(*                                                                         *)
(* InMemoryBoardStore.Update stores an item under the board's lock and     *)
(* calls the status hook after releasing it, in the caller's goroutine;    *)
(* Create and Delete call no hook.  The hook allocates an instance to an   *)
(* item that enters in-progress and releases the one of an item that       *)
(* leaves it; Allocate and Deallocate hold the pool's lock from beginning  *)
(* to end.  Callers of Update are the HTTP handlers, the queue runner and  *)
(* the handlers of task results.                                           *)
(*                                                                         *)
(* Abstracted: every status but in-progress is "other", as the hook does   *)
(* not tell them apart; bus ids and times are left out.  The state file is *)
(* read at startup only, when no instance runs and each record is stale.   *)
(***************************************************************************)
EXTENDS Integers, FiniteSets

CONSTANTS
  Items,
  Callers,        \* goroutines that update the board
  MaxWrites,      \* bound: board changes
  MaxRestarts,    \* bound: restarts of the orchestrator
  None

ASSUME BoundsAreNumbers == MaxWrites \in Nat /\ MaxRestarts \in Nat
ASSUME NoneIsNoItem == None \notin Items

Name == Nat \ {0}   \* n stands for the instance name tech-lead-n

\* Entries in the order of the slice, which is the order of their names.
Entry == [name : Name, status : {"idle", "allocated"}, item : Items \cup {None}]

Column == {"in-progress", "other", "deleted"}

VARIABLES
  column,    \* the board: the column of every item
  hook,      \* per caller: the item whose status change it has yet to report
  entered,   \* per caller: whether that item entered in-progress, or left it
  template,  \* whether the team has a tech-lead to spawn instances from
  entries, counter,   \* Pool.entries, Pool.counter
  running,   \* TeamManager.dynamicBots: the instances whose goroutine lives
  cancelled, \* the instances whose context is cancelled
  writes, restarts

vars == <<column, hook, entered, template, entries, counter, running, cancelled, writes,
          restarts>>
boardVars == <<column, hook, entered, writes>>
poolVars == <<entries, counter>>
botVars == <<running, cancelled>>

TypeOK ==
  /\ column \in [Items -> Column]
  /\ hook \in [Callers -> Items \cup {None}]
  /\ entered \in [Callers -> BOOLEAN]
  /\ template \in BOOLEAN
  /\ entries \in SUBSET Entry
  /\ counter \in Nat
  /\ running \in SUBSET Name
  /\ cancelled \in SUBSET Name
  /\ writes \in 0..MaxWrites
  /\ restarts \in 0..MaxRestarts

-----------------------------------------------------------------------------
(* The board *)

Writes == writes < MaxWrites /\ writes' = writes + 1

\* Update moves an item into or out of in-progress; the hook is still to run.
MoveItem(c, i) ==
  /\ Writes
  /\ hook[c] = None
  /\ column[i] # "deleted"
  /\ column' = [column EXCEPT ![i] = IF @ = "other" THEN "in-progress" ELSE "other"]
  /\ hook' = [hook EXCEPT ![c] = i]
  /\ entered' = [entered EXCEPT ![c] = column[i] = "other"]
  /\ UNCHANGED <<template, poolVars, botVars, restarts>>

DeleteItem(i) ==
  /\ Writes
  /\ column[i] # "deleted"
  /\ column' = [column EXCEPT ![i] = "deleted"]
  /\ UNCHANGED <<hook, entered, template, poolVars, botVars, restarts>>

-----------------------------------------------------------------------------
(* The pool *)

EntriesOf(i) == {e \in entries : e.item = i}
Idle == {e \in entries : e.status = "idle"}
First(S) == CHOOSE e \in S : \A f \in S : e.name <= f.name

Fill(e, i) == [e EXCEPT !.status = "allocated", !.item = i]

\* What becomes of the entry of the warm standby.
Empty(e) == [e EXCEPT !.status = "idle", !.item = None]

UnlistedAlways(i) == TRUE

\* Allocate refuses an item that has an entry.
Unlisted(i) == EntriesOf(i) = {}

\* The counter after a failed spawn.
RolledBack(n) == n - 1

\* Allocate: an entry that is there already is an error, an idle instance is
\* reused, and otherwise one is spawned.  A failed spawn takes the counter back.
\* The instance's context derives from spawnCtx, which Allocate cancels when it
\* returns.
Allocate(i) ==
  \/ /\ ~Unlisted(i)
     /\ UNCHANGED <<poolVars, botVars>>
  \/ /\ Unlisted(i)
     /\ Idle # {}
     /\ entries' = (entries \ {First(Idle)}) \cup {Fill(First(Idle), i)}
     /\ UNCHANGED <<counter, botVars>>
  \/ /\ Unlisted(i)
     /\ Idle = {}
     /\ template
     /\ counter' = counter + 1
     /\ entries' = entries \cup {[name |-> counter + 1, status |-> "allocated", item |-> i]}
     /\ running' = running \cup {counter + 1}
     /\ cancelled' = cancelled \cup {counter + 1}
  \/ /\ Unlisted(i)
     /\ Idle = {}
     /\ ~template
     /\ counter' = RolledBack(counter + 1)
     /\ UNCHANGED <<entries, botVars>>

DropsLast == FALSE

\* The last entry of the pool is not dropped.
KeepsLast == Cardinality(entries) = 1

\* Deallocate: no entry is an error, the last entry becomes the warm standby,
\* any other is removed and its instance stopped.
Deallocate(i) ==
  \/ /\ EntriesOf(i) = {}
     /\ UNCHANGED <<poolVars, botVars>>
  \/ LET e == First(EntriesOf(i))
     IN  /\ EntriesOf(i) # {}
         /\ IF KeepsLast
            THEN /\ entries' = {Empty(e)}
                 /\ UNCHANGED botVars
            ELSE /\ entries' = entries \ {e}
                 /\ cancelled' = cancelled \cup ({e.name} \cap running)
                 /\ UNCHANGED running
         /\ UNCHANGED counter

\* The caller of Update runs the hook for the change it made.
RunHook(c) ==
  /\ hook[c] # None
  /\ IF entered[c] THEN Allocate(hook[c]) ELSE Deallocate(hook[c])
  /\ hook' = [hook EXCEPT ![c] = None]
  /\ UNCHANGED <<column, entered, template, writes, restarts>>

-----------------------------------------------------------------------------
(* Instances, restart *)

\* runBotWithRestart returns once the context is cancelled.
InstanceExits(n) ==
  /\ n \in running \cap cancelled
  /\ running' = running \ {n}
  /\ UNCHANGED <<boardVars, template, poolVars, cancelled, restarts>>

\* The orchestrator stops and starts again: the board is loaded from disk, the
\* instances are gone, and Reconcile drops the record of each one.
Restart ==
  /\ restarts < MaxRestarts
  /\ restarts' = restarts + 1
  /\ hook' = [c \in Callers |-> None]
  /\ running' = {}
  /\ cancelled' = {}
  /\ entries' = {}
  /\ counter' = 0
  /\ UNCHANGED <<column, entered, template, writes>>

Init ==
  /\ column \in [Items -> {"in-progress", "other"}]
  /\ hook = [c \in Callers |-> None]
  /\ entered = [c \in Callers |-> FALSE]
  /\ template \in BOOLEAN
  /\ entries = {}
  /\ counter = 0
  /\ running = {}
  /\ cancelled = {}
  /\ writes = 0
  /\ restarts = 0

Next ==
  \/ \E c \in Callers : RunHook(c) \/ \E i \in Items : MoveItem(c, i)
  \/ \E i \in Items : DeleteItem(i)
  \/ \E n \in running : InstanceExits(n)
  \/ Restart

Spec == Init /\ [][Next]_vars

-----------------------------------------------------------------------------
(* Properties *)

\* One instance per item and one item per instance, whatever the order in which
\* concurrent hooks reach the pool and whatever names failed spawns gave back.
OneEntryEach ==
  \A e, f \in entries : e # f => e.name # f.name /\ (e.item # None => e.item # f.item)

\* The warm standby is the whole pool: an allocation never leaves an instance
\* idle beside it, so the pool never holds more instances than running items
\* asked for, and no entry is free while it names an item.
StandbyIsAlone ==
  \A e \in entries : /\ e.status = "idle" => entries = {e}
                     /\ e.status = "idle" <=> e.item = None

\* Once the pool has been used it is not emptied before the process ends.
PoolNeverEmpties == [][entries # {} /\ restarts' = restarts => entries' # {}]_vars

\* pool-management.md: "at least one tech-lead instance remains running at all
\* times once the pool has been used".
SomeInstanceRuns == entries # {} => \E e \in entries : e.name \in running
=============================================================================
