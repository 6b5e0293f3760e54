------------------------- MODULE KanbanQueueProofs -------------------------
(***************************************************************************)
(* What holds of the Kanban queue for any board, any number of concurrent  *)
(* requests and any limit.  The invariants of KanbanQueue say nothing of   *)
(* the copies that processes hold between two store calls, and a stale     *)
(* copy is what may break them; the inductive invariant follows every one. *)
(***************************************************************************)
EXTENDS KanbanQueue, FiniteSetTheorems, TLAPS

\* The record it, stored or held by somebody, could be stored now: a task it
\* carries was created for that item, and it is running or closed.
Owned(it) ==
  it.active # NoTask => /\ tasks[it.active].itemOf = it.id
                        /\ it.status \in {"in-progress", "done"}

BoardOwned == \A i \in Items : board[i] # NoItem => board[i].id = i /\ Owned(board[i])
FoundOwned == \A t \in TaskIds : found[t] # NoItem => Owned(found[t])
CopyOwned == \A p \in Procs : copy[p] # NoItem => Owned(copy[p])
TodoOwned == \A it \in todo : Owned(it)

\* An id that was never used names no item.
FreshHasNoItem == \A t \in TaskIds : tasks[t].status = "none" => tasks[t].itemOf = NoItem

\* The steps at which a process needs its copy, and those of a launch or a dispatch.
Holding == {"finish", "launch", "dispatch", "sent", "store", "patch", "write",
            "list", "reorder", "close"}
Dispatching == {"launch", "dispatch", "sent", "store"}

CopyHeld == \A p \in Procs : pc[p] \in Holding => copy[p] # NoItem
BodyHeld == \A c \in Clients : pc[c] \in {"patch", "write"} => patch[c] # Keep
FoundHeld == \A t \in TaskIds : work[t] = "settle" => found[t] # NoItem

\* A dispatch works on an item in progress, and the task it sent is that item's.
DispatchOwned ==
  \A p \in Procs :
    /\ pc[p] \in Dispatching => copy[p].status = "in-progress"
    /\ pc[p] \in {"sent", "store"} => /\ sent[p] # NoTask
                                      /\ tasks[sent[p]].itemOf = copy[p].id

IInv == /\ TypeOK
        /\ BoardOwned /\ FoundOwned /\ CopyOwned /\ TodoOwned
        /\ FreshHasNoItem
        /\ CopyHeld /\ BodyHeld /\ FoundHeld
        /\ DispatchOwned

-----------------------------------------------------------------------------
(* Lemmas *)

\* A column of the board is finite, so its length is a number.
LEMMA ColumnsAreFinite ==
  \A st : Cardinality(WithStatus(st)) \in Nat
PROOF
<1> TAKE st
<1> DEFINE S == {j \in OnBoard : board[j].status = st}
           f == [j \in S |-> board[j]]
<1>1. IsFiniteSet(S)
  BY ItemsAreNumbers, FS_Subset DEF OnBoard
<1>2. WithStatus(st) = {f[j] : j \in S}
  BY DEF WithStatus
<1>3. f \in Surjection(S, {f[j] : j \in S})
  BY DEF Surjection
<1>4. IsFiniteSet(WithStatus(st))
  BY <1>1, <1>2, <1>3, FS_Surjection
<1> QED
  BY <1>4, FS_CardinalityType

\* Positions given by a reordering are numbers.
LEMMA PositionsAreNumbers ==
  ASSUME NEW column \in SUBSET Items, NEW m \in Items, NEW i \in Items
  PROVE  Position(column, m, i) \in Nat
PROOF
<1> DEFINE before == {j \in column : ListBefore(board[j], board[i])}
<1>1. IsFiniteSet(column) /\ IsFiniteSet(before)
  BY ItemsAreNumbers, FS_Subset
<1>2. Cardinality(column) \in Nat /\ Cardinality(before) \in Nat
  BY <1>1, FS_CardinalityType
<1> QED
  BY <1>2 DEF Position

\* A step that never gives a task to another item.
KeepsOwners ==
  \A t \in TaskIds : tasks[t].itemOf # NoItem => tasks'[t].itemOf = tasks[t].itemOf

\* Whoever owned a task before such a step owns it after.
LEMMA OwnedStable ==
  ASSUME KeepsOwners, NEW it \in Item, Owned(it)
  PROVE  Owned(it)'
PROOF
<1>1. CASE it.active = NoTask
  BY <1>1 DEF Owned
<1>2. CASE it.active # NoTask
  <2>1. it.active \in TaskIds /\ it.id \in Items
    BY <1>2 DEF Item
  <2>2. tasks[it.active].itemOf # NoItem
    BY <2>1, <1>2, NullsAreDistinct DEF Owned
  <2> QED
    BY <2>1, <2>2 DEF Owned, KeepsOwners
<1> QED
  BY <1>1, <1>2

\* Storing a copy that could be stored keeps the board in order.
LEMMA UpdateKeepsBoard ==
  ASSUME TypeOK, BoardOwned, UNCHANGED tasks,
         NEW it \in Item, Owned(it), Update(it)
  PROVE  /\ board' \in [Items -> Item \cup {NoItem}]
         /\ BoardOwned'
PROOF
<1>1. it.id \in Items
  BY DEF Item
<1>2. board' \in [Items -> Item \cup {NoItem}]
  BY <1>1 DEF Update, TypeOK
<1>3. ASSUME NEW i \in Items, board'[i] # NoItem
      PROVE  board'[i].id = i /\ Owned(board[i])'
  BY <1>1, <1>3 DEF Update, TypeOK, BoardOwned, Owned
<1> QED
  BY <1>2, <1>3 DEF BoardOwned

\* The task created for an item was nobody's.
LEMMA CreationKeepsOwners ==
  ASSUME TypeOK, FreshHasNoItem, NEW t \in TaskIds, Fresh(t), NEW tk,
         tasks' = [tasks EXCEPT ![t] = tk]
  PROVE  KeepsOwners
PROOF
  BY DEF TypeOK, FreshHasNoItem, Fresh, KeepsOwners, Task

\* A change of a task's status gives it to nobody else.
LEMMA StatusKeepsOwners ==
  ASSUME TypeOK, NEW t \in TaskIds, NEW st, tasks' = [tasks EXCEPT ![t].status = st]
  PROVE  KeepsOwners
PROOF
  BY DEF TypeOK, KeepsOwners, Task

\* Records that stay where they are stay in order.
LEMMA HeldStable ==
  ASSUME TypeOK, KeepsOwners
  PROVE  /\ BoardOwned /\ UNCHANGED board => BoardOwned'
         /\ FoundOwned /\ UNCHANGED found => FoundOwned'
         /\ CopyOwned /\ UNCHANGED copy => CopyOwned'
         /\ TodoOwned /\ todo' \subseteq todo => TodoOwned'
PROOF
<1>0. \A it \in Item : Owned(it) => Owned(it)'
  BY OwnedStable
<1>1. BoardOwned /\ UNCHANGED board => BoardOwned'
  BY <1>0 DEF BoardOwned, TypeOK, Owned
<1>2. FoundOwned /\ UNCHANGED found => FoundOwned'
  BY <1>0 DEF FoundOwned, TypeOK, Owned
<1>3. CopyOwned /\ UNCHANGED copy => CopyOwned'
  BY <1>0 DEF CopyOwned, TypeOK, Owned
<1>4. TodoOwned /\ todo' \subseteq todo => TodoOwned'
  BY <1>0 DEF TodoOwned, TypeOK, Owned
<1> QED
  BY <1>1, <1>2, <1>3, <1>4

\* A process may take any record that is in order.
LEMMA HoldKeepsCopies ==
  ASSUME TypeOK, CopyOwned, UNCHANGED tasks, NEW p \in Procs,
         NEW it \in Item \cup {NoItem}, it # NoItem => Owned(it), Hold(p, it)
  PROVE  /\ copy' \in [Procs -> Item \cup {NoItem}]
         /\ CopyOwned'
PROOF
<1>1. copy' \in [Procs -> Item \cup {NoItem}]
  BY DEF Hold, TypeOK
<1>2. CopyOwned'
  BY DEF Hold, TypeOK, CopyOwned, Owned
<1> QED
  BY <1>1, <1>2

\* What the runner stores when it launches an item is in order.
LEMMA LaunchedInOrder ==
  ASSUME NEW it \in Item, Owned(it)
  PROVE  Launched(it) \in Item /\ Owned(Launched(it)) /\ Launched(it).status = "in-progress"
PROOF
  BY DEF Launched, Item, Owned, ItemStatus, QueueMode

\* What a finished task leaves on its item is in order.
LEMMA SettledInOrder ==
  ASSUME NEW it \in Item, NEW st
  PROVE  LET new == [it EXCEPT !.status = Settled(st), !.active = NoTask]
         IN  new \in Item /\ Owned(new)
PROOF
<1>1. Settled(st) \in ItemStatus
  BY DEF Settled, ItemStatus
<1> QED
  BY <1>1 DEF Item, Owned

\* A field of a PATCH that is given, or else kept, is a value of its type.
LEMMA OverlayInOrder ==
  ASSUME NEW S, NEW new \in S \cup {Keep}, NEW old \in S
  PROVE  Overlay(new, old) \in S
PROOF
  BY DEF Overlay

\* A PATCH takes the task off an item that leaves in-progress.
LEMMA PatchedInOrder ==
  ASSUME NEW it \in Item, Owned(it), NEW p \in Patch, clock \in Time
  PROVE  Patched(it, p) \in Item /\ Owned(Patched(it, p))
PROOF
<1>1. Patched(it, p) \in Item
  <2> DEFINE st == Overlay(p.status, it.status)
             clear == p.status # Keep /\ st # "queued"
             enters == p.status # Keep /\ st = "queued" /\ it.status # "queued"
             bot == Overlay(p.bot, it.bot)
             active == IF p.status # Keep /\ st # "in-progress" THEN NoTask ELSE it.active
             queuedAt == IF clear THEN NoTime ELSE IF enters THEN clock ELSE it.queuedAt
             mode == Overlay(p.mode, IF clear THEN "asap" ELSE it.mode)
             runAt == Overlay(p.runAt, IF clear THEN NoTime ELSE it.runAt)
             after == Overlay(p.after, IF clear THEN NoItem ELSE it.after)
             must == Overlay(p.requireSuccess, IF clear THEN FALSE ELSE it.requireSuccess)
             new == [it EXCEPT !.status = st, !.bot = bot, !.active = active,
                               !.queuedAt = queuedAt, !.mode = mode, !.runAt = runAt,
                               !.after = after, !.requireSuccess = must]
  <2>1. Patched(it, p) = new
    BY Zenon DEF Patched
  <2>2. st \in ItemStatus
    <3>1. it.status \in ItemStatus /\ p.status \in ItemStatus \cup {Keep}
      BY DEF Item, Patch
    <3> QED
      BY <3>1, OverlayInOrder
  <2>3. bot \in Bots \cup {NoBot}
    <3>1. it.bot \in Bots \cup {NoBot} /\ p.bot \in (Bots \cup {NoBot}) \cup {Keep}
      BY DEF Item, Patch
    <3> QED
      BY <3>1, OverlayInOrder
  <2>4. active \in TaskIds \cup {NoTask} /\ queuedAt \in Time \cup {NoTime}
    BY DEF Item
  <2>5. mode \in QueueMode
    <3>1. (IF clear THEN "asap" ELSE it.mode) \in QueueMode
      BY DEF Item, QueueMode
    <3>2. p.mode \in QueueMode \cup {Keep}
      BY DEF Patch
    <3> QED
      BY <3>1, <3>2, OverlayInOrder
  <2>6. runAt \in Time \cup {NoTime}
    <3>1. (IF clear THEN NoTime ELSE it.runAt) \in Time \cup {NoTime}
      BY DEF Item
    <3>2. p.runAt \in (Time \cup {NoTime}) \cup {Keep}
      BY DEF Patch
    <3> QED
      BY <3>1, <3>2, OverlayInOrder
  <2>7. after \in Items \cup {NoItem}
    <3>1. (IF clear THEN NoItem ELSE it.after) \in Items \cup {NoItem}
      BY DEF Item
    <3>2. p.after \in (Items \cup {NoItem}) \cup {Keep}
      BY DEF Patch
    <3> QED
      BY <3>1, <3>2, OverlayInOrder
  <2>8. must \in BOOLEAN
    <3>1. (IF clear THEN FALSE ELSE it.requireSuccess) \in BOOLEAN
      BY Zenon DEF Item
    <3>2. p.requireSuccess \in BOOLEAN \cup {Keep}
      BY Zenon DEF Patch
    <3> QED
      BY <3>1, <3>2, OverlayInOrder, Zenon
  <2>9. new \in Item
    <3> HIDE DEF st, clear, enters, bot, active, queuedAt, mode, runAt, after, must
    <3> QED
      BY <2>2, <2>3, <2>4, <2>5, <2>6, <2>7, <2>8 DEF Item
  <2> QED
    BY <2>1, <2>9, Zenon
<1>2. Owned(Patched(it, p))
  BY DEF Patched, Patch, Item, Overlay, Owned
<1> QED
  BY <1>1, <1>2

-----------------------------------------------------------------------------
(* The inductive invariant *)

LEMMA InitIInv == Init => IInv
PROOF
<1> SUFFICES ASSUME Init PROVE IInv
  OBVIOUS
<1>1. /\ board \in [Items -> Item \cup {NoItem}]
      /\ \A i \in Items : board[i] # NoItem => board[i].id = i /\ board[i].active = NoTask
  BY LoadedBoardsFit DEF Init, Fits
<1>2. TypeOK
  BY <1>1, BoundsAreNumbers DEF Init, TypeOK, Task, TaskStatus, Stage, Outcome, PC, Time, NoOrder
<1>3. BoardOwned
  BY <1>1 DEF BoardOwned, Owned
<1>4. FoundOwned /\ CopyOwned /\ TodoOwned
  BY DEF Init, FoundOwned, CopyOwned, TodoOwned
<1>5. FreshHasNoItem
  BY DEF Init, FreshHasNoItem
<1>6. CopyHeld /\ BodyHeld /\ FoundHeld /\ DispatchOwned
  BY DEF Init, CopyHeld, BodyHeld, FoundHeld, DispatchOwned, Holding, Dispatching, Procs
<1> QED
  BY <1>2, <1>3, <1>4, <1>5, <1>6 DEF IInv

-----------------------------------------------------------------------------
(* The steps of a dispatch *)

LEMMA SendTaskStep ==
  ASSUME IInv, NEW p \in Procs, NEW t \in TaskIds, SendTask(p, t)
  PROVE  IInv'
PROOF
<1> USE DEF IInv
<1>1. copy[p] \in Item /\ copy[p].id \in Items /\ copy[p].status = "in-progress"
  BY DEF SendTask, TypeOK, CopyHeld, DispatchOwned, Holding, Dispatching, Item
<1>2. KeepsOwners
  BY CreationKeepsOwners DEF SendTask
<1>3. TypeOK'
  BY <1>1 DEF SendTask, TypeOK, Task, TaskStatus, Stage, PC, Goto, runnerVars, clientVars
<1>4. BoardOwned' /\ FoundOwned' /\ CopyOwned' /\ TodoOwned'
  BY <1>2, HeldStable DEF SendTask, runnerVars
<1>5. FreshHasNoItem'
  BY DEF SendTask, FreshHasNoItem, TypeOK
<1>6. CopyHeld' /\ BodyHeld' /\ FoundHeld'
  BY DEF SendTask, CopyHeld, BodyHeld, FoundHeld, Holding, TypeOK, Goto, clientVars
<1>7. DispatchOwned'
  <2> SUFFICES ASSUME NEW q \in Procs
               PROVE  /\ pc'[q] \in Dispatching => copy'[q].status = "in-progress"
                      /\ pc'[q] \in {"sent", "store"} =>
                           sent'[q] # NoTask /\ tasks'[sent'[q]].itemOf = copy'[q].id
    BY DEF DispatchOwned
  <2>1. CASE q = p
    BY <1>1, <2>1, NullsAreDistinct DEF SendTask, TypeOK, Goto
  <2>2. CASE q # p
    <3>1. pc'[q] = pc[q] /\ copy'[q] = copy[q] /\ sent'[q] = sent[q]
      BY <2>2 DEF SendTask, TypeOK, Goto
    <3>2. ASSUME pc[q] \in {"sent", "store"}
          PROVE  tasks'[sent[q]].itemOf = tasks[sent[q]].itemOf
      <4>1. sent[q] \in TaskIds /\ copy[q] \in Item
        BY <3>2 DEF TypeOK, DispatchOwned, CopyHeld, Holding
      <4>2. tasks[sent[q]].itemOf # NoItem
        BY <3>2, <4>1, NullsAreDistinct DEF DispatchOwned, Item
      <4> QED
        BY <4>1, <4>2, <1>2 DEF KeepsOwners
    <3> QED
      BY <3>1, <3>2 DEF DispatchOwned
  <2> QED
    BY <2>1, <2>2
<1> QED
  BY <1>3, <1>4, <1>5, <1>6, <1>7

LEMMA RejectTaskStep ==
  ASSUME IInv, NEW p \in Procs, NEW t \in TaskIds, RejectTask(p, t)
  PROVE  IInv'
PROOF
<1> USE DEF IInv
<1>1. copy[p] \in Item /\ copy[p].id \in Items
  BY DEF RejectTask, TypeOK, CopyHeld, Holding, Item
<1>2. KeepsOwners
  BY CreationKeepsOwners DEF RejectTask
<1>3. TypeOK'
  BY <1>1 DEF RejectTask, TypeOK, Task, TaskStatus, PC, Release, Goto, Hold, AfterDispatch,
              botVars, runnerVars, clientVars
<1>4. BoardOwned' /\ FoundOwned' /\ TodoOwned'
  BY <1>2, HeldStable DEF RejectTask, runnerVars, botVars
<1>5. CopyOwned'
  <2>1. \A it \in Item : Owned(it) => Owned(it)'
    BY <1>2, OwnedStable
  <2> QED
    BY <2>1 DEF RejectTask, Release, Hold, CopyOwned, TypeOK, Owned
<1>6. FreshHasNoItem'
  BY DEF RejectTask, FreshHasNoItem, TypeOK
<1>7. CopyHeld' /\ BodyHeld' /\ FoundHeld'
  BY DEF RejectTask, CopyHeld, BodyHeld, FoundHeld, Holding, TypeOK, Release, Goto, Hold,
         AfterDispatch, clientVars, botVars
<1>8. DispatchOwned'
  <2> SUFFICES ASSUME NEW q \in Procs, q # p, pc[q] \in Dispatching
               PROVE  /\ copy[q].status = "in-progress"
                      /\ pc[q] \in {"sent", "store"} =>
                           sent[q] # NoTask /\ tasks'[sent[q]].itemOf = copy[q].id
    BY DEF RejectTask, DispatchOwned, Dispatching, TypeOK, Release, Goto, Hold, AfterDispatch
  <2>1. ASSUME pc[q] \in {"sent", "store"}
        PROVE  tasks'[sent[q]].itemOf = tasks[sent[q]].itemOf
    <3>1. sent[q] \in TaskIds /\ copy[q] \in Item
      BY <2>1 DEF TypeOK, DispatchOwned, CopyHeld, Holding
    <3>2. tasks[sent[q]].itemOf # NoItem
      BY <2>1, <3>1, NullsAreDistinct DEF DispatchOwned, Item
    <3> QED
      BY <3>1, <3>2, <1>2 DEF KeepsOwners
  <2> QED
    BY <2>1 DEF DispatchOwned
<1> QED
  BY <1>3, <1>4, <1>5, <1>6, <1>7, <1>8

LEMMA MarkRunningStep ==
  ASSUME IInv, NEW p \in Procs, MarkRunning(p)
  PROVE  IInv'
PROOF
<1> USE DEF IInv
<1>1. sent[p] \in TaskIds
  BY DEF MarkRunning, TypeOK, DispatchOwned
<1>2. KeepsOwners
  BY <1>1, StatusKeepsOwners DEF MarkRunning
<1>3. TypeOK'
  BY <1>1 DEF MarkRunning, TypeOK, Task, TaskStatus, PC, Goto, botVars, runnerVars, clientVars
<1>4. BoardOwned' /\ FoundOwned' /\ CopyOwned' /\ TodoOwned'
  BY <1>2, HeldStable DEF MarkRunning, runnerVars, botVars
<1>5. FreshHasNoItem'
  BY <1>1 DEF MarkRunning, FreshHasNoItem, TypeOK, Task
<1>6. CopyHeld' /\ BodyHeld' /\ FoundHeld'
  BY DEF MarkRunning, CopyHeld, BodyHeld, FoundHeld, Holding, TypeOK, Goto, clientVars, botVars
<1>7. DispatchOwned'
  BY <1>1 DEF MarkRunning, DispatchOwned, Dispatching, TypeOK, Task, Goto
<1> QED
  BY <1>3, <1>4, <1>5, <1>6, <1>7

LEMMA StoreActiveStep ==
  ASSUME IInv, NEW p \in Procs, StoreActive(p)
  PROVE  IInv'
PROOF
<1> USE DEF IInv
<1> DEFINE it == [copy[p] EXCEPT !.active = sent[p]]
<1>1. copy[p] \in Item /\ copy[p].status = "in-progress" /\ sent[p] \in TaskIds
  BY DEF StoreActive, TypeOK, CopyHeld, DispatchOwned, Holding, Dispatching
<1>2. it \in Item /\ Owned(it) /\ Update(it)
  BY <1>1 DEF Item, Owned, StoreActive, DispatchOwned
<1>3. KeepsOwners
  BY DEF StoreActive, KeepsOwners
<1>4. board' \in [Items -> Item \cup {NoItem}] /\ BoardOwned'
  <2> HIDE DEF it
  <2> QED
    BY <1>2, UpdateKeepsBoard DEF StoreActive
<1>5. TypeOK'
  BY <1>4 DEF StoreActive, TypeOK, PC, Release, Goto, Hold, AfterDispatch, botVars,
              runnerVars, clientVars
<1>6. FoundOwned' /\ TodoOwned'
  BY <1>3, HeldStable DEF StoreActive, runnerVars, botVars
<1>7. CopyOwned'
  BY DEF StoreActive, Release, Hold, CopyOwned, TypeOK, Owned
<1>8. FreshHasNoItem' /\ CopyHeld' /\ BodyHeld' /\ FoundHeld'
  BY DEF StoreActive, FreshHasNoItem, CopyHeld, BodyHeld, FoundHeld, Holding, TypeOK, Release,
         Goto, Hold, AfterDispatch, clientVars, botVars
<1>9. DispatchOwned'
  BY DEF StoreActive, DispatchOwned, Dispatching, TypeOK, Release, Goto, Hold, AfterDispatch
<1> QED
  BY <1>4, <1>5, <1>6, <1>7, <1>8, <1>9

-----------------------------------------------------------------------------
(* The steps of a tick *)

\* Steps of the runner that only list items or count.
LEMMA ListingStep ==
  ASSUME IInv, Tick \/ CountSlots \/ Collect \/ EndTick
  PROVE  IInv'
PROOF
<1> USE DEF IInv
<1>1. /\ UNCHANGED <<board, unborn, tasks, work, outcome, found, copy, sent, patch, order, clock,
                     requests>>
      /\ \E l \in {"idle", "reconcile", "collect", "pick"} : Goto(Runner, l)
  BY DEF Tick, CountSlots, Collect, EndTick, botVars, clientVars
<1>2. todo' \in SUBSET Item /\ TodoOwned'
  <2>1. CASE \E st \in ItemStatus : todo' = WithStatus(st)
    BY <1>1, <2>1 DEF WithStatus, OnBoard, Present, TypeOK, TodoOwned, BoardOwned, Owned
  <2>2. CASE todo' \subseteq todo
    BY <1>1, <2>2 DEF TypeOK, TodoOwned, Owned
  <2> QED
    BY <2>1, <2>2 DEF Tick, CountSlots, Collect, EndTick, ItemStatus
<1>3. slots' \in Int
  BY ColumnsAreFinite, BoundsAreNumbers DEF Tick, CountSlots, Collect, EndTick, FreeSlots, TypeOK
<1>4. TypeOK'
  BY <1>1, <1>2, <1>3 DEF TypeOK, PC, Goto
<1>5. BoardOwned' /\ FoundOwned' /\ CopyOwned' /\ FreshHasNoItem'
  BY <1>1 DEF BoardOwned, FoundOwned, CopyOwned, FreshHasNoItem, Owned
<1>6. CopyHeld' /\ BodyHeld' /\ FoundHeld'
  BY <1>1 DEF CopyHeld, BodyHeld, FoundHeld, Holding, Goto, TypeOK
<1>7. DispatchOwned'
  BY <1>1 DEF DispatchOwned, Dispatching, Goto, TypeOK
<1> QED
  BY <1>2, <1>4, <1>5, <1>6, <1>7

\* The runner takes the next item of its list: it passes over the item, or holds
\* a record that is in order and is about to store it.
LEMMA VisitStep ==
  ASSUME IInv, NEW it \in todo, ReconcileNext(it) \/ PickNext(it)
  PROVE  IInv'
PROOF
<1> USE DEF IInv
<1>1. it \in Item /\ Owned(it)
  BY DEF TypeOK, TodoOwned
<1>2. /\ UNCHANGED <<board, unborn, tasks, work, outcome, found, sent, slots, patch, order, clock,
                     requests>>
      /\ todo' \subseteq todo
  BY DEF ReconcileNext, PickNext, botVars, clientVars
<1>3. \/ UNCHANGED <<copy, pc>>
      \/ \E new \in Item, l \in {"finish", "launch"} :
            /\ Owned(new) /\ Hold(Runner, new) /\ Goto(Runner, l)
            /\ l = "launch" => new.status = "in-progress"
  <2>1. Launched(it) \in Item /\ Owned(Launched(it)) /\ Launched(it).status = "in-progress"
    BY <1>1, LaunchedInOrder
  <2>2. LET new == [it EXCEPT !.status = Settled(tasks[it.active].status), !.active = NoTask]
        IN  new \in Item /\ Owned(new)
    BY <1>1, SettledInOrder
  <2> QED
    BY <2>1, <2>2 DEF ReconcileNext, PickNext
<1>4. KeepsOwners
  BY <1>2 DEF KeepsOwners
<1>5. BoardOwned' /\ FoundOwned' /\ TodoOwned' /\ FreshHasNoItem'
  BY <1>2, <1>4, HeldStable DEF FreshHasNoItem
<1>6. CASE UNCHANGED <<copy, pc>>
  <2>1. TypeOK'
    BY <1>2, <1>6 DEF TypeOK
  <2>2. CopyOwned' /\ CopyHeld' /\ BodyHeld' /\ FoundHeld' /\ DispatchOwned'
    BY <1>2, <1>6 DEF CopyOwned, CopyHeld, BodyHeld, FoundHeld, DispatchOwned, Owned
  <2> QED
    BY <1>5, <2>1, <2>2
<1>7. ASSUME NEW new \in Item, NEW l \in {"finish", "launch"},
             Owned(new), Hold(Runner, new), Goto(Runner, l),
             l = "launch" => new.status = "in-progress"
      PROVE  IInv'
  <2>1. copy' \in [Procs -> Item \cup {NoItem}] /\ CopyOwned'
    BY <1>2, <1>7, HoldKeepsCopies DEF Procs
  <2>2. TypeOK'
    BY <1>2, <1>7, <2>1 DEF TypeOK, PC, Goto
  <2>3. CopyHeld' /\ BodyHeld' /\ FoundHeld' /\ DispatchOwned'
    BY <1>2, <1>7, NullsAreDistinct
       DEF CopyHeld, BodyHeld, FoundHeld, DispatchOwned, Dispatching, Goto, Hold, TypeOK
  <2> QED
    BY <1>5, <2>1, <2>2, <2>3
<1> QED
  BY <1>3, <1>6, <1>7

\* The runner stores the record it holds.
LEMMA RunnerWriteStep ==
  ASSUME IInv, ReconcileWrite \/ LaunchWrite
  PROVE  IInv'
PROOF
<1> USE DEF IInv
<1>1. Runner \in Procs
  BY DEF Procs
<1>2. /\ UNCHANGED <<unborn, tasks, work, outcome, found, sent, todo, patch, order, clock, requests>>
      /\ pc[Runner] \in Holding
      /\ Update(copy[Runner])
      /\ \/ UNCHANGED copy /\ pc[Runner] = "launch" /\ Goto(Runner, "dispatch")
         \/ Hold(Runner, NoItem) /\ Goto(Runner, "pick")
         \/ Hold(Runner, NoItem) /\ Goto(Runner, "reconcile")
  BY DEF ReconcileWrite, LaunchWrite, Release, Holding, botVars, clientVars, runnerVars
<1>3. copy[Runner] \in Item /\ Owned(copy[Runner])
  BY <1>1, <1>2 DEF TypeOK, CopyHeld, CopyOwned
<1>4. board' \in [Items -> Item \cup {NoItem}] /\ BoardOwned'
  BY <1>2, <1>3, UpdateKeepsBoard
<1>5. slots' \in Int
  BY DEF ReconcileWrite, LaunchWrite, TypeOK, runnerVars
<1>6. TypeOK'
  BY <1>1, <1>2, <1>4, <1>5 DEF TypeOK, PC, Goto, Hold
<1>7. KeepsOwners
  BY <1>2 DEF KeepsOwners
<1>8. FoundOwned' /\ TodoOwned' /\ FreshHasNoItem'
  BY <1>2, <1>7, HeldStable DEF FreshHasNoItem
<1>9. CopyOwned' /\ CopyHeld' /\ BodyHeld' /\ FoundHeld'
  <2>1. CopyOwned'
    BY <1>1, <1>2 DEF CopyOwned, Hold, TypeOK, Owned
  <2>2. CopyHeld'
    BY <1>1, <1>2, <1>3, NullsAreDistinct DEF CopyHeld, Holding, Goto, Hold, TypeOK
  <2>3. BodyHeld' /\ FoundHeld'
    BY <1>1, <1>2 DEF BodyHeld, FoundHeld, Goto, TypeOK, Procs
  <2> QED
    BY <2>1, <2>2, <2>3
<1>10. DispatchOwned'
  BY <1>1, <1>2, <1>3 DEF DispatchOwned, Dispatching, Goto, Hold, TypeOK
<1> QED
  BY <1>4, <1>6, <1>8, <1>9, <1>10

-----------------------------------------------------------------------------
(* The steps of the HTTP handlers *)

LEMMA CreateItemStep ==
  ASSUME IInv, NEW c \in Clients, NEW i \in Items, NEW b \in Bots \cup {NoBot},
         CreateItem(c, i, b)
  PROVE  IInv'
PROOF
<1> USE DEF IInv
<1> DEFINE last == Cardinality(WithStatus("backlog")) + 1
           new == [id |-> i, status |-> "backlog", bot |-> b, active |-> NoTask,
                   mode |-> "asap", runAt |-> NoTime, after |-> NoItem,
                   requireSuccess |-> FALSE, queuedAt |-> NoTime, pos |-> last]
<1>1. new \in Item
  <2>1. last \in Nat
    BY ColumnsAreFinite
  <2> HIDE DEF last
  <2> QED
    BY <2>1 DEF Item, ItemStatus, QueueMode
<1>2. /\ board' = [board EXCEPT ![i] = new]
      /\ UNCHANGED <<tasks, work, outcome, found, pc, copy, sent, patch, order, todo, slots, clock>>
      /\ unborn' \subseteq unborn /\ requests' = requests + 1 /\ requests < MaxRequests
  BY DEF CreateItem, Begin, botVars, runnerVars
<1> HIDE DEF new
<1>3. TypeOK'
  BY <1>1, <1>2, BoundsAreNumbers DEF TypeOK
<1>4. BoardOwned'
  <2>1. new.id = i /\ new.active = NoTask
    BY DEF new
  <2> QED
    BY <1>2, <2>1 DEF BoardOwned, Owned, TypeOK
<1>5. FoundOwned' /\ CopyOwned' /\ TodoOwned' /\ FreshHasNoItem'
  BY <1>2 DEF FoundOwned, CopyOwned, TodoOwned, FreshHasNoItem, Owned
<1>6. CopyHeld' /\ BodyHeld' /\ FoundHeld' /\ DispatchOwned'
  BY <1>2 DEF CopyHeld, BodyHeld, FoundHeld, DispatchOwned
<1> QED
  BY <1>3, <1>4, <1>5, <1>6

LEMMA DeleteItemStep ==
  ASSUME IInv, NEW c \in Clients, NEW i \in Items, DeleteItem(c, i)
  PROVE  IInv'
PROOF
<1> USE DEF IInv
<1>1. /\ board' = [board EXCEPT ![i] = NoItem]
      /\ UNCHANGED <<unborn, tasks, work, outcome, found, pc, copy, sent, patch, order, todo, slots,
                     clock>>
      /\ requests' = requests + 1 /\ requests < MaxRequests
  BY DEF DeleteItem, Begin, botVars, runnerVars
<1>2. TypeOK'
  BY <1>1, BoundsAreNumbers DEF TypeOK
<1>3. BoardOwned'
  BY <1>1 DEF BoardOwned, Owned, TypeOK
<1>4. FoundOwned' /\ CopyOwned' /\ TodoOwned' /\ FreshHasNoItem'
  BY <1>1 DEF FoundOwned, CopyOwned, TodoOwned, FreshHasNoItem, Owned
<1>5. CopyHeld' /\ BodyHeld' /\ FoundHeld' /\ DispatchOwned'
  BY <1>1 DEF CopyHeld, BodyHeld, FoundHeld, DispatchOwned
<1> QED
  BY <1>2, <1>3, <1>4, <1>5

\* A handler reads an item and holds a record that is in order.
LEMMA ReadStep ==
  ASSUME IInv, NEW c \in Clients, NEW i \in Items,
         CloseGet(c, i) \/ \E p \in Patches : PatchGet(c, i, p)
  PROVE  IInv'
PROOF
<1> USE DEF IInv
<1>1. board[i] \in Item /\ Owned(board[i])
  BY DEF TypeOK, BoardOwned, CloseGet, PatchGet, Present
<1>2. \E new \in Item, l \in {"close", "patch"} :
         /\ Owned(new) /\ Hold(c, new) /\ Goto(c, l)
         /\ \/ l = "close" /\ UNCHANGED patch
            \/ \E p \in Patches : patch' = [patch EXCEPT ![c] = p]
  <2>1. [board[i] EXCEPT !.status = "done"] \in Item
    BY <1>1 DEF Item, ItemStatus
  <2>2. Owned([board[i] EXCEPT !.status = "done"])
    BY <1>1 DEF Item, Owned
  <2> QED
    BY <1>1, <2>1, <2>2 DEF CloseGet, PatchGet
<1>3. /\ UNCHANGED <<board, unborn, tasks, work, outcome, found, sent, order, todo, slots, clock>>
      /\ requests' = requests + 1 /\ requests < MaxRequests
  BY DEF CloseGet, PatchGet, Begin, botVars, runnerVars
<1>4. c \in Procs /\ KeepsOwners
  BY <1>3 DEF Procs, KeepsOwners
<1>5. BoardOwned' /\ FoundOwned' /\ TodoOwned' /\ FreshHasNoItem'
  BY <1>3, <1>4, HeldStable DEF FreshHasNoItem
<1>6. ASSUME NEW new \in Item, NEW l \in {"close", "patch"},
             Owned(new), Hold(c, new), Goto(c, l),
             \/ l = "close" /\ UNCHANGED patch
             \/ \E p \in Patches : patch' = [patch EXCEPT ![c] = p]
      PROVE  IInv'
  <2>1. copy' \in [Procs -> Item \cup {NoItem}] /\ CopyOwned'
    BY <1>3, <1>4, <1>6, HoldKeepsCopies
  <2>2. patch' \in [Clients -> Patches \cup {Keep}]
    BY <1>6 DEF TypeOK
  <2>6. TypeOK'
    <3>1. pc' \in [Procs -> PC]
      BY <1>6 DEF TypeOK, PC, Goto
    <3>2. requests' \in 0..MaxRequests
      BY <1>3, BoundsAreNumbers DEF TypeOK
    <3> QED
      BY <1>3, <2>1, <2>2, <3>1, <3>2 DEF TypeOK
  <2>3. CopyHeld'
    BY <1>4, <1>6, NullsAreDistinct DEF CopyHeld, Goto, Hold, TypeOK
  <2>4. BodyHeld' /\ FoundHeld'
    BY <1>3, <1>4, <1>6, PatchesAreBodies DEF BodyHeld, FoundHeld, Goto, TypeOK, Procs
  <2>5. DispatchOwned'
    BY <1>3, <1>4, <1>6 DEF DispatchOwned, Dispatching, Goto, Hold, TypeOK
  <2> QED
    BY <1>5, <2>1, <2>3, <2>4, <2>5, <2>6
<1> QED
  BY <1>2, <1>6

\* A handler that touches no store.
LEMMA CheckCapacityStep ==
  ASSUME IInv, NEW c \in Clients, CheckCapacity(c)
  PROVE  IInv'
PROOF
<1> USE DEF IInv
<1>1. /\ UNCHANGED <<board, unborn, tasks, work, outcome, found, sent, order, todo, slots, clock,
                     requests>>
      /\ pc[c] = "patch"
      /\ \/ EndRequest(c)
         \/ Goto(c, "write") /\ UNCHANGED <<copy, patch>>
  BY Zenon DEF CheckCapacity, botVars, runnerVars
<1>2. c \in Procs /\ KeepsOwners
  BY <1>1 DEF Procs, KeepsOwners
<1>3. TypeOK'
  BY <1>1, <1>2 DEF TypeOK, EndRequest, Release, Goto, Hold, PC
<1>4. BoardOwned' /\ FoundOwned' /\ TodoOwned' /\ FreshHasNoItem'
  BY <1>1, <1>2, HeldStable DEF FreshHasNoItem
<1>5. CopyOwned'
  BY <1>1, <1>2 DEF CopyOwned, EndRequest, Release, Hold, TypeOK, Owned
<1>6. CopyHeld'
  BY <1>1, <1>2 DEF CopyHeld, Holding, EndRequest, Release, Goto, Hold, TypeOK
<1>7. BodyHeld' /\ FoundHeld'
  BY <1>1, <1>2 DEF BodyHeld, FoundHeld, EndRequest, Release, Goto, TypeOK, Procs
<1>8. DispatchOwned'
  BY <1>1, <1>2 DEF DispatchOwned, Dispatching, EndRequest, Release, Goto, Hold, TypeOK
<1> QED
  BY <1>3, <1>4, <1>5, <1>6, <1>7, <1>8

\* A handler stores a record that is in order, and ends or goes on to reorder.
LEMMA WriteStep ==
  ASSUME IInv, NEW c \in Clients, CloseWrite(c) \/ PatchWrite(c)
  PROVE  IInv'
PROOF
<1> USE DEF IInv
<1>1. c \in Procs /\ copy[c] \in Item /\ Owned(copy[c])
  BY DEF CloseWrite, PatchWrite, Procs, TypeOK, CopyHeld, CopyOwned, Holding
<1>2. /\ UNCHANGED <<unborn, tasks, work, outcome, found, sent, order, todo, slots, clock, requests>>
      /\ \E new \in Item :
           /\ Owned(new) /\ Update(new)
           /\ \/ Goto(c, "idle") /\ Hold(c, NoItem)
              \/ Goto(c, "list") /\ Hold(c, new)
      /\ patch' \in {patch, [patch EXCEPT ![c] = Keep]}
  <2>1. CASE CloseWrite(c)
    BY <1>1, <2>1 DEF CloseWrite, Release, botVars, runnerVars, clientVars
  <2>2. CASE PatchWrite(c)
    <3> DEFINE new == Patched(copy[c], patch[c])
    <3>1. patch[c] \in Patch
      BY <2>2, PatchesAreBodies DEF PatchWrite, BodyHeld, TypeOK
    <3>2. new \in Item /\ Owned(new)
      BY <1>1, <3>1, PatchedInOrder DEF TypeOK
    <3> HIDE DEF new
    <3> QED
      BY <2>2, <3>2 DEF PatchWrite, EndRequest, Release, botVars, runnerVars, new
  <2> QED
    BY <2>1, <2>2
<1>3. ASSUME NEW new \in Item, Owned(new), Update(new),
             \/ Goto(c, "idle") /\ Hold(c, NoItem)
             \/ Goto(c, "list") /\ Hold(c, new)
      PROVE  IInv'
  <2>1. board' \in [Items -> Item \cup {NoItem}] /\ BoardOwned'
    BY <1>2, <1>3, UpdateKeepsBoard
  <2>2. copy' \in [Procs -> Item \cup {NoItem}] /\ CopyOwned'
    BY <1>1, <1>2, <1>3, HoldKeepsCopies
  <2>3. TypeOK'
    BY <1>1, <1>2, <1>3, <2>1, <2>2 DEF TypeOK, Goto, PC
  <2>4. KeepsOwners
    BY <1>2 DEF KeepsOwners
  <2>5. FoundOwned' /\ TodoOwned' /\ FreshHasNoItem'
    BY <1>2, <2>4, HeldStable DEF FreshHasNoItem
  <2>6. CopyHeld'
    BY <1>1, <1>3, NullsAreDistinct DEF CopyHeld, Holding, Goto, Hold, TypeOK
  <2>7. BodyHeld' /\ FoundHeld'
    BY <1>1, <1>2, <1>3 DEF BodyHeld, FoundHeld, Goto, TypeOK, Procs
  <2>8. DispatchOwned'
    BY <1>1, <1>2, <1>3 DEF DispatchOwned, Dispatching, Goto, Hold, TypeOK
  <2> QED
    BY <2>1, <2>2, <2>3, <2>5, <2>6, <2>7, <2>8
<1> QED
  BY <1>2, <1>3

LEMMA ListColumnStep ==
  ASSUME IInv, NEW c \in Clients, ListColumn(c)
  PROVE  IInv'
PROOF
<1> USE DEF IInv
<1> DEFINE m == copy[c].id
           column == {i \in OnBoard \ {m} : board[i].status = copy[c].status}
           positions == [i \in Items |->
                           IF i \in column \cup {m} THEN Position(column, m, i) ELSE 0]
<1>1. c \in Procs /\ m \in Items
  BY DEF ListColumn, Procs, TypeOK, CopyHeld, Holding, Item
<1>2. positions \in [Items -> Nat]
  <2>1. column \in SUBSET Items
    BY DEF OnBoard
  <2> HIDE DEF column, m
  <2>2. \A i \in Items : Position(column, m, i) \in Nat
    BY <1>1, <2>1, PositionsAreNumbers
  <2> QED
    BY <2>2
<1>3. /\ UNCHANGED <<board, unborn, tasks, work, outcome, found, copy, sent, patch, todo, slots,
                     clock, requests>>
      /\ pc[c] = "list" /\ Goto(c, "reorder")
      /\ order' = [order EXCEPT ![c] = positions]
  BY DEF ListColumn, botVars, runnerVars
<1> HIDE DEF positions
<1>4. TypeOK'
  BY <1>2, <1>3 DEF TypeOK, PC, Goto
<1>5. BoardOwned' /\ FoundOwned' /\ CopyOwned' /\ TodoOwned' /\ FreshHasNoItem'
  BY <1>3 DEF BoardOwned, FoundOwned, CopyOwned, TodoOwned, FreshHasNoItem, Owned
<1>6. CopyHeld' /\ BodyHeld' /\ FoundHeld' /\ DispatchOwned'
  BY <1>1, <1>3 DEF CopyHeld, BodyHeld, FoundHeld, DispatchOwned, Holding, Dispatching, Goto,
                    TypeOK, Procs
<1> QED
  BY <1>4, <1>5, <1>6

LEMMA ReorderColumnStep ==
  ASSUME IInv, NEW c \in Clients, ReorderColumn(c)
  PROVE  IInv'
PROOF
<1> USE DEF IInv
<1> DEFINE moved(i) == IF Present(i) /\ order[c][i] # 0
                       THEN [board[i] EXCEPT !.pos = order[c][i]] ELSE board[i]
<1>1. c \in Procs /\ copy[c] \in Item
  BY DEF ReorderColumn, Procs, TypeOK, CopyHeld, Holding
<1>2. /\ UNCHANGED <<unborn, tasks, work, outcome, found, sent, todo, slots, clock, requests>>
      /\ board' = [i \in Items |-> moved(i)]
      /\ order' = [order EXCEPT ![c] = NoOrder]
      /\ \/ EndRequest(c)
         \/ /\ copy[c].status = "in-progress" /\ UNCHANGED copy
            /\ Goto(c, "dispatch") /\ patch' = [patch EXCEPT ![c] = Keep]
  BY DEF ReorderColumn, botVars, runnerVars
<1> HIDE DEF moved
<1>4. ASSUME NEW i \in Items
      PROVE  \/ board'[i] = board[i]
             \/ /\ board[i] \in Item
                /\ \E n \in Nat : board'[i] = [board[i] EXCEPT !.pos = n]
  <2>1. order[c][i] \in Nat
    BY DEF TypeOK
  <2>2. CASE Present(i) /\ order[c][i] # 0
    <3>1. board'[i] = [board[i] EXCEPT !.pos = order[c][i]]
      BY <1>2, <2>2 DEF moved
    <3>2. board[i] \in Item
      BY <2>2 DEF TypeOK, Present
    <3> QED
      BY <2>1, <3>1, <3>2
  <2>3. CASE ~(Present(i) /\ order[c][i] # 0)
    BY <1>2, <2>3 DEF moved
  <2> QED
    BY <2>2, <2>3
<1>5. board' \in [Items -> Item \cup {NoItem}]
  <2>1. ASSUME NEW i \in Items
        PROVE  board'[i] \in Item \cup {NoItem}
    <3>1. CASE board'[i] = board[i]
      BY <3>1 DEF TypeOK
    <3>2. ASSUME board[i] \in Item, NEW n \in Nat, board'[i] = [board[i] EXCEPT !.pos = n]
          PROVE  board'[i] \in Item
      BY <3>2 DEF Item
    <3> QED
      BY <1>4, <3>1, <3>2
  <2> QED
    BY <1>2, <2>1
<1>6. BoardOwned'
  <2> SUFFICES ASSUME NEW i \in Items, board'[i] # NoItem
               PROVE  board'[i].id = i /\ Owned(board[i])'
    BY DEF BoardOwned
  <2>1. CASE board'[i] = board[i]
    BY <1>2, <2>1 DEF BoardOwned, Owned
  <2>2. ASSUME board[i] \in Item, NEW n \in Nat, board'[i] = [board[i] EXCEPT !.pos = n]
        PROVE  board'[i].id = i /\ Owned(board[i])'
    <3>1. board[i].id = i /\ Owned(board[i])
      BY <2>2, NullsAreDistinct DEF BoardOwned
    <3>2. /\ board'[i].id = board[i].id /\ board'[i].active = board[i].active
          /\ board'[i].status = board[i].status
      BY <2>2 DEF Item
    <3> QED
      BY <1>2, <3>1, <3>2 DEF Owned
  <2> QED
    BY <1>4, <2>1, <2>2
<1>7. TypeOK'
  BY <1>1, <1>2, <1>5 DEF TypeOK, EndRequest, Release, Goto, Hold, PC, NoOrder
<1>8. FoundOwned' /\ TodoOwned' /\ FreshHasNoItem'
  BY <1>2 DEF FoundOwned, TodoOwned, FreshHasNoItem, Owned
<1>9. CopyOwned'
  BY <1>1, <1>2 DEF CopyOwned, EndRequest, Release, Hold, TypeOK, Owned
<1>10. CopyHeld'
  BY <1>1, <1>2, NullsAreDistinct DEF CopyHeld, Holding, EndRequest, Release, Goto, Hold, TypeOK
<1>11. BodyHeld' /\ FoundHeld'
  BY <1>1, <1>2 DEF BodyHeld, FoundHeld, EndRequest, Release, Goto, TypeOK, Procs
<1>12. DispatchOwned'
  BY <1>1, <1>2 DEF DispatchOwned, Dispatching, EndRequest, Release, Goto, Hold, TypeOK
<1> QED
  BY <1>5, <1>6, <1>7, <1>8, <1>9, <1>10, <1>11, <1>12

-----------------------------------------------------------------------------
(* The bot, the handler of its result, the clock *)

\* Steps that change neither a record nor the place of a process.
LEMMA QuietStep ==
  ASSUME IInv,
         \/ TimePasses
         \/ \E t \in TaskIds : BotPanics(t) \/ FindNothing(t)
         \/ \E t \in TaskIds, o \in Outcome : BotAnswers(t, o)
  PROVE  IInv'
PROOF
<1> USE DEF IInv
<1>1. UNCHANGED <<board, unborn, tasks, found, pc, copy, sent, patch, order, todo, slots, requests>>
  BY DEF TimePasses, BotPanics, FindNothing, BotAnswers, botVars, runnerVars, clientVars
<1>2. TypeOK'
  <2>1. work' \in [TaskIds -> Stage] /\ outcome' \in [TaskIds -> Outcome]
    <3>1. CASE TimePasses
      BY <3>1 DEF TimePasses, botVars, TypeOK
    <3>2. ASSUME NEW t \in TaskIds, BotPanics(t) \/ FindNothing(t)
          PROVE  work' \in [TaskIds -> Stage] /\ outcome' \in [TaskIds -> Outcome]
      BY <3>2 DEF BotPanics, FindNothing, TypeOK, Stage
    <3>3. ASSUME NEW t \in TaskIds, NEW o \in Outcome, BotAnswers(t, o)
          PROVE  work' \in [TaskIds -> Stage] /\ outcome' \in [TaskIds -> Outcome]
      BY <3>3 DEF BotAnswers, TypeOK, Stage
    <3> QED
      BY <3>1, <3>2, <3>3
  <2>2. clock' \in Time
    BY BoundsAreNumbers DEF TimePasses, BotPanics, FindNothing, BotAnswers, TypeOK, Time
  <2>3. unborn' \in SUBSET Items /\ slots' \in Int /\ requests' \in 0..MaxRequests
    BY <1>1 DEF TypeOK
  <2> QED
    BY <1>1, <2>1, <2>2, <2>3 DEF TypeOK
<1>3. BoardOwned' /\ FoundOwned' /\ CopyOwned' /\ TodoOwned' /\ FreshHasNoItem'
  BY <1>1 DEF BoardOwned, FoundOwned, CopyOwned, TodoOwned, FreshHasNoItem, Owned
<1>4. CopyHeld' /\ BodyHeld' /\ DispatchOwned'
  BY <1>1 DEF CopyHeld, BodyHeld, DispatchOwned
<1>5. FoundHeld'
  BY <1>1 DEF TimePasses, BotPanics, FindNothing, BotAnswers, FoundHeld, TypeOK, botVars
<1> QED
  BY <1>2, <1>3, <1>4, <1>5

LEMMA RecordResultStep ==
  ASSUME IInv, NEW t \in TaskIds, RecordResult(t)
  PROVE  IInv'
PROOF
<1> USE DEF IInv
<1>1. outcome[t] \in Outcome
  BY DEF TypeOK
<1>2. /\ UNCHANGED <<board, unborn, outcome, found, pc, copy, sent, patch, order, todo, slots, clock,
                     requests>>
      /\ tasks' = [tasks EXCEPT ![t].status = outcome[t]]
      /\ work' = [work EXCEPT ![t] = "find"]
  BY DEF RecordResult, runnerVars, clientVars
<1>3. KeepsOwners
  BY <1>2, StatusKeepsOwners
<1>4. TypeOK'
  BY <1>1, <1>2 DEF TypeOK, Task, TaskStatus, Stage
<1>5. BoardOwned' /\ FoundOwned' /\ CopyOwned' /\ TodoOwned'
  BY <1>2, <1>3, HeldStable
<1>6. FreshHasNoItem'
  BY <1>1, <1>2 DEF FreshHasNoItem, TypeOK, Task, Outcome
<1>7. CopyHeld' /\ BodyHeld' /\ FoundHeld'
  BY <1>2 DEF CopyHeld, BodyHeld, FoundHeld, TypeOK
<1>8. DispatchOwned'
  BY <1>2 DEF DispatchOwned, TypeOK, Task
<1> QED
  BY <1>4, <1>5, <1>6, <1>7, <1>8

LEMMA FindItemStep ==
  ASSUME IInv, NEW t \in TaskIds, NEW it \in LinkedItems(t), FindItem(t, it)
  PROVE  IInv'
PROOF
<1> USE DEF IInv
<1> DEFINE new == [it EXCEPT !.status = Settled(outcome[t]), !.active = NoTask]
<1>1. it \in Item
  BY DEF LinkedItems, OnBoard, Present, TypeOK
<1>2. new \in Item /\ Owned(new)
  BY <1>1, SettledInOrder
<1>3. /\ UNCHANGED <<board, unborn, tasks, outcome, pc, copy, sent, patch, order, todo, slots, clock,
                     requests>>
      /\ found' = [found EXCEPT ![t] = new]
      /\ work' = [work EXCEPT ![t] = "settle"]
  BY <1>1 DEF FindItem, runnerVars, clientVars, Item
<1> HIDE DEF new
<1>4. TypeOK'
  BY <1>2, <1>3 DEF TypeOK, Stage
<1>5. BoardOwned' /\ CopyOwned' /\ TodoOwned' /\ FreshHasNoItem'
  BY <1>3 DEF BoardOwned, CopyOwned, TodoOwned, FreshHasNoItem, Owned
<1>6. FoundOwned' /\ FoundHeld'
  BY <1>2, <1>3, NullsAreDistinct DEF FoundOwned, FoundHeld, Owned, TypeOK
<1>7. CopyHeld' /\ BodyHeld' /\ DispatchOwned'
  BY <1>3 DEF CopyHeld, BodyHeld, DispatchOwned
<1> QED
  BY <1>4, <1>5, <1>6, <1>7

LEMMA SettleItemStep ==
  ASSUME IInv, NEW t \in TaskIds, SettleItem(t)
  PROVE  IInv'
PROOF
<1> USE DEF IInv
<1>1. /\ UNCHANGED <<unborn, tasks, outcome, pc, copy, sent, patch, order, todo, slots, clock, requests>>
      /\ Update(found[t])
      /\ found' = [found EXCEPT ![t] = NoItem]
      /\ work' = [work EXCEPT ![t] = "over"]
  BY DEF SettleItem, runnerVars, clientVars
<1>2. found[t] \in Item /\ Owned(found[t])
  BY DEF SettleItem, FoundHeld, FoundOwned, TypeOK
<1>3. board' \in [Items -> Item \cup {NoItem}] /\ BoardOwned'
  BY <1>1, <1>2, UpdateKeepsBoard
<1>4. TypeOK'
  BY <1>1, <1>3 DEF TypeOK, Stage
<1>5. FoundOwned' /\ CopyOwned' /\ TodoOwned' /\ FreshHasNoItem'
  BY <1>1 DEF FoundOwned, CopyOwned, TodoOwned, FreshHasNoItem, Owned, TypeOK
<1>6. CopyHeld' /\ BodyHeld' /\ FoundHeld' /\ DispatchOwned'
  BY <1>1 DEF CopyHeld, BodyHeld, FoundHeld, DispatchOwned, TypeOK
<1> QED
  BY <1>3, <1>4, <1>5, <1>6

-----------------------------------------------------------------------------
(* The theorems *)

\* Every step keeps the inductive invariant.
LEMMA NextIInv == IInv /\ [Next]_vars => IInv'
PROOF
<1> SUFFICES ASSUME IInv, [Next]_vars PROVE IInv'
  OBVIOUS
<1>1. ASSUME NEW p \in Procs, DispatchStep(p) PROVE IInv'
  BY <1>1, SendTaskStep, RejectTaskStep, MarkRunningStep, StoreActiveStep DEF DispatchStep
<1>2. CASE RunnerStep
  <2>1. Runner \in Procs
    BY DEF Procs
  <2> QED
    BY <1>1, <1>2, <2>1, ListingStep, VisitStep, RunnerWriteStep DEF RunnerStep
<1>3. ASSUME NEW c \in Clients, NewRequest(c) PROVE IInv'
  BY <1>3, CreateItemStep, DeleteItemStep, ReadStep DEF NewRequest
<1>4. ASSUME NEW c \in Clients, ServeStep(c) PROVE IInv'
  <2>1. c \in Procs
    BY DEF Procs
  <2> QED
    BY <1>1, <1>4, <2>1, CheckCapacityStep, WriteStep, ListColumnStep, ReorderColumnStep DEF ServeStep
<1>5. ASSUME NEW t \in TaskIds, BotStep(t) \/ ResultStep(t) PROVE IInv'
  BY <1>5, QuietStep, RecordResultStep, FindItemStep, SettleItemStep DEF BotStep, ResultStep
<1>6. CASE TimePasses
  BY <1>6, QuietStep
<1>7. CASE UNCHANGED vars
  <2>1. TypeOK' /\ FreshHasNoItem'
    BY <1>7 DEF vars, botVars, runnerVars, clientVars, IInv, TypeOK, FreshHasNoItem
  <2>2. BoardOwned' /\ FoundOwned' /\ CopyOwned' /\ TodoOwned'
    BY <1>7 DEF vars, IInv, BoardOwned, FoundOwned, CopyOwned, TodoOwned, Owned
  <2>3. CopyHeld' /\ BodyHeld' /\ FoundHeld' /\ DispatchOwned'
    BY <1>7 DEF vars, IInv, CopyHeld, BodyHeld, FoundHeld, DispatchOwned
  <2> QED
    BY <2>1, <2>2, <2>3 DEF IInv
<1> QED
  BY <1>2, <1>3, <1>4, <1>5, <1>6, <1>7 DEF Next

LEMMA InvariantHolds == Spec => []IInv
PROOF
<1> QED
  BY InitIInv, NextIInv, PTL DEF Spec

\* Every variable keeps its type: the runner never dispatches, stores or sends a
\* copy it no longer has.
THEOREM TypesAreRespected == Spec => []TypeOK
PROOF
<1>1. IInv => TypeOK
  BY DEF IInv
<1> QED
  BY InvariantHolds, <1>1, PTL

\* However many requests, runner steps and results interleave, ActiveTaskID names
\* a task of the item that carries it (queue_runner.go, board_dispatch.go and
\* handleSharedTaskResult never mix two items up).
THEOREM TasksAreOwn == Spec => []ActiveTaskIsOwn
PROOF
<1>1. IInv => ActiveTaskIsOwn
  BY DEF IInv, BoardOwned, Owned, ActiveTaskIsOwn, OnBoard, Present
<1> QED
  BY InvariantHolds, <1>1, PTL

\* An item waiting to be launched never carries a task: launch need not clear
\* ActiveTaskID, whatever the operators did to the item before.
THEOREM IdleItemsCarryNoTask == Spec => []IdleItemHasNoTask
PROOF
<1>1. IInv => IdleItemHasNoTask
  BY DEF IInv, BoardOwned, Owned, IdleItemHasNoTask, OnBoard, Present
<1> QED
  BY InvariantHolds, <1>1, PTL

\* A deleted item never comes back: every store of a stale copy finds it gone.
THEOREM DeletedItemsStayDeleted == Spec => DeletedStaysDeleted
PROOF
<1>1. ASSUME IInv, [Next]_vars, NEW i \in Items \ unborn, ~Present(i)
      PROVE  board'[i] = NoItem
  <2>1. ASSUME NEW it, Update(it) PROVE board'[i] = NoItem
    BY <1>1, <2>1 DEF Update, Present, IInv, TypeOK
  <2>2. ASSUME UNCHANGED board PROVE board'[i] = NoItem
    BY <1>1, <2>2 DEF Present
  <2>3. ASSUME NEW p \in Procs, DispatchStep(p) PROVE board'[i] = NoItem
    BY <2>1, <2>2, <2>3 DEF DispatchStep, SendTask, RejectTask, MarkRunning, StoreActive
  <2>4. CASE RunnerStep
    BY <2>1, <2>2, <2>3, <2>4 DEF RunnerStep, Procs, Tick, ReconcileNext, ReconcileWrite,
       CountSlots, Collect, EndTick, PickNext, LaunchWrite
  <2>5. ASSUME NEW c \in Clients, NewRequest(c) PROVE board'[i] = NoItem
    BY <1>1, <2>2, <2>5 DEF NewRequest, CreateItem, DeleteItem, CloseGet, PatchGet, Present,
       IInv, TypeOK
  <2>6. ASSUME NEW c \in Clients, ServeStep(c) PROVE board'[i] = NoItem
    <3>1. CASE ReorderColumn(c)
      BY <1>1, <3>1 DEF ReorderColumn, Present
    <3> QED
      BY <2>1, <2>2, <2>3, <2>6, <3>1 DEF ServeStep, CloseWrite, CheckCapacity, PatchWrite,
         ListColumn, Procs
  <2>7. ASSUME NEW t \in TaskIds, BotStep(t) \/ ResultStep(t) PROVE board'[i] = NoItem
    BY <2>1, <2>2, <2>7 DEF BotStep, BotPanics, BotAnswers, ResultStep, RecordResult, FindItem,
       FindNothing, SettleItem
  <2>8. CASE TimePasses \/ UNCHANGED vars
    BY <2>2, <2>8 DEF TimePasses, vars
  <2> QED
    BY <1>1, <2>4, <2>5, <2>6, <2>7, <2>8 DEF Next
<1>2. IInv /\ [Next]_vars =>
        [\A i \in Items \ unborn : ~Present(i) => board'[i] = NoItem]_vars
  BY <1>1
<1> QED
  BY InvariantHolds, <1>2, PTL DEF Spec, DeletedStaysDeleted

-----------------------------------------------------------------------------
(* The runner and the bots alone.  The two promises that requests break (runs *)
(* queue_capacity and queue_lost_result) hold as long as there are none: the  *)
(* copies of the runner are then as good as the board.                        *)

Running == {i \in OnBoard : board[i].status = "in-progress"}
Ended == {"done", "blocked", "errored"}
Placing == {"pick", "launch", "dispatch", "sent", "store"}

OneTaskEach ==
  \A t, u \in TaskIds : tasks[t].itemOf # NoItem /\ tasks[t].itemOf = tasks[u].itemOf => t = u
QueuedIsNew ==
  \A i \in OnBoard : board[i].status = "queued" => \A t \in TaskIds : tasks[t].itemOf # i
\* A result or the reconciliation takes an item out of progress.
FoundEnds ==
  \A t \in TaskIds : found[t] # NoItem => tasks[t].itemOf = found[t].id /\ found[t].status \in Ended
FinishEnds == pc[Runner] = "finish" => copy[Runner].status \in Ended
\* What was collected is still on the board as it was.
CollectedIsQueued ==
  pc[Runner] \in Placing => \A it \in todo : it.status = "queued" /\ board[it.id] = it
\* An item is launched once: it is queued until then, and has left the list.
LaunchIsDue ==
  pc[Runner] = "launch" =>
    /\ Present(copy[Runner].id) /\ board[copy[Runner].id].status = "queued"
    /\ copy[Runner].active = NoTask
    /\ \A it \in todo : it.id # copy[Runner].id
    /\ slots > 0
\* Until its task is stored nobody else touches an item that is dispatched.
DispatchIsFirst ==
  pc[Runner] \in {"dispatch", "sent", "store"} =>
    /\ board[copy[Runner].id] = copy[Runner] /\ copy[Runner].active = NoTask
    /\ \A t \in TaskIds : tasks[t].itemOf = copy[Runner].id =>
         pc[Runner] # "dispatch" /\ t = sent[Runner] /\ found[t] = NoItem
\* The slots that a tick has left are free.
WithinLimit ==
  /\ pc[Runner] \in Placing \cup {"collect"} => slots >= 0 /\ Cardinality(Running) + slots <= MaxConcurrent
  /\ Cardinality(Running) <= MaxConcurrent

AloneInv == /\ OneTaskEach /\ QueuedIsNew /\ FoundEnds /\ FinishEnds
            /\ CollectedIsQueued /\ LaunchIsDue /\ DispatchIsFirst /\ WithinLimit

LEMMA RunningIsFinite == IsFiniteSet(Running) /\ Cardinality(Running) \in Nat
PROOF
<1>1. IsFiniteSet(Running)
  BY ItemsAreNumbers, FS_Subset DEF Running, OnBoard
<1> QED
  BY <1>1, FS_CardinalityType

\* The running items are counted by their ids.
LEMMA RunningIsCounted ==
  ASSUME BoardOwned
  PROVE  Cardinality(WithStatus("in-progress")) = Cardinality(Running)
PROOF
<1> DEFINE f == [j \in Running |-> board[j]]
<1>1. WithStatus("in-progress") = {f[j] : j \in Running}
  BY DEF WithStatus, Running
<1>2. f \in Surjection(Running, {f[j] : j \in Running})
  BY DEF Surjection
<1>3. \A i, j \in Running : f[i] = f[j] => i = j
  BY DEF Running, OnBoard, Present, BoardOwned
<1>4. f \in Injection(Running, {f[j] : j \in Running})
  BY <1>2, <1>3 DEF Surjection, Injection, IsInjective
<1> QED
  BY <1>1, <1>2, <1>4, RunningIsFinite, FS_Surjection

\* A step that leaves no more items running leaves no more to count.
LEMMA FewerRun ==
  ASSUME Running' \subseteq Running
  PROVE  Cardinality(Running') \in Nat /\ Cardinality(Running') <= Cardinality(Running)
PROOF
<1>1. IsFiniteSet(Running')
  BY RunningIsFinite, FS_Subset
<1> QED
  BY <1>1, RunningIsFinite, FS_Subset, FS_CardinalityType

LEMMA AloneInit ==
  ASSUME Init, \A b \in Loaded :
           Cardinality({i \in Items : b[i] # NoItem /\ b[i].status = "in-progress"}) <= MaxConcurrent
  PROVE  AloneInv
PROOF
<1>1. OneTaskEach /\ QueuedIsNew /\ FoundEnds
  BY NullsAreDistinct DEF Init, OneTaskEach, QueuedIsNew, FoundEnds, OnBoard
<1>2. FinishEnds /\ CollectedIsQueued /\ LaunchIsDue /\ DispatchIsFirst
  BY DEF Init, FinishEnds, CollectedIsQueued, LaunchIsDue, DispatchIsFirst, Procs, Placing
<1>3. WithinLimit
  <2>1. Running = {i \in Items : board[i] # NoItem /\ board[i].status = "in-progress"}
    BY DEF Running, OnBoard, Present
  <2> QED
    BY <2>1 DEF Init, WithinLimit, Placing, Procs
<1> QED
  BY <1>1, <1>2, <1>3 DEF AloneInv

\* The steps of the runner that only look at the board.
LEMMA AloneLooks ==
  ASSUME IInv, AloneInv,
         Tick \/ CountSlots \/ Collect \/ EndTick \/ \E it \in todo : ReconcileNext(it) \/ PickNext(it)
  PROVE  AloneInv'
PROOF
<1> TypeOK /\ BoardOwned /\ Runner \in Procs
  BY DEF IInv, Procs
<1>0. /\ UNCHANGED <<board, tasks, found, sent>>
      /\ \A i : Present(i)' <=> Present(i)
  BY DEF Tick, CountSlots, Collect, EndTick, ReconcileNext, PickNext, botVars, runnerVars, Present
<1>1. Running' = Running
  BY <1>0 DEF Running, OnBoard
<1>2. OneTaskEach' /\ QueuedIsNew' /\ FoundEnds'
  BY <1>0 DEF AloneInv, OneTaskEach, QueuedIsNew, FoundEnds, OnBoard
<1>3. CASE Tick
  BY <1>0, <1>1, <1>2, <1>3 DEF Tick, Goto, TypeOK, AloneInv, FinishEnds, CollectedIsQueued, LaunchIsDue,
     DispatchIsFirst, WithinLimit, Placing
<1>4. CASE CountSlots
  <2>1. FreeSlots = MaxConcurrent - Cardinality(Running)
    BY RunningIsCounted DEF FreeSlots
  <2>2. WithinLimit'
    BY <1>1, <1>4, <2>1, RunningIsFinite, BoundsAreNumbers
    DEF CountSlots, Goto, TypeOK, AloneInv, WithinLimit, Placing
  <2> QED
    BY <1>2, <1>4, <2>2 DEF CountSlots, Goto, TypeOK, AloneInv, FinishEnds, CollectedIsQueued, LaunchIsDue,
       DispatchIsFirst, Placing
<1>5. CASE Collect
  <2>1. pc[Runner] = "collect" /\ pc'[Runner] = "pick" /\ UNCHANGED slots /\ todo' = WithStatus("queued")
    BY <1>5 DEF Collect, Goto, TypeOK
  <2>2. CollectedIsQueued'
    BY <1>0, <2>1 DEF CollectedIsQueued, WithStatus, OnBoard, BoardOwned, Present
  <2>3. WithinLimit'
    BY <1>1, <2>1 DEF WithinLimit, AloneInv, Placing
  <2> QED
    BY <1>2, <2>1, <2>2, <2>3 DEF AloneInv, FinishEnds, LaunchIsDue, DispatchIsFirst
<1>6. CASE EndTick
  BY <1>0, <1>1, <1>2, <1>6 DEF EndTick, Goto, TypeOK, AloneInv, FinishEnds, CollectedIsQueued, LaunchIsDue,
     DispatchIsFirst, WithinLimit, Placing
<1>7. ASSUME NEW it \in todo, ReconcileNext(it) PROVE AloneInv'
  <2>1. it \in Item
    BY DEF TypeOK
  <2>2. pc'[Runner] \in {"reconcile", "finish"}
    BY <1>7 DEF ReconcileNext, Goto, TypeOK
  <2>3. FinishEnds'
    <3>1. CASE Finished(it)
      <4>1. copy'[Runner].status = Settled(tasks[it.active].status)
        <5>1. \A v : [it EXCEPT !.status = v, !.active = NoTask].status = v
          BY <2>1 DEF Item
        <5>2. copy'[Runner] = [it EXCEPT !.status = Settled(tasks[it.active].status), !.active = NoTask]
          BY <1>7, <3>1 DEF ReconcileNext, Hold, TypeOK
        <5> QED
          BY <5>1, <5>2
      <4> QED
        BY <4>1 DEF FinishEnds, Settled, Ended
    <3>2. CASE ~Finished(it)
      BY <1>7, <3>2 DEF ReconcileNext, FinishEnds
    <3> QED
      BY <3>1, <3>2
  <2>4. WithinLimit'
    BY <1>1, <2>2 DEF WithinLimit, AloneInv, Placing
  <2> QED
    BY <1>2, <2>2, <2>3, <2>4 DEF AloneInv, CollectedIsQueued, LaunchIsDue, DispatchIsFirst, Placing
<1>8. ASSUME NEW it \in todo, PickNext(it) PROVE AloneInv'
  <2>1. /\ it \in Item /\ pc[Runner] = "pick" /\ slots > 0 /\ todo' = todo \ {it} /\ UNCHANGED slots
        /\ pc'[Runner] \in {"pick", "launch"}
        /\ pc'[Runner] = "launch" => copy'[Runner] = Launched(it)
    BY <1>8 DEF PickNext, Goto, Hold, TypeOK
  <2>2. CollectedIsQueued'
    BY <1>0, <2>1 DEF AloneInv, CollectedIsQueued, Placing
  <2>3. LaunchIsDue'
    <3>1. it.status = "queued" /\ board[it.id] = it
      BY <2>1 DEF AloneInv, CollectedIsQueued, Placing
    <3>2. it.id \in Items /\ it.active = NoTask
      BY <2>1, <3>1, NullsAreDistinct DEF Item, BoardOwned, Owned
    <3>3. Launched(it).id = it.id /\ Launched(it).active = it.active
      BY <2>1 DEF Launched, Item
    <3>4. \A other \in todo' : other.id # it.id
      BY <2>1, <3>1 DEF AloneInv, CollectedIsQueued, Placing
    <3> QED
      BY <1>0, <2>1, <3>1, <3>2, <3>3, <3>4, NullsAreDistinct DEF LaunchIsDue, Present
  <2>4. WithinLimit'
    BY <1>1, <2>1 DEF WithinLimit, AloneInv, Placing
  <2> QED
    BY <1>2, <2>1, <2>2, <2>3, <2>4 DEF AloneInv, FinishEnds, DispatchIsFirst
<1> QED
  BY <1>3, <1>4, <1>5, <1>6, <1>7, <1>8

\* Who stores the end of which item: the reconciliation or a result.
Ends(it) ==
  /\ it \in Item /\ it.status \in Ended /\ Update(it)
  /\ UNCHANGED <<tasks, sent, todo, slots, outcome>>
  /\ \/ /\ pc[Runner] = "finish" /\ pc'[Runner] = "reconcile"
        /\ it = copy[Runner] /\ UNCHANGED <<found, work>>
     \/ /\ UNCHANGED <<pc, copy>>
        /\ \E t \in TaskIds : /\ work[t] = "settle" /\ work' = [work EXCEPT ![t] = "over"]
                              /\ it = found[t] /\ found' = [found EXCEPT ![t] = NoItem]

LEMMA EndsAreWritten ==
  ASSUME IInv, AloneInv, ReconcileWrite \/ \E t \in TaskIds : SettleItem(t)
  PROVE  \E it : Ends(it)
PROOF
<1> TypeOK /\ Runner \in Procs
  BY DEF IInv, Procs
<1>1. CASE ReconcileWrite
  <2>1. Ends(copy[Runner])
    BY <1>1 DEF Ends, ReconcileWrite, IInv, CopyHeld, Holding, FinishEnds, AloneInv, Release, Goto, TypeOK,
       botVars, runnerVars
  <2> QED
    BY <2>1
<1>2. ASSUME NEW t \in TaskIds, SettleItem(t) PROVE Ends(found[t])
  <2>1. found[t] \in Item /\ found[t].status \in Ended
    BY <1>2 DEF SettleItem, IInv, FoundHeld, FoundEnds, AloneInv, TypeOK
  <2> QED
    BY <1>2, <2>1 DEF Ends, SettleItem, runnerVars
<1> QED
  BY <1>1, <1>2

LEMMA AloneEnds ==
  ASSUME IInv, AloneInv, ReconcileWrite \/ \E t \in TaskIds : SettleItem(t)
  PROVE  AloneInv'
PROOF
<1> TypeOK /\ BoardOwned /\ Runner \in Procs /\ AloneInv
  BY DEF IInv, Procs
<1>1. PICK it : Ends(it)
  BY EndsAreWritten
<1> USE DEF Ends
<1> DEFINE i == it.id
<1>2. i \in Items /\ board' \in [Items -> Item \cup {NoItem}]
  BY <1>1 DEF Item, Update, TypeOK
<1>3. \A j \in Items : board'[j] = board[j] \/ (j = i /\ Present(i) /\ board'[j] = it)
  BY <1>1, <1>2 DEF Update, TypeOK
<1>4. \A j \in OnBoard' : board'[j].status = "queued" => j \in OnBoard /\ board'[j] = board[j]
  BY <1>1, <1>3 DEF OnBoard, Present, Ended
<1>5. OneTaskEach' /\ QueuedIsNew'
  BY <1>1, <1>4 DEF AloneInv, OneTaskEach, QueuedIsNew
<1>6. FoundEnds'
  BY <1>1 DEF AloneInv, FoundEnds, TypeOK
<1>7. WithinLimit'
  <2>1. Running' \subseteq Running
    BY <1>1, <1>3 DEF Running, OnBoard, Present, Ended
  <2> QED
    BY <1>1, <2>1, FewerRun, RunningIsFinite, BoundsAreNumbers
    DEF AloneInv, WithinLimit, Placing, TypeOK
<1>8. CASE pc'[Runner] = "reconcile"
  BY <1>5, <1>6, <1>7, <1>8 DEF AloneInv, FinishEnds, CollectedIsQueued, LaunchIsDue, DispatchIsFirst, Placing
<1>9. CASE pc'[Runner] # "reconcile"
  <2>1. /\ UNCHANGED <<pc, copy, tasks, sent, todo, slots>>
        /\ \E t \in TaskIds : found[t] = it /\ found' = [found EXCEPT ![t] = NoItem]
    BY <1>1, <1>9
  <2>2. PICK t \in TaskIds : tasks[t].itemOf = i /\ found[t] # NoItem
    BY <1>1, <2>1, NullsAreDistinct DEF AloneInv, FoundEnds
  <2>3. \A j \in OnBoard : board[j].status = "queued" => j # i
    BY <2>2 DEF AloneInv, QueuedIsNew
  <2>4. CollectedIsQueued'
    <3>1. \A x \in todo : pc[Runner] \in Placing =>
            x \in Item /\ x.id \in OnBoard /\ board[x.id] = x /\ x.status = "queued"
      BY NullsAreDistinct DEF AloneInv, CollectedIsQueued, OnBoard, Present, TypeOK, Item
    <3> QED
      BY <1>3, <2>1, <2>3, <3>1 DEF CollectedIsQueued, OnBoard
  <2>5. LaunchIsDue'
    <3> SUFFICES ASSUME pc[Runner] = "launch" PROVE LaunchIsDue'
      BY <2>1 DEF LaunchIsDue
    <3>1. copy[Runner].id \in OnBoard /\ board[copy[Runner].id].status = "queued"
      BY DEF AloneInv, LaunchIsDue, OnBoard, IInv, CopyHeld, Holding, TypeOK, Item
    <3> QED
      BY <1>3, <2>1, <2>3, <3>1 DEF AloneInv, LaunchIsDue, OnBoard, Present
  <2>6. DispatchIsFirst'
    <3> SUFFICES ASSUME pc[Runner] \in {"dispatch", "sent", "store"} PROVE DispatchIsFirst'
      BY <2>1 DEF DispatchIsFirst
    <3>1. copy[Runner].id # i /\ copy[Runner].id \in Items
      BY <2>2 DEF AloneInv, DispatchIsFirst, IInv, CopyHeld, Holding, TypeOK, Item
    <3> QED
      BY <1>3, <2>1, <3>1 DEF AloneInv, DispatchIsFirst, TypeOK
  <2>7. FinishEnds'
    BY <2>1 DEF AloneInv, FinishEnds
  <2> QED
    BY <1>5, <1>6, <1>7, <2>4, <2>5, <2>6, <2>7 DEF AloneInv
<1> QED
  BY <1>8, <1>9

\* A launch takes the slot it fills.
LEMMA AloneLaunches ==
  ASSUME IInv, AloneInv, LaunchWrite
  PROVE  AloneInv'
PROOF
<1> TypeOK /\ BoardOwned /\ Runner \in Procs /\ AloneInv
  BY DEF IInv, Procs
<1> DEFINE it == copy[Runner]
           i == it.id
<1>1. /\ it \in Item /\ i \in Items /\ it.status = "in-progress" /\ it.active = NoTask
      /\ Present(i) /\ board[i].status = "queued" /\ slots > 0 /\ \A x \in todo : x.id # i
      /\ pc[Runner] = "launch"
  BY DEF LaunchWrite, IInv, CopyHeld, Holding, DispatchOwned, Dispatching, LaunchIsDue, AloneInv, TypeOK, Item
<1>2. /\ board' = [board EXCEPT ![i] = it] /\ slots' = slots - 1
      /\ UNCHANGED <<tasks, found, sent, todo>>
      /\ (pc'[Runner] = "dispatch" /\ UNCHANGED copy) \/ pc'[Runner] = "pick"
  BY <1>1 DEF LaunchWrite, Update, Release, Goto, TypeOK, botVars
<1> HIDE DEF it
<1>3. \A j \in Items : board'[j] = IF j = i THEN it ELSE board[j]
  BY <1>2 DEF TypeOK
<1>4. OneTaskEach' /\ FoundEnds' /\ FinishEnds'
  BY <1>2 DEF AloneInv, OneTaskEach, FoundEnds, FinishEnds
<1>5. QueuedIsNew'
  BY <1>1, <1>2, <1>3 DEF AloneInv, QueuedIsNew, OnBoard, Present
<1>6. CollectedIsQueued'
  <2>1. \A x \in todo : x.id \in Items /\ x.status = "queued" /\ board[x.id] = x
    BY <1>1 DEF AloneInv, CollectedIsQueued, Placing, TypeOK, Item
  <2> QED
    BY <1>1, <1>2, <1>3, <2>1 DEF CollectedIsQueued
<1>7. LaunchIsDue'
  BY <1>2 DEF LaunchIsDue
<1>8. DispatchIsFirst'
  <2>1. \A t \in TaskIds : tasks[t].itemOf # i
    BY <1>1 DEF AloneInv, QueuedIsNew, OnBoard
  <2> QED
    BY <1>1, <1>2, <1>3, <2>1 DEF DispatchIsFirst, it
<1>9. WithinLimit'
  <2>1. Running' = Running \cup {i} /\ i \notin Running
    BY <1>1, <1>3, NullsAreDistinct DEF Running, OnBoard, Present
  <2>2. Cardinality(Running') = Cardinality(Running) + 1
    BY <2>1, RunningIsFinite, FS_AddElement
  <2> QED
    BY <1>1, <1>2, <2>2, RunningIsFinite, BoundsAreNumbers DEF AloneInv, WithinLimit, Placing, TypeOK
<1> QED
  BY <1>4, <1>5, <1>6, <1>7, <1>8, <1>9 DEF AloneInv

\* The task of an item that was just launched is its first.
LEMMA AloneCreates ==
  ASSUME IInv, AloneInv, NEW t \in TaskIds, SendTask(Runner, t) \/ RejectTask(Runner, t)
  PROVE  AloneInv'
PROOF
<1> TypeOK /\ BoardOwned /\ Runner \in Procs /\ AloneInv /\ FreshHasNoItem
  BY DEF IInv, Procs
<1> DEFINE it == copy[Runner]
           i == it.id
<1>1. /\ it \in Item /\ i \in Items /\ board[i] = it /\ it.status = "in-progress"
      /\ \A u \in TaskIds : tasks[u].itemOf # i
      /\ tasks[t].itemOf = NoItem /\ pc[Runner] = "dispatch"
  BY DEF SendTask, RejectTask, Fresh, IInv, CopyHeld, Holding, DispatchOwned, Dispatching,
     DispatchIsFirst, AloneInv, FreshHasNoItem, TypeOK, Item
<1>2. /\ UNCHANGED <<board, found, todo, slots>>
      /\ \A u \in TaskIds : tasks'[u].itemOf = IF u = t THEN i ELSE tasks[u].itemOf
      /\ \/ pc'[Runner] = "sent" /\ UNCHANGED copy /\ sent'[Runner] = t
         \/ pc'[Runner] = "pick"
  BY DEF SendTask, RejectTask, Release, Goto, AfterDispatch, TypeOK, botVars, runnerVars
<1> HIDE DEF it
<1>3. OneTaskEach'
  BY <1>1, <1>2, NullsAreDistinct DEF AloneInv, OneTaskEach
<1>4. QueuedIsNew'
  BY <1>1, <1>2 DEF AloneInv, QueuedIsNew, OnBoard, Present
<1>5. found[t] = NoItem
  BY <1>1, NullsAreDistinct DEF AloneInv, FoundEnds, TypeOK, Item
<1>6. FoundEnds'
  BY <1>2, <1>5 DEF AloneInv, FoundEnds
<1>7. FinishEnds' /\ CollectedIsQueued' /\ LaunchIsDue'
  BY <1>1, <1>2 DEF AloneInv, FinishEnds, CollectedIsQueued, LaunchIsDue, Placing
<1>8. DispatchIsFirst'
  BY <1>1, <1>2, <1>5 DEF AloneInv, DispatchIsFirst, it
<1>9. WithinLimit'
  <2>1. Running' = Running
    BY <1>2 DEF Running, OnBoard, Present
  <2> QED
    BY <1>1, <1>2, <2>1 DEF AloneInv, WithinLimit, Placing
<1> QED
  BY <1>3, <1>4, <1>6, <1>7, <1>8, <1>9 DEF AloneInv

LEMMA AloneStores ==
  ASSUME IInv, AloneInv, MarkRunning(Runner) \/ StoreActive(Runner)
  PROVE  AloneInv'
PROOF
<1> TypeOK /\ BoardOwned /\ Runner \in Procs /\ AloneInv
  BY DEF IInv, Procs
<1> DEFINE it == copy[Runner]
           i == it.id
           new == [it EXCEPT !.active = sent[Runner]]
<1>1. /\ it \in Item /\ i \in Items /\ board[i] = it /\ it.status = "in-progress"
      /\ pc[Runner] \in {"sent", "store"} /\ sent[Runner] \in TaskIds
      /\ tasks[sent[Runner]].itemOf = i
  BY DEF MarkRunning, StoreActive, IInv, CopyHeld, Holding, DispatchOwned, Dispatching,
     DispatchIsFirst, AloneInv, TypeOK, Item
<1>2. CASE MarkRunning(Runner)
  <2>1. /\ UNCHANGED <<board, found, todo, slots, copy, sent>> /\ pc'[Runner] = "store"
        /\ \A u \in TaskIds : tasks'[u].itemOf = tasks[u].itemOf
    BY <1>2 DEF MarkRunning, Goto, TypeOK, botVars, runnerVars, Task
  <2>2. Running' = Running
    BY <2>1 DEF Running, OnBoard, Present
  <2>3. OneTaskEach' /\ QueuedIsNew' /\ FoundEnds' /\ FinishEnds'
    BY <2>1 DEF AloneInv, OneTaskEach, QueuedIsNew, FoundEnds, FinishEnds, OnBoard, Present
  <2>4. CollectedIsQueued' /\ LaunchIsDue' /\ DispatchIsFirst' /\ WithinLimit'
    BY <1>1, <2>1, <2>2 DEF AloneInv, CollectedIsQueued, LaunchIsDue, DispatchIsFirst, WithinLimit, Placing
  <2> QED
    BY <2>3, <2>4 DEF AloneInv
<1>3. CASE StoreActive(Runner)
  <2>1. new \in Item /\ new.id = i /\ new.status = "in-progress"
    BY <1>1 DEF Item
  <2>2. /\ UNCHANGED <<tasks, found, todo, slots>> /\ pc'[Runner] = "pick"
        /\ board' = [board EXCEPT ![i] = new]
    <3> HIDE DEF new
    <3>1. Update(new) BY <1>3 DEF StoreActive, new
    <3> QED
      BY <1>1, <1>3, <2>1, <3>1, NullsAreDistinct
      DEF StoreActive, Update, Present, Release, Goto, AfterDispatch, TypeOK, botVars, runnerVars
  <2> HIDE DEF new
  <2>3. \A j \in Items : board'[j] = IF j = i THEN new ELSE board[j]
    BY <2>2 DEF TypeOK
  <2>4. OnBoard' = OnBoard
    BY <1>1, <2>1, <2>3, NullsAreDistinct DEF OnBoard, Present
  <2>5. QueuedIsNew'
    BY <2>1, <2>2, <2>3, <2>4 DEF AloneInv, QueuedIsNew, OnBoard
  <2>6. OneTaskEach' /\ FoundEnds' /\ FinishEnds' /\ LaunchIsDue' /\ DispatchIsFirst'
    BY <2>2 DEF AloneInv, OneTaskEach, FoundEnds, FinishEnds, LaunchIsDue, DispatchIsFirst
  <2>7. CollectedIsQueued'
    <3>1. \A x \in todo : x.id \in Items /\ x.status = "queued" /\ board[x.id] = x
      BY <1>1 DEF AloneInv, CollectedIsQueued, Placing, TypeOK, Item
    <3> QED
      BY <1>1, <2>2, <2>3, <3>1 DEF CollectedIsQueued
  <2>8. WithinLimit'
    <3>1. Running' = Running
      BY <1>1, <2>1, <2>3, <2>4 DEF Running, OnBoard
    <3> QED
      BY <1>1, <2>2, <3>1 DEF AloneInv, WithinLimit, Placing
  <2> QED
    BY <2>5, <2>6, <2>7, <2>8 DEF AloneInv
<1> QED
  BY <1>2, <1>3

\* A result finds an item only once its task is stored on it.
LEMMA AloneAnswers ==
  ASSUME IInv, AloneInv, NEW t \in TaskIds,
         BotStep(t) \/ RecordResult(t) \/ FindNothing(t) \/ \E it \in LinkedItems(t) : FindItem(t, it)
  PROVE  AloneInv'
PROOF
<1> TypeOK /\ BoardOwned /\ Runner \in Procs /\ AloneInv
  BY DEF IInv, Procs
<1>1. /\ UNCHANGED <<board, pc, copy, sent, todo, slots>>
      /\ \A u \in TaskIds : tasks'[u].itemOf = tasks[u].itemOf
  <2>1. CASE RecordResult(t)
    <3>1. \A u \in TaskIds : tasks'[u].itemOf = tasks[u].itemOf
      BY <2>1 DEF RecordResult, TypeOK, Task
    <3> QED
      BY <2>1, <3>1 DEF RecordResult, runnerVars
  <2>2. CASE BotStep(t) \/ FindNothing(t)
    BY <2>2 DEF BotStep, BotPanics, BotAnswers, FindNothing, runnerVars
  <2>3. ASSUME NEW it \in LinkedItems(t), FindItem(t, it)
        PROVE  UNCHANGED <<board, pc, copy, sent, todo, slots, tasks>>
    BY <2>3 DEF FindItem, runnerVars
  <2> QED
    BY <2>1, <2>2, <2>3
<1>2. Running' = Running
  BY <1>1 DEF Running, OnBoard, Present
<1>3. \A u \in TaskIds : \/ found'[u] = found[u]
                        \/ /\ found'[u].id = tasks[u].itemOf /\ found'[u].status \in Ended
                           /\ \E j \in OnBoard : board[j].active = u /\ tasks[u].itemOf = j
  <2>1. CASE UNCHANGED found
    BY <2>1
  <2>2. ASSUME NEW it \in LinkedItems(t), FindItem(t, it)
        PROVE  /\ found'[t].id = tasks[t].itemOf /\ found'[t].status \in Ended
               /\ \E j \in OnBoard : board[j].active = t /\ tasks[t].itemOf = j
               /\ \A u \in TaskIds \ {t} : found'[u] = found[u]
    <3>1. PICK j \in OnBoard : it = board[j] /\ it.active = t
      BY DEF LinkedItems
    <3>2. it \in Item /\ it.id = j /\ tasks[t].itemOf = j
      BY <3>1, NullsAreDistinct DEF OnBoard, Present, BoardOwned, Owned, TypeOK
    <3>3. found' = [found EXCEPT ![t] = [it EXCEPT !.active = NoTask, !.status = Settled(outcome[t])]]
      BY <2>2 DEF FindItem
    <3>4. \A v : /\ [it EXCEPT !.active = NoTask, !.status = v].id = it.id
                 /\ [it EXCEPT !.active = NoTask, !.status = v].status = v
      BY <3>2 DEF Item
    <3>5. Settled(outcome[t]) \in Ended
      BY DEF Settled, Ended
    <3>6. found'[t] = [it EXCEPT !.active = NoTask, !.status = Settled(outcome[t])]
      BY <3>3 DEF TypeOK
    <3>7. found'[t].id = it.id /\ found'[t].status = Settled(outcome[t])
      BY <3>4, <3>6
    <3> QED
      BY <3>1, <3>2, <3>3, <3>5, <3>7 DEF TypeOK
  <2> QED
    BY <2>1, <2>2 DEF BotStep, BotPanics, BotAnswers, RecordResult, FindNothing
<1>4. OneTaskEach' /\ QueuedIsNew' /\ FinishEnds' /\ CollectedIsQueued' /\ LaunchIsDue' /\ WithinLimit'
  BY <1>1, <1>2 DEF AloneInv, OneTaskEach, QueuedIsNew, FinishEnds, CollectedIsQueued, LaunchIsDue, WithinLimit,
     OnBoard, Present
<1>5. FoundEnds'
  BY <1>1, <1>3 DEF AloneInv, FoundEnds
<1>6. DispatchIsFirst'
  BY <1>1, <1>3, NullsAreDistinct DEF AloneInv, DispatchIsFirst
<1> QED
  BY <1>4, <1>5, <1>6 DEF AloneInv

LEMMA AloneStep ==
  ASSUME Clients = {}, IInv, AloneInv, [Next]_vars
  PROVE  AloneInv'
PROOF
<1>1. CASE RunnerStep
  BY <1>1, AloneLooks, AloneEnds, AloneLaunches, AloneCreates, AloneStores DEF RunnerStep, DispatchStep
<1>2. ASSUME NEW t \in TaskIds, BotStep(t) \/ ResultStep(t) PROVE AloneInv'
  BY <1>2, AloneEnds, AloneAnswers DEF ResultStep
<1>3. CASE TimePasses \/ UNCHANGED vars
  <2>1. UNCHANGED <<board, tasks, found, pc, copy, sent, todo, slots>>
    BY <1>3 DEF TimePasses, vars, botVars, runnerVars
  <2>2. Running' = Running
    BY <2>1 DEF Running, OnBoard, Present
  <2> QED
    BY <2>1, <2>2 DEF AloneInv, OneTaskEach, QueuedIsNew, FoundEnds, FinishEnds, CollectedIsQueued,
       LaunchIsDue, DispatchIsFirst, WithinLimit, OnBoard, Present
<1> QED
  BY <1>1, <1>2, <1>3 DEF Next

\* The boards from disk respect the limit.
BoardsAreWithinLimit ==
  \A b \in Loaded : Cardinality({i \in Items : b[i] # NoItem /\ b[i].status = "in-progress"}) <= MaxConcurrent

LEMMA AloneInvariance ==
  ASSUME Clients = {}, BoardsAreWithinLimit
  PROVE  Spec => [](IInv /\ AloneInv)
PROOF
<1>1. Init => AloneInv
  BY AloneInit DEF BoardsAreWithinLimit
<1>2. IInv /\ AloneInv /\ [Next]_vars => AloneInv'
  BY AloneStep
<1> QED
  BY <1>1, <1>2, InitIInv, NextIInv, PTL DEF Spec

\* With the runner and the bots alone the limit holds, from any board that respects it: the
\* slots a tick counted (freeSlots) stay free until its launches have filled them.
THEOREM RunnerRespectsCapacity ==
  ASSUME Clients = {}, BoardsAreWithinLimit
  PROVE  Spec => []CapacityRespected
PROOF
<1>1. IInv /\ AloneInv => CapacityRespected
  BY RunningIsCounted DEF IInv, AloneInv, WithinLimit, CapacityRespected
<1> QED
  BY <1>1, AloneInvariance, PTL

\* With the runner and the bots alone no item is dispatched twice, whatever the bots answer
\* and however their results interleave with the ticks.
THEOREM RunnerDispatchesOnce ==
  ASSUME Clients = {}, BoardsAreWithinLimit
  PROVE  Spec => []DispatchedOnce
PROOF
<1>1. ASSUME IInv, AloneInv, NEW i \in Items
      PROVE  Cardinality(Dispatched(i)) <= 1
  <2>1. \A t, u \in Dispatched(i) : t = u
    BY <1>1, NullsAreDistinct DEF AloneInv, OneTaskEach, Dispatched
  <2>2. CASE Dispatched(i) = {}
    BY <2>2, FS_EmptySet
  <2>3. CASE Dispatched(i) # {}
    <3>1. PICK t \in Dispatched(i) : Dispatched(i) = {t}
      BY <2>1, <2>3
    <3> QED
      BY <3>1, FS_Singleton
  <2> QED
    BY <2>2, <2>3
<1>2. IInv /\ AloneInv => DispatchedOnce
  BY <1>1 DEF DispatchedOnce
<1> QED
  BY <1>2, AloneInvariance, PTL

-----------------------------------------------------------------------------
(* The order of the starts, with the runner and the bots alone: what a tick   *)
(* read about an item it launches (its place in the queue, its predecessor)   *)
(* still holds when the launch is written.                                    *)

\* A task that was sent shows no other end than the answer of its bot, which is final.
Answered(t) == work[t] \in {"find", "settle", "over"}
AnswersStand ==
  \A t \in TaskIds :
    \/ work[t] = "none"
    \/ tasks[t].status \in {"pending", "running"}
    \/ tasks[t].status = outcome[t] /\ Answered(t)
\* Only a task that was sent is stored on an item.
ActiveIsSent ==
  /\ \A i \in OnBoard : board[i].active # NoTask => work[board[i].active] # "none"
  /\ \A it \in todo : it.active # NoTask => work[it.active] # "none"
  /\ pc[Runner] \in {"sent", "store"} => work[sent[Runner]] # "none"
\* The record it ends its item the way the answer to its task does.
EndedBy(it, t) ==
  /\ Answered(t) /\ tasks[t].itemOf = it.id
  /\ it.status = Settled(outcome[t]) /\ it.active = NoTask
EndsAgree ==
  /\ \A i \in OnBoard, t \in TaskIds :
       board[i].status \in Ended /\ tasks[t].itemOf = i => EndedBy(board[i], t)
  /\ \A t \in TaskIds : found[t] # NoItem => EndedBy(found[t], t)
  /\ pc[Runner] = "finish" => \E t \in TaskIds : EndedBy(copy[Runner], t)
\* An asap item that waits is on the list of the tick, or is being launched.
AsapIsListed ==
  pc[Runner] \in Placing =>
    \A j \in OnBoard : board[j].status = "queued" /\ Asap(board[j]) =>
      board[j] \in todo \/ (pc[Runner] = "launch" /\ j = copy[Runner].id)
QueuedIsStamped == \A j \in OnBoard : board[j].status = "queued" => board[j].queuedAt \in Time
LaunchIsNext ==
  pc[Runner] = "launch" =>
    LET it == board[copy[Runner].id] IN
    /\ it.mode \in {"run_after", "run_when"} => AfterDone(it)
    /\ \A j \in OnBoard : board[j].status = "queued" /\ Asap(board[j]) =>
         Asap(it) /\ it.queuedAt <= board[j].queuedAt

OrderInv == AnswersStand /\ ActiveIsSent /\ EndsAgree /\ AsapIsListed /\ QueuedIsStamped /\ LaunchIsNext

LEMMA OrderInit ==
  ASSUME Init, \A b \in Loaded, i \in Items : b[i] # NoItem /\ b[i].status = "queued" => b[i].queuedAt \in Time
  PROVE  OrderInv
PROOF
<1>1. board \in Loaded /\ \A i \in Items : board[i] # NoItem => board[i].active = NoTask
  BY LoadedBoardsFit DEF Init, Fits
<1>2. AnswersStand /\ AsapIsListed /\ QueuedIsStamped /\ LaunchIsNext
  BY <1>1 DEF Init, AnswersStand, AsapIsListed, QueuedIsStamped, LaunchIsNext, Placing, Procs, OnBoard, Present
<1>3. ActiveIsSent
  BY <1>1 DEF Init, ActiveIsSent, Procs, OnBoard, Present
<1>4. EndsAgree
  BY NullsAreDistinct DEF Init, EndsAgree, Procs, OnBoard
<1> QED
  BY <1>2, <1>3, <1>4 DEF OrderInv

\* What follows from the board, the tasks and the answers alone.
LEMMA OrderOfBoard ==
  ASSUME TypeOK, OrderInv, UNCHANGED <<board, tasks, botVars>>
  PROVE  /\ AnswersStand' /\ QueuedIsStamped'
         /\ \A i \in OnBoard', t \in TaskIds :
              board'[i].status \in Ended /\ tasks'[t].itemOf = i => EndedBy(board[i], t)'
         /\ \A t \in TaskIds : found'[t] # NoItem => EndedBy(found[t], t)'
         /\ \A i \in OnBoard' : board'[i].active # NoTask => work'[board'[i].active] # "none"
         /\ \A it, t : EndedBy(it, t) <=> EndedBy(it, t)'
PROOF
  BY DEF OrderInv, AnswersStand, QueuedIsStamped, EndsAgree, ActiveIsSent, EndedBy, Answered, OnBoard, Present,
     botVars

LEMMA OrderLooks ==
  ASSUME IInv, AloneInv, OrderInv,
         Tick \/ CountSlots \/ Collect \/ EndTick \/ \E it \in todo : ReconcileNext(it) \/ PickNext(it)
  PROVE  OrderInv'
PROOF
<1> TypeOK /\ BoardOwned /\ Runner \in Procs /\ AloneInv /\ OrderInv
  BY DEF IInv, Procs
<1>0. UNCHANGED <<board, tasks, botVars, sent>> /\ OnBoard' = OnBoard
  BY DEF Tick, CountSlots, Collect, EndTick, ReconcileNext, PickNext, runnerVars, OnBoard, Present
<1>1. /\ AnswersStand' /\ QueuedIsStamped'
      /\ \A i \in OnBoard', t \in TaskIds :
           board'[i].status \in Ended /\ tasks'[t].itemOf = i => EndedBy(board[i], t)'
      /\ \A t \in TaskIds : found'[t] # NoItem => EndedBy(found[t], t)'
      /\ \A i \in OnBoard' : board'[i].active # NoTask => work'[board'[i].active] # "none"
      /\ \A it, t : EndedBy(it, t) <=> EndedBy(it, t)'
  BY <1>0, OrderOfBoard
<1>2. ActiveIsSent'
  <2>1. \A it \in todo' : it.active # NoTask => work'[it.active] # "none"
    <3>1. todo' \subseteq todo \/ \E st : todo' = WithStatus(st)
      BY DEF Tick, CountSlots, Collect, EndTick, ReconcileNext, PickNext
    <3> QED
      BY <1>0, <3>1 DEF OrderInv, ActiveIsSent, WithStatus, botVars
  <2>2. pc'[Runner] \notin {"sent", "store"}
    BY DEF Tick, CountSlots, Collect, EndTick, ReconcileNext, PickNext, Goto, TypeOK
  <2> QED
    BY <1>1, <2>1, <2>2 DEF ActiveIsSent
<1>3. EndsAgree'
  <2>1. CASE pc'[Runner] # "finish"
    BY <1>1, <2>1 DEF EndsAgree
  <2>2. ASSUME NEW it \in todo, ReconcileNext(it), Finished(it)
        PROVE  \E t \in TaskIds : EndedBy(copy[Runner], t)'
    <3> DEFINE t == it.active
               new == [it EXCEPT !.status = Settled(tasks[t].status), !.active = NoTask]
    <3>1. it \in Item /\ t \in TaskIds /\ tasks[t].itemOf = it.id /\ tasks[t].status \in Terminal
      BY <2>2 DEF TypeOK, Item, Finished, IInv, TodoOwned, Owned
    <3>2. work[t] # "none"
      BY <2>2, <3>1 DEF Finished, OrderInv, ActiveIsSent
    <3>3. tasks[t].status = outcome[t] /\ Answered(t)
      BY <3>1, <3>2 DEF OrderInv, AnswersStand, Terminal, Outcome
    <3>4. copy'[Runner] = new
      BY <2>2 DEF ReconcileNext, Hold, TypeOK
    <3>5. \A v : LET n == [it EXCEPT !.status = v, !.active = NoTask] IN
                 n.status = v /\ n.active = NoTask /\ n.id = it.id
      BY <3>1 DEF Item
    <3>6. EndedBy(new, t)
      <4> HIDE DEF t
      <4>1. new.status = Settled(tasks[t].status) /\ new.active = NoTask /\ new.id = it.id
        BY <3>5
      <4> HIDE DEF new
      <4> QED
        BY <3>1, <3>3, <4>1 DEF EndedBy
    <3> HIDE DEF new
    <3>7. EndedBy(copy[Runner], t)'
      BY <1>0, <3>4, <3>6 DEF EndedBy, Answered, botVars
    <3> QED
      BY <3>1, <3>7
  <2>3. pc'[Runner] = "finish" => \E it \in todo : ReconcileNext(it) /\ Finished(it)
    BY DEF Tick, CountSlots, Collect, EndTick, ReconcileNext, PickNext, Goto, TypeOK
  <2> QED
    BY <1>1, <2>1, <2>2, <2>3 DEF EndsAgree
<1>4. CASE pc'[Runner] \notin Placing
  <2>1. AsapIsListed' /\ LaunchIsNext'
    BY <1>4 DEF AsapIsListed, LaunchIsNext, Placing
  <2> QED
    BY <1>1, <1>2, <1>3, <2>1 DEF OrderInv
<1>5. CASE Collect
  <2>1. AsapIsListed'
    BY <1>0, <1>5 DEF Collect, AsapIsListed, WithStatus
  <2>2. LaunchIsNext'
    BY <1>5 DEF Collect, Goto, LaunchIsNext, TypeOK
  <2> QED
    BY <1>1, <1>2, <1>3, <2>1, <2>2 DEF OrderInv
<1>6. ASSUME NEW it \in todo, PickNext(it) PROVE OrderInv'
  <2>1. /\ it \in Item /\ pc[Runner] = "pick" /\ todo' = todo \ {it}
        /\ IF Ready(it) THEN pc'[Runner] = "launch" /\ copy'[Runner] = Launched(it)
                        ELSE pc'[Runner] = "pick"
        /\ it.status = "queued" /\ board[it.id] = it /\ it.id \in OnBoard
        /\ Launched(it).id = it.id
    <3>1. it \in Item /\ pc[Runner] = "pick" /\ todo' = todo \ {it}
      BY <1>6 DEF PickNext, TypeOK
    <3>2. IF Ready(it) THEN pc'[Runner] = "launch" /\ copy'[Runner] = Launched(it) ELSE pc'[Runner] = "pick"
      BY <1>6, <3>1 DEF PickNext, Goto, Hold, TypeOK
    <3>3. it.status = "queued" /\ board[it.id] = it
      BY <3>1 DEF AloneInv, CollectedIsQueued, Placing
    <3> QED
      BY <3>1, <3>2, <3>3, NullsAreDistinct DEF Item, OnBoard, Present, Launched
  <2>2. AsapIsListed'
    <3> SUFFICES ASSUME NEW j \in OnBoard, board[j].status = "queued", Asap(board[j])
                 PROVE  board[j] \in todo' \/ (pc'[Runner] = "launch" /\ j = copy'[Runner].id)
      BY <1>0 DEF AsapIsListed, Asap
    <3>1. board[j] \in todo /\ board[j].id = j
      BY <2>1 DEF OrderInv, AsapIsListed, Placing, BoardOwned, OnBoard, Present
    <3>2. CASE board[j] = it
      BY <2>1, <3>1, <3>2 DEF Ready, Asap
    <3> QED
      BY <2>1, <3>1, <3>2
  <2>3. LaunchIsNext'
    <3> SUFFICES ASSUME Ready(it)
                 PROVE  /\ it.mode \in {"run_after", "run_when"} => AfterDone(it)
                        /\ \A j \in OnBoard : board[j].status = "queued" /\ Asap(board[j]) =>
                             Asap(it) /\ it.queuedAt <= board[j].queuedAt
      BY <1>0, <2>1 DEF LaunchIsNext, AfterDone, Asap, Present
    <3>1. it.mode \in {"run_after", "run_when"} => AfterDone(it)
      BY DEF Ready
    <3>2. ASSUME NEW j \in OnBoard, board[j].status = "queued", Asap(board[j])
          PROVE  Asap(it) /\ it.queuedAt <= board[j].queuedAt
      <4>1. it.queuedAt \in Time /\ board[j].queuedAt \in Time
        BY <2>1, <3>2 DEF OrderInv, QueuedIsStamped
      <4>2. board[j] \in todo
        BY <2>1, <3>2 DEF OrderInv, AsapIsListed, Placing
      <4>3. CASE board[j] = it
        BY <3>2, <4>1, <4>3, BoundsAreNumbers DEF Time
      <4>4. CASE board[j] # it
        <5>1. QueueBefore(it, board[j])
          BY <1>6, <4>2, <4>4 DEF PickNext
        <5> QED
          BY <3>2, <4>1, <5>1, BoundsAreNumbers, NullsAreDistinct DEF QueueBefore, QueuedEarlier, QueuedAtOf, Time
      <4> QED
        BY <4>3, <4>4
    <3> QED
      BY <3>1, <3>2
  <2> QED
    BY <1>1, <1>2, <1>3, <2>2, <2>3 DEF OrderInv
<1>7. CASE Tick \/ CountSlots \/ EndTick \/ \E it \in todo : ReconcileNext(it)
  <2>1. pc'[Runner] \notin Placing
    BY <1>7 DEF Tick, CountSlots, EndTick, ReconcileNext, Goto, TypeOK, Placing
  <2> QED
    BY <1>4, <2>1
<1> QED
  BY <1>5, <1>6, <1>7

\* The end of an item is written twice with the same status, if at all.
LEMMA OrderEnds ==
  ASSUME IInv, AloneInv, OrderInv, ReconcileWrite \/ \E t \in TaskIds : SettleItem(t)
  PROVE  OrderInv'
PROOF
<1> TypeOK /\ BoardOwned /\ Runner \in Procs /\ AloneInv /\ OrderInv
  BY DEF IInv, Procs
<1>1. PICK it : Ends(it)
  BY EndsAreWritten
<1> DEFINE i == it.id
<1>2. PICK t0 \in TaskIds : EndedBy(it, t0)
  BY <1>1 DEF Ends, OrderInv, EndsAgree, TypeOK, Item, IInv, FoundHeld
<1>3. i \in Items /\ \A j \in Items : board'[j] = board[j] \/ (j = i /\ Present(i) /\ board'[j] = it)
  BY <1>1 DEF Ends, Item, Update, TypeOK
<1>4. \A t \in TaskIds : Answered(t)' <=> Answered(t)
  BY <1>1 DEF Ends, Answered, TypeOK
<1>5. \A r, t : t \in TaskIds => (EndedBy(r, t) <=> EndedBy(r, t)')
  BY <1>1, <1>4 DEF Ends, EndedBy
<1>6. AnswersStand'
  BY <1>1, <1>4 DEF Ends, OrderInv, AnswersStand, TypeOK
<1>7. ActiveIsSent'
  <2>1. \A t \in TaskIds : work[t] # "none" => work'[t] # "none"
    BY <1>1 DEF Ends, TypeOK
  <2>2. \A j \in OnBoard' : board'[j].active # NoTask =>
          j \in OnBoard /\ board'[j] = board[j] /\ board[j].active \in TaskIds
    BY <1>2, <1>3 DEF OnBoard, Present, EndedBy, TypeOK, Item
  <2>3. \A x \in todo : x.active # NoTask => x.active \in TaskIds
    BY DEF TypeOK, Item
  <2>4. pc'[Runner] \in {"sent", "store"} => pc[Runner] = pc'[Runner] /\ sent[Runner] \in TaskIds
    BY <1>1 DEF Ends, IInv, DispatchOwned, TypeOK
  <2> QED
    BY <1>1, <2>1, <2>2, <2>3, <2>4 DEF Ends, OrderInv, ActiveIsSent
<1>8. EndsAgree'
  <2>1. ASSUME NEW j \in OnBoard', NEW t \in TaskIds, board'[j].status \in Ended, tasks'[t].itemOf = j
        PROVE  EndedBy(board'[j], t)
    <3>1. CASE board'[j] = board[j]
      BY <1>1, <2>1, <3>1 DEF Ends, OrderInv, EndsAgree, OnBoard, Present
    <3>2. CASE j = i /\ board'[j] = it
      <4>1. t = t0
        BY <1>1, <1>2, <1>3, <2>1, <3>2, NullsAreDistinct DEF Ends, AloneInv, OneTaskEach, EndedBy
      <4> QED
        BY <1>2, <3>2, <4>1
    <3> QED
      BY <1>3, <2>1, <3>1, <3>2 DEF OnBoard
  <2>2. \A j \in OnBoard', t \in TaskIds :
          board'[j].status \in Ended /\ tasks'[t].itemOf = j => EndedBy(board[j], t)'
    BY <1>1, <1>4, <2>1 DEF Ends, EndedBy
  <2>3. \A t \in TaskIds : found'[t] # NoItem => EndedBy(found[t], t)'
    <3>1. \A t \in TaskIds : found'[t] # NoItem => found'[t] = found[t]
      BY <1>1 DEF Ends, TypeOK
    <3> QED
      BY <1>1, <1>4, <3>1 DEF Ends, EndedBy, OrderInv, EndsAgree
  <2>4. pc'[Runner] = "finish" => \E t \in TaskIds : EndedBy(copy[Runner], t)'
    BY <1>1, <1>4 DEF Ends, EndedBy, OrderInv, EndsAgree
  <2> QED
    BY <2>2, <2>3, <2>4 DEF EndsAgree
<1>9. QueuedIsStamped'
  BY <1>1, <1>3 DEF Ends, Ended, OrderInv, QueuedIsStamped, OnBoard, Present
<1>10. CASE pc'[Runner] \notin Placing
  BY <1>6, <1>7, <1>8, <1>9, <1>10 DEF OrderInv, AsapIsListed, LaunchIsNext, Placing
<1>11. CASE pc'[Runner] \in Placing
  <2>1. UNCHANGED <<pc, copy, todo>>
    BY <1>1, <1>11 DEF Ends, Placing
  <2>2. \A j \in OnBoard' : board'[j].status = "queued" => j \in OnBoard /\ board'[j] = board[j]
    BY <1>1, <1>3 DEF Ends, Ended, OnBoard, Present
  <2>3. AsapIsListed'
    BY <2>1, <2>2 DEF OrderInv, AsapIsListed, Asap
  <2>4. LaunchIsNext'
    <3> SUFFICES ASSUME pc[Runner] = "launch" PROVE LaunchIsNext'
      BY <2>1 DEF LaunchIsNext
    <3>0. PICK c : c = board[copy[Runner].id]
      OBVIOUS
    <3>1. copy[Runner].id \in OnBoard /\ c.status = "queued" /\ c \in Item
      BY <3>0 DEF AloneInv, LaunchIsDue, OnBoard, Present, IInv, CopyHeld, Holding, TypeOK, Item
    <3>2. board'[copy[Runner].id] = c
      <4>1. copy[Runner].id # i
        BY <1>1, <1>2, <3>0, <3>1 DEF Ends, AloneInv, QueuedIsNew, EndedBy
      <4> QED
        BY <1>3, <3>0, <3>1, <4>1 DEF OnBoard
    <3>3. AfterDone(c) => AfterDone(c)'
      <4>1. ASSUME c.after # NoItem, Present(c.after), board[c.after].status \in Ended
            PROVE  Present(c.after)' /\ board'[c.after].status = board[c.after].status
        <5>1. c.after \in Items
          BY <3>1, <4>1 DEF Item
        <5>2. CASE board'[c.after] = board[c.after]
          BY <4>1, <5>2 DEF Present
        <5>3. CASE c.after = i /\ board'[c.after] = it
          <6>1. EndedBy(board[i], t0)
            BY <1>2, <4>1, <5>1, <5>3 DEF OrderInv, EndsAgree, EndedBy, OnBoard
          <6> QED
            BY <1>1, <1>2, <5>3, <6>1, NullsAreDistinct DEF Ends, EndedBy, Present
        <5> QED
          BY <1>3, <5>1, <5>2, <5>3
      <4> QED
        BY <4>1 DEF AfterDone, Ended
    <3> QED
      BY <2>1, <2>2, <3>0, <3>2, <3>3 DEF OrderInv, LaunchIsNext, Asap
  <2> QED
    BY <1>6, <1>7, <1>8, <1>9, <2>3, <2>4 DEF OrderInv
<1> QED
  BY <1>10, <1>11

LEMMA OrderLaunches ==
  ASSUME IInv, AloneInv, OrderInv, LaunchWrite
  PROVE  OrderInv'
PROOF
<1> TypeOK /\ BoardOwned /\ Runner \in Procs /\ AloneInv /\ OrderInv
  BY DEF IInv, Procs
<1> DEFINE it == copy[Runner]
           i == it.id
<1>1. /\ it \in Item /\ i \in Items /\ it.status = "in-progress" /\ it.active = NoTask
      /\ Present(i) /\ pc[Runner] = "launch"
  BY DEF LaunchWrite, IInv, CopyHeld, Holding, DispatchOwned, Dispatching, LaunchIsDue, AloneInv, TypeOK, Item
<1>2. /\ board' = [board EXCEPT ![i] = it] /\ pc'[Runner] \in {"dispatch", "pick"}
      /\ UNCHANGED <<tasks, botVars, sent, todo>>
  BY <1>1 DEF LaunchWrite, Update, Release, Goto, TypeOK
<1> HIDE DEF it
<1>3. \A j \in Items : board'[j] = IF j = i THEN it ELSE board[j]
  BY <1>2 DEF TypeOK
<1>4. \A j \in OnBoard' : j # i => j \in OnBoard /\ board'[j] = board[j]
  BY <1>3 DEF OnBoard, Present
<1>5. AnswersStand' /\ QueuedIsStamped' /\ LaunchIsNext'
  BY <1>1, <1>2, <1>3, <1>4 DEF OrderInv, AnswersStand, QueuedIsStamped, LaunchIsNext, Answered, OnBoard, botVars
<1>6. ActiveIsSent'
  BY <1>1, <1>2, <1>3, <1>4 DEF OrderInv, ActiveIsSent, OnBoard, botVars
<1>7. EndsAgree'
  <2>1. \A r, t : EndedBy(r, t) <=> EndedBy(r, t)'
    BY <1>2 DEF EndedBy, Answered, botVars
  <2>2. \A j \in OnBoard' : board'[j].status \in Ended => j \in OnBoard /\ board'[j] = board[j]
    BY <1>1, <1>3, <1>4 DEF OnBoard, Ended
  <2> QED
    BY <1>2, <2>1, <2>2 DEF OrderInv, EndsAgree, EndedBy, Answered, botVars
<1>8. AsapIsListed'
  <2>1. \A j \in OnBoard' : board'[j].status = "queued" => j # i /\ j \in OnBoard /\ board'[j] = board[j]
    BY <1>1, <1>3, <1>4 DEF OnBoard
  <2> QED
    BY <1>1, <1>2, <2>1 DEF OrderInv, AsapIsListed, Placing, Asap, it
<1> QED
  BY <1>5, <1>6, <1>7, <1>8 DEF OrderInv

\* A step that leaves the board and the runner's list, and takes back no answer.
LEMMA OrderKeeps ==
  ASSUME IInv, OrderInv, UNCHANGED <<board, todo>>, AnswersStand',
         \A t \in TaskIds : work[t] # "none" => work'[t] # "none",
         \A t \in TaskIds : Answered(t) =>
           Answered(t)' /\ tasks'[t].itemOf = tasks[t].itemOf /\ outcome'[t] = outcome[t],
         \A t \in TaskIds : tasks'[t].itemOf = tasks[t].itemOf
                            \/ \A i \in OnBoard : tasks'[t].itemOf = i => board[i].status \notin Ended,
         \A t \in TaskIds : found'[t] # NoItem => found'[t] = found[t] \/ EndedBy(found[t], t)',
         pc'[Runner] \in {"sent", "store"} => work'[sent'[Runner]] # "none",
         pc'[Runner] \notin {"finish", "launch"} \/ UNCHANGED <<pc, copy>>,
         pc'[Runner] \in Placing => pc[Runner] \in Placing \ {"launch"} \/ UNCHANGED <<pc, copy>>
  PROVE  OrderInv'
PROOF
<1> TypeOK /\ OrderInv /\ OnBoard' = OnBoard
  BY DEF IInv, OnBoard, Present
<1>1. ActiveIsSent'
  <2>1. \A i \in OnBoard : board[i].active # NoTask => board[i].active \in TaskIds
    BY DEF TypeOK, OnBoard, Present, Item
  <2>2. \A it \in todo : it.active # NoTask => it.active \in TaskIds
    BY DEF TypeOK, Item
  <2> QED
    BY <2>1, <2>2 DEF OrderInv, ActiveIsSent
<1>2. EndsAgree'
  <2>1. \A r : \A t \in TaskIds : EndedBy(r, t) => EndedBy(r, t)'
    BY DEF EndedBy
  <2>2. \A i \in OnBoard, t \in TaskIds :
          board[i].status \in Ended /\ tasks'[t].itemOf = i => EndedBy(board[i], t)'
    BY <2>1 DEF OrderInv, EndsAgree, EndedBy
  <2>3. \A t \in TaskIds : found'[t] # NoItem => EndedBy(found[t], t)'
    BY <2>1 DEF OrderInv, EndsAgree, EndedBy
  <2>4. pc'[Runner] = "finish" => \E t \in TaskIds : EndedBy(copy[Runner], t)'
    BY <2>1 DEF OrderInv, EndsAgree, EndedBy
  <2> QED
    BY <2>2, <2>3, <2>4 DEF EndsAgree
<1>3. AsapIsListed' /\ QueuedIsStamped'
  BY DEF OrderInv, AsapIsListed, QueuedIsStamped, Asap
<1>4. LaunchIsNext'
  BY DEF OrderInv, LaunchIsNext, Asap, AfterDone, Present
<1> QED
  BY <1>1, <1>2, <1>3, <1>4 DEF OrderInv

LEMMA OrderCreates ==
  ASSUME IInv, AloneInv, OrderInv, NEW t \in TaskIds, SendTask(Runner, t) \/ RejectTask(Runner, t)
  PROVE  OrderInv'
PROOF
<1> TypeOK /\ BoardOwned /\ Runner \in Procs /\ AloneInv /\ OrderInv
  BY DEF IInv, Procs
<1> DEFINE i == copy[Runner].id
<1>1. board[i].status = "in-progress" /\ pc[Runner] = "dispatch"
  BY DEF SendTask, RejectTask, IInv, DispatchOwned, Dispatching, DispatchIsFirst, AloneInv
<1>2. work[t] = "none"
  BY DEF SendTask, RejectTask, Fresh, OrderInv, AnswersStand, TypeOK, Outcome
<1>3. /\ UNCHANGED <<board, found, todo, outcome>>
      /\ \A u \in TaskIds : tasks'[u].itemOf = IF u = t THEN i ELSE tasks[u].itemOf
      /\ \A u \in TaskIds \ {t} : tasks'[u] = tasks[u] /\ work'[u] = work[u]
      /\ tasks'[t].status = "pending" \/ work'[t] = "none"
      /\ \/ pc'[Runner] = "sent" /\ sent'[Runner] = t /\ work'[t] = "bot"
         \/ pc'[Runner] = "pick"
  BY <1>2 DEF SendTask, RejectTask, Release, Goto, AfterDispatch, TypeOK, botVars, runnerVars
<1>4. \A u \in TaskIds : Answered(u) => u # t /\ Answered(u)'
  BY <1>2, <1>3 DEF Answered
<1>5. AnswersStand'
  BY <1>3 DEF OrderInv, AnswersStand, Answered
<1>6. \A u \in TaskIds : tasks'[u].itemOf = tasks[u].itemOf
                        \/ \A j \in OnBoard : tasks'[u].itemOf = j => board[j].status \notin Ended
  BY <1>1, <1>3 DEF Ended
<1>7. \A u \in TaskIds : work[u] # "none" => work'[u] # "none"
  BY <1>2, <1>3
<1> QED
  BY <1>1, <1>2, <1>3, <1>4, <1>5, <1>6, <1>7, OrderKeeps DEF Placing

LEMMA OrderMarks ==
  ASSUME IInv, AloneInv, OrderInv, MarkRunning(Runner)
  PROVE  OrderInv'
PROOF
<1> TypeOK /\ Runner \in Procs /\ OrderInv
  BY DEF IInv, Procs
<1>1. sent[Runner] \in TaskIds /\ pc[Runner] = "sent"
  BY DEF MarkRunning, IInv, DispatchOwned, TypeOK
<1>2. /\ UNCHANGED <<board, found, work, outcome, todo, copy, sent>> /\ pc'[Runner] = "store"
      /\ \A u \in TaskIds : /\ tasks'[u].itemOf = tasks[u].itemOf
                            /\ tasks'[u].status = IF u = sent[Runner] THEN "running" ELSE tasks[u].status
  BY <1>1 DEF MarkRunning, Goto, TypeOK, botVars, runnerVars, Task
<1>3. AnswersStand'
  BY <1>2 DEF OrderInv, AnswersStand, Answered
<1>4. \A u \in TaskIds : Answered(u) => Answered(u)'
  BY <1>2 DEF Answered
<1>5. work[sent[Runner]] # "none"
  BY <1>1 DEF OrderInv, ActiveIsSent
<1> QED
  BY <1>1, <1>2, <1>3, <1>4, <1>5, OrderKeeps DEF Placing

LEMMA OrderStores ==
  ASSUME IInv, AloneInv, OrderInv, StoreActive(Runner)
  PROVE  OrderInv'
PROOF
<1> TypeOK /\ BoardOwned /\ Runner \in Procs /\ AloneInv /\ OrderInv
  BY DEF IInv, Procs
<1> DEFINE it == copy[Runner]
           i == it.id
           new == [it EXCEPT !.active = sent[Runner]]
<1>1. /\ it \in Item /\ i \in Items /\ board[i] = it /\ it.status = "in-progress"
      /\ pc[Runner] = "store" /\ sent[Runner] \in TaskIds /\ work[sent[Runner]] # "none"
  BY DEF StoreActive, IInv, CopyHeld, Holding, DispatchOwned, Dispatching, OrderInv, ActiveIsSent,
     DispatchIsFirst, AloneInv, TypeOK, Item
<1>2. new \in Item /\ new.id = i /\ new.status = "in-progress" /\ new.active = sent[Runner]
  BY <1>1 DEF Item
<1>3. Update(new) /\ UNCHANGED <<tasks, work, outcome, found, todo>> /\ pc'[Runner] = "pick"
  BY DEF StoreActive, Release, Goto, AfterDispatch, TypeOK, botVars, runnerVars
<1> HIDE DEF new
<1>4. \A j \in Items : board'[j] = IF j = i THEN new ELSE board[j]
  BY <1>1, <1>2, <1>3, NullsAreDistinct DEF Update, Present, TypeOK
<1>5. \A j \in OnBoard' : j # i => j \in OnBoard /\ board'[j] = board[j]
  BY <1>4 DEF OnBoard, Present
<1>6. \A r, t : EndedBy(r, t) <=> EndedBy(r, t)'
  BY <1>3 DEF EndedBy, Answered
<1>7. AnswersStand' /\ LaunchIsNext'
  BY <1>3 DEF OrderInv, AnswersStand, LaunchIsNext, Answered
<1>8. \A j \in OnBoard' : board'[j].status # "in-progress" => j \in OnBoard /\ board'[j] = board[j]
  BY <1>2, <1>4, <1>5 DEF OnBoard
<1>9. QueuedIsStamped' /\ AsapIsListed'
  BY <1>1, <1>3, <1>8 DEF OrderInv, QueuedIsStamped, AsapIsListed, Asap, Placing
<1>10. ActiveIsSent'
  BY <1>1, <1>2, <1>3, <1>4, <1>5 DEF OrderInv, ActiveIsSent, OnBoard
<1>11. EndsAgree'
  <2>1. \A j \in OnBoard', t \in TaskIds :
          board'[j].status \in Ended /\ tasks'[t].itemOf = j => EndedBy(board[j], t)'
    BY <1>3, <1>6, <1>8 DEF OrderInv, EndsAgree, EndedBy, Ended, Answered
  <2>2. \A t \in TaskIds : found'[t] # NoItem => EndedBy(found[t], t)'
    BY <1>3, <1>6 DEF OrderInv, EndsAgree, EndedBy, Answered
  <2> QED
    BY <1>3, <2>1, <2>2 DEF EndsAgree
<1> QED
  BY <1>7, <1>9, <1>10, <1>11 DEF OrderInv

LEMMA OrderAnswers ==
  ASSUME IInv, AloneInv, OrderInv, NEW t \in TaskIds,
         BotStep(t) \/ RecordResult(t) \/ FindNothing(t) \/ \E it \in LinkedItems(t) : FindItem(t, it)
  PROVE  OrderInv'
PROOF
<1> TypeOK /\ BoardOwned /\ Runner \in Procs /\ OrderInv
  BY DEF IInv, Procs
<1>1. /\ UNCHANGED <<board, pc, copy, sent, todo>>
      /\ \A u \in TaskIds \ {t} : /\ tasks'[u] = tasks[u] /\ work'[u] = work[u]
                                  /\ outcome'[u] = outcome[u] /\ found'[u] = found[u]
      /\ work[t] # "none" /\ work'[t] # "none"
      /\ tasks'[t].itemOf = tasks[t].itemOf
      /\ Answered(t) => Answered(t)' /\ outcome'[t] = outcome[t]
  <2>1. CASE RecordResult(t)
    BY <2>1 DEF RecordResult, TypeOK, Task, runnerVars, Answered
  <2>2. CASE BotStep(t) \/ FindNothing(t)
    BY <2>2 DEF BotStep, BotPanics, BotAnswers, FindNothing, TypeOK, runnerVars, Answered
  <2>3. ASSUME NEW it \in LinkedItems(t), FindItem(t, it)
        PROVE  /\ UNCHANGED <<board, pc, copy, sent, todo, tasks, outcome>>
               /\ \A u \in TaskIds \ {t} : work'[u] = work[u] /\ found'[u] = found[u]
               /\ work[t] = "find" /\ work'[t] = "settle"
    BY <2>3 DEF FindItem, runnerVars, TypeOK
  <2> QED
    BY <2>1, <2>2, <2>3 DEF Answered
<1>2. \/ tasks'[t].status \in {"pending", "running"}
      \/ tasks'[t].status = outcome'[t] /\ Answered(t)'
  <2>1. CASE RecordResult(t)
    BY <2>1 DEF RecordResult, TypeOK, Task, Answered
  <2>2. CASE BotStep(t)
    BY <2>2 DEF BotStep, BotPanics, BotAnswers, OrderInv, AnswersStand, Answered
  <2>3. CASE FindNothing(t) \/ \E it \in LinkedItems(t) : FindItem(t, it)
    <3>1. UNCHANGED <<tasks, outcome>> /\ work[t] = "find"
      BY <2>3 DEF FindNothing, FindItem
    <3> QED
      BY <1>1, <3>1 DEF OrderInv, AnswersStand, Answered
  <2> QED
    BY <2>1, <2>2, <2>3
<1>3. AnswersStand'
  BY <1>1, <1>2 DEF OrderInv, AnswersStand, Answered
<1>4. found'[t] = found[t] \/ EndedBy(found[t], t)'
  <2>1. ASSUME NEW it \in LinkedItems(t), FindItem(t, it) PROVE EndedBy(found[t], t)'
    <3>1. it \in Item /\ tasks[t].itemOf = it.id
      BY NullsAreDistinct DEF LinkedItems, OnBoard, Present, BoardOwned, Owned, TypeOK
    <3>2. \A v : LET n == [it EXCEPT !.active = NoTask, !.status = v] IN
                 n.id = it.id /\ n.status = v /\ n.active = NoTask
      BY <3>1 DEF Item
    <3>3. found'[t] = [it EXCEPT !.active = NoTask, !.status = Settled(outcome[t])]
      BY <2>1 DEF FindItem, TypeOK
    <3>4. found'[t].id = it.id /\ found'[t].status = Settled(outcome[t]) /\ found'[t].active = NoTask
      BY <3>2, <3>3
    <3>5. UNCHANGED <<tasks, outcome>> /\ work'[t] = "settle"
      BY <2>1 DEF FindItem, TypeOK
    <3> QED
      BY <3>1, <3>4, <3>5 DEF EndedBy, Answered, Settled
  <2> QED
    BY <2>1 DEF BotStep, BotPanics, BotAnswers, RecordResult, FindNothing
<1>5. pc[Runner] \in {"sent", "store"} => sent[Runner] \in TaskIds /\ work[sent[Runner]] # "none"
  BY DEF OrderInv, ActiveIsSent, IInv, DispatchOwned, TypeOK
<1>6. \A u \in TaskIds : Answered(u) => Answered(u)' /\ outcome'[u] = outcome[u]
  BY <1>1 DEF Answered
<1> QED
  BY <1>1, <1>3, <1>4, <1>5, <1>6, OrderKeeps

LEMMA OrderStep ==
  ASSUME Clients = {}, IInv, AloneInv, OrderInv, [Next]_vars
  PROVE  OrderInv'
PROOF
<1>1. CASE RunnerStep
  BY <1>1, OrderLooks, OrderEnds, OrderLaunches, OrderCreates, OrderMarks, OrderStores
  DEF RunnerStep, DispatchStep
<1>2. ASSUME NEW t \in TaskIds, BotStep(t) \/ ResultStep(t) PROVE OrderInv'
  BY <1>2, OrderEnds, OrderAnswers DEF ResultStep
<1>3. CASE TimePasses \/ UNCHANGED vars
  <2>1. UNCHANGED <<board, tasks, botVars, pc, copy, sent, todo>>
    BY <1>3 DEF TimePasses, vars, botVars, runnerVars
  <2>2. AnswersStand'
    BY <2>1, OrderOfBoard DEF IInv
  <2> QED
    BY <2>1, <2>2, OrderKeeps DEF botVars, Answered, OrderInv, ActiveIsSent
<1> QED
  BY <1>1, <1>2, <1>3 DEF Next

\* An item starts when the runner writes its launch, and only then.
LEMMA StartsAreLaunches ==
  ASSUME Clients = {}, IInv, AloneInv, [Next]_vars, NEW i \in Items, Starts(i)
  PROVE  LaunchWrite /\ i = copy[Runner].id
PROOF
<1> TypeOK /\ Runner \in Procs /\ AloneInv
  BY DEF IInv, Procs
<1>1. board'[i] # board[i]
  BY DEF Starts
<1>2. ~(ReconcileWrite \/ \E t \in TaskIds : SettleItem(t))
  <2> SUFFICES ASSUME NEW it, Ends(it) PROVE FALSE
    BY EndsAreWritten
  <2> QED
    BY <1>1 DEF Ends, Ended, Update, Starts, TypeOK, Item
<1>3. ~StoreActive(Runner)
  <2> SUFFICES ASSUME StoreActive(Runner) PROVE FALSE
    OBVIOUS
  <2>1. board[copy[Runner].id] = copy[Runner] /\ copy[Runner].status = "in-progress" /\ copy[Runner] \in Item
    BY DEF StoreActive, AloneInv, DispatchIsFirst, IInv, DispatchOwned, Dispatching, CopyHeld, Holding, TypeOK
  <2>2. \A v : [copy[Runner] EXCEPT !.active = v].id = copy[Runner].id
    BY <2>1 DEF Item
  <2> QED
    BY <1>1, <2>1, <2>2 DEF StoreActive, Update, Starts, TypeOK
<1>4. LaunchWrite
  <2>1. CASE RunnerStep
    BY <1>1, <1>2, <1>3, <2>1 DEF RunnerStep, DispatchStep, Tick, CountSlots, Collect, EndTick, ReconcileNext,
       PickNext, SendTask, RejectTask, MarkRunning
  <2>2. ASSUME NEW t \in TaskIds, BotStep(t) \/ ResultStep(t) PROVE FALSE
    BY <1>1, <1>2, <2>2 DEF BotStep, BotPanics, BotAnswers, ResultStep, RecordResult, FindItem, FindNothing
  <2>3. ~TimePasses /\ ~UNCHANGED vars
    BY <1>1 DEF TimePasses, vars
  <2> QED
    BY <2>1, <2>2, <2>3 DEF Next
<1>5. copy[Runner] \in Item
  BY <1>4 DEF LaunchWrite, IInv, CopyHeld, Holding, TypeOK
<1> QED
  BY <1>1, <1>4, <1>5 DEF LaunchWrite, Update, TypeOK

\* The moment an item was put on the queue is kept with it.
BoardsAreStamped ==
  \A b \in Loaded, i \in Items : b[i] # NoItem /\ b[i].status = "queued" => b[i].queuedAt \in Time

\* With the runner and the bots alone the queue is served in order: no waiting asap item is
\* overtaken, and an item that waits for another one starts after it. What isReady saw a
\* store call earlier is still so, because results only repeat the status an item ended with.
THEOREM RunnerStartsInOrder ==
  ASSUME Clients = {}, BoardsAreWithinLimit, BoardsAreStamped
  PROVE  Spec => StartsInOrder
PROOF
<1>1. Init => AloneInv /\ OrderInv
  BY AloneInit, OrderInit DEF BoardsAreWithinLimit, BoardsAreStamped
<1>2. IInv /\ AloneInv /\ OrderInv /\ [Next]_vars => AloneInv' /\ OrderInv'
  BY AloneStep, OrderStep
<1>3. Spec => [](IInv /\ AloneInv /\ OrderInv)
  BY <1>1, <1>2, InitIInv, NextIInv, PTL DEF Spec
<1>4. ASSUME IInv, AloneInv, OrderInv, [Next]_vars, NEW i \in Items, NEW j \in Items, Starts(i), Present(j)
      PROVE  /\ board[j].status = "queued" /\ Asap(board[j]) =>
                  Asap(board[i]) /\ board[i].queuedAt <= board[j].queuedAt
             /\ board[i].after = j /\ board[i].mode \in {"run_after", "run_when"} =>
                  board[j].status \in IF board[i].requireSuccess THEN {"done"} ELSE {"done", "errored"}
  <2>1. LaunchWrite /\ i = copy[Runner].id
    BY <1>4, StartsAreLaunches
  <2>2. pc[Runner] = "launch"
    BY <2>1 DEF LaunchWrite
  <2>3. board[j].status = "queued" /\ Asap(board[j]) =>
          Asap(board[i]) /\ board[i].queuedAt <= board[j].queuedAt
    BY <1>4, <2>1, <2>2 DEF OrderInv, LaunchIsNext, OnBoard
  <2>4. board[i].mode \in {"run_after", "run_when"} => AfterDone(board[i])
    BY <1>4, <2>1, <2>2 DEF OrderInv, LaunchIsNext
  <2> QED
    BY <2>3, <2>4, <1>4, NullsAreDistinct DEF AfterDone
<1>5. IInv /\ AloneInv /\ OrderInv /\ [Next]_vars =>
        [\A i, j \in Items :
           Starts(i) /\ Present(j) /\ board[j].status = "queued" /\ Asap(board[j])
             => Asap(board[i]) /\ board[i].queuedAt <= board[j].queuedAt]_vars
  BY <1>4
<1>6. IInv /\ AloneInv /\ OrderInv /\ [Next]_vars =>
        [\A i, j \in Items :
           Starts(i) /\ board[i].after = j /\ Present(j)
                    /\ board[i].mode \in {"run_after", "run_when"}
             => board[j].status \in IF board[i].requireSuccess THEN {"done"}
                                                              ELSE {"done", "errored"}]_vars
  BY <1>4
<1> QED
  BY <1>3, <1>5, <1>6, PTL DEF Spec, StartsInOrder, NoOvertaking, StartsAfterPredecessor
=============================================================================
