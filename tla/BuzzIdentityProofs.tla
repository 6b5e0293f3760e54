------------------------- MODULE BuzzIdentityProofs -------------------------
(***************************************************************************)
(* Proofs about what keeps an identity on the relay.                       *)
(*                                                                         *)
(* The file locks, for any set of processes: the lock is exclusive until   *)
(* the first process stops, and implements Mutex.  What breaks it          *)
(* afterwards is shown by the configuration lock_waiters.                  *)
(*                                                                         *)
(* The relay client, for any subscriptions, number of connections and room *)
(* in the channels: channels are closed once and last, no subscription is  *)
(* forgotten by a reconnection, and no connection is left.  IInv says      *)
(* which connections may be up, who is in attachSub, who may close a       *)
(* channel, how many attachments are still to come, and where the          *)
(* attachment to the current connection is to be found.                    *)
(***************************************************************************)
EXTENDS FileLock, RelayClient, TLAPS

-----------------------------------------------------------------------------
(* The lock *)

\* Only a process that read the PID of a stopped one is about to remove the file,
\* and until then the file names its holder.
LockInv ==
  /\ LockTypeOK
  /\ \A p \in Procs : pc[p] = "check" => seen[p] \in Procs
  /\ dead = {} => \A p \in Procs : pc[p] # "remove" /\ (pc[p] = "hold" <=> file = p)

LEMMA LockInvInit == LockInit => LockInv
  BY NoFileIsNoProc DEF LockInit, LockInv, LockTypeOK

LEMMA LockInvNext == LockInv /\ [LockNext]_lockVars => LockInv'
  <1> SUFFICES ASSUME LockInv, [LockNext]_lockVars PROVE LockInv' OBVIOUS
  <1> USE DEF LockInv, LockTypeOK, Goto
  <1>1. ASSUME NEW p \in Procs, Start(p) PROVE LockInv'
    BY <1>1 DEF Start
  <1>2. ASSUME NEW p \in Procs, Publish(p) PROVE LockInv'
    BY <1>2, NoFileIsNoProc DEF Publish, Link
  <1>3. ASSUME NEW p \in Procs, Read(p) PROVE LockInv'
    <2>1. PICK label \in {"publish", "idle", "check"} :
            Goto(p, label) /\ (label = "check" => file # NoFile)
      BY <1>3 DEF Read, NextAttempt
    <2> QED BY <1>3, <2>1 DEF Read
  <1>4. ASSUME NEW p \in Procs, CheckOwner(p) PROVE LockInv'
    <2>1. CASE Alive(seen[p])
      <3>1. PICK label \in {"publish", "idle"} : Goto(p, label)
        BY <1>4, <2>1 DEF CheckOwner, NextAttempt
      <3> QED BY <1>4, <3>1 DEF CheckOwner
    <2>2. CASE ~Alive(seen[p])
      <3>1. dead # {} BY <2>2 DEF Alive
      <3> QED BY <1>4, <2>2, <3>1 DEF CheckOwner
    <2> QED BY <2>1, <2>2
  <1>5. ASSUME NEW p \in Procs, RemoveStale(p) PROVE LockInv'
    BY <1>5 DEF RemoveStale
  <1>6. ASSUME NEW p \in Procs, Release(p) PROVE LockInv'
    BY <1>6, NoFileIsNoProc DEF Release
  <1>7. ASSUME NEW p \in Procs, Die(p) PROVE LockInv'
    BY <1>7 DEF Die
  <1>8. CASE UNCHANGED lockVars BY <1>8 DEF lockVars
  <1> QED BY <1>1, <1>2, <1>3, <1>4, <1>5, <1>6, <1>7, <1>8 DEF LockNext, Attempt

LEMMA LockInvariance == LockSpec => []LockInv
  BY LockInvInit, LockInvNext, PTL DEF LockSpec

\* Every variable keeps its type.
THEOREM LockTypesAreRespected == LockSpec => []LockTypeOK
  <1>1. LockInv => LockTypeOK BY DEF LockInv
  <1> QED BY <1>1, LockInvariance, PTL

\* Until a process stops, the process named in the lock file, and nobody else,
\* holds the lock: the removal of stale files takes no lock away by mistake.
THEOREM ExclusiveUntilDeath == LockSpec => []ExclusiveWhileAllRun
  <1>1. LockInv => ExclusiveWhileAllRun BY DEF LockInv, ExclusiveWhileAllRun
  <1> QED BY <1>1, LockInvariance, PTL

\* The lock file changes hands through its owner only while all processes run, and
\* is never published over another one: os.Link does not replace.
THEOREM FilesAreOwn == LockSpec => OwnFileOnly
  <1>1. LockInv /\ [LockNext]_lockVars =>
          [file # NoFile /\ file' # file =>
             file' = NoFile /\ (dead = {} => pc[file] = "hold" /\ pc'[file] = "idle")]_lockVars
    <2> SUFFICES ASSUME LockInv, LockNext, file # NoFile, file' # file
                 PROVE  file' = NoFile /\ (dead = {} => pc[file] = "hold" /\ pc'[file] = "idle")
      BY DEF lockVars
    <2>1. PICK p \in Procs : RemoveStale(p) \/ Release(p)
      BY DEF LockNext, Attempt, Start, Publish, Link, Read, CheckOwner, Die
    <2>2. file' = NoFile BY <2>1 DEF RemoveStale, Release
    <2>3. ASSUME dead = {} PROVE pc[file] = "hold" /\ pc'[file] = "idle"
      BY <2>1, <2>3 DEF LockInv, LockTypeOK, RemoveStale, Release, Goto
    <2> QED BY <2>2, <2>3
  <1> QED BY <1>1, LockInvariance, PTL DEF LockSpec, OwnFileOnly

\* The lock file implements the abstract lock Mutex: while nobody has stopped, each
\* step of an attempt is an Acquire, a Release, or nothing that Mutex sees.
THEOREM LockIsMutex == LockSpec => IsMutex
  <1>1. LockInit => AsLock!Init BY DEF LockInit, AsLock!Init
  <1>2. LockInv /\ [LockNext]_lockVars => [AsLock!Next]_<<file, dead # {}>>
    <2> SUFFICES ASSUME LockInv, LockNext, ~UNCHANGED <<file, dead # {}>> PROVE AsLock!Next
      BY DEF lockVars
    <2>1. CASE (dead # {})'
      BY <2>1 DEF AsLock!Next, AsLock!Break
    <2>2. CASE dead' = {}
      <3>1. dead = {} BY <2>2 DEF LockNext, Attempt, Start, Publish, Read, CheckOwner, RemoveStale, Release, Die
      <3>2. file' # file BY <2>2, <3>1
      <3>3. PICK p \in Procs : Publish(p) \/ RemoveStale(p) \/ Release(p)
        BY <3>2 DEF LockNext, Attempt, Start, Read, CheckOwner, Die
      <3>4. CASE Publish(p)
        BY <2>2, <3>1, <3>2, <3>4 DEF Publish, Link, AsLock!Next, AsLock!Acquire
      <3>5. CASE RemoveStale(p) BY <3>1, <3>5 DEF LockInv, RemoveStale
      <3>6. CASE Release(p)
        BY <2>2, <3>1, <3>6 DEF LockInv, Release, AsLock!Next, AsLock!Release
      <3> QED BY <3>3, <3>4, <3>5, <3>6
    <2> QED BY <2>1, <2>2
  <1> QED BY <1>1, <1>2, LockInvariance, PTL DEF LockSpec, IsMutex, AsLock!Spec

-----------------------------------------------------------------------------
(* The relay client *)

\* TypeOK without the bounds of generations and closings.
Types ==
  /\ up \subseteq Conns /\ dialed \in 0..MaxConns
  /\ conn \in Conns \cup {None}
  /\ closed \in BOOLEAN
  /\ connector \in {"idle", "dialed", "done"}
  /\ loop \in {"off", "watch", "retry", "dial", "swap", "list", "resubscribe", "over"}
  /\ fresh \in Conns \cup {None}
  /\ todo \subseteq Subs /\ subs \subseteq Subs
  /\ call \in [Subs -> {"none", "attach", "returned", "failed"}]
  /\ att \in [Attachers -> Attach]
  /\ gen \in [Subs -> Nat]
  /\ pump \in [Subs -> [Gens -> Pump]]
  /\ queue \in [Subs -> 0..Buffer]
  /\ closes \in [Subs -> Nat]
  /\ gone \subseteq Subs
  /\ remover \in [Subs -> {"none", "asleep", "waiting", "over"}]
  /\ closer \in {"idle", "drop", "wait", "over"}
  /\ closing \in Conns \cup {None}

(* Connections: at most the stored one, the one about to be stored, and the one that
   Connect has dialed are up. *)
Stored ==
  /\ connector = "idle" => dialed = 0 /\ up = {}
  /\ connector = "dialed" => dialed = 1 /\ up \subseteq {1}
  /\ connector # "done" => conn = None /\ loop = "off" /\ \A s \in Subs : call[s] = "none"
  /\ connector = "done" =>
       /\ conn \in 1..dialed /\ loop # "off"
       /\ up \subseteq {conn} \cup (IF loop = "swap" THEN {fresh} ELSE {})
  /\ loop = "swap" => fresh = dialed /\ fresh # conn
  /\ loop \in {"list", "resubscribe"} => fresh = conn
  /\ loop \in {"retry", "dial", "swap"} => conn \notin up

Ending ==
  /\ closed <=> closer # "idle"
  /\ closer = "idle" => closing = None
  /\ closing # None => conn = closing
  /\ closed /\ closing = None => loop \in {"off", "watch", "over"} /\ conn \in {None, 1}
  /\ closer \in {"wait", "over"} => closing \notin up

(* Who is in attachSub, and for whom. *)
Attaching ==
  /\ \A s \in Subs : att[s].stage # "none" =>
       /\ att[s].sub = s /\ att[s].on \in Conns
       /\ call[s] = "attach" /\ remover[s] = "none"
  /\ att[Loop].stage \in {"none", "check", "open", "add"}
  /\ att[Loop].stage # "none" =>
       /\ att[Loop].sub \in Subs \ todo /\ att[Loop].on = conn
       /\ loop = "resubscribe"

(* A channel is closed by the one who takes the entry out. *)
Channel(s) ==
  /\ closes[s] # 0 => closes[s] = 1 /\ s \notin subs /\ PumpsOf(s) = {} /\ remover[s] # "waiting"
  /\ remover[s] = "waiting" => s \notin subs
  /\ call[s] = "none" \/ att[s].stage = "register" =>
       s \notin subs /\ closes[s] = 0 /\ remover[s] = "none"

(* Attachments to come: the one of Subscribe, and one of the loop. *)
Own(s) == IF call[s] = "none" \/ att[s].stage # "none" THEN 1 ELSE 0
Again(s) ==
  IF \/ loop \in {"swap", "list"}
     \/ loop = "resubscribe" /\ (s \in todo \/ (att[Loop].stage # "none" /\ att[Loop].sub = s))
  THEN 1 ELSE 0
Counted(s) ==
  /\ connector # "done" => gen[s] = 0
  /\ connector = "done" => gen[s] + Own(s) + Again(s) <= dialed
  /\ \A g \in Gens : g > gen[s] => pump[s][g].on = None

(* Where the attachment to the current connection is to be found. *)
Covered(s) ==
  \/ loop \in {"retry", "dial", "swap", "list"}
  \/ loop = "resubscribe" /\ (s \in todo \/ (att[Loop].stage # "none" /\ att[Loop].sub = s))
  \/ att[s].stage = "add" /\ att[s].on = conn
  \/ \E g \in Gens : pump[s][g].on = conn
Attached(s) ==
  ~closed /\ conn \in up /\ s \in subs /\ s \notin gone
    /\ (call[s] = "returned" \/ att[s].stage = "add") => Covered(s)

IInv ==
  /\ Types /\ Stored /\ Ending /\ Attaching
  /\ \A s \in Subs : Channel(s) /\ Counted(s) /\ Attached(s)

-----------------------------------------------------------------------------

LEMMA InitInv == Init => IInv
  <1> SUFFICES ASSUME Init PROVE IInv OBVIOUS
  <1>1. Loop \in Attachers /\ Subs \subseteq Attachers BY DEF Attachers
  <1>2. Types
    <2>1. [on |-> None, stage |-> "none"] \in Pump BY DEF Pump
    <2>2. pump \in [Subs -> [Gens -> Pump]] BY <2>1 DEF Init
    <2>3. att \in [Attachers -> Attach] BY DEF Init, Attach, NoAttach
    <2>4. queue \in [Subs -> 0..Buffer] /\ dialed \in 0..MaxConns
      BY BoundsAreNumbers DEF Init
    <2> QED BY <2>2, <2>3, <2>4 DEF Init, Types
  <1>3. Stored /\ Ending BY DEF Init, Stored, Ending
  <1>4. Attaching BY <1>1 DEF Init, Attaching, NoAttach
  <1>5. \A s \in Subs : Channel(s) BY <1>1 DEF Init, Channel, PumpsOf, NoAttach
  <1>6. \A s \in Subs : Counted(s) BY DEF Init, Counted
  <1>7. \A s \in Subs : Attached(s) BY DEF Init, Attached
  <1> QED BY <1>2, <1>3, <1>4, <1>5, <1>6, <1>7 DEF IInv

\* A connection that is stored was dialed, and is no null value.
LEMMA Numbers ==
  ASSUME IInv
  PROVE  /\ dialed \in Nat /\ dialed <= MaxConns /\ MaxConns \in Nat
         /\ Conns = 1..MaxConns /\ Gens = 1..MaxConns /\ None \notin Conns
         /\ \A s \in Subs : s \in Attachers /\ s # Loop
         /\ Loop \in Attachers
  BY BoundsAreNumbers, NamesAreDistinct DEF IInv, Types, Conns, Gens, Attachers

\* An attachment that is about to start its pump has a subscription and a connection.
LEMMA AddsForSubs ==
  ASSUME IInv, NEW p \in Attachers, att[p].stage \in {"check", "open", "add"}
  PROVE  /\ att[p].sub \in Subs /\ att[p].on \in Conns /\ connector = "done"
         /\ p # Loop => p \in Subs /\ att[p].sub = p
         /\ p = Loop => att[p].on = conn /\ loop = "resubscribe"
  <1>1. CASE p = Loop
    <2>1. att[p].sub \in Subs /\ att[p].on = conn /\ loop = "resubscribe"
      BY <1>1 DEF IInv, Attaching
    <2>2. connector = "done" /\ conn \in 1..dialed BY <2>1 DEF IInv, Stored, Types
    <2>3. conn \in Conns BY <2>2, Numbers
    <2> QED BY <1>1, <2>1, <2>2, <2>3
  <1>2. CASE p # Loop
    <2>1. p \in Subs BY <1>2 DEF Attachers
    <2>2. att[p].sub = p /\ att[p].on \in Conns /\ call[p] = "attach"
      BY <2>1 DEF IInv, Attaching
    <2> QED BY <1>2, <2>1, <2>2 DEF IInv, Stored
  <1> QED BY <1>1, <1>2

(* Types *)

LEMMA PumpAdded ==
  ASSUME pump \in [Subs -> [Gens -> Pump]], NEW s \in Subs, NEW n, NEW r \in Pump
  PROVE  [pump EXCEPT ![s][n] = r] \in [Subs -> [Gens -> Pump]]
  <1>1. [pump[s] EXCEPT ![n] = r] \in [Gens -> Pump] OBVIOUS
  <1> QED BY <1>1

\* The steps of the connection, the loop and Close.
LEMMA TypesOfConnections ==
  ASSUME IInv,
         \/ ConnectDials \/ ConnectStores \/ (\E c \in Conns : LoseConn(c))
         \/ Watch \/ Retry \/ Redial \/ Swap \/ ListSubs \/ Resubscribed
         \/ CloseBegins \/ CloseDrops \/ CloseSweeps
  PROVE  Types'
  <1> USE DEF IInv, Types
  <1>1. CASE ConnectDials
    BY <1>1, BoundsAreNumbers DEF ConnectDials, Dial, Conns, loopVars, subVars, pumpVars, closeVars
  <1>2. CASE ConnectStores
    BY <1>2, BoundsAreNumbers DEF Stored, ConnectStores, Conns, subVars, pumpVars, closeVars
  <1>3. CASE \E c \in Conns : LoseConn(c)
    BY <1>3 DEF LoseConn, loopVars, subVars, pumpVars, closeVars
  <1>4. CASE Watch BY <1>4 DEF Watch, LoopKeeps, subVars, pumpVars, closeVars
  <1>5. CASE Retry BY <1>5 DEF Retry, LoopKeeps, subVars, pumpVars, closeVars
  <1>6. CASE Redial
    <2>1. CASE Dial
      <3>1. dialed + 1 \in Conns /\ dialed' \in 0..MaxConns
        BY <2>1, BoundsAreNumbers DEF Dial, Conns
      <3>2. up' \subseteq Conns BY <2>1, <3>1 DEF Dial
      <3>3. fresh' \in Conns \cup {None} BY <1>6, <3>1 DEF Redial
      <3> QED BY <1>6, <3>1, <3>2, <3>3 DEF Redial, LoopKeeps, subVars, pumpVars, closeVars
    <2>2. CASE ~Dial
      BY <1>6, <2>2 DEF Redial, LoopKeeps, subVars, pumpVars, closeVars
    <2> QED BY <2>1, <2>2
  <1>7. CASE Swap BY <1>7 DEF Swap, LoopKeeps, subVars, pumpVars, closeVars
  <1>8. CASE ListSubs BY <1>8 DEF ListSubs, Listing, LoopKeeps, subVars, pumpVars, closeVars
  <1>9. CASE Resubscribed BY <1>9 DEF Resubscribed, LoopKeeps, subVars, pumpVars, closeVars
  <1>10. CASE CloseBegins BY <1>10 DEF CloseBegins, loopVars, subVars, pumpVars
  <1>11. CASE CloseDrops BY <1>11 DEF CloseDrops, loopVars, subVars, pumpVars
  <1>12. CASE CloseSweeps
    BY <1>12 DEF CloseSweeps, Swept, connVars, loopVars, pumpVars
  <1> QED BY <1>1, <1>2, <1>3, <1>4, <1>5, <1>6, <1>7, <1>8, <1>9, <1>10, <1>11, <1>12

\* The steps of attachSub and its two callers.
LEMMA TypesOfAttachments ==
  ASSUME IInv, NEW p \in Attachers,
         \/ (\E s \in Subs : Resubscribe(s) \/ Subscribe(s) \/ Register(s) \/ Undo(s))
         \/ Check(p) \/ Open(p) \/ Add(p)
  PROVE  Types'
  <1>0. Types /\ Loop \in Attachers /\ Subs \subseteq Attachers BY DEF IInv, Attachers
  <1> USE DEF Types
  <1>1. ASSUME NEW q \in Attachers,
               NEW r \in {"none", "register", "check", "open", "add", "undo"}
        PROVE  [att EXCEPT ![q].stage = r] \in [Attachers -> Attach]
    BY <1>0 DEF Attach
  <1>2. NoAttach \in Attach BY DEF NoAttach, Attach
  <1>10. ASSUME \/ To(p, "open") \/ To(p, "add") \/ AttachFails(p)
                \/ att' = [att EXCEPT ![p] = NoAttach]
         PROVE  att' \in [Attachers -> Attach]
    <2>1. [att EXCEPT ![p] = NoAttach] \in [Attachers -> Attach] BY <1>0, <1>2
    <2>2. \/ att' = [att EXCEPT ![p].stage = "open"] \/ att' = [att EXCEPT ![p].stage = "add"]
          \/ att' = [att EXCEPT ![p].stage = "undo"] \/ att' = [att EXCEPT ![p] = NoAttach]
      BY <1>10, Zenon DEF To, AttachFails
    <2> QED BY <1>1, <2>1, <2>2
  <1>3. ASSUME NEW s \in Subs, Resubscribe(s) PROVE Types'
    BY <1>0, <1>3 DEF Resubscribe, Attach, LoopKeeps, subVars, pumpVars, closeVars
  <1>4. ASSUME NEW s \in Subs, Subscribe(s) PROVE Types'
    <2>1. [sub |-> s, on |-> conn, stage |-> "register"] \in Attach BY <1>0 DEF Attach
    <2>2. att' \in [Attachers -> Attach] BY <1>0, <1>4, <2>1 DEF Subscribe
    <2>3. call' \in [Subs -> {"none", "attach", "returned", "failed"}]
      BY <1>0, <1>4 DEF Subscribe
    <2> QED BY <1>0, <1>4, <2>2, <2>3 DEF Subscribe, connVars, loopVars, pumpVars, closeVars
  <1>5. ASSUME NEW s \in Subs, Register(s) PROVE Types'
    BY <1>0, <1>1, <1>5 DEF Register, To, connVars, loopVars, pumpVars, closeVars
  <1>6. ASSUME NEW s \in Subs, Undo(s) PROVE Types'
    BY <1>0, <1>2, <1>6 DEF Undo, AttachKeeps, connVars, loopVars, closeVars
  <1>7. CASE Check(p)
    <2>1. att' \in [Attachers -> Attach] BY <1>7, <1>10 DEF Check
    <2> QED BY <1>0, <1>7, <2>1 DEF Check, AttachKeeps, connVars, loopVars, closeVars
  <1>8. CASE Open(p)
    <2>1. att' \in [Attachers -> Attach] BY <1>8, <1>10 DEF Open
    <2> QED BY <1>0, <1>8, <2>1 DEF Open, AttachKeeps, connVars, loopVars, closeVars
  <1>9. CASE Add(p)
    <2>1. att[p].sub \in Subs /\ att[p].on \in Conns BY <1>9, AddsForSubs DEF Add
    <2>2. att' \in [Attachers -> Attach]
      BY <1>9, <1>10, Zenon DEF Add
    <2>3. [on |-> att[p].on, stage |-> "wait"] \in Pump BY <2>1 DEF Pump
    <2>4. pump' \in [Subs -> [Gens -> Pump]]
      <3>1. \/ pump' = [pump EXCEPT ![att[p].sub][gen[att[p].sub] + 1] =
                           [on |-> att[p].on, stage |-> "wait"]]
            \/ pump' = pump
        BY <1>9, Zenon DEF Add
      <3>2. pump \in [Subs -> [Gens -> Pump]] BY <1>0
      <3>3. [pump EXCEPT ![att[p].sub][gen[att[p].sub] + 1] = [on |-> att[p].on, stage |-> "wait"]]
              \in [Subs -> [Gens -> Pump]]
        BY <2>1, <2>3, <3>2, PumpAdded, Zenon
      <3> QED BY <3>1, <3>2, <3>3, Zenon
    <2>5. gen' \in [Subs -> Nat] BY <1>0, <1>9, <2>1 DEF Add
    <2>6. /\ call' \in [Subs -> {"none", "attach", "returned", "failed"}]
          /\ remover' \in [Subs -> {"none", "asleep", "waiting", "over"}]
      BY <1>0, <1>9, <2>1 DEF Add
    <2>7. UNCHANGED <<up, dialed, conn, closed, connector, loop, fresh, todo, subs, queue,
                      closes, gone, closer, closing>>
      BY <1>9 DEF Add, AttachKeeps, connVars, loopVars, closeVars
    <2> QED BY <1>0, <2>2, <2>4, <2>5, <2>6, <2>7
  <1> QED BY <1>3, <1>4, <1>5, <1>6, <1>7, <1>8, <1>9

\* The steps of pumps, readers and removals.
LEMMA TypesOfPumps ==
  ASSUME IInv,
         \/ (\E s \in Subs : ReadEvent(s) \/ Cancel(s) \/ RemoverStep(s))
         \/ (\E s \in Subs, g \in Gens : Receive(s, g) \/ PumpStep(s, g))
  PROVE  Types'
  <1>0. Types BY DEF IInv
  <1> USE DEF Types
  <1>1. ASSUME NEW s \in Subs, NEW g \in Gens,
               NEW r \in {"none", "wait", "event", "send", "over"}
        PROVE  [pump EXCEPT ![s][g].stage = r] \in [Subs -> [Gens -> Pump]]
    <2>1. pump[s] \in [Gens -> Pump] /\ pump[s][g] \in Pump BY <1>0
    <2>2. [pump[s][g] EXCEPT !.stage = r] \in Pump BY <2>1 DEF Pump
    <2>3. [pump[s] EXCEPT ![g].stage = r] \in [Gens -> Pump] BY <2>1, <2>2
    <2> QED BY <1>0, <2>3
  <1>2. ASSUME NEW s \in Subs, ReadEvent(s) PROVE Types'
    BY <1>0, <1>2, BoundsAreNumbers
    DEF ReadEvent, PumpKeeps, connVars, loopVars, subVars, closeVars
  <1>3. ASSUME NEW s \in Subs, Cancel(s) PROVE Types'
    BY <1>0, <1>3 DEF Cancel, connVars, loopVars, pumpVars, closeVars
  <1>4. ASSUME NEW s \in Subs, RemoverStep(s) PROVE Types'
    <2>1. CASE Remove(s)
      BY <1>0, <2>1 DEF Remove, connVars, loopVars, pumpVars, closeVars
    <2>2. CASE RemoverCloses(s)
      <3>1. closes' \in [Subs -> Nat] BY <1>0, <2>2 DEF RemoverCloses
      <3> QED BY <1>0, <2>2, <3>1 DEF RemoverCloses, connVars, loopVars, pumpVars, closeVars
    <2> QED BY <1>4, <2>1, <2>2 DEF RemoverStep
  <1>5. ASSUME NEW s \in Subs, NEW g \in Gens, Receive(s, g) \/ PumpEnds(s, g) \/ Judge(s, g)
        PROVE  Types'
    <2>1. pump' \in [Subs -> [Gens -> Pump]]
      <3>1. \/ PumpTo(s, g, "event") \/ PumpTo(s, g, "over") \/ PumpTo(s, g, "send")
        BY <1>5 DEF Receive, PumpEnds, Judge
      <3>2. /\ [pump EXCEPT ![s][g].stage = "event"] \in [Subs -> [Gens -> Pump]]
            /\ [pump EXCEPT ![s][g].stage = "over"] \in [Subs -> [Gens -> Pump]]
            /\ [pump EXCEPT ![s][g].stage = "send"] \in [Subs -> [Gens -> Pump]]
        BY <1>1
      <3> QED BY <3>1, <3>2, Zenon DEF PumpTo
    <2>2. UNCHANGED queue /\ PumpKeeps BY <1>5 DEF Receive, PumpEnds, Judge
    <2> QED BY <1>0, <2>1, <2>2 DEF PumpKeeps, connVars, loopVars, subVars, closeVars
  <1>6. ASSUME NEW s \in Subs, NEW g \in Gens, Forward(s, g) PROVE Types'
    <2>1. pump' \in [Subs -> [Gens -> Pump]] BY <1>0, <1>1, <1>6 DEF Forward, PumpTo
    <2>2. queue' \in [Subs -> 0..Buffer]
      BY <1>0, <1>6, BoundsAreNumbers DEF Forward, HasRoom
    <2> QED BY <1>0, <1>6, <2>1, <2>2
      DEF Forward, PumpKeeps, connVars, loopVars, subVars, closeVars
  <1> QED BY <1>2, <1>3, <1>4, <1>5, <1>6 DEF PumpStep

\* Every variable keeps its type.
LEMMA TypesStep == IInv /\ Next => Types'
  BY TypesOfConnections, TypesOfAttachments, TypesOfPumps
  DEF Next, LoopStep, AttachStep, SubscribeStep, CloseStep, Attachers

(* Connections *)

\* What the steps outside Connect, the reconnect loop and the network do to the
\* connections: Close takes one down.
LEMMA ConnectionsKept ==
  ASSUME IInv,
         \/ \E s \in Subs : \/ Resubscribe(s) \/ Subscribe(s) \/ SubscribeStep(s)
                            \/ ReadEvent(s) \/ Cancel(s) \/ RemoverStep(s)
         \/ \E s \in Subs, g \in Gens : Receive(s, g) \/ PumpStep(s, g)
         \/ AttachStep(Loop) \/ CloseBegins \/ CloseStep
  PROVE  /\ UNCHANGED <<dialed, conn, connector, loop, fresh>>
         /\ up' = up \/ up' = up \ {closing}
         /\ call' = call \/ connector = "done"
  <1>1. ASSUME NEW p \in Attachers, AttachStep(p)
        PROVE  UNCHANGED <<up, dialed, conn, connector, loop, fresh>> /\ connector = "done"
    BY <1>1, AddsForSubs DEF AttachStep, Check, Open, Add, AttachKeeps, connVars, loopVars
  <1>2. ASSUME NEW s \in Subs, Undo(s)
        PROVE  UNCHANGED <<up, dialed, conn, connector, loop, fresh>> /\ connector = "done"
    <2>1. call[s] = "attach" BY <1>2 DEF Undo, IInv, Attaching
    <2> QED BY <1>2, <2>1 DEF Undo, AttachKeeps, connVars, loopVars, IInv, Stored
  <1>3. ASSUME NEW s \in Subs,
               Resubscribe(s) \/ Register(s) \/ ReadEvent(s) \/ Cancel(s) \/ RemoverStep(s)
        PROVE  UNCHANGED <<up, dialed, conn, connector, loop, fresh, call>>
    BY <1>3
    DEF Resubscribe, Register, ReadEvent, Cancel, RemoverStep, Remove, RemoverCloses,
        LoopKeeps, PumpKeeps, connVars, loopVars, subVars
  <1>4. ASSUME NEW s \in Subs, Subscribe(s)
        PROVE  UNCHANGED <<up, dialed, conn, connector, loop, fresh>> /\ connector = "done"
    BY <1>4 DEF Subscribe, connVars, loopVars
  <1>5. ASSUME NEW s \in Subs, NEW g \in Gens, Receive(s, g) \/ PumpStep(s, g)
        PROVE  UNCHANGED <<up, dialed, conn, connector, loop, fresh, call>>
    BY <1>5
    DEF Receive, PumpStep, PumpEnds, Judge, Forward, PumpKeeps, connVars, loopVars, subVars
  <1>6. ASSUME CloseBegins \/ CloseStep
        PROVE  /\ UNCHANGED <<dialed, conn, connector, loop, fresh, call>>
               /\ up' = up \/ up' = up \ {closing}
    BY <1>6 DEF CloseBegins, CloseStep, CloseDrops, CloseSweeps, connVars, loopVars, subVars
  <1> QED BY <1>1, <1>2, <1>3, <1>4, <1>5, <1>6 DEF SubscribeStep, Attachers

\* Redial replaces a connection that is gone, so that at most one is up.
LEMMA StoredStep == IInv /\ Next => Stored'
  <1> SUFFICES ASSUME IInv, Next PROVE Stored' OBVIOUS
  <1>0. /\ dialed \in Nat /\ dialed <= MaxConns /\ MaxConns \in Nat /\ Conns = 1..MaxConns /\ None \notin Conns /\ Stored
        /\ conn \in Conns \cup {None} /\ up \subseteq Conns
    BY Numbers DEF IInv, Types
  <1>1. CASE ConnectDials
    BY <1>0, <1>1 DEF Stored, ConnectDials, Dial, loopVars, subVars
  <1>2. CASE ConnectStores
    BY <1>0, <1>2 DEF Stored, ConnectStores, subVars
  <1>3. CASE \E c \in Conns : LoseConn(c)
    BY <1>0, <1>3 DEF Stored, LoseConn, loopVars, subVars
  <1>4. CASE Watch
    <2>1. connector = "done" /\ (loop' = "over" \/ conn \notin up)
      BY <1>0, <1>4 DEF Stored, Watch
    <2> QED BY <1>0, <1>4, <2>1 DEF Stored, Watch, LoopKeeps, subVars
  <1>5. CASE Retry BY <1>0, <1>5 DEF Stored, Retry, LoopKeeps, subVars
  <1>6. CASE Redial
    <2>1. connector = "done" /\ conn \in 1..dialed /\ conn \notin up /\ up = {}
      BY <1>0, <1>6 DEF Stored, Redial
    <2> QED BY <1>0, <1>6, <2>1 DEF Stored, Redial, Dial, LoopKeeps, subVars
  <1>7. CASE Swap
    <2>1. /\ connector = "done" /\ fresh = dialed /\ fresh # conn /\ conn \notin up
          /\ conn \in 1..dialed /\ up \subseteq {conn, fresh}
      BY <1>0, <1>7 DEF Stored, Swap
    <2>2. UNCHANGED <<dialed, connector, call, fresh>>
      BY <1>7 DEF Swap, LoopKeeps, subVars
    <2>3. CASE closed BY <1>0, <1>7, <2>1, <2>2, <2>3 DEF Stored, Swap
    <2>4. CASE ~closed
      <3>1. conn' = fresh /\ loop' = "list" /\ up' = up BY <1>7, <2>4 DEF Swap
      <3>2. conn' \in 1..dialed' BY <1>0, <2>1, <2>2, <3>1
      <3>3. up' \subseteq {conn'} BY <2>1, <3>1
      <3> QED BY <2>1, <2>2, <3>1, <3>2, <3>3 DEF Stored
    <2> QED BY <2>3, <2>4
  <1>8. CASE ListSubs BY <1>0, <1>8 DEF Stored, ListSubs, LoopKeeps, subVars
  <1>9. CASE Resubscribed BY <1>0, <1>9 DEF Stored, Resubscribed, LoopKeeps, subVars
  <1>10. ASSUME UNCHANGED <<dialed, conn, connector, loop, fresh>>,
                up' = up \/ up' = up \ {closing}, call' = call \/ connector = "done"
         PROVE  Stored'
    BY <1>0, <1>10 DEF Stored
  <1> QED
    BY <1>1, <1>2, <1>3, <1>4, <1>5, <1>6, <1>7, <1>8, <1>9, <1>10, ConnectionsKept
    DEF Next, LoopStep

\* The connection that Close read is the last one, since reconnect looks at closed
\* where it stores another.
LEMMA EndingStep == IInv /\ Next => Ending'
  <1> SUFFICES ASSUME IInv, Next PROVE Ending' OBVIOUS
  <1>0. /\ dialed \in Nat /\ dialed <= MaxConns /\ MaxConns \in Nat /\ Conns = 1..MaxConns /\ None \notin Conns
        /\ conn \in Conns \cup {None} /\ closing \in Conns \cup {None}
        /\ up \subseteq Conns /\ Stored /\ Ending /\ closed \in BOOLEAN
    BY Numbers DEF IInv, Types
  <1>1. CASE ConnectDials
    <2>1. conn = None /\ dialed = 0 /\ up = {} BY <1>0, <1>1 DEF Stored, ConnectDials
    <2>2. closing = None BY <1>0, <2>1 DEF Ending
    <2>3. None \notin up' BY <1>0, <1>1, <2>1 DEF ConnectDials, Dial
    <2> QED BY <1>0, <1>1, <2>1, <2>2, <2>3 DEF Ending, ConnectDials, loopVars, closeVars
  <1>2. CASE ConnectStores
    BY <1>0, <1>2 DEF Stored, Ending, ConnectStores, closeVars
  <1>3. CASE \E c \in Conns : LoseConn(c)
    BY <1>0, <1>3 DEF Ending, LoseConn, loopVars, closeVars
  <1>4. CASE Watch BY <1>0, <1>4 DEF Ending, Watch, LoopKeeps, closeVars
  <1>5. CASE Retry BY <1>0, <1>5 DEF Ending, Retry, LoopKeeps, closeVars
  <1>6. CASE Redial
    <2>1. connector = "done" /\ conn \in 1..dialed BY <1>0, <1>6 DEF Stored, Redial
    <2>2. closed => closing # None BY <1>0, <1>6 DEF Ending, Redial
    <2> QED BY <1>0, <1>6, <2>1, <2>2 DEF Ending, Redial, Dial, LoopKeeps, closeVars
  <1>7. CASE Swap BY <1>0, <1>7 DEF Ending, Swap, LoopKeeps, closeVars
  <1>8. CASE ListSubs BY <1>0, <1>8 DEF Ending, ListSubs, LoopKeeps, closeVars
  <1>9. CASE Resubscribed BY <1>0, <1>9 DEF Ending, Resubscribed, LoopKeeps, closeVars
  <1>10. CASE CloseBegins
    <2>1. conn = None => loop = "off" BY <1>0 DEF Stored
    <2> QED BY <1>0, <1>10, <2>1 DEF Ending, CloseBegins, loopVars
  <1>11. CASE CloseDrops BY <1>0, <1>11 DEF Ending, CloseDrops, loopVars
  <1>12. CASE CloseSweeps BY <1>0, <1>12 DEF Ending, CloseSweeps, connVars, loopVars
  <1>13. ASSUME NEW s \in Subs,
                \/ Resubscribe(s) \/ Subscribe(s) \/ SubscribeStep(s) \/ ReadEvent(s)
                \/ Cancel(s) \/ RemoverStep(s) \/ AttachStep(Loop)
         PROVE  UNCHANGED <<up, conn, closed, loop, closer, closing>>
    BY <1>13
    DEF Resubscribe, Subscribe, SubscribeStep, Register, Undo, AttachStep, Check, Open, Add,
        ReadEvent, Cancel, RemoverStep, Remove, RemoverCloses, LoopKeeps, AttachKeeps,
        PumpKeeps, connVars, loopVars, closeVars
  <1>14. ASSUME NEW s \in Subs, NEW g \in Gens, Receive(s, g) \/ PumpStep(s, g)
         PROVE  UNCHANGED <<up, conn, closed, loop, closer, closing>>
    BY <1>14 DEF Receive, PumpStep, PumpEnds, Judge, Forward, PumpKeeps, connVars, loopVars, closeVars
  <1>15. ASSUME AttachStep(Loop) PROVE UNCHANGED <<up, conn, closed, loop, closer, closing>>
    BY <1>15 DEF AttachStep, Check, Open, Add, AttachKeeps, connVars, loopVars, closeVars
  <1>16. ASSUME UNCHANGED <<up, conn, closed, loop, closer, closing>> PROVE Ending'
    BY <1>0, <1>16 DEF Ending
  <1> QED
    BY <1>1, <1>2, <1>3, <1>4, <1>5, <1>6, <1>7, <1>8, <1>9, <1>10, <1>11, <1>12, <1>13,
       <1>14, <1>15, <1>16
    DEF Next, LoopStep, CloseStep

(* Attachments *)

\* Who keeps an attachment alive: nobody registers, resubscribes or cancels for it.
LEMMA AttachingStep == IInv /\ Next => Attaching'
  <1> SUFFICES ASSUME IInv, Next PROVE Attaching' OBVIOUS
  <1>0. /\ att \in [Attachers -> Attach] /\ Attaching /\ Loop \in Attachers
        /\ \A s \in Subs : s \in Attachers /\ s # Loop
        /\ remover \in [Subs -> {"none", "asleep", "waiting", "over"}]
        /\ call \in [Subs -> {"none", "attach", "returned", "failed"}]
    BY Numbers DEF IInv, Types
  <1>1. ASSUME UNCHANGED <<att, call, remover>>, att[Loop].stage # "none" => UNCHANGED <<todo, conn, loop>>
        PROVE  Attaching'
    BY <1>0, <1>1 DEF Attaching
  <1>2. CASE ConnectDials \/ (\E c \in Conns : LoseConn(c)) \/ CloseBegins \/ CloseStep
    BY <1>1, <1>2
    DEF ConnectDials, LoseConn, CloseBegins, CloseStep, CloseDrops, CloseSweeps, connVars,
        loopVars, subVars
  <1>3. CASE ConnectStores
    <2>1. loop = "off" BY <1>3 DEF ConnectStores, IInv, Stored
    <2> QED BY <1>0, <1>1, <1>3, <2>1 DEF ConnectStores, Attaching, subVars
  <1>4. CASE Watch \/ Retry \/ Redial \/ Swap \/ ListSubs \/ Resubscribed
    <2>1. loop # "resubscribe" \/ att[Loop] = NoAttach
      BY <1>4 DEF Watch, Retry, Redial, Swap, ListSubs, Resubscribed
    <2>2. att[Loop].stage = "none" BY <1>0, <2>1 DEF Attaching, NoAttach
    <2>3. UNCHANGED <<att, call, remover>>
      BY <1>4 DEF Watch, Retry, Redial, Swap, ListSubs, Resubscribed, LoopKeeps, subVars
    <2> QED BY <1>1, <2>2, <2>3
  <1>5. ASSUME NEW s \in Subs, Resubscribe(s) PROVE Attaching'
    <2>1. fresh = conn /\ loop = "resubscribe" BY <1>5 DEF Resubscribe, IInv, Stored
    <2>2. UNCHANGED <<conn, loop, call, remover>> /\ todo' = todo \ {s}
      BY <1>5 DEF Resubscribe, LoopKeeps, subVars
    <2>3. \A q \in Subs : att'[q] = att[q] BY <1>0, <1>5 DEF Resubscribe
    <2>4. \/ att'[Loop] = [sub |-> s, on |-> conn, stage |-> "check"]
          \/ att'[Loop].stage = "none"
      BY <1>0, <1>5, <2>1 DEF Resubscribe, NoAttach
    <2> QED BY <1>0, <2>1, <2>2, <2>3, <2>4 DEF Attaching
  <1>6. ASSUME NEW s \in Subs, Subscribe(s) PROVE Attaching'
    <2>1. remover[s] = "none" BY <1>6 DEF Subscribe, IInv, Channel
    <2>2. conn \in Conns
      BY <1>6, Numbers DEF Subscribe, IInv, Stored
    <2>3. UNCHANGED <<conn, loop, todo, remover>>
      BY <1>6 DEF Subscribe, connVars, loopVars
    <2>4. CASE closed BY <1>0, <1>6, <2>3, <2>4 DEF Subscribe, Attaching
    <2>5. CASE ~closed
      <3>1. \A q \in Attachers \ {s} : att'[q] = att[q] BY <1>0, <1>6, <2>5 DEF Subscribe
      <3>2. \A q \in Subs \ {s} : call'[q] = call[q] BY <1>0, <1>6 DEF Subscribe
      <3>3. att'[s] = [sub |-> s, on |-> conn, stage |-> "register"] /\ call'[s] = "attach"
        BY <1>0, <1>6, <2>5 DEF Subscribe
      <3> QED BY <1>0, <2>1, <2>2, <2>3, <3>1, <3>2, <3>3 DEF Attaching
    <2> QED BY <2>4, <2>5
  <1>7. ASSUME NEW s \in Subs, Register(s) PROVE Attaching'
    BY <1>0, <1>7 DEF Register, To, Attaching, Attach, connVars, loopVars
  <1>8. ASSUME NEW s \in Subs, Undo(s) PROVE Attaching'
    <2>1. UNCHANGED <<conn, loop, todo, remover>>
      BY <1>8 DEF Undo, AttachKeeps, connVars, loopVars
    <2>2. att'[s].stage = "none" BY <1>0, <1>8 DEF Undo, NoAttach
    <2>3. \A q \in Attachers \ {s} : att'[q] = att[q] BY <1>0, <1>8 DEF Undo
    <2>4. \A q \in Subs \ {s} : call'[q] = call[q] BY <1>0, <1>8 DEF Undo
    <2> QED BY <1>0, <2>1, <2>2, <2>3, <2>4 DEF Attaching
  <1>9. ASSUME NEW p \in Attachers, att[p].stage # "none",
               UNCHANGED <<conn, loop, todo, call, remover>>,
               \E r \in {"open", "add"} : To(p, r)
        PROVE  Attaching'
    <2>1. /\ \A q \in Attachers \ {p} : att'[q] = att[q]
          /\ att'[p].sub = att[p].sub /\ att'[p].on = att[p].on
          /\ att'[p].stage \in {"open", "add"}
      BY <1>0, <1>9 DEF To, Attach
    <2> QED BY <1>0, <1>9, <2>1 DEF Attaching
  <1>10. ASSUME NEW p \in Attachers, att[p].stage # "none",
                UNCHANGED <<conn, loop, todo, call, remover>>, AttachFails(p)
         PROVE  Attaching'
    <2>1. /\ \A q \in Attachers \ {p} : att'[q] = att[q]
          /\ p = Loop => att'[p].stage = "none"
          /\ p # Loop => att'[p].sub = att[p].sub /\ att'[p].on = att[p].on
      BY <1>0, <1>10 DEF AttachFails, To, Attach, NoAttach
    <2> QED BY <1>0, <1>10, <2>1 DEF Attaching
  <1>11. ASSUME NEW p \in Attachers, Check(p) \/ Open(p) PROVE Attaching'
    <2>1. /\ att[p].stage # "none" /\ UNCHANGED <<conn, loop, todo, call, remover>>
          /\ To(p, "open") \/ To(p, "add") \/ AttachFails(p)
      BY <1>11 DEF Check, Open, AttachKeeps, connVars, loopVars
    <2> QED BY <1>9, <1>10, <2>1
  <1>12. ASSUME NEW p \in Attachers, Add(p) PROVE Attaching'
    <2>1. UNCHANGED <<conn, loop, todo>> /\ att[p].stage = "add"
      BY <1>12 DEF Add, AttachKeeps, connVars, loopVars
    <2>2. CASE ~Admitted(att[p].sub)
      <3>1. UNCHANGED <<call, remover>> /\ AttachFails(p) BY <1>12, <2>2 DEF Add
      <3> QED BY <1>10, <2>1, <3>1
    <2>3. CASE Admitted(att[p].sub)
      <3>1. /\ att'[p].stage = "none"
            /\ \A q \in Attachers \ {p} : att'[q] = att[q]
        BY <1>0, <1>12, <2>3 DEF Add, NoAttach
      <3>2. \A q \in Subs \ {p} : call'[q] = call[q] /\ remover'[q] = remover[q]
        BY <1>0, <1>12, <2>1, <2>3, AddsForSubs DEF Add
      <3> QED BY <1>0, <2>1, <3>1, <3>2 DEF Attaching
    <2> QED BY <2>2, <2>3
  <1>13. ASSUME NEW s \in Subs, ReadEvent(s) \/ Cancel(s) PROVE Attaching'
    BY <1>1, <1>13 DEF ReadEvent, Cancel, PumpKeeps, connVars, loopVars, subVars
  <1>14. ASSUME NEW s \in Subs, RemoverStep(s) PROVE Attaching'
    <2>1. /\ remover[s] # "none" /\ UNCHANGED <<att, call, todo, conn, loop>>
          /\ \A q \in Subs \ {s} : remover'[q] = remover[q]
      BY <1>0, <1>14 DEF RemoverStep, Remove, RemoverCloses, connVars, loopVars
    <2> QED BY <1>0, <2>1 DEF Attaching
  <1>15. ASSUME NEW s \in Subs, NEW g \in Gens, Receive(s, g) \/ PumpStep(s, g) PROVE Attaching'
    BY <1>1, <1>15
    DEF Receive, PumpStep, PumpEnds, Judge, Forward, PumpKeeps, connVars, loopVars, subVars
  <1> QED
    BY <1>0, <1>2, <1>3, <1>4, <1>5, <1>6, <1>7, <1>8, <1>11, <1>12, <1>13, <1>14, <1>15
    DEF Next, LoopStep, AttachStep, SubscribeStep

(* Channels *)

\* Nothing happens to a channel while no entry is added, no removal goes on and no
\* pump is started for an entry that is gone.
LEMMA ChannelKept ==
  ASSUME IInv, NEW s \in Subs,
         closes'[s] = closes[s], remover'[s] = remover[s], s \in subs' => s \in subs,
         PumpsOf(s)' \subseteq PumpsOf(s) \/ s \in subs,
         call'[s] = "none" \/ att'[s].stage = "register" =>
           call[s] = "none" \/ att[s].stage = "register"
  PROVE  Channel(s)'
  <1>1. Channel(s) BY DEF IInv
  <1> QED BY <1>1 DEF Channel

LEMMA PumpMoved ==
  ASSUME IInv, NEW s \in Subs, NEW g \in Gens, NEW r \in {"wait", "event", "send", "over"},
         pump[s][g].stage \in {"wait", "event", "send"}, PumpTo(s, g, r)
  PROVE  \A q \in Subs : /\ PumpsOf(q)' \subseteq PumpsOf(q)
                         /\ \A h \in Gens : pump'[q][h].on = pump[q][h].on
  <1>1. pump \in [Subs -> [Gens -> Pump]] BY DEF IInv, Types
  <1>2. ASSUME NEW q \in Subs, NEW h \in Gens, q # s \/ h # g PROVE pump'[q][h] = pump[q][h]
    BY <1>1, <1>2 DEF PumpTo
  <1>3. pump'[s][g].on = pump[s][g].on
    <2>1. pump[s] \in [Gens -> Pump] /\ pump[s][g] \in Pump BY <1>1
    <2>2. pump'[s][g] = [pump[s][g] EXCEPT !.stage = r] BY <1>1, <2>1 DEF PumpTo
    <2> QED BY <2>1, <2>2 DEF Pump
  <1> QED BY <1>2, <1>3 DEF PumpsOf

LEMMA PumpStepsMove ==
  ASSUME IInv, NEW s \in Subs, NEW g \in Gens, Receive(s, g) \/ PumpStep(s, g)
  PROVE  /\ UNCHANGED <<connVars, loopVars, subVars, att, closes, closeVars>>
         /\ \A q \in Subs : /\ PumpsOf(q)' \subseteq PumpsOf(q)
                            /\ \A h \in Gens : pump'[q][h].on = pump[q][h].on
  <1>1. PumpKeeps /\ pump[s][g].stage \in {"wait", "event", "send"}
    BY DEF Receive, PumpStep, PumpEnds, Judge, Forward
  <1>2. PICK r \in {"wait", "event", "send", "over"} : PumpTo(s, g, r)
    BY DEF Receive, PumpStep, PumpEnds, Judge, Forward
  <1>3. \A q \in Subs : /\ PumpsOf(q)' \subseteq PumpsOf(q)
                        /\ \A h \in Gens : pump'[q][h].on = pump[q][h].on
    BY <1>1, <1>2, PumpMoved
  <1> QED BY <1>1, <1>3 DEF PumpKeeps

\* What an Add that is admitted does.
Addition(p, s) ==
  /\ ~closed /\ s \in subs /\ s = att[p].sub
  /\ gen'[s] = gen[s] + 1 /\ \A q \in Subs \ {s} : gen'[q] = gen[q]
  /\ \A q \in Subs, g \in Gens :
       pump'[q][g] = IF q = s /\ g = gen[s] + 1
                     THEN [on |-> att[p].on, stage |-> "wait"] ELSE pump[q][g]
  /\ att'[p] = NoAttach /\ \A q \in Attachers \ {p} : att'[q] = att[q]
  /\ p = Loop => UNCHANGED <<call, remover>>
  /\ p # Loop => /\ p = s /\ call'[s] = "returned" /\ remover'[s] = "asleep"
                 /\ \A q \in Subs \ {s} : call'[q] = call[q] /\ remover'[q] = remover[q]
  /\ UNCHANGED <<connVars, loopVars, gone, closes, closeVars, queue, subs>>

LEMMA Added ==
  ASSUME IInv, NEW p \in Attachers, Add(p), Admitted(att[p].sub)
  PROVE  att[p].sub \in Subs /\ Addition(p, att[p].sub)
  <1> DEFINE s == att[p].sub
  <1>4. s \in Subs BY AddsForSubs DEF Add
  <1>0. /\ pump \in [Subs -> [Gens -> Pump]] /\ gen \in [Subs -> Nat] /\ att \in [Attachers -> Attach]
        /\ remover \in [Subs -> {"none", "asleep", "waiting", "over"}]
        /\ call \in [Subs -> {"none", "attach", "returned", "failed"}]
    BY DEF IInv, Types
  <1>1. p # Loop => p = s BY AddsForSubs DEF Add
  <1>2. /\ gen' = [gen EXCEPT ![s] = @ + 1]
        /\ pump' = [pump EXCEPT ![s][gen[s] + 1] = [on |-> att[p].on, stage |-> "wait"]]
        /\ att' = [att EXCEPT ![p] = NoAttach]
        /\ IF p = Loop THEN UNCHANGED <<call, remover>>
           ELSE /\ call' = [call EXCEPT ![s] = "returned"]
                /\ remover' = [remover EXCEPT ![s] = "asleep"]
        /\ UNCHANGED <<connVars, loopVars, gone, closes, closeVars, queue, subs>>
    BY DEF Add, AttachKeeps
  <1> HIDE DEF s
  <1>3. ASSUME NEW q \in Subs, NEW g \in Gens
        PROVE  pump'[q][g] = IF q = s /\ g = gen[s] + 1
                             THEN [on |-> att[p].on, stage |-> "wait"] ELSE pump[q][g]
    BY <1>0, <1>2, <1>4
  <1>5. ~closed /\ s \in subs BY DEF Admitted, s
  <1>6. Addition(p, s) BY <1>0, <1>1, <1>2, <1>3, <1>4, <1>5 DEF Addition, s
  <1> QED BY <1>4, <1>6 DEF s

\* What the steps of attachSub that start no pump do.
LEMMA NotAdded ==
  ASSUME IInv, NEW p \in Attachers,
         Check(p) \/ Open(p) \/ (Add(p) /\ ~Admitted(att[p].sub))
  PROVE  /\ UNCHANGED <<connVars, loopVars, gone, closes, closeVars, queue, subs, call, gen,
                        remover, pump>>
         /\ \A q \in Attachers \ {p} : att'[q] = att[q]
         /\ att[p].stage # "none"
         /\ p # Loop => att'[p].stage \in {"open", "add", "undo"}
         /\ \/ att'[p] = NoAttach
            \/ /\ att'[p].sub = att[p].sub /\ att'[p].on = att[p].on
               /\ att'[p].stage \in {"open", "add", "undo"}
         /\ att'[p].stage = "add" => Open(p) /\ att[p].on \in up
         /\ p = Loop /\ att'[p] = NoAttach =>
              att[p].sub \notin subs \/ att[p].on \notin up \/ att[p].sub \in gone \/ closed
  <1>0. att \in [Attachers -> Attach] BY DEF IInv, Types
  <1>1. /\ UNCHANGED <<connVars, loopVars, gone, closes, closeVars, queue, subs, call, gen,
                       remover, pump>>
        /\ att[p].stage \in {"check", "open", "add"}
    BY DEF Check, Open, Add, AttachKeeps
  <1>2. \/ To(p, "open") /\ Check(p)
        \/ To(p, "add") /\ Open(p) /\ att[p].on \in up
        \/ /\ AttachFails(p)
           /\ att[p].sub \notin subs \/ att[p].on \notin up \/ att[p].sub \in gone \/ closed
    BY DEF Check, Open, Add, Admitted
  <1>3. ASSUME NEW r \in {"open", "add", "undo"}, To(p, r)
        PROVE  /\ \A q \in Attachers \ {p} : att'[q] = att[q]
               /\ att'[p].sub = att[p].sub /\ att'[p].on = att[p].on /\ att'[p].stage = r
    BY <1>0, <1>3 DEF To, Attach
  <1>4. CASE To(p, "open") /\ Check(p)
    BY <1>1, <1>3, <1>4 DEF NoAttach
  <1>5. CASE To(p, "add") /\ Open(p) /\ att[p].on \in up
    BY <1>1, <1>3, <1>5 DEF NoAttach
  <1>6. CASE /\ AttachFails(p)
             /\ att[p].sub \notin subs \/ att[p].on \notin up \/ att[p].sub \in gone \/ closed
    <2>1. CASE p = Loop
      <3>1. att'[p] = NoAttach /\ \A q \in Attachers \ {p} : att'[q] = att[q]
        BY <1>0, <1>6, <2>1 DEF AttachFails
      <3> QED BY <1>1, <1>6, <2>1, <3>1 DEF NoAttach
    <2>2. CASE p # Loop
      <3>1. To(p, "undo") BY <1>6, <2>2 DEF AttachFails
      <3> QED BY <1>1, <1>3, <2>2, <3>1
    <2> QED BY <2>1, <2>2
  <1> QED BY <1>2, <1>4, <1>5, <1>6

\* The steps of Connect, the loop and Close that leave subscriptions alone.
LEMMA SubsKept ==
  ASSUME IInv,
         \/ ConnectDials \/ ConnectStores \/ (\E c \in Conns : LoseConn(c))
         \/ Watch \/ Retry \/ Redial \/ Swap \/ ListSubs \/ Resubscribed
         \/ (\E s \in Subs : Resubscribe(s)) \/ CloseBegins \/ CloseDrops
  PROVE  /\ UNCHANGED <<subVars, pumpVars, closes>>
         /\ \A s \in Subs : att'[s] = att[s]
         /\ (\E s \in Subs : Resubscribe(s)) \/ att' = att
  <1>1. ASSUME NEW s \in Subs, Resubscribe(s)
        PROVE  /\ UNCHANGED <<subVars, pumpVars, closes>> /\ \A q \in Subs : att'[q] = att[q]
    <2>1. att \in [Attachers -> Attach] BY DEF IInv, Types
    <2> QED BY <1>1, <2>1, Numbers DEF Resubscribe, LoopKeeps
  <1>2. CASE ConnectDials \/ ConnectStores \/ (\E c \in Conns : LoseConn(c))
             \/ CloseBegins \/ CloseDrops
    BY <1>2 DEF ConnectDials, ConnectStores, LoseConn, CloseBegins, CloseDrops
  <1>3. CASE Watch \/ Retry \/ Redial \/ Swap \/ ListSubs \/ Resubscribed
    BY <1>3 DEF Watch, Retry, Redial, Swap, ListSubs, Resubscribed, LoopKeeps
  <1> QED BY <1>1, <1>2, <1>3

\* An entry is taken out before its channel is closed, and none is added again.
LEMMA ChannelStep ==
  ASSUME IInv, Next, NEW s \in Subs
  PROVE  Channel(s)'
  <1>0. /\ Channel(s) /\ closes \in [Subs -> Nat] /\ att \in [Attachers -> Attach]
        /\ remover \in [Subs -> {"none", "asleep", "waiting", "over"}]
        /\ call \in [Subs -> {"none", "attach", "returned", "failed"}]
        /\ s \in Attachers /\ s # Loop /\ Loop \in Attachers
    BY Numbers DEF IInv, Types
  <1>1. CASE \/ ConnectDials \/ ConnectStores \/ (\E c \in Conns : LoseConn(c))
             \/ Watch \/ Retry \/ Redial \/ Swap \/ ListSubs \/ Resubscribed
             \/ (\E q \in Subs : Resubscribe(q)) \/ CloseBegins \/ CloseDrops
    BY <1>1, SubsKept, ChannelKept DEF subVars, pumpVars, PumpsOf
  <1>2. ASSUME NEW q \in Subs, Subscribe(q) PROVE Channel(s)'
    <2>1. /\ UNCHANGED <<subs, remover, pump, closes>>
          /\ q = s => call[s] = "none"
          /\ q # s => call'[s] = call[s] /\ att'[s] = att[s]
      BY <1>0, <1>2 DEF Subscribe, pumpVars
    <2> QED BY <2>1, ChannelKept DEF PumpsOf
  <1>3. ASSUME NEW q \in Subs, Register(q) PROVE Channel(s)'
    <2>1. /\ UNCHANGED <<remover, pump, closes, call>> /\ subs' = subs \cup {q}
          /\ att[q].stage = "register"
          /\ q = s => att'[s].stage = "check"
          /\ q # s => att'[s] = att[s]
      BY <1>0, <1>3 DEF Register, To, Attach, pumpVars
    <2>2. CASE q # s BY <2>1, <2>2, ChannelKept DEF PumpsOf
    <2>3. CASE q = s
      <3>1. call[s] = "attach" BY <2>1, <2>3 DEF IInv, Attaching
      <3> QED BY <1>0, <2>1, <2>3, <3>1 DEF Channel
    <2> QED BY <2>2, <2>3
  <1>4. ASSUME NEW q \in Subs, Undo(q) PROVE Channel(s)'
    <2>1. /\ UNCHANGED <<remover, pump, closes>> /\ subs' \subseteq subs
          /\ q = s => call'[s] = "failed" /\ att'[s].stage = "none"
          /\ q # s => call'[s] = call[s] /\ att'[s] = att[s]
      BY <1>0, <1>4 DEF Undo, NoAttach, AttachKeeps
    <2> QED BY <2>1, ChannelKept DEF PumpsOf
  <1>5. ASSUME NEW p \in Attachers, Check(p) \/ Open(p) \/ (Add(p) /\ ~Admitted(att[p].sub))
        PROVE  Channel(s)'
    <2>1. UNCHANGED <<subs, remover, pump, closes, call>> BY <1>5, NotAdded
    <2>2. att'[s] = att[s] \/ (p = s /\ att'[s].stage # "register")
      BY <1>0, <1>5, NotAdded
    <2> QED BY <2>1, <2>2, ChannelKept DEF PumpsOf
  <1>6. ASSUME NEW p \in Attachers, Add(p), Admitted(att[p].sub) PROVE Channel(s)'
    <2>1. PICK q \in Subs : Addition(p, q) BY <1>6, Added
    <2>2. CASE q # s
      <3>1. /\ remover'[s] = remover[s] /\ closes' = closes /\ subs' = subs
            /\ call'[s] = call[s]
        BY <2>1, <2>2 DEF Addition
      <3>2. att'[s] = att[s] BY <1>0, <2>1, <2>2 DEF Addition
      <3>3. \A g \in Gens : pump'[s][g] = pump[s][g] BY <2>1, <2>2 DEF Addition
      <3> QED BY <3>1, <3>2, <3>3, ChannelKept DEF PumpsOf
    <2>3. CASE q = s
      <3>1. /\ s \in subs /\ closes' = closes /\ subs' = subs
            /\ remover'[s] = remover[s] \/ remover'[s] = "asleep"
            /\ call'[s] = call[s] \/ call'[s] = "returned"
        BY <2>1, <2>3 DEF Addition
      <3>2. att'[s] = att[s] \/ att'[s].stage = "none"
        BY <1>0, <2>1, <2>3 DEF Addition, NoAttach
      <3> QED BY <1>0, <3>1, <3>2 DEF Channel
    <2> QED BY <2>2, <2>3
  <1>7. ASSUME NEW q \in Subs, ReadEvent(q) \/ Cancel(q) PROVE Channel(s)'
    BY <1>7, ChannelKept DEF ReadEvent, Cancel, PumpKeeps, subVars, pumpVars, PumpsOf
  <1>8. ASSUME NEW q \in Subs, NEW g \in Gens, Receive(q, g) \/ PumpStep(q, g) PROVE Channel(s)'
    BY <1>8, PumpStepsMove, ChannelKept DEF subVars
  <1>9. ASSUME NEW q \in Subs, Remove(q) PROVE Channel(s)'
    <2>1. /\ UNCHANGED <<closes, pump, call, att>> /\ subs' = subs \ {q}
          /\ q # s => remover'[s] = remover[s]
          /\ q = s => remover[s] = "asleep"
          /\ q = s => (remover'[s] = "waiting" /\ s \in subs) \/ remover'[s] = "over"
      BY <1>0, <1>9 DEF Remove, pumpVars
    <2>2. CASE q # s BY <2>1, <2>2, ChannelKept DEF PumpsOf
    <2>3. CASE q = s BY <1>0, <2>1, <2>3 DEF Channel, PumpsOf
    <2> QED BY <2>2, <2>3
  <1>10. ASSUME NEW q \in Subs, RemoverCloses(q) PROVE Channel(s)'
    <2>1. /\ UNCHANGED <<subs, pump, call, att>>
          /\ q # s => remover'[s] = remover[s] /\ closes'[s] = closes[s]
          /\ q = s => /\ remover[s] = "waiting" /\ remover'[s] = "over"
                      /\ closes'[s] = closes[s] + 1 /\ PumpsOf(s) = {}
      BY <1>0, <1>10 DEF RemoverCloses, PumpsAreOver, pumpVars
    <2>2. CASE q # s BY <2>1, <2>2, ChannelKept DEF PumpsOf
    <2>3. CASE q = s BY <1>0, <2>1, <2>3 DEF Channel, PumpsOf
    <2> QED BY <2>2, <2>3
  <1>11. CASE CloseSweeps
    <2>1. /\ UNCHANGED <<remover, pump, call, att>> /\ subs' = {} /\ PumpsOf(s) = {}
          /\ closes'[s] = IF s \in subs THEN closes[s] + 1 ELSE closes[s]
      BY <1>0, <1>11 DEF CloseSweeps, Swept, AllPumpsAreOver, pumpVars
    <2> QED BY <1>0, <2>1 DEF Channel, PumpsOf
  <1> QED
    BY <1>1, <1>2, <1>3, <1>4, <1>5, <1>6, <1>7, <1>8, <1>9, <1>10, <1>11, Numbers
    DEF Next, LoopStep, AttachStep, SubscribeStep, RemoverStep, CloseStep

(* Generations *)

LEMMA CountedKept ==
  ASSUME IInv, NEW s \in Subs,
         gen'[s] = gen[s], connector' = connector, dialed' = dialed,
         Own(s)' <= Own(s), Again(s)' <= Again(s),
         \A g \in Gens : pump'[s][g].on = pump[s][g].on
  PROVE  Counted(s)'
  <1>1. /\ Counted(s) /\ gen[s] \in Nat /\ dialed \in Nat
        /\ Own(s) \in {0, 1} /\ Again(s) \in {0, 1} /\ Own(s)' \in {0, 1} /\ Again(s)' \in {0, 1}
    BY Numbers DEF IInv, Types, Own, Again
  <1>2. gen[s] + Own(s) + Again(s) <= dialed => gen[s] + Own(s)' + Again(s)' <= dialed
    BY <1>1
  <1> QED BY <1>1, <1>2 DEF Counted

\* Each connection brings at most one attachment to a subscription: the first by
\* Subscribe, the others by the loop.
LEMMA CountedStep ==
  ASSUME IInv, Next, NEW s \in Subs
  PROVE  Counted(s)'
  <1>0. /\ Counted(s) /\ gen \in [Subs -> Nat] /\ att \in [Attachers -> Attach]
        /\ call \in [Subs -> {"none", "attach", "returned", "failed"}]
        /\ s \in Attachers /\ s # Loop /\ Loop \in Attachers /\ dialed \in Nat /\ Gens = 1..MaxConns
        /\ connector \in {"idle", "dialed", "done"} /\ MaxConns \in Nat
    BY Numbers DEF IInv, Types
  <1>1. CASE ConnectDials
    BY <1>0, <1>1 DEF ConnectDials, Counted, subVars, pumpVars
  <1>2. CASE ConnectStores
    <2>1. dialed = 1 /\ loop' = "watch" /\ connector' = "done" BY <1>2 DEF ConnectStores, IInv, Stored
    <2>2. gen[s] = 0 BY <1>0, <1>2 DEF ConnectStores, Counted
    <2>3. UNCHANGED <<gen, pump, dialed>> BY <1>2 DEF ConnectStores, subVars, pumpVars
    <2>4. Own(s)' \in {0, 1} /\ Again(s)' = 0 BY <2>1 DEF Own, Again
    <2> QED BY <1>0, <2>1, <2>2, <2>3, <2>4 DEF Counted
  <1>3. CASE (\E c \in Conns : LoseConn(c)) \/ CloseBegins \/ CloseStep
    <2>1. UNCHANGED <<gen, pump, dialed, connector, call, att, loop, todo>>
      BY <1>3
      DEF LoseConn, CloseBegins, CloseStep, CloseDrops, CloseSweeps, connVars, loopVars,
          subVars, pumpVars
    <2> QED BY <1>0, <2>1 DEF Counted, Own, Again
  <1>4. CASE Watch \/ Retry \/ Swap \/ ListSubs \/ Resubscribed \/ (Redial /\ loop' # "swap")
    <2>1. /\ UNCHANGED <<gen, pump, connector, call, att>>
          /\ dialed' = dialed
          /\ \/ loop' \in {"over", "retry", "dial", "watch"}
             \/ loop = "swap" /\ loop' = "list"
             \/ loop = "list" /\ loop' = "resubscribe"
      BY <1>4
      DEF Watch, Retry, Swap, ListSubs, Resubscribed, Redial, LoopKeeps, subVars, pumpVars
    <2>2. Own(s)' = Own(s) BY <2>1 DEF Own
    <2>3. Again(s)' = 0 \/ Again(s) = 1 BY <2>1 DEF Again
    <2>4. Own(s) \in {0, 1} /\ Again(s) \in {0, 1} /\ Again(s)' \in {0, 1} BY DEF Own, Again
    <2> QED BY <2>1, <2>2, <2>3, <2>4, CountedKept
  <1>5. CASE Redial /\ loop' = "swap"
    <2>1. /\ UNCHANGED <<gen, pump, connector, call, att>> /\ dialed' = dialed + 1
          /\ loop = "dial"
      BY <1>5 DEF Redial, Dial, LoopKeeps, subVars, pumpVars
    <2>2. Own(s)' = Own(s) /\ Own(s) \in {0, 1} BY <2>1 DEF Own
    <2>3. Again(s)' \in {0, 1} /\ Again(s) = 0 BY <2>1 DEF Again
    <2> QED BY <1>0, <2>1, <2>2, <2>3 DEF Counted
  <1>6. ASSUME NEW q \in Subs, Resubscribe(q) PROVE Counted(s)'
    <2>1. /\ UNCHANGED <<gen, pump, dialed, connector, call, loop>> /\ todo' = todo \ {q}
          /\ loop = "resubscribe" /\ q \in todo
          /\ att[Loop].stage = "none"
          /\ att'[s] = att[s]
          /\ att'[Loop].stage = "none" \/ att'[Loop].sub = q
      BY <1>0, <1>6 DEF Resubscribe, NoAttach, LoopKeeps, subVars, pumpVars
    <2>2. Own(s)' = Own(s) BY <2>1 DEF Own
    <2>3. Again(s)' = 0 \/ Again(s) = 1 BY <2>1 DEF Again
    <2>4. Own(s) \in {0, 1} /\ Again(s) \in {0, 1} /\ Again(s)' \in {0, 1} BY DEF Own, Again
    <2> QED BY <2>1, <2>2, <2>3, <2>4, CountedKept
  <1>7. ASSUME UNCHANGED <<gen, dialed, connector, loop, todo>>,
               \A g \in Gens : pump'[s][g].on = pump[s][g].on,
               att'[Loop] = att[Loop] \/ att'[Loop].stage = "none" \/ att'[Loop].sub = att[Loop].sub,
               att[Loop].stage = "none" => att'[Loop].stage = "none",
               call'[s] = "none" \/ att'[s].stage # "none" => call[s] = "none" \/ att[s].stage # "none"
        PROVE  Counted(s)'
    <2>1. Own(s)' = 0 \/ Own(s) = 1 BY <1>7 DEF Own
    <2>2. Again(s)' = 0 \/ Again(s) = 1 BY <1>7 DEF Again
    <2>3. /\ Own(s) \in {0, 1} /\ Again(s) \in {0, 1}
          /\ Own(s)' \in {0, 1} /\ Again(s)' \in {0, 1}
      BY DEF Own, Again
    <2> QED BY <1>7, <2>1, <2>2, <2>3, CountedKept
  <1>8. ASSUME NEW q \in Subs, Subscribe(q) \/ Register(q) \/ Undo(q) PROVE Counted(s)'
    <2>1. /\ UNCHANGED <<gen, pump, dialed, connector, loop, todo>>
          /\ att'[Loop] = att[Loop]
      BY <1>0, <1>8, Numbers
      DEF Subscribe, Register, Undo, To, AttachKeeps, connVars, loopVars, pumpVars
    <2>2. \/ att'[s] = att[s] /\ call'[s] = call[s]
          \/ call[s] = "none" \/ att[s].stage # "none"
      BY <1>0, <1>8 DEF Subscribe, Register, Undo, To
    <2> QED BY <1>7, <2>1, <2>2
  <1>9. ASSUME NEW p \in Attachers, Check(p) \/ Open(p) \/ (Add(p) /\ ~Admitted(att[p].sub))
        PROVE  Counted(s)'
    <2>1. /\ UNCHANGED <<gen, pump, call, dialed, connector, loop, todo>>
          /\ att'[s] = att[s] \/ att[s].stage # "none"
          /\ att'[Loop] = att[Loop] \/ (att[Loop].stage # "none" /\
               (att'[Loop] = NoAttach \/ att'[Loop].sub = att[Loop].sub))
      BY <1>0, <1>9, NotAdded DEF connVars, loopVars
    <2> QED BY <1>7, <2>1 DEF NoAttach
  <1>10. ASSUME NEW p \in Attachers, Add(p), Admitted(att[p].sub) PROVE Counted(s)'
    <2>1. PICK q \in Subs : Addition(p, q) BY <1>10, Added
    <2>2. UNCHANGED <<dialed, connector, loop, todo>>
      BY <2>1 DEF Addition, connVars, loopVars
    <2>3. CASE q # s
      <3>1. gen'[s] = gen[s] /\ call'[s] = call[s] /\ att'[s] = att[s]
        BY <1>0, <2>1, <2>3 DEF Addition
      <3>2. \A g \in Gens : pump'[s][g] = pump[s][g] BY <2>1, <2>3 DEF Addition
      <3>3. att'[Loop] = att[Loop] \/ att'[Loop].stage = "none"
        BY <1>0, <2>1 DEF Addition, NoAttach
      <3>4. Own(s)' = Own(s) BY <3>1 DEF Own
      <3>5. Again(s)' = 0 \/ Again(s) = 1 BY <2>2, <3>3 DEF Again
      <3>6. Own(s) \in {0, 1} /\ Again(s) \in {0, 1} /\ Again(s)' \in {0, 1} BY DEF Own, Again
      <3> QED BY <2>2, <3>1, <3>2, <3>4, <3>5, <3>6, CountedKept
    <2>4. CASE q = s
      <3>1. gen'[s] = gen[s] + 1 /\ att[p].sub = s /\ att[p].stage = "add" /\ connector = "done"
        BY <1>10, <2>1, <2>4, AddsForSubs DEF Addition, Add
      <3>2. \A g \in Gens : g > gen'[s] => pump'[s][g].on = None
        BY <1>0, <2>1, <2>4, <3>1 DEF Addition, Counted
      <3>3. Own(s)' + Again(s)' + 1 <= Own(s) + Again(s)
        <4>1. CASE p = Loop
          <5>1. /\ att'[Loop].stage = "none" /\ loop = "resubscribe" /\ s \notin todo
                /\ call' = call /\ att'[s] = att[s]
            BY <1>0, <2>1, <2>4, <3>1, <4>1 DEF Addition, NoAttach, IInv, Attaching
          <5>2. Again(s) = 1 /\ Again(s)' = 0 BY <2>2, <3>1, <4>1, <5>1 DEF Again
          <5>3. Own(s)' = Own(s) /\ Own(s) \in {0, 1} BY <5>1 DEF Own
          <5> QED BY <5>2, <5>3
        <4>2. CASE p # Loop
          <5>1. /\ p = s /\ att'[s].stage = "none" /\ call'[s] = "returned"
                /\ att'[Loop] = att[Loop]
            BY <1>0, <2>1, <2>4, <4>2 DEF Addition, NoAttach
          <5>2. Own(s) = 1 /\ Own(s)' = 0 BY <3>1, <5>1 DEF Own
          <5>3. Again(s)' = Again(s) /\ Again(s) \in {0, 1} BY <2>2, <5>1 DEF Again
          <5> QED BY <5>2, <5>3
        <4> QED BY <4>1, <4>2
      <3>4. /\ Own(s) \in {0, 1} /\ Again(s) \in {0, 1}
            /\ Own(s)' \in {0, 1} /\ Again(s)' \in {0, 1}
        BY DEF Own, Again
      <3>5. gen[s] + Own(s) + Again(s) <= dialed /\ gen[s] \in Nat
        BY <1>0, <3>1 DEF Counted
      <3>6. gen'[s] + Own(s)' + Again(s)' <= dialed BY <1>0, <3>1, <3>3, <3>4, <3>5
      <3> QED BY <2>2, <3>1, <3>2, <3>6 DEF Counted
    <2> QED BY <2>3, <2>4
  <1>11. ASSUME NEW q \in Subs, ReadEvent(q) \/ Cancel(q) \/ RemoverStep(q) PROVE Counted(s)'
    BY <1>0, <1>7, <1>11
    DEF ReadEvent, Cancel, RemoverStep, Remove, RemoverCloses, PumpKeeps, connVars, loopVars,
        subVars, pumpVars
  <1>12. ASSUME NEW q \in Subs, NEW g \in Gens, Receive(q, g) \/ PumpStep(q, g) PROVE Counted(s)'
    BY <1>7, <1>12, PumpStepsMove DEF connVars, loopVars, subVars
  <1> QED
    BY <1>1, <1>2, <1>3, <1>4, <1>5, <1>6, <1>8, <1>9, <1>10, <1>11, <1>12, Numbers
    DEF Next, LoopStep, AttachStep, SubscribeStep

(* Attachment to the current connection *)

LEMMA AttachedKept ==
  ASSUME IInv, NEW s \in Subs,
         UNCHANGED <<conn, loop, todo>>, att'[Loop] = att[Loop], att'[s] = att[s],
         call'[s] = call[s], closed => closed', up' \subseteq up, subs' \subseteq subs,
         gone \subseteq gone', \A g \in Gens : pump'[s][g].on = pump[s][g].on
  PROVE  Attached(s)'
  <1>1. Attached(s) BY DEF IInv
  <1>2. Covered(s) => Covered(s)' BY DEF Covered
  <1> QED BY <1>1, <1>2 DEF Attached

\* An entry that Subscribe registered before resubscribeAll listed it is attached by
\* the loop; one that it registered later can only be opened on the new connection.
LEMMA AttachedStep ==
  ASSUME IInv, Next, NEW s \in Subs
  PROVE  Attached(s)'
  <1>0. /\ Attached(s) /\ Counted(s) /\ Attaching /\ att \in [Attachers -> Attach]
        /\ call \in [Subs -> {"none", "attach", "returned", "failed"}]
        /\ s \in Attachers /\ s # Loop /\ Loop \in Attachers /\ dialed \in Nat /\ Gens = 1..MaxConns
        /\ MaxConns \in Nat /\ dialed <= MaxConns /\ None \notin Conns /\ up \subseteq Conns
        /\ gen[s] \in Nat
    BY Numbers DEF IInv, Types
  <1>1. CASE ConnectDials \/ ConnectStores
    <2>1. call[s] = "none" BY <1>1 DEF ConnectDials, ConnectStores, IInv, Stored
    <2>2. call'[s] = call[s] /\ att' = att BY <1>1 DEF ConnectDials, ConnectStores, subVars
    <2> QED BY <1>0, <2>1, <2>2 DEF Attached, Attaching
  <1>2. CASE \E c \in Conns : LoseConn(c)
    BY <1>2, AttachedKept DEF LoseConn, loopVars, subVars, pumpVars
  <1>3. CASE Watch \/ Retry \/ Redial \/ Swap
    <2>1. closed' \/ loop' \in {"retry", "dial", "swap", "list"}
      BY <1>3 DEF Watch, Retry, Redial, Swap, LoopKeeps
    <2> QED BY <2>1 DEF Attached, Covered
  <1>4. CASE ListSubs
    <2>1. loop' = "resubscribe" /\ todo' = subs /\ subs' = subs
      BY <1>4 DEF ListSubs, Listing, LoopKeeps, subVars
    <2> QED BY <2>1 DEF Attached, Covered
  <1>5. CASE Resubscribed
    <2>1. /\ UNCHANGED <<conn, closed, up, subs, gone, call, att, pump>> /\ loop = "resubscribe"
          /\ att[Loop].stage = "none" /\ todo = {}
      BY <1>5 DEF Resubscribed, NoAttach, LoopKeeps, subVars, pumpVars
    <2> QED BY <1>0, <2>1 DEF Attached, Covered
  <1>6. ASSUME NEW q \in Subs, Resubscribe(q) PROVE Attached(s)'
    <2>1. /\ UNCHANGED <<conn, closed, up, subs, gone, call, pump, loop>> /\ loop = "resubscribe"
          /\ att[Loop].stage = "none" /\ todo' = todo \ {q} /\ att'[s] = att[s]
      BY <1>0, <1>6 DEF Resubscribe, NoAttach, LoopKeeps, subVars, pumpVars
    <2>2. CASE q # s BY <1>0, <2>1, <2>2 DEF Attached, Covered
    <2>3. CASE q = s
      <3>1. s \in gone \/ (att'[Loop].stage = "check" /\ att'[Loop].sub = s)
        BY <1>0, <1>6, <2>3 DEF Resubscribe
      <3> QED BY <2>1, <3>1 DEF Attached, Covered
    <2> QED BY <2>2, <2>3
  <1>7. ASSUME NEW q \in Subs, Subscribe(q) \/ Register(q) \/ Undo(q) PROVE Attached(s)'
    <2>1. /\ UNCHANGED <<conn, closed, up, loop, todo, gone, pump>>
          /\ att'[Loop] = att[Loop]
          /\ subs' \subseteq subs \cup {q}
          /\ q # s => att'[s] = att[s] /\ call'[s] = call[s]
      BY <1>0, <1>7, Numbers
      DEF Subscribe, Register, Undo, To, AttachKeeps, connVars, loopVars, pumpVars
    <2>2. CASE q # s BY <1>0, <2>1, <2>2 DEF Attached, Covered
    <2>3. CASE q = s
      <3>1. CASE Subscribe(s)
        <4>1. att[s].stage # "add" BY <1>0, <3>1 DEF Subscribe, Attaching
        <4>2. call'[s] # "returned" /\ att'[s].stage # "add"
          BY <1>0, <3>1, <4>1 DEF Subscribe
        <4> QED BY <4>2 DEF Attached
      <3>2. CASE Register(s)
        <4>1. call[s] = "attach" BY <1>0, <3>2 DEF Register, Attaching
        <4>2. call'[s] = "attach" /\ att'[s].stage = "check"
          BY <1>0, <3>2, <4>1 DEF Register, To, Attach
        <4> QED BY <4>2 DEF Attached
      <3>3. CASE Undo(s)
        <4>1. call'[s] = "failed" /\ att'[s].stage = "none" BY <1>0, <3>3 DEF Undo, NoAttach
        <4> QED BY <4>1 DEF Attached
      <3> QED BY <1>7, <2>3, <3>1, <3>2, <3>3
    <2> QED BY <2>2, <2>3
  <1>8. ASSUME NEW p \in Attachers, Check(p) \/ Open(p) \/ (Add(p) /\ ~Admitted(att[p].sub))
        PROVE  Attached(s)'
    <2>1. UNCHANGED <<conn, closed, up, loop, todo, subs, gone, call, pump>>
      BY <1>8, NotAdded DEF connVars, loopVars
    <2>2. CASE p \notin {s, Loop}
      <3>1. att'[Loop] = att[Loop] /\ att'[s] = att[s] BY <1>0, <1>8, <2>2, NotAdded
      <3> QED BY <2>1, <3>1, AttachedKept
    <2>3. CASE p = Loop
      <3>1. att'[s] = att[s] BY <1>0, <1>8, <2>3, NotAdded
      <3>2. att[Loop].on = conn BY <1>0, <1>8, <2>3, NotAdded DEF Attaching
      <3>3. \/ att'[Loop].stage # "none" /\ att'[Loop].sub = att[Loop].sub
            \/ att[Loop].sub \notin subs \/ conn \notin up \/ att[Loop].sub \in gone \/ closed
        BY <1>8, <2>3, <3>2, NotAdded
      <3> QED BY <1>0, <2>1, <3>1, <3>3 DEF Attached, Covered
    <2>4. CASE p = s
      <3>1. att'[Loop] = att[Loop] /\ att[s].stage # "none" BY <1>0, <1>8, <2>4, NotAdded
      <3>2. call[s] = "attach" BY <1>0, <3>1 DEF Attaching
      <3>3. CASE att'[s].stage # "add" BY <2>1, <3>2, <3>3 DEF Attached
      <3>4. CASE att'[s].stage = "add"
        <4>1. Open(s) /\ att[s].on \in up /\ att'[s].on = att[s].on
          BY <1>8, <2>4, <3>4, NotAdded DEF NoAttach
        <4>2. connector = "done" BY <4>1, <1>0, AddsForSubs DEF Open
        <4>3. att[s].on = conn \/ loop = "swap" BY <4>1, <4>2 DEF IInv, Stored
        <4> QED BY <2>1, <3>4, <4>1, <4>3 DEF Attached, Covered
      <3> QED BY <3>3, <3>4
    <2> QED BY <2>2, <2>3, <2>4
  <1>9. ASSUME NEW p \in Attachers, Add(p), Admitted(att[p].sub) PROVE Attached(s)'
    <2>1. PICK q \in Subs : Addition(p, q) BY <1>9, Added
    <2>2. UNCHANGED <<conn, closed, up, loop, todo, subs, gone>>
      BY <2>1 DEF Addition, connVars, loopVars
    <2>3. CASE q # s
      <3>1. att'[s] = att[s] /\ call'[s] = call[s] BY <1>0, <2>1, <2>3 DEF Addition
      <3>2. att'[Loop] = att[Loop] \/ att[Loop].sub # s BY <1>0, <2>1, <2>3 DEF Addition
      <3>3. \A g \in Gens : pump'[s][g] = pump[s][g] BY <2>1, <2>3 DEF Addition
      <3> QED BY <1>0, <2>2, <3>1, <3>2, <3>3 DEF Attached, Covered
    <2>4. CASE q = s
      <3>1. /\ att[p].sub = s /\ att[p].stage = "add" /\ connector = "done"
            /\ p = Loop => att[p].on = conn /\ loop = "resubscribe"
            /\ p # Loop => p = s
        BY <1>9, <2>1, <2>4, AddsForSubs DEF Addition, Add
      <3>2. Own(s) + Again(s) >= 1
        <4>1. Own(s) = 1 \/ Again(s) = 1 BY <3>1 DEF Own, Again
        <4>2. Own(s) \in {0, 1} /\ Again(s) \in {0, 1} BY DEF Own, Again
        <4> QED BY <4>1, <4>2
      <3>3. gen[s] + 1 \in Gens
        <4>1. Own(s) \in Nat /\ Again(s) \in Nat BY DEF Own, Again
        <4>2. gen[s] + Own(s) + Again(s) <= dialed BY <1>0, <3>1 DEF Counted
        <4> QED BY <1>0, <3>2, <4>1, <4>2
      <3>4. /\ pump'[s][gen[s] + 1].on = att[p].on
            /\ \A g \in Gens : g = gen[s] + 1 \/ pump'[s][g] = pump[s][g]
        BY <2>1, <2>4, <3>3 DEF Addition
      <3>5. CASE att[p].on = conn
        <4>1. pump'[s][gen[s] + 1].on = conn' BY <2>2, <3>4, <3>5
        <4> QED BY <3>3, <4>1 DEF Attached, Covered
      <3>6. CASE att[p].on # conn
        <4>1. p = s /\ p # Loop BY <1>0, <3>1, <3>6
        <4>2. att'[Loop] = att[Loop] BY <1>0, <2>1, <4>1 DEF Addition
        <4>3. pump[s][gen[s] + 1].on = None BY <1>0, <3>3 DEF Counted
        <4>4. ASSUME conn \in up, s \notin gone, Covered(s) PROVE Covered(s)'
          <5>1. conn # None BY <1>0, <4>4
          <5>2. (\E g \in Gens : pump[s][g].on = conn) => \E g \in Gens : pump'[s][g].on = conn'
            BY <2>2, <3>4, <4>3, <5>1
          <5> QED BY <2>2, <3>6, <4>1, <4>2, <4>4, <5>2 DEF Covered
        <4> QED BY <1>0, <2>1, <2>2, <2>4, <3>1, <4>1, <4>4 DEF Attached, Addition
      <3> QED BY <3>5, <3>6
    <2> QED BY <2>3, <2>4
  <1>10. ASSUME NEW q \in Subs, ReadEvent(q) \/ Cancel(q) \/ RemoverStep(q) PROVE Attached(s)'
    <2>1. /\ UNCHANGED <<conn, closed, up, loop, todo, call, att, pump>>
          /\ subs' \subseteq subs /\ gone \subseteq gone'
      BY <1>10
      DEF ReadEvent, Cancel, RemoverStep, Remove, RemoverCloses, PumpKeeps, connVars, loopVars,
          subVars, pumpVars
    <2> QED BY <2>1, AttachedKept
  <1>11. ASSUME NEW q \in Subs, NEW g \in Gens, Receive(q, g) \/ PumpStep(q, g) PROVE Attached(s)'
    BY <1>11, PumpStepsMove, AttachedKept DEF connVars, loopVars, subVars
  <1>12. CASE CloseBegins \/ CloseStep
    <2>1. closed' BY <1>12 DEF CloseBegins, CloseStep, CloseDrops, CloseSweeps, IInv, Ending, connVars
    <2> QED BY <2>1 DEF Attached
  <1> QED
    BY <1>1, <1>2, <1>3, <1>4, <1>5, <1>6, <1>7, <1>8, <1>9, <1>10, <1>11, <1>12, Numbers
    DEF Next, LoopStep, AttachStep, SubscribeStep

-----------------------------------------------------------------------------

LEMMA Invariance == Spec => []IInv
  <1>1. IInv /\ Next => IInv'
    BY TypesStep, StoredStep, EndingStep, AttachingStep, ChannelStep, CountedStep, AttachedStep
    DEF IInv
  <1>2. IInv /\ UNCHANGED vars => IInv'
    <2> SUFFICES ASSUME IInv, UNCHANGED vars PROVE IInv' OBVIOUS
    <2>1. UNCHANGED <<up, dialed, conn, closed, connector, loop, fresh, todo, subs, call, gen,
                      gone, remover, att, pump, queue, closes, closer, closing>>
      BY DEF vars, connVars, loopVars, subVars, pumpVars, closeVars
    <2>2. Types' /\ Stored' /\ Ending' /\ Attaching'
      BY <2>1 DEF IInv, Types, Stored, Ending, Attaching
    <2>3. ASSUME NEW s \in Subs PROVE Channel(s)' /\ Counted(s)' /\ Attached(s)'
      BY <2>1 DEF IInv, Channel, PumpsOf, Counted, Own, Again, Attached, Covered
    <2> QED BY <2>2, <2>3 DEF IInv
  <1> QED BY <1>1, <1>2, InitInv, PTL DEF Spec

\* Every variable keeps its type: MaxConns generations are enough for MaxConns
\* connections, and a channel is not closed twice.
THEOREM TypesAreRespected == Spec => []TypeOK
  <1>1. IInv => TypeOK
    <2> SUFFICES ASSUME IInv PROVE TypeOK OBVIOUS
    <2>1. ASSUME NEW s \in Subs PROVE gen[s] \in 0..MaxConns /\ closes[s] \in 0..2
      <3>1. Counted(s) /\ Channel(s) /\ gen[s] \in Nat /\ closes[s] \in Nat BY DEF IInv, Types
      <3>2. Own(s) \in Nat /\ Again(s) \in Nat BY DEF Own, Again
      <3>3. gen[s] = 0 \/ gen[s] + Own(s) + Again(s) <= dialed BY <3>1 DEF Counted
      <3>4. gen[s] \in 0..MaxConns BY <3>1, <3>2, <3>3, Numbers
      <3>5. closes[s] \in {0, 1} BY <3>1 DEF Channel
      <3> QED BY <3>4, <3>5
    <2>2. gen \in [Subs -> 0..MaxConns] /\ closes \in [Subs -> 0..2]
      BY <2>1 DEF IInv, Types
    <2> QED BY <2>2 DEF IInv, Types, TypeOK
  <1> QED BY <1>1, Invariance, PTL

\* No channel is closed twice or while a pump may still send on it, however
\* cancelling, closing, subscribing and reconnecting overlap.
THEOREM ChannelsCloseLast == Spec => []ClosedLast
  <1>1. IInv => ClosedLast
    <2> SUFFICES ASSUME IInv, NEW s \in Subs
                 PROVE  closes[s] <= 1 /\ (closes[s] = 1 => PumpsOf(s) = {})
      BY DEF ClosedLast
    <2> QED BY DEF IInv, Channel
  <1> QED BY <1>1, Invariance, PTL

\* A subscription that was returned has a pump on every connection the loop settles
\* on, until it is cancelled or the client closed.
THEOREM ReconnectionAttaches == Spec => []AttachedToCurrent
  <1>1. IInv => AttachedToCurrent
    <2> SUFFICES ASSUME IInv, Settled, NEW s \in Subs, Live(s)
                 PROVE  \E g \in Gens : pump[s][g].on = conn
      BY DEF AttachedToCurrent
    <2>1. Covered(s) BY DEF IInv, Attached, Settled, Live
    <2>2. att[s].stage # "add" BY DEF IInv, Attaching, Live
    <2> QED BY <2>1, <2>2 DEF Covered, Settled
  <1> QED BY <1>1, Invariance, PTL

\* A client that was closed leaves no connection, but for the one that Connect stores
\* afterwards.
THEOREM ConnectionsAreClosed == Spec => []NoConnectionLeft
  <1>1. IInv => NoConnectionLeft
    <2> SUFFICES ASSUME IInv, closer = "over", loop = "over"
                 PROVE  up \subseteq IF closing = None THEN {1} ELSE {}
      BY DEF NoConnectionLeft
    <2>1. /\ up \subseteq {conn} /\ conn \in 1..dialed
      BY DEF IInv, Types, Stored
    <2>2. conn # None BY <2>1, Numbers
    <2>3. closing = None => conn = 1 BY <2>2 DEF IInv, Ending
    <2>4. closing # None => conn = closing /\ closing \notin up BY DEF IInv, Ending
    <2> QED BY <2>1, <2>3, <2>4
  <1> QED BY <1>1, Invariance, PTL
=============================================================================
