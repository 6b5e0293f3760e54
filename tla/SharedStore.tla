---------------------------- MODULE SharedStore ----------------------------
(***************************************************************************)
(* The stores that several processes share: board.json, tasks.json and     *)
(* chat.json of the orchestrator's memory directory, which the native      *)
(* daemon and the workers of ACP mode open at the same time.               *)
(*                                                                         *)
(* A process reads the file when it starts and never again: from then on   *)
(* it answers from its own memory.  Every mutation changes that memory and *)
(* then merges the entries it touched into the file, under a lock file:    *)
(* read the file, apply the change, write a temporary file, rename it.  A  *)
(* process that does not get the lock in time leaves the change in memory. *)
(* The three stores do this alike; one file with the keys of all of them   *)
(* stands for the three.                                                   *)
(*                                                                         *)
(* Init, Next and their like begin with Store here, so that one module can *)
(* extend this one and that of another service.                            *)
(*                                                                         *)
(* Abstracted: an entry is the number of the write that made it, 0 if it   *)
(* is absent; the lock file is the owner's name, and the way a stale one   *)
(* is published and removed is module FileLock's; errors of the disk.      *)
(***************************************************************************)
EXTENDS Naturals

CONSTANTS
  Procs,      \* the processes
  Records,    \* work items of the board and direct tasks
  Threads,    \* chat threads
  Messages,   \* chat messages
  ThreadOf,   \* the thread of each message
  MaxMutations, \* bound on the number of mutations
  MaxCrashes, \* bound on the number of crashes
  Free,       \* nobody has the lock file
  Stale,      \* the lock file of a process that is not running
  Torn,       \* a file that has been truncated and is being written
  NoFile,     \* there is no temporary file
  NoChange    \* the process is changing nothing

Keys == Records \cup Threads \cup Messages
Stamps == 0 .. MaxMutations
Maps == [Keys -> Stamps]
Changes == UNION {[S -> Stamps] : S \in SUBSET Keys}

ThreadsOfMessages == ThreadOf \in [Messages -> Threads]
KindsAreDisjoint ==
  /\ Records \cap Threads = {}
  /\ Records \cap Messages = {}
  /\ Threads \cap Messages = {}
MarksAreNew ==
  /\ Free # Stale
  /\ {Free, Stale} \cap Procs = {}
  /\ Torn # NoFile
  /\ {Torn, NoFile} \cap Maps = {}
  /\ NoChange \notin Changes

\* What is assumed of the constants.
ASSUME StoreAssumption ==
  /\ {MaxMutations, MaxCrashes} \subseteq Nat
  /\ ThreadsOfMessages
  /\ KindsAreDisjoint
  /\ MarksAreNew

VARIABLES
  pc,      \* per process: its next step
  mem,     \* per process: its copy of the store
  change,  \* per process: the entries that the call under way touches
  merged,  \* per process: what it is about to write
  file,    \* the file
  tmp,     \* the temporary file, whose name all processes share
  lock,    \* the lock file
  by,      \* per key: the processes that have touched it
  mutations, \* number of mutations so far
  crashes, \* number of crashes so far
  raced,   \* the lock of a running process has been removed
  behind   \* per process: the keys whose last change did not reach the file

storeVars == <<pc, mem, change, merged, file, tmp, lock, by, mutations, crashes, raced, behind>>

InCall == {"wait", "reclaim", "locked", "write", "flush", "rename"}

StoreTypeOK ==
  /\ pc \in [Procs -> {"down", "idle", "release"} \cup InCall]
  /\ mem \in [Procs -> Maps]
  /\ change \in [Procs -> Changes \cup {NoChange}]
  /\ merged \in [Procs -> Maps]
  /\ file \in Maps \cup {Torn}
  /\ tmp \in Maps \cup {Torn, NoFile}
  /\ lock \in Procs \cup {Free, Stale}
  /\ by \in [Keys -> SUBSET Procs]
  /\ mutations \in Stamps
  /\ crashes \in 0 .. MaxCrashes
  /\ raced \in BOOLEAN
  /\ behind \in [Procs -> SUBSET Keys]

Blank == [k \in Keys |-> 0]

\* A file that is missing or cannot be decoded counts as an empty one.
Contents == IF file = Torn THEN Blank ELSE file

Merge(map, c) == [k \in Keys |-> IF k \in DOMAIN c THEN c[k] ELSE map[k]]

Goto(p, label) == pc' = [pc EXCEPT ![p] = label]

-----------------------------------------------------------------------------
(* The calls *)

\* EnsureOwner's answer is only logged; then the constructors read the file.
Open(p) ==
  /\ pc[p] = "down"
  /\ mem' = [mem EXCEPT ![p] = Contents]
  /\ Goto(p, "idle")
  /\ UNCHANGED <<change, merged, file, tmp, lock, by, mutations, crashes, raced, behind>>

Used == {k \in Keys : by[k] # {}}

\* A mutation: it changes the process's memory and goes on to persist, all
\* under the store's mutex.
Mutate(p, c) ==
  /\ pc[p] = "idle"
  /\ mutations < MaxMutations
  /\ mutations' = mutations + 1
  /\ change' = [change EXCEPT ![p] = c]
  /\ mem' = [mem EXCEPT ![p] = Merge(mem[p], c)]
  /\ behind' = [behind EXCEPT ![p] = @ \cup DOMAIN c]
  /\ by' = [k \in Keys |-> IF k \in DOMAIN c THEN by[k] \cup {p} ELSE by[k]]
  /\ Goto(p, "wait")
  /\ UNCHANGED <<merged, file, tmp, lock, crashes, raced>>

Put(p, S) == Mutate(p, [k \in S |-> mutations + 1])
Remove(p, S) == Mutate(p, [k \in S |-> 0])

\* A new key is drawn at random: it is nobody else's.
Create(p) ==
  \E k \in (Records \cup Threads) \ Used :
     Put(p, {k})

AppendMessage(p) ==
  \E m \in Messages \ Used :
     Put(p, {m} \cup {t \in {ThreadOf[m]} : mem[p][t] # 0})

\* Update and ClaimDue refuse a key that the process does not know.
Update(p) ==
  \E k \in Records : mem[p][k] # 0 /\ Put(p, {k})

Reorder(p) ==
  \E S \in SUBSET Records :
     Put(p, {k \in S : mem[p][k] # 0})

Delete(p) ==
  \E k \in Records : mem[p][k] # 0 /\ Remove(p, {k})

\* The messages of a thread go with it, those this process knows.
DeleteThread(p) ==
  \E t \in Used \cap Threads :
     Remove(p, {t} \cup {m \in Messages : ThreadOf[m] = t /\ mem[p][m] # 0})

Call(p) ==
  \/ Create(p) \/ AppendMessage(p) \/ Update(p) \/ Reorder(p)
  \/ Delete(p) \/ DeleteThread(p)

-----------------------------------------------------------------------------
(* persist *)

Acquire(p) ==
  /\ pc[p] = "wait"
  /\ lock = Free
  /\ lock' = p
  /\ Goto(p, "locked")
  /\ UNCHANGED <<mem, change, merged, file, tmp, by, mutations, crashes, raced, behind>>

\* The lock file names a process that is not running.
FindStale(p) ==
  /\ pc[p] = "wait"
  /\ lock = Stale
  /\ Goto(p, "reclaim")
  /\ UNCHANGED <<mem, change, merged, file, tmp, lock, by, mutations, crashes, raced, behind>>

\* Whatever lock file is there by now is removed.
Reclaim(p) ==
  /\ pc[p] = "reclaim"
  /\ lock' = Free
  /\ raced' = (raced \/ lock \in Procs)
  /\ Goto(p, "wait")
  /\ UNCHANGED <<mem, change, merged, file, tmp, by, mutations, crashes, behind>>

\* The deadline has passed: the change stays in memory and is not tried again.
GiveUp(p) ==
  /\ pc[p] = "wait"
  /\ lock # Free
  /\ change' = [change EXCEPT ![p] = NoChange]
  /\ Goto(p, "idle")
  /\ UNCHANGED <<mem, merged, file, tmp, lock, by, mutations, crashes, raced, behind>>

OverwriteAll(p) == merged' = [merged EXCEPT ![p] = mem[p]]

Reread(p) == merged' = [merged EXCEPT ![p] = Merge(Contents, change[p])]

ReadAndMerge(p) ==
  /\ pc[p] = "locked"
  /\ Reread(p)
  /\ Goto(p, "write")
  /\ UNCHANGED <<mem, change, file, tmp, lock, by, mutations, crashes, raced, behind>>

BeginWrite(p) ==
  /\ pc[p] = "write"
  /\ tmp' = Torn
  /\ Goto(p, "flush")
  /\ UNCHANGED <<mem, change, merged, file, lock, by, mutations, crashes, raced, behind>>

\* If another process has renamed the file meanwhile, it is that file that is
\* being written.
EndWrite(p) ==
  /\ pc[p] = "flush"
  /\ IF tmp = NoFile THEN file' = merged[p] /\ UNCHANGED tmp
     ELSE tmp' = merged[p] /\ UNCHANGED file
  /\ Goto(p, "rename")
  /\ UNCHANGED <<mem, change, merged, lock, by, mutations, crashes, raced, behind>>

\* os.Rename fails if the temporary file has gone; nobody looks.
Rename(p) ==
  /\ pc[p] = "rename"
  /\ IF tmp = NoFile THEN UNCHANGED file ELSE file' = tmp
  /\ tmp' = NoFile
  /\ behind' = [behind EXCEPT ![p] = @ \ DOMAIN change[p]]
  /\ change' = [change EXCEPT ![p] = NoChange]
  /\ merged' = [merged EXCEPT ![p] = Blank]
  /\ Goto(p, "release")
  /\ UNCHANGED <<mem, lock, by, mutations, crashes, raced>>

\* Release removes the file by its name.
Release(p) ==
  /\ pc[p] = "release"
  /\ lock' = Free
  /\ raced' = (raced \/ lock \in Procs \ {p})
  /\ Goto(p, "idle")
  /\ UNCHANGED <<mem, change, merged, file, tmp, by, mutations, crashes, behind>>

Persist(p) ==
  \/ Acquire(p) \/ FindStale(p) \/ Reclaim(p) \/ GiveUp(p) \/ ReadAndMerge(p)
  \/ BeginWrite(p) \/ EndWrite(p) \/ Rename(p) \/ Release(p)

\* A process stops, whatever it is doing; the files stay as they are.
Crash(p) ==
  /\ pc[p] # "down"
  /\ crashes < MaxCrashes
  /\ crashes' = crashes + 1
  /\ lock' = IF lock = p THEN Stale ELSE lock
  /\ mem' = [mem EXCEPT ![p] = Blank]
  /\ change' = [change EXCEPT ![p] = NoChange]
  /\ merged' = [merged EXCEPT ![p] = Blank]
  /\ behind' = [behind EXCEPT ![p] = {}]
  /\ Goto(p, "down")
  /\ UNCHANGED <<file, tmp, by, mutations, raced>>

StoreInit ==
  /\ pc = [p \in Procs |-> "down"]
  /\ mem = [p \in Procs |-> Blank]
  /\ change = [p \in Procs |-> NoChange]
  /\ merged = [p \in Procs |-> Blank]
  /\ file = Blank
  /\ tmp = NoFile
  /\ lock = Free
  /\ by = [k \in Keys |-> {}]
  /\ mutations = 0
  /\ crashes = 0
  /\ raced = FALSE
  /\ behind = [p \in Procs |-> {}]

StoreNext == \E p \in Procs : Open(p) \/ Call(p) \/ Persist(p) \/ Crash(p)

StoreSpec == StoreInit /\ [][StoreNext]_storeVars
-----------------------------------------------------------------------------
(* Properties *)

Shared == INSTANCE AtomicMap
  WITH Clients <- Procs, Entries <- Stamps, map <- file, asked <- change, broken <- raced

\* "This stops one process's write from silently clobbering items it never touched"
\* (board.go, persist): until the lock of a running process is removed, the file
\* changes only by a whole change of one process, whoever crashes in between.
IsAtomicMap == Shared!Spec

\* What a process alone has touched is on disk as it remembers it, but for the
\* changes it gave up waiting to write (persist of the three stores).
OwnEntriesAgree ==
  ~raced => \A p \in Procs, k \in Keys :
     pc[p] = "idle" /\ by[k] \subseteq {p} /\ k \notin behind[p] => file[k] = mem[p][k]
=============================================================================
