------------------------------ MODULE FileLock ------------------------------
(***************************************************************************)
(* The two file locks: AcquireWait of package filelock, under which the    *)
(* stores of several processes merge a JSON file, and AcquireLock of       *)
(* package buzz, which keeps a second process from using an identity.      *)
(*                                                                         *)
(* The lock is a file that holds the PID of its owner.  It is published    *)
(* complete, by a link that fails if the name is taken; a file whose PID   *)
(* is not running is removed by whoever finds it, and the publication is   *)
(* tried again.  Reading the file, asking for the process and removing the *)
(* file are three calls of the operating system, and any process may stop  *)
(* between them.                                                           *)
(*                                                                         *)
(* Abstracted: temporary files, errors of the disk, the back-off times.    *)
(* A PID is not given to another process.                                  *)
(***************************************************************************)
EXTENDS Naturals

CONSTANTS
  Procs,   \* the processes, each named by its PID
  Mortal,  \* those that may exit or crash
  Waits,   \* TRUE: AcquireWait, FALSE: AcquireLock
  NoFile   \* there is no lock file

ASSUME MortalsAreProcs == Mortal \subseteq Procs
ASSUME NoFileIsNoProc == NoFile \notin Procs
ASSUME WaitsIsBoolean == Waits \in BOOLEAN

VARIABLES
  file,   \* the PID in the lock file
  pc,     \* per process: its next call
  seen,   \* per process: the PID it read
  dead    \* the processes that are not running any more

lockVars == <<file, pc, seen, dead>>

LockTypeOK ==
  /\ file \in Procs \cup {NoFile}
  /\ pc \in [Procs -> {"idle", "publish", "read", "check", "remove", "hold", "gone"}]
  /\ seen \in [Procs -> Procs \cup {NoFile}]
  /\ dead \subseteq Mortal

Goto(p, label) == pc' = [pc EXCEPT ![p] = label]

Start(p) ==
  /\ pc[p] = "idle"
  /\ Goto(p, "publish")
  /\ UNCHANGED <<file, seen, dead>>

RenamePublishes(p) == file' = p /\ Goto(p, "hold")

\* os.Link fails if the name exists.
Link(p) == IF file = NoFile THEN file' = p /\ Goto(p, "hold")
           ELSE Goto(p, "read") /\ UNCHANGED file

Publish(p) ==
  /\ pc[p] = "publish"
  /\ Link(p)
  /\ UNCHANGED <<seen, dead>>

\* A failed attempt of AcquireWait is repeated until its deadline, one of
\* AcquireLock is the last.
NextAttempt == IF Waits THEN {"publish", "idle"} ELSE {"idle"}

\* The file may be gone by now: AcquireWait counts that as a failed attempt,
\* AcquireLock tries again at once.
Read(p) ==
  /\ pc[p] = "read"
  /\ seen' = [seen EXCEPT ![p] = file]
  /\ IF file # NoFile THEN Goto(p, "check")
     ELSE \E label \in IF Waits THEN NextAttempt ELSE {"publish"} : Goto(p, label)
  /\ UNCHANGED <<file, dead>>

AlwaysAlive(q) == TRUE

\* processAlive, on a system that has signals.
Alive(q) == q \notin dead

CheckOwner(p) ==
  /\ pc[p] = "check"
  /\ IF Alive(seen[p]) THEN \E label \in NextAttempt : Goto(p, label)
     ELSE Goto(p, "remove")
  /\ UNCHANGED <<file, seen, dead>>

\* os.Remove does not look at what it removes.
RemoveStale(p) ==
  /\ pc[p] = "remove"
  /\ file' = NoFile
  /\ Goto(p, "publish")
  /\ UNCHANGED <<seen, dead>>

Release(p) ==
  /\ pc[p] = "hold"
  /\ file' = NoFile
  /\ Goto(p, "idle")
  /\ UNCHANGED <<seen, dead>>

\* A process exits or crashes, whatever it is doing; its lock file stays.
Die(p) ==
  /\ p \in Mortal \ dead
  /\ dead' = dead \cup {p}
  /\ Goto(p, "gone")
  /\ UNCHANGED <<file, seen>>

LockInit ==
  /\ file = NoFile
  /\ pc = [p \in Procs |-> "idle"]
  /\ seen = [p \in Procs |-> NoFile]
  /\ dead = {}

Attempt(p) == Publish(p) \/ Read(p) \/ CheckOwner(p) \/ RemoveStale(p)

LockNext == \E p \in Procs : Start(p) \/ Attempt(p) \/ Release(p) \/ Die(p)

LockSpec == LockInit /\ [][LockNext]_lockVars

\* A process that is running goes on with its attempt.  Nothing makes it start
\* one, release the lock or exit.
LockFairSpec == LockSpec /\ \A p \in Procs : WF_lockVars(Attempt(p))

-----------------------------------------------------------------------------
(* Properties *)

\* "exactly one publish wins" (filelock.go, buzz/lock.go): two processes never
\* hold the lock at once.
MutualExclusion == \A p, q \in Procs : pc[p] = "hold" /\ pc[q] = "hold" => p = q

\* While no process has stopped the lock is exclusive, and its file names its
\* holder: no attempt, however late, takes it away.
ExclusiveWhileAllRun ==
  dead = {} => \A p \in Procs : pc[p] = "hold" <=> file = p

\* A lock file is not published over another one, and while all run only its owner
\* removes it.
OwnFileOnly ==
  [][file # NoFile /\ file' # file =>
       file' = NoFile /\ (dead = {} => pc[file] = "hold" /\ pc'[file] = "idle")]_lockVars

Trying(p) == pc[p] \in {"publish", "read", "check", "remove"}

\* "a stale lock can never permanently wedge future starts" (buzz/lock.go): an
\* attempt that has yet to read the file gets rid of the lock of a process that is
\* not running.  One that has read an earlier lock may still fail because of it.
StaleLockIsRemoved ==
  \A p \in Procs \ Mortal :
    pc[p] \in {"publish", "read"} /\ file \in dead ~> file \notin dead

\* Nobody releases the lock any more, as in AcquireLock's use until shutdown.
KeptForGood == <>[][\A q \in Procs : ~Release(q)]_lockVars

\* AcquireLock comes back with the lock or with an error, however many processes
\* stop and leave their locks behind.
AttemptEnds == KeptForGood => \A p \in Procs \ Mortal : Trying(p) ~> ~Trying(p)

\* Until a process stops, the file is a lock: Mutex owned by the process in it.
AsLock == INSTANCE Mutex WITH owner <- file, Free <- NoFile, broken <- dead # {}
IsMutex == AsLock!Spec
=============================================================================
