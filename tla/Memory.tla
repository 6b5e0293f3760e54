-------------------------------- MODULE Memory --------------------------------
(***************************************************************************)
(* The memory directory of one bot and its backup: what the start of the   *)
(* process and of the bot do with it, the scheduled runs that commit and   *)
(* push it, and the restore that clones it.  A schedule starts its next    *)
(* run whether or not the last one has ended.                              *)
(*                                                                         *)
(* Abstracted: a directory, what is staged, a commit and a branch are the  *)
(* sets of files in them; every write is a file of its own, and a run      *)
(* stages the files of one moment.  What the git library does with a       *)
(* history that has diverged from the remote's is open: its pull may       *)
(* refuse or may replace the local one.                                    *)
(***************************************************************************)
EXTENDS Naturals

CONSTANTS
  Runs,        \* runs of the schedule
  MaxContents, \* bound on the files written
  MaxFaults,   \* bound on what fails at the remote repository
  MaxLosses    \* bound on the losses of the directory

ASSUME BackupAssumption ==
  /\ {MaxContents, MaxFaults, MaxLosses} \subseteq Nat
  /\ MaxContents >= 1

VARIABLES
  orchestrator,   \* it is the orchestrator's directory, with the shared stores
  restoreOnEmpty, \* backup.restore_on_empty
  bot,            \* "off": the process, "loaded": it without the bot, "restoring", "running"
  empty,          \* the directory does not exist or is empty
  files,          \* its files
  repo,           \* "none", "local" (made by a backup: no remote is configured), "cloned"
  index, head,    \* the files staged and the files committed last
  base,           \* the remote's commit that the local history builds on, 0 for none
  remote,         \* the remote: the commit of the branch, 0 for none, its files, and those of
                  \* all that was ever pushed
  run,            \* per run of the schedule: where it stands, and the files it has staged
  contents, faults, losses,
  theirs,         \* history: somebody else has pushed to the branch
  cut,            \* history: where a clone was cut off, "never" if none was
  promised,       \* history: the files that completed backups had staged
  restored        \* history: the directory was cloned since it was lost

backupVars == <<orchestrator, restoreOnEmpty, bot, empty, files, repo, index, head, base, remote,
                run, contents, faults, losses, theirs, cut, promised, restored>>

Content == SUBSET (1 .. MaxContents)

BackupTypeOK ==
  /\ orchestrator \in BOOLEAN /\ restoreOnEmpty \in BOOLEAN /\ empty \in BOOLEAN
  /\ bot \in {"off", "loaded", "restoring", "running"}
  /\ {files, index, head, promised} \subseteq Content
  /\ repo \in {"none", "local", "cloned"}
  /\ base \in Nat
  /\ remote \in [commit : Nat, files : Content, past : Content]
  /\ run \in [Runs -> [at : {"idle", "staged", "push", "pull", "again"}, files : Content]]
  /\ contents \in 0 .. MaxContents /\ faults \in 0 .. MaxFaults /\ losses \in 0 .. MaxLosses
  /\ theirs \in BOOLEAN /\ cut \in {"never", "checkout", "fetch"} /\ restored \in BOOLEAN

config == <<orchestrator, restoreOnEmpty>>
git == <<repo, index, head, base>>
NoRun == [at |-> "idle", files |-> {}]
Fault == faults < MaxFaults /\ faults' = faults + 1

-----------------------------------------------------------------------------
(* Start *)

Written ==
  /\ contents < MaxContents
  /\ contents' = contents + 1 /\ files' = files \cup {contents + 1} /\ empty' = FALSE

\* Run makes the orchestrator's directory, marks its owner and opens the shared stores in it
\* before any bot is started.
EnsureOwner ==
  /\ bot = "off"
  /\ bot' = "loaded"
  /\ IF orchestrator /\ files = {} THEN Written
     ELSE UNCHANGED <<files, empty, contents>>
  /\ UNCHANGED <<config, git, remote, run, faults, losses, theirs, cut, promised, restored>>

isDirEmpty == empty

\* The bot starts with the directory that it finds, or with a clone, which begins with an
\* empty repository.  A branch that does not exist cannot be cloned, and fails the start,
\* which is tried again.  The adapters make directories of their own.
startBot ==
  /\ bot = "loaded"
  /\ IF restoreOnEmpty /\ isDirEmpty
     THEN remote.commit > 0 /\ bot' = "restoring" /\ repo' = "cloned"
     ELSE bot' = "running" /\ UNCHANGED repo
  /\ empty' = FALSE
  /\ UNCHANGED <<config, files, index, head, base, remote, run, contents, faults, losses, theirs,
                 cut, promised, restored>>

\* The branch is fetched; the references and the index are set to it.
FetchBranch ==
  /\ bot = "restoring" /\ base = 0
  /\ index' = remote.files /\ head' = remote.files /\ base' = remote.commit
  /\ UNCHANGED <<config, bot, empty, files, repo, remote, run, contents, faults, losses, theirs,
                 cut, promised, restored>>

\* The library undoes a clone that fails.
CloneFails ==
  /\ bot = "restoring"
  /\ Fault
  /\ bot' = "loaded"
  /\ empty' = TRUE /\ files' = {} /\ repo' = "none" /\ index' = {} /\ head' = {} /\ base' = 0
  /\ UNCHANGED <<config, remote, run, contents, losses, theirs, cut, promised, restored>>

\* The files are written one after the other.
CheckOut ==
  /\ bot = "restoring" /\ base > 0
  /\ \E f \in head \ files : files' = files \cup {f}
  /\ UNCHANGED <<config, bot, empty, git, remote, run, contents, faults, losses, theirs, cut,
                 promised, restored>>

CloneEnds ==
  /\ bot = "restoring" /\ base > 0
  /\ files = head
  /\ bot' = "running" /\ restored' = TRUE
  /\ UNCHANGED <<config, empty, files, git, remote, run, contents, faults, losses, theirs, cut,
                 promised>>

PlainClone == FetchBranch \/ CheckOut \/ CloneEnds

-----------------------------------------------------------------------------
(* The bot writes; somebody else pushes *)

Write ==
  /\ bot = "running"
  /\ Written
  /\ UNCHANGED <<config, bot, git, remote, run, faults, losses, theirs, cut, promised, restored>>

\* Another bot is configured with the same repository, or somebody works on it.
ForeignPush ==
  /\ Fault
  /\ contents < MaxContents
  /\ contents' = contents + 1
  /\ remote' = [commit |-> remote.commit + 1, files |-> remote.files \cup {contents + 1},
                past |-> remote.past \cup {contents + 1}]
  /\ theirs' = TRUE
  /\ UNCHANGED <<config, bot, empty, files, git, run, losses, cut, promised, restored>>

-----------------------------------------------------------------------------
(* A run of the schedule *)

At(r, at) == run[r].at = at /\ bot = "running"
Goes(r, at) == run' = [run EXCEPT ![r].at = at]
Ends(r) == run' = [run EXCEPT ![r] = NoRun]

\* A directory that is no repository is made one.  Nothing staged: the run ends.
Stage(r) ==
  /\ At(r, "idle")
  /\ repo' = IF repo = "none" THEN "local" ELSE repo
  /\ index' = files
  /\ IF files = head THEN UNCHANGED run
     ELSE run' = [run EXCEPT ![r] = [at |-> "staged", files |-> files]]
  /\ UNCHANGED <<config, bot, empty, files, head, base, remote, contents, faults, losses, theirs,
                 cut, promised, restored>>

\* What is staged by now; nothing, if another run has committed it.
Commit(r) ==
  /\ At(r, "staged")
  /\ head' = index
  /\ IF head = index THEN Ends(r) ELSE Goes(r, "push")
  /\ UNCHANGED <<config, bot, empty, files, repo, index, base, remote, contents, faults, losses,
                 theirs, cut, promised, restored>>

\* The remote takes what builds on its own history; an up-to-date remote is no error.
CanPush == repo = "cloned" /\ base = remote.commit

\* What builds on nothing is on the repository's default branch: if that is not the branch of
\* the backup, the remote makes it one.
Elsewhere == repo = "cloned" /\ base = 0

Pushed(r) ==
  /\ \/ /\ CanPush
        /\ IF head = remote.files THEN UNCHANGED <<remote, base>>
           ELSE /\ remote' = [commit |-> remote.commit + 1, files |-> head,
                              past |-> remote.past \cup head]
                /\ base' = remote.commit + 1
     \/ /\ Elsewhere
        /\ remote' = [remote EXCEPT !.past = @ \cup head]
        /\ UNCHANGED base
  /\ promised' = promised \cup run[r].files
  /\ Ends(r)
  /\ UNCHANGED faults

Push(r) ==
  /\ At(r, "push")
  /\ \/ Pushed(r)
     \/ /\ CanPush => Fault
        /\ ~CanPush => UNCHANGED faults
        /\ Goes(r, "pull")
        /\ UNCHANGED <<remote, base, promised>>
  /\ UNCHANGED <<config, bot, empty, files, repo, index, head, contents, losses, theirs, cut,
                 restored>>

\* There is no remote, it fails, or the histories have diverged: the run ends with an error.
PullFails(r) ==
  /\ \/ (repo = "local" \/ base # remote.commit) /\ UNCHANGED faults
     \/ repo = "cloned" /\ Fault
  /\ Ends(r)
  /\ UNCHANGED <<files, index, head, base>>

UpToDate(r) ==
  /\ CanPush
  /\ Goes(r, "again")
  /\ UNCHANGED <<files, index, head, base, faults>>

\* The library has replaced the local history and the files by the remote's.
Replaced(r) ==
  /\ repo = "cloned"
  /\ base # remote.commit
  /\ files' = remote.files /\ index' = remote.files /\ head' = remote.files
  /\ base' = remote.commit
  /\ Goes(r, "again")
  /\ UNCHANGED faults

Pull(r) ==
  /\ At(r, "pull")
  /\ PullFails(r) \/ UpToDate(r) \/ Replaced(r)
  /\ UNCHANGED <<config, bot, empty, repo, remote, contents, losses, theirs, cut, promised,
                 restored>>

RetryUnchecked(r) ==
  /\ At(r, "again")
  /\ CanPush => Fault
  /\ ~CanPush => UNCHANGED faults
  /\ promised' = promised \cup run[r].files
  /\ Ends(r)
  /\ UNCHANGED <<config, bot, empty, files, git, remote, contents, losses, theirs, cut, restored>>

Retry(r) ==
  /\ At(r, "again")
  /\ \/ Pushed(r)
     \/ /\ CanPush => Fault
        /\ ~CanPush => UNCHANGED faults
        /\ Ends(r)
        /\ UNCHANGED <<remote, base, promised>>
  /\ UNCHANGED <<config, bot, empty, files, repo, index, head, contents, losses, theirs, cut,
                 restored>>

-----------------------------------------------------------------------------
(* Faults *)

\* The process ends, whatever its runs are doing; the schedule waits for them only at a stop.
\* A clone that it was making stays as far as it is.
ProcessEnds ==
  /\ bot # "off"
  /\ bot' = "off"
  /\ run' = [r \in Runs |-> NoRun]
  /\ cut' = IF bot # "restoring" \/ cut = "fetch" THEN cut
            ELSE IF base = 0 THEN "fetch" ELSE "checkout"
  /\ UNCHANGED <<config, empty, files, git, remote, contents, faults, losses, theirs,
                 promised, restored>>

\* The machine is lost: the bot is started on a new one.
Lose ==
  /\ bot = "off"
  /\ losses < MaxLosses
  /\ losses' = losses + 1
  /\ empty' = TRUE
  /\ files' = {} /\ repo' = "none" /\ index' = {} /\ head' = {} /\ base' = 0
  /\ restored' = FALSE
  /\ UNCHANGED <<config, bot, remote, run, contents, faults, theirs, cut, promised>>

\* The branch may be there from an earlier deployment.
BackupInit ==
  /\ orchestrator \in BOOLEAN /\ restoreOnEmpty \in BOOLEAN
  /\ bot = "off" /\ empty = TRUE /\ files = {}
  /\ repo = "none" /\ index = {} /\ head = {} /\ base = 0
  /\ \/ remote = [commit |-> 0, files |-> {}, past |-> {}] /\ contents = 0
     \/ remote = [commit |-> 1, files |-> {1}, past |-> {1}] /\ contents = 1
  /\ run = [r \in Runs |-> NoRun]
  /\ faults = 0 /\ losses = 0
  /\ theirs = FALSE /\ cut = "never" /\ promised = {} /\ restored = FALSE

BackupRun(r) == Stage(r) \/ Commit(r) \/ Push(r) \/ Pull(r) \/ Retry(r)

BackupNext ==
  \/ EnsureOwner \/ startBot \/ PlainClone \/ CloneFails \/ Write \/ ForeignPush
  \/ \E r \in Runs : BackupRun(r)
  \/ ProcessEnds \/ Lose

BackupSpec == BackupInit /\ [][BackupNext]_backupVars

\* The schedule goes on as long as the bot runs.
BackupFairSpec ==
  /\ BackupSpec
  /\ WF_backupVars(EnsureOwner) /\ WF_backupVars(startBot) /\ WF_backupVars(PlainClone)
  /\ \A r \in Runs : WF_backupVars(BackupRun(r))
-----------------------------------------------------------------------------
(* Properties *)

\* What a backup has reported as complete is in what was pushed to the remote, whatever runs
\* overlap, fail or are cut off, as long as nobody else pushes and no clone is cut off before
\* it has the branch (Backup, pushWithRetry).
CompletedIsPushed == ~theirs /\ cut # "fetch" => promised \subseteq remote.past

\* It outlives the machine: the remote's branch still has it.  A clone that is cut off ends
\* that: the next start finds a directory that is not empty, and the next backup removes what
\* is missing there from the branch (isDirEmpty, AddGlob).
CompletedIsKept == ~theirs /\ cut = "never" => promised \subseteq remote.files

\* A directory that was cloned has everything that a completed backup had (Restore, startBot).
RestoredIsComplete ==
  bot = "running" /\ restored /\ ~theirs /\ cut = "never" => promised \subseteq files

BackupIsKept == CompletedIsPushed /\ CompletedIsKept /\ RestoredIsComplete

\* What a completed backup had stays on the branch as long as nobody else pushes, wherever the
\* process ends (Backup, Restore).
BranchKeepsCompleted == ~theirs => promised \subseteq remote.files

\* "restore_on_empty: clone from remote if local memory directory is empty on startup"
\* (configuration.md): a bot that is started on a new machine runs on a clone of it.
EmptyMemoryIsRestored == bot = "running" /\ restoreOnEmpty => restored

\* "Commits and pushes the memory directory to a configured GitHub repository on a cron
\* schedule" (product-details.md): what a running bot has committed is pushed some day.
BackupIsPushed ==
  <>[](bot = "running") => \A n \in 1 .. MaxContents : n \in head ~> n \in remote.files
=============================================================================
