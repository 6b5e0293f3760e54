-------------------------------- MODULE Skills --------------------------------
(***************************************************************************)
(* The skills that operators upload for a type of bot: the registry of the *)
(* staged and the active ones, the files that keep them, and the handlers  *)
(* that stage, approve, reject and revoke.                                 *)
(*                                                                         *)
(* An upload writes its files before it takes the registry's lock.  Under  *)
(* the lock a record is changed in memory, then its file is truncated, and *)
(* then written: "held" is the operation that has the lock.                *)
(*                                                                         *)
(* Abstracted: the contents of the files, and the name and type of bot.  A *)
(* file of an upload matters if its name is metadata.json, whatever put it *)
(* there: at the top of the skill's directory, where the record goes, or   *)
(* below it.  Such a file may name any skill, as active or as staged.  A   *)
(* file that cannot be read as a record is as none.                        *)
(*                                                                         *)
(* Init, Next and their like bear the skills' name, so that one module can *)
(* extend this one and those of other services.                            *)
(***************************************************************************)
EXTENDS Naturals

CONSTANTS
  SkillIds,     \* the identifiers that Stage draws
  Phantom,      \* an identifier that it does not draw: another registry's, or none
  MaxUploaded,  \* bound on the uploaded files named metadata.json
  MaxDiskFaults, \* bound on the writes and removals that fail
  MaxReloads    \* bound on the ends of the process

\* What is assumed of the constants.
ASSUME SkillAssumption ==
  {MaxUploaded, MaxDiskFaults, MaxReloads} \subseteq Nat /\ Phantom \notin SkillIds

VARIABLES
  skills,     \* the registry: per identifier "none", "staged" or "active"
  meta,       \* per directory, the record in its metadata.json
  nested,     \* per directory, the record in a metadata.json below it
  upload,     \* the uploads whose files are being written
  held,       \* the operation that has the lock: "none", "save", "write" or "remove"
  drawn,      \* the identifiers that were drawn
  uploaded, diskFaults, reloads,
  approved,   \* history: the skills for which an approval was asked
  removed,    \* history: the skills that were removed with their directory
  named,      \* history: the skills that an uploaded file has named
  unsettled   \* history: the skills of which a write or a removal failed

skillVars == <<skills, meta, nested, upload, held, drawn, uploaded, diskFaults, reloads, approved,
               removed, named, unsettled>>

Status == {"none", "staged", "active"}
Entries == SkillIds \cup {Phantom}

SkillRecord == [id : Entries, status : Status]
Record(i, status) == [id |-> i, status |-> status]
NoRecord == Record(Phantom, "none")
Unheld == [op |-> "none", id |-> Phantom]

SkillTypeOK ==
  /\ skills \in [Entries -> Status]
  /\ meta \in [Entries -> SkillRecord] /\ nested \in [Entries -> SkillRecord]
  /\ held \in [op : {"none", "save", "write", "remove"}, id : Entries]
  /\ upload \subseteq drawn /\ drawn \subseteq SkillIds
  /\ uploaded \in 0 .. MaxUploaded
  /\ diskFaults \in 0 .. MaxDiskFaults /\ reloads \in 0 .. MaxReloads
  /\ {approved, removed, named, unsettled} \subseteq SUBSET Entries

DiskFails == diskFaults < MaxDiskFaults /\ diskFaults' = diskFaults + 1

-----------------------------------------------------------------------------
(* handleSkillUpload and Stage *)

\* The identifier is new, and so is its directory.
BeginUpload(i) ==
  /\ i \notin drawn
  /\ drawn' = drawn \cup {i}
  /\ upload' = upload \cup {i}
  /\ UNCHANGED <<skills, meta, nested, held, uploaded, diskFaults, reloads, approved, removed,
                 named, unsettled>>

\* A file that cannot be written ends the upload; what was written stays.
UploadFails(i) ==
  /\ i \in upload
  /\ DiskFails
  /\ upload' = upload \ {i}
  /\ UNCHANGED <<skills, meta, nested, held, drawn, uploaded, reloads, approved, removed, named,
                 unsettled>>

\* The files are written in any order, each as it is; nobody knows the new identifier yet.
WriteFiles(i) ==
  /\ i \in upload
  /\ uploaded < MaxUploaded /\ uploaded' = uploaded + 1
  /\ \E k \in (drawn \ {i}) \cup {Phantom}, status \in {"staged", "active"} :
       /\ \/ meta' = [meta EXCEPT ![i] = Record(k, status)] /\ UNCHANGED nested
          \/ nested' = [nested EXCEPT ![i] = Record(k, status)] /\ UNCHANGED meta
       /\ named' = named \cup {k}
  /\ UNCHANGED <<skills, upload, held, drawn, diskFaults, reloads, approved, removed, unsettled>>

\* The lock is free, and i takes it.
Holds(op, i) == held = Unheld /\ held' = [op |-> op, id |-> i]

StageSkill(i) ==
  /\ i \in upload
  /\ Holds("save", i)
  /\ skills' = [skills EXCEPT ![i] = "staged"]
  /\ upload' = upload \ {i}
  /\ UNCHANGED <<meta, nested, drawn, uploaded, diskFaults, reloads, approved, removed, named,
                 unsettled>>

saveStaged(i) ==
  /\ held = [op |-> "save", id |-> i]
  /\ meta' = [meta EXCEPT ![i] = Record(i, "staged")]
  /\ unsettled' = unsettled \ {i}
  /\ held' = Unheld
  /\ UNCHANGED <<skills, nested, upload, drawn, uploaded, diskFaults, reloads, approved, removed,
                 named>>

\* The file is truncated and written; errors of both are ignored.
saveMeta(i) ==
  /\ held.op \in {"save", "write"} /\ held.id = i
  /\ \/ /\ held.op = "save"
        /\ meta' = [meta EXCEPT ![i] = NoRecord]
        /\ held' = [held EXCEPT !.op = "write"]
        /\ UNCHANGED <<diskFaults, unsettled>>
     \/ /\ held.op = "write"
        /\ meta' = [meta EXCEPT ![i] = Record(i, skills[i])]
        /\ unsettled' = unsettled \ {i}
        /\ held' = Unheld
        /\ UNCHANGED diskFaults
     \/ /\ DiskFails
        /\ unsettled' = unsettled \cup {i}
        /\ held' = Unheld
        /\ UNCHANGED meta
  /\ UNCHANGED <<skills, nested, upload, drawn, uploaded, reloads, approved, removed, named>>

-----------------------------------------------------------------------------
(* The other handlers *)

\* The status is not asked for.
ApproveSkill(i) ==
  /\ skills[i] # "none"
  /\ Holds("save", i)
  /\ skills' = [skills EXCEPT ![i] = "active"]
  /\ approved' = approved \cup {i}
  /\ UNCHANGED <<meta, nested, upload, drawn, uploaded, diskFaults, reloads, removed, named,
                 unsettled>>

\* Reject and Revoke are the same: the skill's directory is removed.
RemoveSkill(i) ==
  /\ skills[i] # "none"
  /\ Holds("remove", i)
  /\ skills' = [skills EXCEPT ![i] = "none"]
  /\ UNCHANGED <<meta, nested, upload, drawn, uploaded, diskFaults, reloads, approved, removed,
                 named, unsettled>>

Reject(i) == RemoveSkill(i)
Revoke(i) == RemoveSkill(i)

\* File by file; errors are ignored.
RemoveAll(i) ==
  /\ held = [op |-> "remove", id |-> i]
  /\ \/ /\ meta[i] # NoRecord /\ meta' = [meta EXCEPT ![i] = NoRecord]
        /\ UNCHANGED <<nested, held, diskFaults, removed, unsettled>>
     \/ /\ nested[i] # NoRecord /\ nested' = [nested EXCEPT ![i] = NoRecord]
        /\ UNCHANGED <<meta, held, diskFaults, removed, unsettled>>
     \/ /\ meta[i] = NoRecord /\ nested[i] = NoRecord
        /\ removed' = removed \cup {i} /\ unsettled' = unsettled \ {i}
        /\ held' = Unheld
        /\ UNCHANGED <<meta, nested, diskFaults>>
     \/ /\ DiskFails
        /\ unsettled' = unsettled \cup {i}
        /\ held' = Unheld
        /\ UNCHANGED <<meta, nested, removed>>
  /\ UNCHANGED <<skills, upload, drawn, uploaded, reloads, approved, named>>

-----------------------------------------------------------------------------
(* Restart *)

\* The records of an identifier that the walk finds, whatever directory they are in.
RecordsOf(i) == {r \in {meta[k] : k \in Entries} \cup {nested[k] : k \in Entries} :
               r.id = i /\ r.status # "none"}

\* The process ends between two steps and is started again: every file named metadata.json
\* becomes a skill; of those that name the same one the last in the order of their names, which
\* are random.
loadFromDisk ==
  /\ reloads < MaxReloads
  /\ reloads' = reloads + 1
  /\ skills' \in [Entries -> Status]
  /\ \A k \in Entries :
       IF RecordsOf(k) = {} THEN skills'[k] = "none"
                            ELSE \E r \in RecordsOf(k) : skills'[k] = r.status
  /\ upload' = {} /\ held' = Unheld
  /\ UNCHANGED <<meta, nested, drawn, uploaded, diskFaults, approved, removed, named, unsettled>>

SkillInit ==
  /\ skills = [k \in Entries |-> "none"]
  /\ meta = [k \in Entries |-> NoRecord] /\ nested = [k \in Entries |-> NoRecord]
  /\ upload = {} /\ held = Unheld /\ drawn = {}
  /\ uploaded = 0 /\ diskFaults = 0 /\ reloads = 0
  /\ approved = {} /\ removed = {} /\ named = {} /\ unsettled = {}

SkillNext ==
  \/ \E i \in SkillIds :
        BeginUpload(i) \/ UploadFails(i) \/ WriteFiles(i) \/ StageSkill(i)
  \/ \E i \in Entries :
        saveMeta(i) \/ ApproveSkill(i) \/ Reject(i) \/ Revoke(i) \/ RemoveAll(i)
  \/ loadFromDisk

SkillSpec == SkillInit /\ [][SkillNext]_skillVars
-----------------------------------------------------------------------------
(* Properties *)

\* As long as no uploaded file names it, a skill is active only with an approval of its own,
\* and a rejected or revoked one does not come back, not even with a restart.
LeaveIsKept ==
  \A i \in SkillIds \ named : /\ skills[i] = "active" => i \in approved
                              /\ i \in removed => skills[i] = "none"

\* A restart finds such a skill as it is, unless a write of its record had failed or is under
\* way.
RestartFindsSkills ==
  \A i \in SkillIds \ (unsettled \cup named) :
     held.id # i => RecordsOf(i) = IF skills[i] = "none" THEN {} ELSE {Record(i, skills[i])}

\* Both, as a run checks them together.
SkillsAreKept == LeaveIsKept /\ RestartFindsSkills

\* The registry has no entry but the skills that were uploaded (loadFromDisk).
OnlySkillsAreListed == skills[Phantom] = "none"

\* There is "a mandatory human approval gate before any skill becomes executable"
\* (PRODUCT.md): no skill is active that nobody approved.
NoneActiveUnapproved == \A k \in Entries : skills[k] = "active" => k \in approved

\* A skill that was approved stays listed until it is rejected or revoked, wherever the process
\* ends, as long as no write of its record fails (Approve, saveMeta).
ListedUntilRemoved ==
  [][\A i \in SkillIds \ unsettled :
       skills[i] = "active" /\ skills'[i] = "none" => held'.op = "remove"]_skillVars
=============================================================================
