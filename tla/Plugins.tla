------------------------------ MODULE Plugins ------------------------------
(***************************************************************************)
(* The plugins: the manager of the registries, the installation from one,  *)
(* and the store of the installed plugins with its directory.              *)
(*                                                                         *)
(* An installation fetches index, manifest and archive without a lock;     *)
(* then the store's mutex is held from the first check to the last file    *)
(* that is written.  So at most one call of the store is under way (op),   *)
(* and what may come between its steps is a crash, or a file operation     *)
(* that fails.                                                             *)
(*                                                                         *)
(* A process opens two stores on the one directory.  The handlers of the   *)
(* HTTP server change the first one (plugins); the tools of the bots are   *)
(* listed from the second (bots), which reads the directory at startup.    *)
(*                                                                         *)
(* Abstracted: an archive has an entrypoint and a skill file, of which a   *)
(* number tells the version (0: there is none); a manifest is what its     *)
(* checksum covers, for it is the checksum of that archive; the entries    *)
(* of an index are its newest version.  Some archives were packed from the *)
(* directory of an installed plugin, and hold its plugin.yaml and its      *)
(* status.json: it is active there, has the same name and registry, and    *)
(* the identifier of another store, of which there is one for each name.   *)
(* Update has no caller outside the tests.                                 *)
(*                                                                         *)
(* Init, Next and their like bear the plugins' name, and what other        *)
(* services have too is named apart, so that one module can extend this    *)
(* one and theirs.                                                         *)
(***************************************************************************)
EXTENDS Naturals

CONSTANTS
  Installers,   \* requests that install a plugin
  Names,        \* names of plugins: their directories
  Registries,   \* names of registries
  ConfigRegs,   \* the registries of the configuration
  Trusted,      \* the registries that need no approval
  Claude,       \* the registries without archives, of Claude Code plugins
  MaxVersion,   \* bound on the versions that are published
  Packed,       \* the versions packed from the directory of an installed plugin
  MaxChanges,   \* bound on the changes to the list of registries
  MaxInstalls,  \* bound on the installations that reach the disk
  MaxFileFaults, \* bound on failing file operations
  MaxKills,     \* bound on the crashes of the process
  Absent,       \* there is no such file, or no call
  Truncated     \* a file that has been truncated and not yet written

Ids == 1 .. MaxInstalls
Versions == 1 .. MaxVersion
Parts == {"entry", "skill"}
RecordFiles == {"status", "manifest"}
Files == [Parts -> 0 .. MaxVersion]
NoFiles == [p \in Parts |-> 0]
Statuses == {"staged", "active", "disabled"}

\* The identifiers, of this store and of those that others packed.
AnyId == Ids \cup Names

\* What status.json keeps of a plugin, and a plugin in memory.
StatusFile == [id : AnyId, registry : Registries, status : Statuses]
Plugin == [id : AnyId, registry : Registries, status : Statuses, name : Names, manifest : Files]

Directory == [files : Files,
              status : StatusFile \cup {Absent, Truncated},
              manifest : Files \cup {Absent, Truncated}]
NoDirectory == [files |-> NoFiles, status |-> Absent, manifest |-> Absent]

\* What a request has fetched, and a call of the store.
Fetched == [step : {"index", "manifest", "archive", "ready"}, registry : Registries, name : Names,
            version : 0 .. MaxVersion, manifest : Files, archive : Files]
StoreCall == [step : {"unpack", "status", "writing", "manifest", "last", "remove"},
              plugin : Plugin, archive : Files, todo : SUBSET (Parts \cup RecordFiles)]

\* What is assumed of the constants.
ASSUME PluginAssumption ==
  /\ ConfigRegs \subseteq Registries /\ Trusted \subseteq Registries
  /\ Claude \subseteq Registries
  /\ {MaxVersion, MaxChanges, MaxInstalls, MaxFileFaults, MaxKills} \subseteq Nat
  /\ MaxVersion > 0 /\ Packed \subseteq Versions
  /\ Ids \cap Names = {}
  /\ Absent # Truncated
  /\ {Absent, Truncated} \cap (StatusFile \cup Files) = {}
  /\ Absent \notin Fetched \cup StoreCall

VARIABLES
  newest,   \* the version that the registries publish
  regs,     \* the registries of the manager
  saved,    \* what registries.json can be read as, empty if it is truncated
  changes,  \* changes to that list so far
  fetch,    \* per request: what it has fetched so far
  op,       \* the call of the store that holds its mutex
  plugins,  \* the plugins of the server's store
  bots,     \* the plugins of the store the bots use
  dir,      \* per name: its directory
  unpacked, \* per name: the directory it is unpacked into
  installs, \* installations that reached the disk
  dirty,    \* names with a file operation that failed since the process started
  answered, \* history: plugins whose installation was answered
  allowed,  \* history: plugins that an operator approved or enabled
  gone,     \* history: plugins whose removal was answered
  fileFaults, \* failing file operations so far
  kills     \* crashes so far

manager == <<newest, regs, saved, changes>>
disk == <<dir, unpacked>>
history == <<answered, allowed, gone>>
mishaps == <<fileFaults, kills>>
store == <<op, plugins, bots, disk, installs, dirty, history>>
pluginVars == <<manager, fetch, store, mishaps>>


PluginTypeOK ==
  /\ newest \in Versions
  /\ regs \subseteq Registries /\ saved \subseteq Registries
  /\ changes \in 0 .. MaxChanges
  /\ fetch \in [Installers -> Fetched \cup {Absent}]
  /\ op \in StoreCall \cup {Absent}
  /\ plugins \subseteq Plugin /\ bots \subseteq Plugin
  /\ dir \in [Names -> Directory] /\ unpacked \in [Names -> Directory]
  /\ installs \in 0 .. MaxInstalls
  /\ dirty \subseteq Names
  /\ answered \subseteq AnyId /\ allowed \subseteq AnyId /\ gone \subseteq AnyId
  /\ fileFaults \in 0 .. MaxFileFaults /\ kills \in 0 .. MaxKills

\* One more file operation fails.
FileFails == fileFaults < MaxFileFaults /\ fileFaults' = fileFaults + 1

-----------------------------------------------------------------------------
(* The manager of the registries *)

\* Every change rewrites the whole file in place, under the mutex.  An error is
\* ignored; it leaves what a crash in the middle leaves, an unreadable file.
ChangeRegistries(R) ==
  /\ changes < MaxChanges /\ changes' = changes + 1
  /\ regs' = R
  /\ \/ saved' = R /\ UNCHANGED fileFaults
     \/ saved' = {} /\ FileFails
  /\ UNCHANGED <<newest, fetch, store, kills>>

AddRegistry(g) == g \notin regs /\ ChangeRegistries(regs \cup {g})
RemoveRegistry(g) == g \in regs /\ ChangeRegistries(regs \ {g})

\* The list of a process that starts.
StartRegistries == ConfigRegs \cup saved

\* The authors of the plugins publish another version.
Publish ==
  /\ newest < MaxVersion
  /\ newest' = newest + 1
  /\ UNCHANGED <<regs, saved, changes, fetch, store, mishaps>>

-----------------------------------------------------------------------------
(* A request to install *)

\* The registry is looked up by name, with its trust.
LookUp(r, g, n) ==
  /\ fetch[r] = Absent /\ installs < MaxInstalls
  /\ g \in regs
  /\ fetch' = [fetch EXCEPT ![r] = [step |-> "index", registry |-> g, name |-> n, version |-> 0,
                                    manifest |-> NoFiles, archive |-> NoFiles]]
  /\ UNCHANGED <<manager, store, mishaps>>

Fetching(r, step) == fetch[r] # Absent /\ fetch[r].step = step

\* The index comes from the network, or from the cache: it is of the newest
\* version or of an earlier one.
FetchIndex(r) ==
  /\ Fetching(r, "index")
  /\ \E v \in 1 .. newest : fetch' = [fetch EXCEPT ![r].step = "manifest", ![r].version = v]
  /\ UNCHANGED <<manager, store, mishaps>>

\* What a URL of the index leads to: that version, or the newest by now.
Found(r) == {fetch[r].version, newest}

\* The files of a version.
Archive(v) == [p \in Parts |-> v]

\* The manifest of an archive has its checksum.  The one of a Claude Code plugin
\* is itself the first file, and the checksum is computed from what was fetched.
FetchManifest(r) ==
  /\ Fetching(r, "manifest")
  /\ \E v \in Found(r) :
       fetch' = [fetch EXCEPT ![r].step = "archive", ![r].manifest = Archive(v)]
  /\ UNCHANGED <<manager, store, mishaps>>

\* The archive may be of another version than the manifest.
FetchArchive(r) ==
  /\ Fetching(r, "archive") /\ fetch[r].registry \notin Claude
  /\ \E v \in Found(r) :
       fetch' = [fetch EXCEPT ![r].step = "ready", ![r].version = 0, ![r].archive = Archive(v)]
  /\ UNCHANGED <<manager, store, mishaps>>

\* The files of a Claude Code plugin are fetched one by one, and those that
\* fail are left out.
FetchSkills(r) ==
  /\ Fetching(r, "archive") /\ fetch[r].registry \in Claude
  /\ \E v \in Found(r) \cup {0} :
       LET packed == [fetch[r].manifest EXCEPT !["skill"] = v]
       IN  fetch' = [fetch EXCEPT ![r].step = "ready", ![r].version = 0,
                                    ![r].manifest = packed, ![r].archive = packed]
  /\ UNCHANGED <<manager, store, mishaps>>

\* The registry or the plugin is not found, or the network fails.
FetchFails(r) ==
  /\ fetch[r] # Absent /\ fetch[r].step # "ready"
  /\ fetch' = [fetch EXCEPT ![r] = Absent]
  /\ UNCHANGED <<manager, store, mishaps>>

-----------------------------------------------------------------------------
(* The store *)

Installed(n) == \E p \in plugins : p.name = n
VerifiedEntry(f) == f.archive["entry"] # 0
Verified(f) == f.archive = f.manifest
FirstStatus(g) == IF g \in Trusted THEN "active" ELSE "staged"

\* The records that an archive holds, if it has any: of the plugin where it was packed.  The
\* program packs the files of a Claude Code plugin itself.
ArchiveHolds(archive, registry, name) ==
  IF registry \notin Claude /\ archive["entry"] \in Packed
    THEN [files |-> archive, manifest |-> archive,
          status |-> [id |-> name, registry |-> registry, status |-> "active"]]
    ELSE [files |-> archive, manifest |-> Absent, status |-> Absent]

PartsOf(d) ==
  {p \in Parts : d.files[p] # 0} \cup (IF d.status = Absent THEN {} ELSE RecordFiles)

\* The archive is unpacked beside the directory, if its checksum is right and
\* the name is free.
Install(r) ==
  /\ Fetching(r, "ready") /\ op = Absent
  /\ fetch' = [fetch EXCEPT ![r] = Absent]
  /\ IF Installed(fetch[r].name) \/ ~Verified(fetch[r])
       THEN UNCHANGED <<op, installs>>
       ELSE /\ installs < MaxInstalls /\ installs' = installs + 1
            /\ op' = [step |-> "unpack",
                      plugin |-> [id |-> installs', registry |-> fetch[r].registry,
                                  status |-> FirstStatus(fetch[r].registry),
                                  name |-> fetch[r].name, manifest |-> fetch[r].manifest],
                      archive |-> fetch[r].archive,
                      todo |-> PartsOf(ArchiveHolds(fetch[r].archive, fetch[r].registry,
                                                    fetch[r].name))]
  /\ UNCHANGED <<manager, plugins, bots, disk, dirty, history, mishaps>>

In(step) == op # Absent /\ op.step = step
Target == op.plugin.name

Unpacking == ArchiveHolds(op.archive, op.plugin.registry, Target)

\* Over what an interrupted installation has left there.
Unpack ==
  /\ In("unpack")
  /\ \E p \in op.todo :
       /\ op' = [op EXCEPT !.todo = @ \ {p}]
       /\ \/ p \in Parts /\ unpacked' = [unpacked EXCEPT ![Target].files[p] = op.archive[p]]
          \/ p = "status" /\ unpacked' = [unpacked EXCEPT ![Target].status = Unpacking.status]
          \/ p = "manifest" /\ unpacked' = [unpacked EXCEPT ![Target].manifest = Unpacking.manifest]
  /\ UNCHANGED <<manager, fetch, plugins, bots, dir, installs, dirty, history, mishaps>>

\* The directory is renamed with all that is in it.  One that is there cannot be
\* replaced, and any error removes what was unpacked.
Promote ==
  /\ In("unpack")
  /\ unpacked' = [unpacked EXCEPT ![Target] = NoDirectory]
  /\ \/ op.todo = {} /\ dir[Target] = NoDirectory
        /\ dir' = [dir EXCEPT ![Target] = unpacked[Target]]
        /\ op' = [op EXCEPT !.step = "status", !.archive = NoFiles]
        /\ UNCHANGED fileFaults
     \/ op.todo = {} /\ dir[Target] # NoDirectory
        /\ op' = Absent
        /\ UNCHANGED <<dir, fileFaults>>
     \/ FileFails /\ op' = Absent /\ UNCHANGED dir
  /\ UNCHANGED <<manager, fetch, plugins, bots, installs, dirty, history, kills>>

\* status.json is rewritten in place.
Truncate ==
  /\ In("status")
  /\ dir' = [dir EXCEPT ![Target].status = Truncated]
  /\ op' = [op EXCEPT !.step = "writing"]
  /\ UNCHANGED <<manager, fetch, plugins, bots, unpacked, installs, dirty, history, mishaps>>

Known(id) == \E p \in plugins : p.id = id

\* An installation goes on with the manifest; all other calls end here.
AfterStatus == IF Known(op.plugin.id) THEN Absent ELSE [op EXCEPT !.step = "manifest"]

StatusOf(p) == [id |-> p.id, registry |-> p.registry, status |-> p.status]

WriteStatus ==
  /\ In("writing")
  /\ dir' = [dir EXCEPT ![Target].status = StatusOf(op.plugin)]
  /\ op' = AfterStatus
  /\ UNCHANGED <<manager, fetch, plugins, bots, unpacked, installs, dirty, history, mishaps>>

TruncateManifest ==
  /\ In("manifest")
  /\ dir' = [dir EXCEPT ![Target].manifest = Truncated]
  /\ op' = [op EXCEPT !.step = "last"]
  /\ UNCHANGED <<manager, fetch, plugins, bots, unpacked, installs, dirty, history, mishaps>>

\* Only now is the plugin listed.
WriteManifest ==
  /\ In("last")
  /\ dir' = [dir EXCEPT ![Target].manifest = op.plugin.manifest]
  /\ plugins' = plugins \cup {op.plugin}
  /\ answered' = answered \cup {op.plugin.id}
  /\ op' = Absent
  /\ UNCHANGED <<manager, fetch, bots, unpacked, installs, dirty, allowed, gone, mishaps>>

\* A write fails: the call ends with an error, and what it did remains.
WriteFails ==
  /\ op # Absent /\ op.step \in {"status", "writing", "manifest", "last"}
  /\ FileFails
  /\ dirty' = dirty \cup {Target}
  /\ op' = Absent
  /\ UNCHANGED <<manager, fetch, plugins, bots, disk, installs, history, kills>>

SavesNothing(p) == Absent
Saves(p) == [step |-> "status", plugin |-> p, archive |-> NoFiles, todo |-> {}]

\* The plugin is changed in memory, and its status is then saved.
Change(p, q) ==
  /\ op = Absent /\ p \in plugins
  /\ plugins' = (plugins \ {p}) \cup {q}
  /\ op' = Saves(q)
  /\ UNCHANGED <<manager, fetch, bots, disk, installs, dirty, answered, gone, mishaps>>

\* Neither call looks at the status.
Approve(p) == Change(p, [p EXCEPT !.status = "active"]) /\ allowed' = allowed \cup {p.id}
Enable(p) == Approve(p)
Disable(p) == Change(p, [p EXCEPT !.status = "disabled"]) /\ UNCHANGED allowed

\* plugin.yaml, empty if it cannot be read.
ManifestIn(d) == IF d.manifest \in {Absent, Truncated} THEN NoFiles ELSE d.manifest
ReadManifest(n) == ManifestIn(dir[n])

\* An empty manifest names the directory itself as the entrypoint.
Runnable(n) == ReadManifest(n)["entry"] # 0 => dir[n].files["entry"] # 0

Reload(p) ==
  /\ Change(p, [p EXCEPT !.manifest = ReadManifest(p.name),
                         !.status = IF Runnable(p.name) THEN @ ELSE "disabled"])
  /\ UNCHANGED allowed

\* Reject and Remove are alike.
RemovePlugin(p) ==
  /\ op = Absent /\ p \in plugins
  /\ plugins' = plugins \ {p}
  /\ op' = [step |-> "remove", plugin |-> p, archive |-> NoFiles, todo |-> {}]
  /\ UNCHANGED <<manager, fetch, bots, disk, installs, dirty, history, mishaps>>

ShrunkToStatus(d) == {[d EXCEPT !.files[p] = 0] : p \in {p \in Parts : d.files[p] # 0}}

\* A directory with one file less.
Shrunk(d) ==
  {[d EXCEPT !.files[p] = 0] : p \in {p \in Parts : d.files[p] # 0}}
    \cup (IF d.status = Absent THEN {} ELSE {[d EXCEPT !.status = Absent]})
    \cup (IF d.manifest = Absent THEN {} ELSE {[d EXCEPT !.manifest = Absent]})

RemoveFile ==
  /\ In("remove")
  /\ \E d \in Shrunk(dir[Target]) : dir' = [dir EXCEPT ![Target] = d]
  /\ UNCHANGED <<manager, fetch, op, plugins, bots, unpacked, installs, dirty, history, mishaps>>

\* The call succeeds whether or not all files could be removed.
Removed ==
  /\ In("remove")
  /\ op' = Absent
  /\ \/ Shrunk(dir[Target]) = {}
        /\ gone' = gone \cup {op.plugin.id}
        /\ UNCHANGED <<dirty, fileFaults>>
     \/ FileFails /\ dirty' = dirty \cup {Target} /\ UNCHANGED gone
  /\ UNCHANGED <<manager, fetch, plugins, bots, disk, installs, answered, allowed, kills>>

-----------------------------------------------------------------------------
(* Startup, and what the bots see *)

LoadedActive(n, d) == [id |-> d.status.id, registry |-> d.status.registry,
                       status |-> "active", name |-> n, manifest |-> ManifestIn(d)]

\* The plugin of that name whose record is in a directory.
Loaded(n, d) == [id |-> d.status.id, registry |-> d.status.registry,
                 status |-> d.status.status, name |-> n, manifest |-> ManifestIn(d)]

HasStatus(d) == d.status \notin {Absent, Truncated}

\* What loadFromDisk finds of a name: the plugins whose status can be read, in its directory
\* or in one that was left half unpacked, which comes later and takes the identifier.
LoadOf(n) ==
  {Loaded(n, d) : d \in {d \in {dir[n], unpacked[n]} :
     /\ HasStatus(d)
     /\ HasStatus(unpacked[n]) /\ unpacked[n].status.id = d.status.id => d = unpacked[n]}}

Load == UNION {LoadOf(n) : n \in Names}

ProcessRestarts ==
  /\ kills < MaxKills /\ kills' = kills + 1
  /\ regs' = StartRegistries
  /\ fetch' = [r \in Installers |-> Absent]
  /\ op' = Absent
  /\ plugins' = Load /\ bots' = Load
  /\ dirty' = {}
  /\ UNCHANGED <<newest, saved, changes, disk, installs, history, fileFaults>>

\* The plugins whose tools a listing offers.
Offered(listed) == {p.id : p \in {p \in listed : p.status = "active" /\ p.manifest # NoFiles}}

-----------------------------------------------------------------------------

PluginInit ==
  /\ newest = 1
  /\ regs = ConfigRegs /\ saved = {} /\ changes = 0
  /\ fetch = [r \in Installers |-> Absent]
  /\ op = Absent
  /\ plugins = {} /\ bots = {}
  /\ dir = [n \in Names |-> NoDirectory] /\ unpacked = [n \in Names |-> NoDirectory]
  /\ installs = 0
  /\ dirty = {} /\ answered = {} /\ allowed = {} /\ gone = {}
  /\ fileFaults = 0 /\ kills = 0

Registry ==
  \/ \E g \in Registries : AddRegistry(g) \/ RemoveRegistry(g)
  \/ Publish

Request(r) ==
  \/ \E g \in Registries, n \in Names : LookUp(r, g, n)
  \/ FetchIndex(r) \/ FetchManifest(r) \/ FetchArchive(r) \/ FetchSkills(r) \/ FetchFails(r)
  \/ Install(r)

StoreStep ==
  \/ Unpack \/ Promote
  \/ Truncate \/ WriteStatus \/ TruncateManifest \/ WriteManifest \/ WriteFails
  \/ RemoveFile \/ Removed

Manage(p) == Approve(p) \/ Enable(p) \/ Disable(p) \/ Reload(p) \/ RemovePlugin(p)

PluginNext ==
  \/ Registry
  \/ \E r \in Installers : Request(r)
  \/ StoreStep
  \/ \E p \in plugins : Manage(p)
  \/ ProcessRestarts

PluginSpec == PluginInit /\ [][PluginNext]_pluginVars

-----------------------------------------------------------------------------
(* Properties *)

\* A file that the manifest of a plugin covers whose installation was answered is the
\* file whose checksum was verified, or it is missing: no publication between the fetches,
\* second installation, crash or record in an archive puts files of another version in its
\* place.
FilesAreVerified ==
  \A p \in plugins : p.id \in answered =>
    \A f \in Parts : p.manifest[f] # 0 => dir[p.name].files[f] \in {0, p.manifest[f]}

\* Between two calls a restart would find the plugins and the registries that
\* the process has in memory, unless a file operation has failed (saveStatus,
\* saveManifest, persistRegistries), or an archive with a record was left half unpacked:
\* no call saves or removes what is there.
RestartFindsAll ==
  /\ op = Absent =>
       \A n \in Names \ dirty :
         unpacked[n].status = Absent => {p \in plugins : p.name = n} = LoadOf(n)
  /\ saved # {} => regs \cup ConfigRegs = StartRegistries

\* An active plugin of a registry that is not trusted was approved or enabled
\* by an operator, whatever was interrupted and read back since, unless an archive
\* brought its record.
ActiveWasAllowed ==
  \A p \in plugins \cup bots :
    p.status = "active" /\ p.id \in Ids => p.registry \in Trusted \/ p.id \in allowed

\* A plugin that was installed here and removed completely does not come back, and its
\* name does not bring it back.
RemovedStaysRemoved == \A p \in plugins \cup Load : p.id \in Ids => p.id \notin gone

\* All of it, as a run checks it together.
PluginsAreKept ==
  FilesAreVerified /\ RestartFindsAll /\ ActiveWasAllowed /\ RemovedStaysRemoved

\* A plugin of a registry that is not trusted is active only when an operator approved or
\* enabled it, wherever its record comes from.  This does not hold: a crash between the
\* unpacking of an archive's own status.json and the writing of the store's leaves the
\* archive's, and the next start takes it as it is.
NoneActiveWithoutLeave ==
  \A p \in plugins \cup bots :
    p.status = "active" => p.registry \in Trusted \/ p.id \in allowed

\* "Tools appear in ListTools on the next call": the bots are offered the tools
\* of the plugins that are active.
ActiveToolsAreOffered == op = Absent => Offered(plugins) = Offered(bots)
=============================================================================
