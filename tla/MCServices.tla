----------------------------- MODULE MCServices -----------------------------
(***************************************************************************)
(* Eight services of the daemon that share nothing they keep: the pool of  *)
(* tech-leads, a JSON store and the processes that share its file, the     *)
(* memory of a bot and its backup, the Buzz monitor, the plugins, the list *)
(* of their registries, the skills, and the users.  "part" says which of   *)
(* them the behaviour is about; the others are at rest: the list of the    *)
(* registries while plugins are installed, and the other way round.        *)
(***************************************************************************)
EXTENDS TechLeadPool, SharedStore, Memory, BuzzMonitor, Plugins, Skills, Users

CONSTANTS
  m1, t1,         \* the store
  signedIn        \* the operator who is at rest with a token

VARIABLE part

allVars == <<part, vars, storeVars, backupVars, monitorVars, pluginVars, skillVars, userVars>>

MCThreadOf == [m \in {m1} |-> t1]

\* Where a service rests while another is at work: nothing has been used, and nobody has the
\* directory.
PoolAtRest == Init /\ template /\ \A i \in Items : column[i] = "other"
BackupAtRest == BackupInit /\ ~orchestrator /\ ~restoreOnEmpty /\ contents = 0
MonitorAtRest == MonitorInit /\ identity = "free"
UsersAtRest == UserInit /\ ctl[signedIn].cred # NoToken

ServicesInit ==
  /\ part \in {"pool", "store", "backup", "monitor", "plugins", "registries", "skills", "users"}
  /\ IF part = "pool" THEN Init ELSE PoolAtRest
  /\ StoreInit
  /\ IF part = "backup" THEN BackupInit ELSE BackupAtRest
  /\ IF part = "monitor" THEN MonitorInit ELSE MonitorAtRest
  /\ PluginInit
  /\ SkillInit
  /\ IF part = "users" THEN UserInit ELSE UsersAtRest

\* The services at rest, in two groups.
FirstVars == <<vars, storeVars, backupVars>>
SecondVars == <<monitorVars, pluginVars, skillVars, userVars>>

InFirst ==
  \/ part = "pool" /\ Next /\ UNCHANGED <<storeVars, backupVars>>
  \/ part = "store" /\ StoreNext /\ UNCHANGED <<vars, backupVars>>
  \/ part = "backup" /\ BackupNext /\ UNCHANGED <<vars, storeVars>>

InSecond ==
  \/ part = "monitor" /\ MonitorNext /\ UNCHANGED <<pluginVars, skillVars, userVars>>
  \/ part = "plugins" /\ PluginNext /\ UNCHANGED <<changes, monitorVars, skillVars, userVars>>
  \/ part = "registries" /\ PluginNext /\ UNCHANGED <<store, monitorVars, skillVars, userVars>>
  \/ part = "skills" /\ SkillNext /\ UNCHANGED <<monitorVars, pluginVars, userVars>>
  \/ part = "users" /\ UserNext /\ UNCHANGED <<monitorVars, pluginVars, skillVars>>

ServicesNext ==
  /\ UNCHANGED part
  /\ \/ InFirst /\ UNCHANGED SecondVars
     \/ InSecond /\ UNCHANGED FirstVars

ServicesSpec == ServicesInit /\ [][ServicesNext]_allVars
=============================================================================
