------------------------------ MODULE WebPanes -----------------------------
(***************************************************************************)
(* Signing in and out of the web page, and its panes on plugins, on their  *)
(* registries, on users and on dead letters.  The page loads the pane of   *)
(* the tab that is opened, and that of the open tab every 30 seconds.      *)
(*                                                                         *)
(* As in WebBoard a handler runs alone, the answers come in any order, and *)
(* a handler is a function of the page's state ui that collects in ui.send *)
(* the requests it makes.                                                  *)
(*                                                                         *)
(* Abstracted: there is one plugin, and every registry has it; the users   *)
(* are the number of changes made to them; there are no dead letters (the  *)
(* program keeps none); equal requests under way are one.                  *)
(***************************************************************************)
EXTENDS Naturals, FiniteSets

CONSTANTS
  Registries,   \* names of registries
  Configured,   \* the registries there are at the start
  None,         \* no registry
  MaxClicks,    \* bound on what the user does
  MaxRequests   \* bound on the requests under way when the user acts

VARIABLES
  registries,   \* the server's registries
  plugin,       \* the server's plugin
  users,        \* the server's users
  net,          \* requests under way, answered or not
  ui,           \* the page
  clicks        \* number of actions of the user so far

vars == <<registries, plugin, users, net, ui, clicks>>

Roles == {"none", "user", "admin"}
PluginStatuses == {"absent", "staged", "active", "disabled", "rejected"}
Names == Registries \cup {None}
Reads == {"registries", "index", "plugins", "users", "dlq"}
Writes == {"login", "addRegistry", "deleteRegistry", "install", "pluginAction", "remove",
           "userAction"}
Request == [op : Reads \cup Writes, role : Roles, reg : Names, code : {"sent", "ok", "failed"},
            regs : SUBSET Registries, plugin : PluginStatuses, users : 0 .. MaxClicks]
Pane == {"blank", "gate", "failed", "shown"}

TypeOK ==
  /\ registries \subseteq Registries
  /\ plugin \in PluginStatuses
  /\ users \in 0 .. MaxClicks
  /\ net \subseteq Request
  /\ ui \in [myRole : Roles, activeTab : {"board", "plugins", "dlq", "users"},
             registryData : SUBSET Registries, selected : Names,
             cards : [kind : {"blank", "select", "loading", "failed", "shown"}, reg : Names,
                      installed : BOOLEAN],
             pluginsBody : Pane, table : PluginStatuses, installedNames : BOOLEAN,
             usersBody : Pane, listed : 0 .. MaxClicks, dlqBody : Pane, send : {{}}]
  /\ clicks \in 0 .. MaxClicks

Call(op, role, reg) == [op |-> op, role |-> role, reg |-> reg, code |-> "sent",
                        regs |-> {}, plugin |-> "absent", users |-> 0]

\* The token goes with the request.
api(u, op, reg) == [u EXCEPT !.send = @ \cup {Call(op, u.myRole, reg)}]

-----------------------------------------------------------------------------
(* Functions of the script *)

loadRegistries(u) == api(u, "registries", None)

Cards(kind, reg, installed) == [kind |-> kind, reg |-> reg, installed |-> installed]

loadRegistryIndex(u) ==
  IF u.selected = None THEN [u EXCEPT !.cards = Cards("select", None, FALSE)]
  ELSE api([u EXCEPT !.cards = Cards("loading", None, FALSE)], "index", u.selected)

\* The selection is kept if there is still such a registry, else it is the first one.
RegistriesLoaded(u, regs) ==
  loadRegistryIndex(
    [u EXCEPT !.registryData = regs,
              !.selected = IF @ \in regs THEN @
                           ELSE IF regs = {} THEN None ELSE CHOOSE r \in regs : TRUE])

onRegistryChange(u, reg) == loadRegistryIndex([u EXCEPT !.selected = reg])

renderRegistryCards(u, reg) == [u EXCEPT !.cards = Cards("shown", reg, u.installedNames)]

\* There are buttons to set only on cards that are shown.
syncInstallButtons(u) ==
  IF u.cards.kind = "shown" THEN renderRegistryCards(u, u.cards.reg) ELSE u

loadPlugins(u) == api(u, "plugins", None)

renderPluginsTable(u, status) ==
  syncInstallButtons([u EXCEPT !.pluginsBody = "shown", !.table = status,
                               !.installedNames = status \notin {"absent", "rejected"}])

installPlugin(u) == syncInstallButtons([u EXCEPT !.installedNames = TRUE])

PluginRemoved(u) == syncInstallButtons([u EXCEPT !.installedNames = FALSE])

loadDLQ(u) ==
  IF u.myRole = "none" THEN [u EXCEPT !.dlqBody = "gate"] ELSE api(u, "dlq", None)

loadUsers(u) ==
  IF u.myRole # "admin" THEN [u EXCEPT !.usersBody = "gate"] ELSE api(u, "users", None)

LoadPane(u) ==
  CASE u.activeTab = "board" -> u
    [] u.activeTab = "plugins" -> loadRegistries(loadPlugins(u))
    [] u.activeTab = "dlq" -> loadDLQ(u)
    [] u.activeTab = "users" -> loadUsers(u)

tab(u, name) == LoadPane([u EXCEPT !.activeTab = name])

WithoutUsers(u) == IF u.activeTab = "users" THEN u ELSE LoadPane(u)

refreshAll(u) == LoadPane(u)

doLogin(u, role) == refreshAll([u EXCEPT !.myRole = role])

doLogout(u) == refreshAll([u EXCEPT !.myRole = "none"])

Succeeded(u, r) ==
  CASE r.op = "login" -> doLogin(u, r.role)
    [] r.op = "registries" -> RegistriesLoaded(u, r.regs)
    [] r.op = "index" -> renderRegistryCards(u, r.reg)
    [] r.op = "plugins" -> renderPluginsTable(u, r.plugin)
    [] r.op = "users" -> [u EXCEPT !.usersBody = "shown", !.listed = r.users]
    [] r.op = "dlq" -> [u EXCEPT !.dlqBody = "shown"]
    [] r.op = "addRegistry" -> loadRegistries(u)
    [] r.op = "deleteRegistry" ->
         loadRegistries([u EXCEPT !.selected = None, !.cards = Cards("select", None, FALSE)])
    [] r.op = "install" -> loadPlugins(installPlugin(u))
    [] r.op = "pluginAction" -> loadPlugins(u)
    [] r.op = "remove" -> loadPlugins(PluginRemoved(u))
    [] r.op = "userAction" -> loadUsers(u)

\* Of most errors the user only gets a message.
Failed(u, r) ==
  CASE r.op = "index" -> [u EXCEPT !.cards = Cards("failed", None, FALSE)]
    [] r.op = "plugins" -> [u EXCEPT !.pluginsBody = "failed"]
    [] r.op = "users" -> [u EXCEPT !.usersBody = "failed"]
    [] r.op = "dlq" -> [u EXCEPT !.dlqBody = "failed"]
    [] OTHER -> u

-----------------------------------------------------------------------------
(* The page's steps *)

\* A handler has run: its requests go out.
Run(u, pending) ==
  /\ ui' = [u EXCEPT !.send = {}]
  /\ net' = pending \cup u.send

Answer(op) ==
  /\ \E r \in net :
        /\ r.op = op
        /\ r.code # "sent"
        /\ Run(IF r.code = "ok" THEN Succeeded(ui, r) ELSE Failed(ui, r), net \ {r})
  /\ UNCHANGED <<registries, plugin, users, clicks>>

\* The timer waits while a request of the kind it makes is under way.
RefreshTick ==
  /\ \A r \in net, s \in refreshAll(ui).send : r.op # s.op
  /\ Run(refreshAll(ui), net)
  /\ UNCHANGED <<registries, plugin, users, clicks>>

Click(u) ==
  /\ clicks < MaxClicks
  /\ clicks' = clicks + 1
  /\ Cardinality(net) < MaxRequests
  /\ Run(u, net)
  /\ UNCHANGED <<registries, plugin, users>>

OnPlugins == ui.activeTab = "plugins"

SignIn ==
  /\ ui.myRole = "none"
  /\ \E role \in {"user", "admin"} : Click([ui EXCEPT !.send = {Call("login", role, None)}])
SignOut == ui.myRole # "none" /\ Click(doLogout(ui))

\* Only an administrator sees the tab of the users.
OpenTab ==
  \E name \in {"board", "plugins", "dlq", "users"} \ {ui.activeTab} :
     /\ name = "users" => ui.myRole = "admin"
     /\ Click(tab(ui, name))

SelectRegistry == OnPlugins /\ \E r \in ui.registryData : Click(onRegistryChange(ui, r))
addRegistry == OnPlugins /\ \E r \in Registries : Click(api(ui, "addRegistry", r))
deleteRegistry == OnPlugins /\ ui.selected # None /\ Click(api(ui, "deleteRegistry", ui.selected))

\* The button names the registry that is selected when the cards are made.
Install ==
  /\ OnPlugins
  /\ ui.cards.kind = "shown" /\ ~ui.cards.installed /\ ui.myRole # "none"
  /\ Click(api(ui, "install", ui.selected))

pluginAction ==
  /\ OnPlugins
  /\ ui.pluginsBody = "shown" /\ ui.table # "absent"
  /\ \E op \in {"pluginAction", "remove"} : Click(api(ui, op, None))

UserAction ==
  ui.activeTab = "users" /\ ui.usersBody = "shown" /\ Click(api(ui, "userAction", None))

User ==
  \/ SignIn \/ SignOut \/ OpenTab \/ SelectRegistry \/ addRegistry \/ deleteRegistry \/ Install
  \/ pluginAction \/ UserAction

-----------------------------------------------------------------------------
(* The server *)

Reply(r, answer) == net' = (net \ {r}) \cup {answer}
Done(r) == Reply(r, [r EXCEPT !.code = "ok"])
Refuse(r) == Reply(r, [r EXCEPT !.code = "failed"]) /\ UNCHANGED <<registries, plugin, users>>

ForAdmins == {"index", "users", "dlq", "addRegistry", "deleteRegistry", "install", "pluginAction",
              "remove", "userAction"}

handleRegistriesList(r) ==
  /\ Reply(r, [r EXCEPT !.code = "ok", !.regs = registries])
  /\ UNCHANGED <<registries, plugin, users>>

handleRegistriesFetchIndex(r) ==
  /\ Reply(r, [r EXCEPT !.code = IF r.reg \in registries THEN "ok" ELSE "failed"])
  /\ UNCHANGED <<registries, plugin, users>>

handleRegistriesAdd(r) ==
  registries' = registries \cup {r.reg} /\ Done(r) /\ UNCHANGED <<plugin, users>>

handleRegistriesRemove(r) ==
  registries' = registries \ {r.reg} /\ Done(r) /\ UNCHANGED <<plugin, users>>

handlePluginsList(r) ==
  /\ Reply(r, [r EXCEPT !.code = "ok", !.plugin = plugin])
  /\ UNCHANGED <<registries, plugin, users>>

handleUserList(r) ==
  /\ Reply(r, [r EXCEPT !.code = "ok", !.users = users])
  /\ UNCHANGED <<registries, plugin, users>>

\* What an operation on the plugin may make of it; it fails in any other status.  The page
\* offers only some of the actions, but it may do so for a status that is no longer true.
NextStatus(op, status) ==
  CASE op = "install" /\ status = "absent" -> {"staged", "active"}
    [] op = "remove" /\ status # "absent" -> {"absent"}
    [] op = "pluginAction" /\ status # "absent" -> {"active", "disabled", "rejected"}
    [] OTHER -> {}

\* Installing, and the actions on the plugin that is installed.
HandlePlugin(r) ==
  plugin' \in NextStatus(r.op, plugin) /\ Done(r) /\ UNCHANGED <<registries, users>>

HandleUser(r) == users' = users + 1 /\ Done(r) /\ UNCHANGED <<registries, plugin>>

Handle(r) ==
  \/ r.op \in {"login", "dlq"} /\ Done(r) /\ UNCHANGED <<registries, plugin, users>>
  \/ r.op = "registries" /\ handleRegistriesList(r)
  \/ r.op = "index" /\ handleRegistriesFetchIndex(r)
  \/ r.op = "addRegistry" /\ handleRegistriesAdd(r)
  \/ r.op = "deleteRegistry" /\ handleRegistriesRemove(r)
  \/ r.op = "plugins" /\ handlePluginsList(r)
  \/ r.op \in {"install", "pluginAction", "remove"} /\ HandlePlugin(r)
  \/ r.op = "users" /\ handleUserList(r)
  \/ r.op = "userAction" /\ HandleUser(r)
  \/ r.op \in Writes /\ Refuse(r)

Serve(op) ==
  /\ \E r \in net :
        /\ r.op = op
        /\ r.code = "sent"
        /\ IF op \in ForAdmins /\ r.role # "admin" THEN Refuse(r) ELSE Handle(r)
  /\ UNCHANGED <<ui, clicks>>

-----------------------------------------------------------------------------
\* An administrator has just signed in, on the tab that is open at first.
Init ==
  /\ registries = Configured
  /\ plugin = "absent"
  /\ users = 0
  /\ net = {}
  /\ ui = [myRole |-> "admin", activeTab |-> "board", registryData |-> {}, selected |-> None,
           cards |-> Cards("blank", None, FALSE), pluginsBody |-> "blank", table |-> "absent",
           installedNames |-> FALSE, usersBody |-> "blank", listed |-> 0,
           dlqBody |-> "blank", send |-> {}]
  /\ clicks = 0

\* A request is served and its answer handled.
Progress(op) == Serve(op) \/ Answer(op)

OtherProgress == \E op \in (Reads \cup Writes) \ {"index", "registries", "plugins"} : Progress(op)

Next == User \/ RefreshTick \/ \E op \in Reads \cup Writes : Progress(op)

Spec == Init /\ [][Next]_vars

\* The server answers and the refreshing goes on; nothing makes a user act.
FairSpec ==
  /\ Spec
  /\ WF_vars(RefreshTick)
  /\ WF_vars(Serve("index"))
  /\ WF_vars(Answer("index"))
  /\ WF_vars(Progress("registries"))
  /\ WF_vars(Progress("plugins"))
  /\ WF_vars(OtherProgress)
-----------------------------------------------------------------------------
(* Properties *)

PluginsShown ==
  /\ ui.registryData = registries
  /\ ui.selected \in IF registries = {} THEN {None} ELSE registries
  /\ ui.pluginsBody = "shown" /\ ui.table = plugin
  /\ \/ ui.cards.kind \in {"loading", "failed"}
     \/ registries = {} /\ ui.cards.kind = "select"
     \/ ui.cards = Cards("shown", ui.selected, plugin \notin {"absent", "rejected"})

\* The open pane comes to show what the server has and the user may see, and nothing of
\* what an earlier user has seen, though answers come after a logout or a change of the
\* registry (tab, refreshAll, doLogout and the loaders).
UpToDate ==
  CASE ui.activeTab = "board" -> TRUE
    [] ui.activeTab = "plugins" -> PluginsShown
    [] ui.activeTab = "users" ->
         IF ui.myRole = "admin" THEN ui.usersBody = "shown" /\ ui.listed = users
         ELSE ui.usersBody = "gate"
    [] ui.activeTab = "dlq" ->
         ui.dlqBody = [none |-> "gate", user |-> "failed", admin |-> "shown"][ui.myRole]
PanesCatchUp == <>[]UpToDate
=============================================================================
