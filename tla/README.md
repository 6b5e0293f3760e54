# Verification of the orchestrator of dev-team-bots

This directory holds TLA+ specifications of `boabot`, the program that runs a team of
bots: the Kanban queue, the direct tasks and their scheduler, the tech-lead pool, the
stores and their locks, the runtime of the bots, the conversations on Buzz, Slack and
the Agent Client Protocol, plugins, skills, users, memory, the start of the process,
and the web page. TLC checks them on small instances; TLAPS proves the safety of
most of them for every value of the constants.

All paths below are relative to `src/boabot/` unless they say otherwise;
`internal/` is left out of them.

## 1. The system

`boabot` is one Go process that runs a team of bots (language-model agents), and
an orchestrator among them with an HTTP server, a Kanban board and stores that
are written to JSON files. A second process, `boabot acp`, may work on the same
files. `boabotctl` is a command line client of the HTTP server.

### Components, their state and what they promise

| Component | State | Operations | What makes it correct |
|---|---|---|---|
| Board store (`infrastructure/local/orchestrator/board.go`) | work items by id, mutex, JSON file, status hook | Create, Update (whole record), Get, List, Delete, Reorder, SetStatusChangeHook | a deleted item stays deleted; writes of stale copies do no harm |
| Queue runner (`application/orchestrator/queue_runner.go`) | none between ticks | every 15 s: reconcile in-progress items with their tasks, count free slots, list and sort queued items, launch those that are ready | the concurrency limit; order; every ready item starts |
| Board dispatch (`application/orchestrator/board_dispatch.go`) | none | build the instruction, Dispatch, store `ActiveTaskID` | the item names its own task |
| Task dispatcher (`infrastructure/local/orchestrator/task_dispatcher.go`) | none | Dispatch, DispatchWithSchedule, RunNow: create the task, send the message, store `running` | a task is running because its message was sent; a task is sent once |
| Task store (`direct_task_store.go`) | tasks by id, mutex, JSON file | Create, Update, Get, List, Delete, ListDue, ClaimDue | no lost or resurrected tasks |
| Scheduler (`application/scheduling/scheduler_service.go`) | none between ticks | list due tasks, claim each, RunNow, advance recurring ones | a due task is sent, once, and not early |
| Recurrence rules (`domain/schedule.go`) | none | next occurrence of daily, weekly, monthly rules | the next date is the next one |
| Team manager (`application/team/team_manager.go`) | bots, the wiring of every callback | start, stop, restart a bot that panicked; handlers of results and progress; the board hook; spawnTechLead, stopTechLead | results reach the task and the item |
| Tech-lead pool (`application/pool/pool.go`) | entries, counter, state file, mutex | Allocate, Deallocate, Reconcile | one instance per item in progress, one on standby |
| Agent runtime (`application/run_agent.go`, `execute_task.go`) | workers, pending questions | receive loop, a worker per message, tool loop, answers | each message has one result; a panic takes down its worker only |
| Message queue and bus (`infrastructure/local/queue`, `local/bus`) | channels by bot | Register, Send, SendBatch, Receive, Unregister | no message to a closed queue; a full queue is an error |
| Chat task manager (`application/orchestrator/chat_task_manager.go`) | pending intents in the chat store | detect, confirm, cancel | an intent is dispatched at most once |
| Buzz task bridge (`application/orchestrator/buzz_task_bridge.go`) | events seen | Dispatch, createBoardItem | a replayed event is dispatched once, a failed one again |
| Relay client (`infrastructure/buzz/relay_client.go`, `reconnect.go`) | connection, subscriptions with generations | Publish, Subscribe, reconnect, Close | no subscription is lost by a reconnection; Close ends |
| Buzz monitor, presence, discovery, DM, ticker | correlations, agents | events to messages | one answer to one trigger |
| File locks (`infrastructure/local/filelock/filelock.go`, `infrastructure/buzz/lock.go`) | a file with a PID | AcquireWait, AcquireLock, Release | mutual exclusion; no lock is stuck |
| Shared JSON stores (`board.go`, `direct_task_store.go`, `chat_store.go`, `local/sharedstate`) | memory and file | load, merge, replace under the file lock | no process loses the other one's records |
| Sub-team manager (`application/subteam/manager.go`) | agents, heartbeats, session file | Spawn, SendHeartbeat, Terminate, TearDownAll | every agent that was spawned ends |
| Plugins (`infrastructure/local/plugin`, `application/plugin`, `infrastructure/http/registry_client.go`) | index, directories with manifest and status, registries | Install, Approve, Enable, Disable, Remove, registries | what is active was verified and allowed; a restart finds what memory has |
| Skills (`infrastructure/local/orchestrator/skill_registry.go`, `infrastructure/http/server.go`) | staged and active skills, a directory each | upload, Approve, Reject, Revoke | the same |
| Users and login (`infrastructure/local/orchestrator/auth.go`, `infrastructure/http/server.go`, `boabotctl`) | users, JSON file, stored token | create, remove, disable, roles, passwords, names | the last password set is the one that works, also after a restart |
| Attachments (`infrastructure/http/server.go`) | records of an item, files | upload, serve, delete | deleting one leaves the others |
| ACP mode (`infrastructure/acp`) | sessions, turns, records of tasks | new, prompt, cancel, close, evict | every prompt is answered; records agree with answers |
| Memory (`infrastructure/github/backup`, `application/backup`, `infrastructure/local/sharedstate`) | directory, repository, owner marker | restore, scheduled backup | what was backed up is not lost |
| Start (`cmd/boabot`, `infrastructure/credentials`, `infrastructure/secret`, `application/team`) | environment, keystore, files, queues, monitors | chain of providers, credentials, tokens, personas | every bot under its own key; the process starts or says why |
| Slack monitor (`infrastructure/slack`) | pending tasks | events to tasks, results to replies | a task's result is posted |
| Web page (the script inside `infrastructure/http/server.go`) | copies of items, tasks, threads, panes; timers | clicks, answers in any order | it comes to show what the server has; a form is sent to the item it shows |
| Notifications (`application/notifications`) | notifications, JSON file | only RequeueTask has an effect in the program | |
| Control plane, cleanup, watchdog, workflow, triage, ETA, cost, metrics, screening, model providers, database | | | see section 2, "Not modelled" |

`PROJECT.json` lists each of them with the module that models it or the reason
why none does.

### How they interact

```
 HTTP request ──PATCH──> board store <──Update── queue runner (ticker)
       │                     │ hook (after unlock)      │
       │                     v                          v
       │               tech-lead pool          DispatchBoardItem
       │                                                │
       └──tasks──> dispatcher <──RunNow── scheduler     │
                       │  └──────────────<──────────────┘
                       v Send
                    bot's queue ──> worker ──result──> handleSharedTaskResult
                                                        │ task store, then board store
```

Every store guards one call with its mutex and returns copies. Everything else
happens between calls: a goroutine reads an item or task, works for a while, and
writes the whole record back. Goroutines are the HTTP handlers (one per
request), the queue runner, the scheduler, one worker per message, and one
goroutine per result or line of progress. Processes meet only in the files,
under the file lock.

### What is hard

* stale copies: Update replaces the record by whatever the caller read earlier;
* check, then act: the capacity check, RunNow, ClaimDue followed by RunNow;
* order: the message is sent before the task is stored as running, and the task
  before its id reaches the item; the status hook runs after the unlock;
* restarts: tasks and items are on disk, messages and instances are not;
* stale locks: read the PID, ask for the process, remove the file;
* reconnection: subscribing, resubscribing, cancelling and closing overlap;
* progress: what looks at a record again if the step that should have changed it
  was lost.

`PROJECT.json` lists each of these under "hazards" at its line, with the
properties that would catch it, and a note where they leave a part of it open.

## 2. Modules

| Module | Models | Used by |
|---|---|---|
| `KanbanQueue` | board store, queue runner, board dispatch, dispatcher, board requests, results | `MCKanbanQueue`, `KanbanQueueProofs` |
| `TechLeadPool` | board hook, pool, instances, restart | `ServicesProofs`, `MCServices` |
| `TaskDispatch` | task store, dispatcher, scheduler, task requests, progress, results, restart | `TaskDispatchProofs` |
| `FileLock`, `Mutex` | AcquireWait (`Waits = TRUE`), AcquireLock (`Waits = FALSE`), Release, crashes; what a lock promises | `BuzzIdentityProofs`, `MCBuzzIdentity` |
| `RelayClient` | Connect, the reconnect loop, Subscribe, pumps, Close | `BuzzIdentityProofs`, `MCBuzzIdentity` |
| `SharedStore`, `AtomicMap` | the JSON stores that several processes share; what they promise | `ServicesProofs`, `MCServices` |
| `BuzzBridge` | chat task manager, task bridge, handlers of the Buzz monitor, the chat page's handler | `BuzzBridgeProofs`, `MCBuzzBridge` |
| `BuzzMonitor` | start, discovery, membership and presence of the Buzz monitor | `ServicesProofs`, `MCServices` |
| `SubTeam`, `AgentRuntime` | the agents of a tech-lead; the bot that runs them: queue, loop, worker, questions, restarts | `AgentRuntimeProofs`, `MCAgentRuntime` |
| `AcpAgent` | sessions and turns of ACP mode | `AcpAgentProofs`, `MCAcpAgent` |
| `Plugins` | registries, installation, the two stores of plugins | `ServicesProofs`, `MCServices` |
| `Skills` | skill registry and its handlers | `ServicesProofs`, `MCServices` |
| `Users` | accounts, their handlers, `boabotctl login`, `user`, `profile` | `ServicesProofs`, `MCServices` |
| `Memory` | memory directory, restore, scheduled backup | `ServicesProofs`, `MCServices` |
| `Startup` | secrets, credentials, queues, personas | `ServicesProofs`, `MCBuzzIdentity` |
| `Attachments` | upload and removal | |
| `Slack` | Slack monitor and the way of results back to it | |
| `WebBoard` | the board in the script of the web page | `WebBoardProofs`, `MCWebPage` |
| `WebChat`, `WebTasks`, `WebPanes` | the rest of the script | `MCWebPage` |

`AgentRuntime` extends `SubTeam`: the bot's own messages spawn and terminate the
agents. `FileLock` instantiates `Mutex`, `SharedStore` instantiates `AtomicMap`, each
as its abstract specification. The `MC` modules give the constants their values.
The names of `FileLock` that `RelayClient` has too begin with `Lock` there
(`LockInit`, `LockNext`, `LockSpec`), and those of `Startup` with `Start`, so that
`MCBuzzIdentity` can extend all three; in the same way those of `SharedStore` begin with
`Store`, of `Memory` with `Backup`, of `BuzzMonitor` with `Monitor`, of `Plugins` with
`Plugin`, of `Skills` with `Skill` and of `Users` with `User`, and `MCServices` extends
these six and `TechLeadPool`, `ServicesProofs` the start as well.
`MCWebPage` extends `WebBoard`; the other parts of the page are instances in it.
`MCBuzzIdentity`, `MCServices` and `MCWebPage` put components that share no state
into one run: a variable `part` is chosen at the start and says which of them takes
the steps, so that each is checked from its own initial states and alone.

The grain is the same everywhere: **one store call, one pool call or one system
call is one step**, because that is what the code makes atomic (a mutex held from
the beginning to the end of the call, or the operating system). Between two
steps of one goroutine any other may act. Each process has a `pc` or a stage and
its local copy. Most definitions have a mutated form before them, named like a bug
(`FreeSlotsIgnoresRunning`, `UpdateUpserts`, …) and used by nothing: it is there to
see that a property fails when the code does.

### KanbanQueue

`board` is `InMemoryBoardStore.items`, `tasks` the task store, `work`/`outcome`
what the bots do with each task, `copy` the record each goroutine works on,
`todo` and `slots` the locals of `tick`.

| Actions | Code |
|---|---|
| `Tick`, `ReconcileNext`, `ReconcileWrite`, `CountSlots`, `Collect`, `PickNext`, `LaunchWrite`, `EndTick` | `queueRunner.tick`, `reconcile`, `launch` |
| `SendTask`, `RejectTask`, `MarkRunning`, `StoreActive` | `DispatchBoardItem`, `Dispatch`, `dispatchNow` (shared by the runner and PATCH) |
| `CreateItem`, `DeleteItem`, `CloseGet`/`CloseWrite`, `PatchGet`/`CheckCapacity`/`PatchWrite`/`ListColumn`/`Reorder…` | handlers of `/board` |
| `BotAnswers`, `BotPanics`, `RecordResult`, `FindItem`, `FindNothing`, `SettleItem` | `handleTask`, `handle`, `handleSharedTaskResult` |

Abstracted: titles, descriptions, work directories, attachments, output. Not
there: `reorder` as a request of its own, questions to a running bot, cleanup,
PATCH bodies that are refused, and boards loaded with tasks in flight. Create
and send are one step of `SendTask`, since a pending task nobody else knows of
is not looked at; `RecordResult` is one step, since only the status matters.

### TechLeadPool

`MoveItem` is `Update` of the board up to the unlock, `RunHook` the callback that
team_manager.go installs: `Allocate` or `Deallocate`, each under the pool's mutex.
`running` are the goroutines of instances, `cancelled` their contexts: Allocate
cancels the context that the instance's own derives from. `Restart` is the end of
the process and the next start with `Reconcile`, which drops every record since no
instance runs at that time (this is why the state file is left out).

### TaskDispatch

`runs` are the messages sent: one record per goroutine that handles a message,
with the copy it will write back. `Send`, `Reject`, `Mark` and `Store` are the
steps of `dispatchNow` and of the Update that ends it; `Tick`, `Claim`,
`RunClaimed`, `Fetch`, `EndTick` those of the scheduler; `CreateNow`,
`CreateScheduled`, `RunNow`, `Requeue`, `DeleteTask` the requests;
`ReadProgress`/`WriteProgress` and `ReadResult`/`WriteResult` the two read-modify-
write handlers of team_manager.go. Any queue may be full at any send (`Reject`).
The next date of a recurring task is any later one: the rules of `schedule.go`
are not modelled. Retention cleanup deletes tasks by age; `DeleteTask`, which may
delete any task at any time, covers it. A restart loses the messages.

### FileLock and Mutex

Publishing with `os.Link`, reading the PID, asking for the process, removing the
file and releasing are single steps; `Die` stops a process between any two.
Assumed: a PID is not reused (the code documents that limitation), the disk has
no errors, each process has one acquirer. The path of a system without signals,
where every process counts as running, is not modelled. `Mutex` is the abstract
lock: an owner, Acquire if free, Release by the owner, until `broken`, after which
it promises nothing. `FileLock` maps `file` to the owner and a death to `broken`.

### RelayClient

| Actions | Code |
|---|---|
| `ConnectDials`, `ConnectStores` | `Connect`: dial without a lock, store under `rc.mu` |
| `Watch`, `Retry`, `Redial`, `Swap`, `ListSubs`, `Resubscribe`, `Resubscribed` | `watchLoop`, `reconnect`, `resubscribeAll` |
| `Subscribe`, `Register`, `Undo` | `Subscribe` |
| `Check`, `Open`, `Add` | `attachSub`, called by Subscribe and by the loop; `att` holds both calls |
| `Receive`, `Judge`, `Forward`, `PumpEnds` | `pumpSub`, one per generation |
| `Cancel`, `Remove`, `RemoverCloses` | the end of the context, `removeAndClose` |
| `CloseBegins`, `CloseDrops`, `CloseSweeps` | `Close` |

A critical section of `rc.mu` or `rc.subMu` is one step, as is a call of the
library. `gen` is `entry.generation`, `pump[s][g]` the goroutine of generation `g`,
`closes` counts how often a caller's channel was closed. External: the relay may
drop a connection at any time, and the library then closes the channels of its
subscriptions. It is assumed to refuse a subscription only on a lost connection or
for a context that has ended. Filters, authentication, publishing, the profile and
the presence callback are not modelled; `Redial` stands for a dial and the
authentication on it. The caller reads and stops reading like the monitor's
consumers, which leave when their context ends.

### SharedStore and AtomicMap

`board.json`, `tasks.json` and `chat.json` are written alike; one file with the keys
of all three stands for them. `Open` is the start of a process, which reads the file
once; `Create`, `Update`, `Reorder`, `Delete`, `DeleteThread`, `AppendMessage`
are the mutations, each in memory first. `Persist` then goes through the lock (`Acquire`,
`FindStale`/`Reclaim`, or `GiveUp` at the deadline), `ReadAndMerge`, `BeginWrite`/
`EndWrite` of the temporary file, `Rename`, `Release`. `Crash` may come between any
two. `AtomicMap` says what this promises: a change reaches the map in one step and
touches only the entries it names, until `raced`, the removal of the lock of a
process that runs, after which nothing is promised (see `lock_waiters` below).

### BuzzBridge

| Actions | Code |
|---|---|
| `Receive` | the monitor's subscriptions and the chat page's `handleChatSend` |
| `Mark`, `Unmark`, `Expire` | `checkAndMarkSeen`, `unmark`, the TTL |
| `Load`, `Confirm`, `Cancel`, `Detect`, `Clear` | `DetectAndHandle`: the pending intent of a thread is read, then acted upon |
| `Send` (`Refuse`, `Dispatch`), `Link`, `CreateItem`, `Undo`, `Await` | `BuzzTaskBridge.Dispatch` with dispatchNow before and after its message, `createBoardItem`, `awaitResult` |
| `StoreResult`, `SettleItem`, `HandleResult` | `handleSharedTaskResult`, the monitor's `HandleResult` |
| `DeleteTask` | an operator deletes a task |

A dispatch fails before its message is sent (`Refuse`), or after it: dispatchNow stores
the task as running, and if it was deleted since, the store's error is returned as that
of the dispatch (`Link`). The bridge then takes its mark back although the bot has the
message. `lost` counts those.

The author gate, the heuristic that detects a task, history replay, typing
indicators and encryption are choices or left out.

### BuzzMonitor

`StartMonitor` (`Start`: every bot of the process calls it, the lock lets one through),
`Connect`, `Authenticate`, `Announce`, `startDiscovery`, `startMembershipWatch` are the
goroutine of the start; `NoticeLoss` … `Resume`, `Swap` the watch loop;
`subscribeToChannel`, `Subscribed`, `SubscribeFails`, `UndoEntry`,
`unsubscribeFromChannel`, `Cancel` the two loops that subscribe. `loops` are the
presence loops that have not been cancelled. `Stop` is not there: nothing calls it.

### SubTeam and AgentRuntime

`SubTeam` is the manager of a tech-lead's agents: `SpawnAgent`, `BeginTerminate`/
`Done`/`StopWaiting`, `BeginTearDown`, and the agent's goroutine `Leave`,
`MarkTerminated`, `CloseDone`; `session` is the file, by the number of records that each
name has in it. `AgentRuntime` adds the bot:
`Start`, `Register`, `Shutdown`, `LeavePoll`, `FinishStop`, `Crash`; the queue
(`Send`, `Receive`); one goroutine per message (`HandleSpawn`, `HandleTerminate`,
and `ReadDirs`, `AllowDir`, `Round`, `EndTask`, `DisallowDir`, `Report` of a task);
`Ask`, a question of the web page to a running task. A worker may fail or panic at
each round.

### AcpAgent

`NewSession` (with the eviction of the oldest), `Cancel`, `CloseSession`, `Arrive`
are the requests of the host; `Lock` … `Unlock` one turn under `turnMu`, with the
records of the task and of the item that it writes; `Think` and `StopThinking` the
keep-alive goroutine that `Join` waits for; `Fire` a cancel function that was read
under the mutex and is called after it.

### Plugins and Skills

`Plugins`: `AddRegistry`, `RemoveRegistry`, `FetchIndex`, `FetchManifest`,
`FetchArchive`, `FetchSkills` (no lock); `Install`, `Unpack`, `Promote`, `WriteStatus`,
`TruncateManifest`/`WriteManifest`, `Approve`, `Enable`, `Disable`, `Reload`,
`RemovePlugin`, `RemoveFile` (the store's mutex is held throughout, so that `op` is at most one of
them; what may come between are a failure and a crash); `Load` at start, for the
two stores that team_manager.go opens on the one directory. An archive may hold a
`status.json` and a `plugin.yaml` (`ArchiveHolds`), as one does that was packed from the
directory of an installed plugin: they are unpacked, renamed and overwritten, and `Load`
reads them wherever it finds them, also in `<name>-tmp`.

`Skills`: `BeginUpload`, `WriteFiles`, `StageSkill`, `ApproveSkill`, `Reject`, `Revoke`
change the registry; `saveMeta` truncates a record and then writes it, `RemoveAll` removes
file by file, both under the lock (`held`); `loadFromDisk` takes every file of the name
`metadata.json`. A file of that name in an upload is written as it is, at the top of the
skill's directory, where its record goes (`meta`), or below it (`nested`), and may name
any skill of which the uploader can know.

### Users

`handleUser…` and `handleProfile…` are the handlers, in two phases where they read
an account with one call and write it with another; `persist` writes all accounts
and may fail unseen. `UserCommand`, `ProfileCommand`, `LoginCommand` are those of
`boabotctl`, with the token it keeps. `ServerRestarts` is the next process, which reads the
file of the users.

### Memory

A directory, what is staged, a commit and the branch are sets of files. `EnsureOwner` is
`sharedstate.EnsureOwner`; `startBot` begins a restore if `isDirEmpty`, which goes on with
`FetchBranch` (references and index), `CheckOut` (file by file) and `CloneEnds`, or with
`CloneFails`; `Write` is what the bot does; `Stage`, `Commit`, `Push`, `PullFails`,
`UpToDate`, `Replaced`, `Retry` a run of the schedule, of which two may overlap.
`ForeignPush` is somebody else's push to the remote, `ProcessEnds` the end of the
process, at any step of a clone too (`cut`), `Lose` the loss of the machine's directory.
A bot that is started on a part of a clone runs on it, since the directory is not empty,
and its next backup stages the missing files as deletions.

### Startup

`callProvider`, `GetAnswer`, `GetTimeout` are one question to one provider of the
chain, whose answer and timeout race; `Chain` is the order, `Lookup` what each of
the four finds. `buildSecretProviders`, `ResolveSecrets`, `WireSlack`, `RunTeam`,
`StartPersona`, `buildBuzzMonitor`, `StartBots` are main.go and `Run` in their order.
`Setups` are what an operator may have prepared; `SecretSet`, `SecretDelete`,
`ChangeMode` what one does meanwhile (`Edit`); `StartAgain` the next process.

### Attachments

`Get` copies an item but not the array behind its slice of attachments, which the
model therefore keeps as an array and a length (`Slice`, `Cap`, `Appended`).
`UploadCommand` and `DeleteCommand` are `boabotctl`; `StoreFile`, `Filter`,
`RemoveFile` and `Update` the steps of the two handlers.

### Slack

`handleCallbackEvent` and `dispatch` are the monitor, `Send` the bot's queue,
`Receive` and `Report` the bot, `handleSharedTaskResult` the handler that
team_manager.go installs. `ChatTask` sends tasks of the web page the same way.

### The web page

The script is single-threaded, its requests are answered in any order and handled
whatever the user has done meanwhile. A handler is a function of the page's state
`ui` that collects the requests it makes in `ui.send`; `Serve` is the server's step,
`Answer` the script's. `WebBoard` has the board and the panel of an item, `WebChat`
the threads, `WebTasks` the list and the panel of tasks, `WebPanes` signing in and
the panes of plugins, registries, users and dead letters. Equal requests under way
are one. The server's side is any order of changes, or what its handler does. An upload
may fail, and the script takes the error for the item (`UploadFailed`): the panel is then
one of `Undefined`, and asks for `/board/undefined`.

### Not modelled

* Notifications: `RaiseNotification` and `ActionNotification` have no caller in the
  program, so its store stays empty; `RequeueTask` is in `TaskDispatch`. The dead
  letters are those of `NoopDLQStore`: none.
* Control plane, watchdog, retention cleanup: one ticker or one map each.
  `DeleteTask`, which may delete any task at any time, covers the cleanup.
* Recurrence (`domain/schedule.go`), workflow, triage, rebalancing, ETA, cost,
  metrics, screening, vector index and text scores: pure computation. The next date
  of a recurring task is any later one in `TaskDispatch`.
* Model providers, database statements, command line agents: external services.
* Rendering, icons, flags, logging, the encoding of events, keys and tokens.

## 3. Runs

| Run | Module | Bounds | Question |
|---|---|---|---|
| `queue_alone` | MCKanbanQueue | 3 queued items in 12 mixtures of modes, 1 slot, 3 tasks, no requests | limit, one dispatch per item, order, progress |
| `queue_edited` | MCKanbanQueue | 1 item queued, 1 in the backlog, 1 not yet created, 1 request of any kind, 1 slot, 2 tasks | stale copies against requests; settling |
| `dispatch_store` | TaskDispatch | 1 task, 2 messages, 3 requests, 2 clock values, 1 restart | stale copies of a task; no early claim; due tasks are picked up |
| `buzz_identity` | MCBuzzIdentity | start: 5 set-ups, 2 bots, 2 commands of the operator, 1 failing provider, 1 restart; lock: 3 processes, 2 of which may stop; client: 1 subscription, 3 connections, a buffer of 1 | each bot's own key; the lock implements `Mutex`, stale locks go; attachment, closing |
| `buzz_bridge` | MCBuzzBridge | 2 readers, 2 threads, 4 events, of which two come twice, 1 failure, 1 expiry, 1 deletion of a task | one task per event, none swallowed; requests end once; replies |
| `agent_runtime` | MCAgentRuntime | 1 task, 1 name that is spawned twice, 1 termination, 1 question, a queue of 2, 1 failure, 1 crash | session file, termination, reports |
| `acp_turns` | MCAcpAgent | 2 prompts on one session, a second session that evicts it, 1 failing call, 1 end of the process | cancel functions, records, answers |
| `web_page` | MCWebPage | 3 clicks, 1 change by others, 2 requests under way, failing uploads, each of the 4 parts | the page catches up, forms, waiting ends |
| `services` | MCServices | see below | eight services that share nothing |
| `dispatch_scheduled` | TaskDispatch | 1 scheduled task | fails: see below |
| `attachments` | Attachments | 1 operator, 3 uploads | fails |
| `slack_replies` | Slack | 2 events, 3 tasks, 1 lost acknowledgement | fails |

`services` checks, each from its own initial states:

| Part | Bounds |
|---|---|
| pool | 3 items, 2 goroutines, 5 board changes, deletions among them, 1 restart |
| store | 2 processes, 3 keys, 3 writes, 2 crashes |
| plugins | 1 name, a trusted and an untrusted registry, 2 versions, one of them packed with its records, 2 installations, 1 failure, 1 crash |
| registries | 2 changes of the list, 1 failure, 1 crash |
| skills | 2 uploads, 1 uploaded `metadata.json`, 1 failing write or removal, 1 end of the process |
| users | the administrator and one user, 2 operators, 3 commands, 2 passwords, 1 failing write, 1 restart |
| monitor | 1 channel, 2 starts, 5 events, 2 losses of the connection |
| backup | 2 overlapping runs, 4 files, 2 failures at the remote, 1 loss of the directory, a foreign push, clones that fail or are cut off |

Why the bounds are enough. In the queue, two items compete for a slot and the
third makes order and chains of predecessors visible; a request interferes with
the copies of the runner, of a launch, of a dispatch and of a result, and the
item that is created while the runner works is the third. The safety of the
copies (`ActiveTaskIsOwn`, `DeletedStaysDeleted`) is proved for any number of
requests. In `dispatch_store` two messages of one task let the handlers of an old run
meet those of a new one, and three requests reach create, run or requeue, delete;
tasks do not interact except in the scheduler's listing. In the pool, three items
are needed for an entry to be dropped while two stay, five changes for an item to
return while another leaves, and two goroutines for hooks to overtake each other. In
the lock, two mortal processes can leave two stale files one after another under two
attempts; its safety is proved for any number. In the relay client three connections
let Subscribe miss a whole reconnection, and let a pump of each of three generations
be alive at once; a buffer of 1 is full after one event. In the bridge an event that
comes twice meets itself in the two readers, a failure or the deletion of its task lies
between the two, and the request, its confirmation and its cancellation come in any
order. A name that is
spawned twice is what termination, timeout and the session file can mix up. Two
prompts on a session are what a cancel function can miss. On the page, two clicks
and the answers to both make every late answer there is; the third goes back. Two
processes are enough for a merge to lose an entry, a third write for one to return;
two operators for a lost update; two runs for a backup of one to be pushed by the
other. One uploaded `metadata.json` can name the other skill or none, as active or staged,
and one version with records meets one without under the same name. Plugins run with one
installer, as two exceed ten million states, and without changes to the list of the
registries, which is a part of its own: the two share only what a request has looked up.

Deadlock is checked in the queue and in the tasks, where the runner and the scheduler
tick for ever. Elsewhere the system may stop: the operators make no more changes, the
client is closed, the process has ended, or a bound is reached.

### Fairness

* The queue runner and the scheduler are loops on a ticker: weak fairness of each
  one's step as a whole. Each visits an item per step, and none of their steps
  can be disabled by another process for ever.
* A request that was begun and a result that was received run to their end in
  goroutines of their own: weak fairness per goroutine.
* `FileLock`: a living process goes on with its attempt. Nobody is obliged to release.
* `RelayClient`: the loop, each Subscribe, pump, removal and Close go on. Nothing
  is assumed of the relay, of the network or of those who read, cancel and close.
* `BuzzBridge`: a handler that has begun goes on, and here the bots answer: the
  property is about what becomes of an answer.
* `AgentRuntime`: the start and stop of the bot, the goroutine of each message and
  each agent go on; the timeout of an agent is a timer, so it comes. Nothing is
  assumed of crashes, panics and those who send.
* `AcpAgent`: a prompt goes on, as does the end of its keep-alive goroutine. The work
  of a turn ends: its model and tools have their own timeouts.
* Web page: the timer of 30 seconds fires, and each request is served and answered
  (the browser reports a lost one as an error). Nothing is assumed of the user, of the
  faster timers or of the bots.
* Nothing is assumed of operators, of the clock, or of board changes. No strong
  fairness is used. `services` needs no fairness: its properties are safety.

### What the passing runs show

* `CapacityRespected`, `DispatchedOnce`, `StartsInOrder`: with the runner alone the
  queue does what `docs/product-details.md` says, through any interleaving with the
  results. `ReadyItemStarts`, `LinkedItemSettles`: the tick and its reconciliation
  repair what a lost or stale write left behind, as long as the task ended.
* `ActiveTaskIsOwn`, `DeletedStaysDeleted`: the whole-record writes are harmless in
  these respects. `RunningWasSent`, `OneShotNotEarly`, `DueTaskIsClaimed`: the same of
  tasks.
* `IsMutex`, `StaleLockIsRemoved`: the lock file works until somebody dies with it, and
  never stays. `AttachedToCurrent`, `NoConnectionLeft`, `ClosingEnds`: no subscription
  is forgotten by a reconnection, and Close ends with nothing left open.
  `IdentityIsOwn`: a bot appears under its own, current key, whichever providers fail.
* `OneTaskPerEvent`, `NothingSwallowed`, `RequestEndsOnce`, `VisibleTaskSettles`: the
  marks keep a replayed event from a second task, but for a task that is deleted while
  it is dispatched, and let a failed one be tried again; in a thread with one reader a
  request ends once (the words sent again on the chat page are a request again, so that
  there it is one that came once); and what was registered before the bot's answer gets
  its item closed and its reply published.
* `SessionMatches`, `TerminateCleansUp`, `TerminatingEnds`, `TakenIsReported`: the
  overlap of timeout, termination, teardown and crash leaves the session file true.
* `CancelIsCurrent`, `RecordsAgree`, `QuietAfterAnswer`, `EveryPromptIsAnswered`: a
  cancellation reaches the running turn, whatever the eviction of its session; task,
  item and answer agree; no update follows an answer.
* `FormIsOfItem`, `PageCatchesUp`, `WaitingEnds`: Save sends the form that is shown, and
  the timer of 30 seconds repairs what late answers did, once the others are quiet. It does
  not repair the panel of a failed upload (`PanelRecovers`, below): the lists and the
  output of an open item are what `PageCatchesUp` is about.
* `OneEntryEach`, `PoolNeverEmpties`: the pool's lists stay in order even if the hooks
  arrive in the wrong one. `IsAtomicMap`, `OwnEntriesAgree`: merging keeps the
  other process's entries, and a crash loses no more than the change under way.
* `PluginsAreKept`, `SkillsAreKept`: what was installed or uploaded here is active only with
  leave, has the files that were verified, does not come back when it was removed, and is
  found by a restart, whatever was interrupted. What an archive or an upload says of
  *other* plugins and skills in a record of its own is set aside: these records are read
  as they are (`NoneActiveWithoutLeave`, `NoneActiveUnapproved`, below). A plugin is one
  of this store by its identifier, a skill is set aside from the moment an uploaded file
  names it. `UsersAreKept`: no handler puts an old password back.
* `MonitorIsConsistent`, `BackupIsKept`: one presence loop; channels that can be
  cancelled, until a subscription fails; and backups that outlive the machine. Of the last:
  what was reported complete is in the remote's history, wherever the process ends after
  a clone has the branch; that the branch still has it and a clone brings it back
  needs that no clone was cut off (`BranchKeepsCompleted`, below).

### Where code and documents disagree

Each run that fails states what a document or comment says (quoted under
"findings"), and TLC finds the behaviour of the code that contradicts it.

* `dispatch_scheduled` — ClaimDue makes the task `dispatching`, and RunNow returns
  a dispatching task unchanged: a scheduled task is never sent.
* `attachments` — the deletion keeps a pointer into the array that it filters in
  place, and removes the file of the attachment that has moved there.
* `slack_replies` — the handler of results returns at a task that is not in the store
  of direct tasks before it asks the monitors; Slack's tasks are not in it.

These have a configuration beside the runs, which TLC refutes in seconds:

| Configuration | Property | What happens |
|---|---|---|
| `queue_capacity` | `CapacityRespected` with two operators | the capacity check and the write are two store calls (server.go:523; docs/product-details.md:132) |
| `queue_lost_result` | `ResultReachesItem` | an answer that is faster than dispatchNow is stored, then overwritten by `running`: the item keeps its slot for ever (task_dispatcher.go:142) |
| `lock_waiters` | `MutualExclusion` | a waiter removes the fresh lock of another one in place of the stale one that it had read (filelock.go:173, :176); `AcquireLock` in buzz/lock.go has the same steps |
| `relay_lost` | `ForwardsFromCurrent` | a Subscribe that read the old connection takes the latest generation after the loop has attached to the new one: the pump of the dead connection supersedes the live one (relay_client.go:646; reconnect.go:178) |
| `buzz_confirm` | `ConfirmationIsTaken` | the monitor wraps a message before DetectAndHandle sees it, so that "yes" is not recognised (monitor.go:534; chat_task_manager.go:55) |
| `runtime_ask` | `QuestionIsAnswered` | a question put to a bot whose task has just ended waits in its channel (server.go:1521; team_manager.go:1213) |
| `plugins_bots` | `ActiveToolsAreOffered` | the bots list the plugins of a second store, which reads the directory at the start only (team_manager.go:565, :930; docs/product-details.md:171, :244) |

These are stated as properties of the modules and fail, without a configuration:

| Property | Module | What happens |
|---|---|---|
| `SomeInstanceRuns` | TechLeadPool | the instance's context ends with the call that spawned it (pool.go:124; user-docs/pool-management.md:32) |
| `OneSubscriptionEach` | BuzzMonitor | a failed subscription takes out the entry of another one (discovery.go:105; :85 says a channel is subscribed to once) |
| `TaskMayUseItsDirectory` | AgentRuntime | the tasks of a bot share one list of directories (mcp/client.go:820) and run at the same time (run_agent.go:117) |
| `OneMessagePerEvent` | BuzzBridge | a task that is deleted after its message was sent makes dispatchNow fail (task_dispatcher.go:145); the bridge takes its mark back (buzz_task_bridge.go:158), and a replay of the event sends another message |
| `NoneActiveWithoutLeave` | Plugins | an archive's own `status.json` is unpacked (installer.go:39) and overwritten at the end (store.go:166-215); the process ends in between, and the next start reads it as it is (store.go:63-96), in the plugin's directory or in `<name>-tmp` |
| `OnlySkillsAreListed`, `NoneActiveUnapproved` | Skills | a `metadata.json` of an upload, at its top or below, is an entry after a restart, with the identifier and status it names (skill_registry.go:38-61; PRODUCT.md:133) |
| `ListedUntilRemoved` | Skills | a record is truncated before it is written (saveMeta); the process ends in between, and the next start does not find the skill |
| `BranchKeepsCompleted` | Memory | a clone that is cut off leaves a directory that is not empty and is not restored again (team_manager.go:796-800; backup.go:208); the next backup pushes the files that it lacks as deletions |
| `EmptyMemoryIsRestored` | Memory | the orchestrator's directory is not empty any more when it is looked at (user-docs/configuration.md:54) |
| `BackupIsPushed` | Memory | a plainly initialised repository has no remote "origin", and a failed push is tried again only when something has changed (backup.go:101; docs/product-details.md:110) |
| `PanelRecovers` | WebBoard | uploadFiles (server.go:5150-5164) does not test `r.ok` and takes an error for the item; the panel asks for `/board/undefined`, and neither loadBoard nor refreshAll puts an item in its place |
| `FirstLoginChangesPassword` | Users | nothing on the server insists (PRODUCT.md:273) |

Seen while modelling, without a property:

* Queue and tasks. A deleted item in progress does not release its instance, since
  Delete calls no hook (board.go:271). A move to in-progress with a bot restores the old
  position after the reordering (board_dispatch.go:43, server.go:590). RequeueTask
  leaves a task that nobody will pick up (notification_service.go:150;
  docs/technical-details.md:487). Two RunNow of one task send it twice
  (task_dispatcher.go:155). Dispatch compares the date with two readings of the clock
  (task_dispatcher.go:70). The next date of a recurring task is stored after RunNow
  (docs/technical-details.md:483 says before), and a day of the month that the next
  month lacks is normalised into the month after (schedule.go:95). Tasks that were
  dispatching or running when the process ended stay so (direct_task_store.go:43).
  board.go:53 says the hook is called inside the lock; Update calls it after the unlock.
* Relay and monitor. Connect stores its connection without a look at `rc.closed` (the
  exception in `NoConnectionLeft`). A Subscribe whose attachment fails after the loop's
  succeeded leaves the loop's pump. A pump that waits for room in a channel whose
  reader has left keeps `removeAndClose` waiting until the client is closed. A first
  Connect that fails is not tried again and keeps the lock; a first Authenticate that
  fails leaves a monitor that is shown online after a reconnection and hears nothing;
  the monitor lives with the context of the bot that started it. `Stop` and `Close` have
  no caller: no offline presence, and a stale lock file at every end
  (docs/technical-details.md:529).
* Bridge. A result that comes before `awaitResult` is not replied to; an item that is
  created after it stays in progress. A replayed "yes" after a failed dispatch goes out
  as plain text. Replays after the TTL of ten minutes or a restart dispatch again.
  handleChatSend gives the bot the ten oldest messages of the thread.
* Runtime. A panicking worker reports nothing (run_agent.go:122). A question is looked at
  only between calls of tools (execute_task.go:212). The shared tracker of rules is
  reset by the next task. A spawn and a termination may be handled in the opposite
  order. `SendHeartbeat` and `Deregister` have no caller: every agent runs into its
  timeout.
* ACP. A prompt that was queued when its session was closed still runs, and cannot be
  cancelled. The end of the process leaves its task running and its item in progress.
* Plugins and skills. A failed installation leaves a directory that blocks the name
  (technical-details.md: "No partial state remains"); leftovers of `<name>-tmp` come with
  the next one; a torn `status.json` loses the plugin; Enable and Approve look at no
  status; errors of RemoveAll are dropped; a removed registry of the configuration is
  back after a restart.
* Users. Two changes of one account may undo each other (a disabled account is enabled
  again by a change of role); the reset of an administrator can be overwritten by a
  user's own change that was verified before; Create replaces an existing user; tokens
  outlive their account. `boabotctl` has commands for memory whose paths the server does
  not have (http_client.go:362).
* Start. `LoadAPIToken` says that failures of a provider are returned; `Store.Get` turns
  them into "not found". A team without an enabled bot panics, although `Run` promises
  an error. A restore from an empty branch keeps a bot from ever starting; the documents
  give every bot the same backup repository, so that histories diverge.
* Slack. Redelivered events make second tasks; `pending` grows for ever; these tasks are
  not in the web page's history.
* Attachments. Two of one name share a file; of two uploads at once one may be lost.
* Web page. A late answer for one item replaces the panel of another until the next
  refresh; polling for output stops at the first output; a refused second start replaces
  the item of the capacity dialog; a question put while the timer belongs to another
  item is not polled for; `saveBoardWorkDir`, `saveBoardBacklogEdits` and
  `openTaskCtxById` have no caller.

## 4. Proofs

| Theorem | Module | Statement |
|---|---|---|
| `TypesAreRespected` | KanbanQueueProofs, TaskDispatchProofs, BuzzIdentityProofs (of the client), AcpAgentProofs, AgentRuntimeProofs, WebBoardProofs | `Spec => []TypeOK` |
| `LockTypesAreRespected` | BuzzIdentityProofs | `LockSpec => []LockTypeOK` |
| `TypesHold` | BuzzBridgeProofs | the same |
| `TasksAreOwn` | KanbanQueueProofs | `Spec => []ActiveTaskIsOwn` |
| `IdleItemsCarryNoTask` | KanbanQueueProofs | `Spec => []IdleItemHasNoTask` |
| `DeletedItemsStayDeleted` | KanbanQueueProofs | `Spec => DeletedStaysDeleted` |
| `RunnerRespectsCapacity`, `RunnerDispatchesOnce`, `RunnerStartsInOrder` | KanbanQueueProofs | `CapacityRespected`, `DispatchedOnce`, `StartsInOrder`, for `Clients = {}` |
| `EntriesAreDistinct`, `StandbyAlone`, `PoolStaysUsed` | ServicesProofs | `OneEntryEach`, `StandbyIsAlone`, `PoolNeverEmpties` |
| `NoRunWithoutMessage`, `DeletedTasksStayDeleted`, `OneShotTasksAreNotEarly` | TaskDispatchProofs | `RunningWasSent`, `DeletedStaysDeleted`, `OneShotNotEarly` |
| `ExclusiveUntilDeath`, `FilesAreOwn` | BuzzIdentityProofs | `ExclusiveWhileAllRun`, `OwnFileOnly` |
| `LockIsMutex` | BuzzIdentityProofs | `LockSpec => IsMutex`: refinement |
| `ChannelsCloseLast`, `ReconnectionAttaches`, `ConnectionsAreClosed` | BuzzIdentityProofs | `ClosedLast`, `AttachedToCurrent`, `NoConnectionLeft` |
| `EventsMakeOneTask`, `EventsAreNotSwallowed`, `RequestsEndOnce` | BuzzBridgeProofs | `OneTaskPerEvent`, `NothingSwallowed`, `RequestEndsOnce` |
| `CancelsAreCurrent`, `AnswersMatchRecords`, `AnswersAreLast` | AcpAgentProofs | `CancelIsCurrent`, `RecordsAgree`, `QuietAfterAnswer` |
| `SessionFollowsAgents`, `TerminationsCleanUp`, `TasksAreReportedOnce` | AgentRuntimeProofs | `SessionMatches`, `TerminateCleansUp`, `ReportedOnce` |
| `StoreTypesAreRespected`, and of `Backup`, `Monitor`, `Plugin`, `Skill`, `User`, `Start` | ServicesProofs | `StoreSpec => []StoreTypeOK`, and of the other six |
| `OwnEntriesReachDisk` | ServicesProofs | `OwnEntriesAgree` |
| `StoreIsAtomicMap` | ServicesProofs | `StoreSpec => IsAtomicMap`: refinement |
| `BackupsOutliveMachine` | ServicesProofs | `BackupIsKept` |
| `MonitorStaysConsistent` | ServicesProofs | `MonitorIsConsistent` |
| `PluginsStayKept`, `SkillsStayKept`, `UsersStayKept` | ServicesProofs | `PluginsAreKept`, `SkillsAreKept`, `UsersAreKept` |
| `IdentitiesAreOwn` | ServicesProofs | `IdentityIsOwn` |
| `FormsAreOwn` | WebBoardProofs | `FormIsOfItem` |

The assumptions are the named ASSUMEs of the modules: bounds are numbers, null
values are not values, items are a finite set of positive numbers (their order is
the order of creation), the readers of the bridge are finitely many, and loaded
boards carry no task.

Three theorems of the queue have hypotheses of their own. `Clients = {}`: the runner
and the bots are alone. With requests these properties are false, which
`queue_capacity` and `queue_lost_result` show, so that the hypothesis is the
statement and no weakness of the proof. `BoardsAreWithinLimit`: a board that is
loaded has no more items in progress than the limit (nothing takes one back if it
has). `BoardsAreStamped`: its queued items have the time of their queueing, as the
handlers write it.

The arguments:

* **Queue.** `ActiveTaskIsOwn` is not inductive: it says nothing of the copies that
  are about to be written. `IInv` says of *every* record in the system, on the
  board, in `copy`, in `found` and in `todo`, that it is `Owned`: a task it carries
  was created for that item, and it is in progress or done. `KeepsOwners` says that
  no step gives a task to another item, so a stale record stays owned for ever
  (`OwnedStable`); what remains is that each operation makes owned records of owned
  ones (`LaunchedInOrder`, `SettledInOrder`, `PatchedInOrder`) and that a dispatch
  works on a record in progress (`DispatchOwned`). One lemma per group of actions.
* **The runner alone.** What requests break is that a copy is as good as the board;
  without them it is, and `AloneInv` says so for each place: what was collected is
  still queued as it was read (`CollectedIsQueued`), an item that is launched is on the
  board as queued and on no list (`LaunchIsDue`), nobody touches one that is being
  dispatched until its task is stored (`DispatchIsFirst`), and results only end items
  (`FoundEnds`, `FinishEnds`). Then the slots counted at the start of a tick plus the
  items in progress never exceed the limit (`WithinLimit`): a launch uses up a slot, all
  else can only free one. `OneTaskEach` is inductive with it, since only an item without
  a task is dispatched. The order needs more: between the look at an item and its launch
  a result may be written. `OrderInv` says that a task's answer is final
  (`AnswersStand`), that an item which has ended shows that answer, and whatever still
  holds a result for it would write the same (`EndsAgree`); so a predecessor that isReady
  found done is done at the launch. `AsapIsListed` says that no waiting asap item is
  missing from the tick's list.
* **Tasks.** The same idea as in the queue: `Known(r)` says of a record what holds
  wherever it is kept (a message was sent if it is shown begun; its date is the one asked
  for; if it is being dispatched the date has come), and is monotonic because ids are not
  reused and messages not unsent (`KnownStays`).
* **Pool.** The three properties and `NamesAreGiven` (no entry has a name above the
  counter) are inductive together: a failed spawn takes back only a name that
  nobody has.
* **Store.** `StoreInv` has three parts besides the types. `Asked`: a process has a change
  exactly while its call is under way, and its memory shows that change. `Exclusive`: until
  the lock of a running process is removed, whoever is between taking and releasing it is
  named by the lock file, what it is about to write is the file with its change, and no
  torn file is ever renamed. `Agrees`: what a process alone has touched is on disk as it
  remembers it, its current change and those it gave up aside. With these `Rename` is the
  map's `Apply`, a call its `Ask`, `GiveUp` and `Crash` its `Drop`, the removal of a
  running process's lock its `Break`; every other step changes nothing the map sees.
* **Backup.** `Reported` says that what was promised is in the remote's history: `Carried`
  follows what a run has staged into what is committed before it pushes, whichever of two
  overlapping runs commits it, and `OnBranch` says that a clone builds on the branch's last
  commit, so that a history that has diverged cannot arise while nobody else pushes and no
  clone is cut off before it has the branch. `Newer` says that files only grow on their way
  from the branch by what is committed and staged to the directory; a clone that is cut off
  in its checkout breaks this one and not the first, hence the two conditions on `cut`.
  `AtRest`: no run outlives its process, and a clone under way is one of a remote.
* **Monitor.** `OneLoop`: the loop that can be cancelled is the one that runs, and it was
  begun before a new connection comes into use. `BegunInOrder`: `run` starts each of the
  two loops once. `Listed`: until a subscription fails, one that is not cancelled, opened
  or not, is its channel's entry or has been taken out to be cancelled; it needs
  `KnownSubscriptions`, that an entry is a subscription of its channel.
* **Plugins.** A call that holds the mutex writes its directory in several steps, and a
  crash may fall between any two. `CallMatches` says what it has unpacked or is about to
  write a manifest for is what was verified; a name that is free in memory has nobody who
  relies on its directory. `CallIsOnItsWay` says how far the directory of the call is, so
  that `OthersAreSaved` (memory and disk agree where no call is under way and no operation
  has failed) is restored by its last step. A plugin without its own identifier could come
  back under another name: `IdsAreOwn` says that identifiers were given by installations,
  one to each name, in memory, on the disk and in the call, and none that was removed.
  `LeaveIsGiven` follows the status through memory, call and disk. `AtTarget` and `Managed`
  say once what a step of the call and a call of an operator may change. The records of an
  archive have an identifier that this store has not given (`Given`), and a directory that
  is being unpacked has no other (`UnpackedIsPacked`); so they say nothing of a plugin that
  was installed here, and only such a directory (`Unfinished`) keeps a restart from finding
  what memory has. `Vouched` says from when on a directory has to match its manifest.
* **Skills.** What the properties say of the registry has to be said of the records too
  (`RecordIsAllowed`). `InItsPlace`: the record of a skill that no uploaded file names is in
  its own directory, so that nothing else is found for it (`FoundIsOwn`); an identifier is
  named only after it was drawn (`DrawnFirst`). `RecordAgrees`: memory and record are the
  same but for the skill that the lock is held for (`HeldFor`).
* **Users.** `ProviderInv`: as long as no write has failed, the file is the map, and an
  account's hash is the last one set; inductive, since the handlers in two phases write
  back only fields that `UpdateUser` takes from them, and the hash is not one.
  `CommandInv` says what is known of a request under way: that it names a user, and that
  only a change of password in a login goes out without a token.
* **Start.** `WantedInv` follows a bot's three secrets through the questions that are still
  to be asked: the key of a monitor to come is the answer to its first one. `AnswerInv`
  says of the answer in hand where in the chain it comes from, the file being the last;
  with `KeystoreInv` (numbers only grow, and what the keystore lacks is noted) the key is
  current. `MonitorsInv`: the bots of the monitors are among those that speak already, and
  distinct. `QueueInv`: when Slack's queue is registered there is no other yet, and from
  then on `Unregistered` keeps the team and the personas from registering one again.
* **Web page.** A handler is a function of the page, so the proof has a lemma per function:
  it makes a `GoodPage` of a good one. `FormIsOfItem` is inductive with the types, because
  whatever replaces `boardCtxItem` also calls `loadBoardCtx`, whose every tab replaces the
  form (`PanelIsGood`). The types need what requests are about: `KnownRequest` says that
  all but the list have a target, and that a request which succeeded or was refused for
  want of a slot named an item of the board, so that its answer, a dialog or a timer does.
* **Lock.** While nobody has died, no process is about to remove the file, and a
  process holds the lock exactly if the file names it. Until then each step is
  therefore a step of `Mutex` or changes nothing it sees; a death is its `Break`.
* **Relay client.** `Stored` and `Ending` say that at most the stored connection and
  the one about to be stored are up, and that Close read the last one. `Channel`
  says who may still close a channel. `Counted` counts the attachments to come, one
  per connection, which bounds the generations. `Covered` says where the attachment
  to the current connection is to be found: ahead of the loop, in the loop's hands,
  in Subscribe's, or in a pump. The point is that Subscribe can only open a
  subscription on a connection that is up, which is the current one unless the loop
  is still to list the entries. `ForwardsFromCurrent` would need the generations to
  be in the order of the connections, and they are not (`relay_lost`).
* **Bridge.** `Marks`: until its mark expires at most one reader is past
  checkAndMarkSeen with an event. `Sent` counts: one task more than were deleted in their
  dispatch, and then the reader is past the dispatch, so that there is no second one, and
  no undoing either; a deleted task evens the count before the mark is taken back. `Kept`
  needs a witness that has *passed* its mark: a reader before it finds the event marked
  and leaves, so that "some reader has it" alone is not inductive. For requests, `Life`
  follows one through unsent, read, waiting, confirmed and executed; `Undisturbed` says
  that with one reader what Load has read is still the pending intent when it is acted
  upon. The words of a chat message that come twice are two requests, which is why
  `RequestEndsOnce` is about one that came once; of relay events, however often they come.
* **ACP.** `TurnIsHeld`: the holder of `turnMu` is the one prompt between Lock and Unlock.
  With it `CancelIsCurrent` is inductive: the two steps that write a cancel function find
  no other prompt that has one to lose. `Stages` says of a prompt at each step what its
  task, item, outcome and answer may be; the answer is decided from the same outcome as
  the records, and a keep-alive goroutine lives only before the answer (`Beating`). That
  the map of sessions and the order of eviction agree is part of `TypeOK`; it rests on
  two lemmas about taking one place out of a sequence (`RemovedPlace`, `RemovedElement`).
* **Runtime.** `markTerminated` knows only a name. `Owned` says that the name is still its
  agent's: it cannot be given away before `markTerminated` has set the status, and no
  agent calls it twice. So what it writes and removes is its own, and the file follows
  the map (`Matches`). The old records are discarded when the bot starts, and `Quiet`
  (no handler is under way then) makes that lose nothing new. `Awaited` says that a
  waiting caller has an agent that was spawned, whose closed channel therefore means
  that it was marked.

Each of these invariants was checked by TLC on the instance of the component's run
before it was proved.

The proofs are about the modules, so that they hold of each component whether or not
some are checked in one run (`MCBuzzIdentity`, `MCServices`).

Only model-checked, and why:

* Liveness: `ReadyItemStarts`, `LinkedItemSettles`, `DueTaskIsClaimed`,
  `StaleLockIsRemoved`, `ClosingEnds`, `VisibleTaskSettles`, `TerminatingEnds`,
  `TakenIsReported`, `EveryPromptIsAnswered`, `PageCatchesUp`, `WaitingEnds`. Fairness is
  stated with ENABLED, which the proof system does not reason about.
* `WebChat`, `WebTasks`, `WebPanes`, `Slack`, `Attachments`: what the runs ask of them is
  liveness, or fails. Their `TypeOK` is stated and has no theorem.

## 5. Plan

Done: all the modules above, and the proofs of section 4.

Every invariant and every action property of the passing runs has a theorem. Next: the types
of the other three parts of the web page. Then, if they are worth a model: the day arithmetic
of `schedule.go` against a reference definition over a small calendar; publishing in the
relay client.

## 6. Running

```
tlc -config queue_alone.cfg MCKanbanQueue       # queue_*
tlc -config dispatch_store.cfg TaskDispatch     # dispatch_*
tlc -config buzz_identity.cfg MCBuzzIdentity
tlc -config buzz_bridge.cfg MCBuzzBridge        # buzz_bridge, buzz_confirm
tlc -config agent_runtime.cfg MCAgentRuntime    # agent_runtime, runtime_ask
tlc -config acp_turns.cfg MCAcpAgent
tlc -config web_page.cfg MCWebPage
tlc -config services.cfg MCServices
tlc -config attachments.cfg Attachments
tlc -config slack_replies.cfg Slack
tlc -config plugins_bots.cfg Plugins
tlc -config lock_waiters.cfg FileLock
tlc -config relay_lost.cfg RelayClient
tlapm KanbanQueueProofs.tla                     # and the other *Proofs modules
```
