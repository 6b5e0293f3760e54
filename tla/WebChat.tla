------------------------------ MODULE WebChat ------------------------------
(***************************************************************************)
(* The chat of the web page: the list of threads, the messages of the      *)
(* active one, and the tasks whose answers it waits for, with a timer that *)
(* polls every two seconds while there is one.  The page refreshes itself  *)
(* every 30 seconds besides.                                               *)
(*                                                                         *)
(* As in WebBoard a handler runs alone, the answers come in any order, and *)
(* a handler is a function of the page's state ui that collects in ui.send *)
(* the requests it makes.                                                  *)
(*                                                                         *)
(* Abstracted: a message is the task that it makes, and the bot's answer   *)
(* the fact that the task has been answered; a message goes to one bot;    *)
(* equal requests under way are one.  The user is signed in.               *)
(***************************************************************************)
EXTENDS Naturals, FiniteSets

CONSTANTS
  Threads,      \* chat threads, existing ones and new ones
  Existing,     \* the threads there are at the start
  Tasks,        \* tasks of the messages that are sent
  None,         \* no thread, no task
  MaxClicks,    \* bound on what the user does
  MaxRequests   \* bound on the requests under way when the user acts

VARIABLES
  threads,   \* the server's threads
  used,      \* threads that exist or have existed
  sent,      \* per task: the thread its message was sent in
  answered,  \* the tasks that have been answered
  net,       \* requests under way, answered or not
  ui,        \* the page
  clicks     \* number of actions of the user so far

vars == <<threads, used, sent, answered, net, ui, clicks>>

Ids == Threads \cup {None}
Ops == {"list", "messages", "create", "createAndSend", "remove", "send"}
Request == [op : Ops, thread : Ids, code : {"sent", "ok", "failed"}, listed : SUBSET Threads,
            in : SUBSET Tasks, out : SUBSET Tasks]

TypeOK ==
  /\ threads \subseteq used
  /\ used \subseteq Threads
  /\ sent \in [Tasks -> Ids]
  /\ answered \subseteq Tasks
  /\ net \subseteq Request
  /\ ui \in [activeTab : {"chat", "board"}, allThreads : SUBSET Threads, activeThreadID : Ids,
             hist : [thread : Ids, in : SUBSET Tasks, out : SUBSET Tasks],
             pendingTasks : SUBSET Tasks, fastPollTimer : BOOLEAN, send : {{}}]
  /\ clicks \in 0 .. MaxClicks

Call(op, t) == [op |-> op, thread |-> t, code |-> "sent", listed |-> {}, in |-> {}, out |-> {}]
Api(u, op, t) == [u EXCEPT !.send = @ \cup {Call(op, t)}]

NoMessages == [thread |-> None, in |-> {}, out |-> {}]

-----------------------------------------------------------------------------
(* Functions of the script *)

loadThreads(u) == Api(u, "list", None)

loadChat(u) ==
  IF u.activeThreadID = None THEN [u EXCEPT !.hist = NoMessages]
  ELSE Api(u, "messages", u.activeThreadID)

selectThread(u, t) == loadChat([u EXCEPT !.activeThreadID = t])

startFastPoll(u) == [u EXCEPT !.fastPollTimer = TRUE]
stopFastPoll(u) == [u EXCEPT !.fastPollTimer = FALSE]

doSend(u) == Api(u, "send", u.activeThreadID)

ThreadsLoaded(u, r) ==
  LET known == [u EXCEPT !.allThreads = r.listed]
  IN IF u.activeThreadID = None /\ r.listed # {}
     THEN selectThread(known, CHOOSE t \in r.listed : TRUE) ELSE known

ShownOnly(u, r) == [u EXCEPT !.hist = [thread |-> r.thread, in |-> r.in, out |-> r.out]]

\* The answers that have come in this thread are awaited no longer.
MessagesLoaded(u, r) ==
  LET shown == [u EXCEPT !.hist = [thread |-> r.thread, in |-> r.in, out |-> r.out],
                         !.pendingTasks = @ \ r.in]
  IN IF r.out # {} /\ shown.pendingTasks = {} THEN stopFastPoll(shown) ELSE shown

\* Promise.all: also after an error.
Sent(u, r) ==
  loadChat(startFastPoll([u EXCEPT !.pendingTasks = @ \cup r.out]))

Succeeded(u, r) ==
  CASE r.op = "list" -> ThreadsLoaded(u, r)
    [] r.op = "messages" -> MessagesLoaded(u, r)
    [] r.op = "create" -> selectThread(loadThreads(u), r.thread)
    [] r.op = "createAndSend" ->
         doSend([u EXCEPT !.allThreads = @ \cup {r.thread}, !.activeThreadID = r.thread])
    [] r.op = "remove" ->
         loadThreads(IF u.activeThreadID = r.thread
                     THEN [u EXCEPT !.activeThreadID = None, !.hist = NoMessages] ELSE u)
    [] r.op = "send" -> Sent(u, r)

Failed(u, r) ==
  CASE r.op = "messages" -> [u EXCEPT !.hist = NoMessages]
    [] r.op = "send" -> Sent(u, r)
    [] OTHER -> u

-----------------------------------------------------------------------------
(* The page's steps *)

\* A handler has run: its requests go out.
Run(u, pending) ==
  /\ ui' = [u EXCEPT !.send = {}]
  /\ net' = pending \cup u.send

Answer(op) ==
  /\ \E r \in net :
        /\ r.op = op
        /\ r.code # "sent"
        /\ Run(IF r.code = "ok" THEN Succeeded(ui, r) ELSE Failed(ui, r), net \ {r})
  /\ UNCHANGED <<threads, used, sent, answered, clicks>>

\* A timer waits while a request of the kind it makes is under way.
Tick(u) ==
  /\ \A r \in net, s \in u.send : r.op # s.op
  /\ Run(u, net)
  /\ UNCHANGED <<threads, used, sent, answered, clicks>>

FastTick == ui.fastPollTimer /\ Tick(IF ui.activeTab = "chat" THEN loadChat(ui) ELSE ui)

refreshAll(u) == IF u.activeTab = "chat" THEN loadChat(loadThreads(u)) ELSE loadThreads(u)

RefreshTick == Tick(refreshAll(ui))

Click(u) ==
  /\ clicks < MaxClicks
  /\ clicks' = clicks + 1
  /\ Cardinality(net) < MaxRequests
  /\ Run(u, net)
  /\ UNCHANGED <<threads, used, sent, answered>>

OnChat == ui.activeTab = "chat"

OpenTab == ~OnChat /\ Click(loadChat(loadThreads([ui EXCEPT !.activeTab = "chat"])))
LeaveTab == OnChat /\ Click([ui EXCEPT !.activeTab = "board"])
SelectThread == OnChat /\ \E t \in ui.allThreads : Click(selectThread(ui, t))
newThread == OnChat /\ Click(Api(ui, "create", None))
deleteThread == OnChat /\ \E t \in ui.allThreads : Click(Api(ui, "remove", t))

sendChat ==
  /\ OnChat
  /\ Click(IF ui.activeThreadID = None THEN Api(ui, "createAndSend", None) ELSE doSend(ui))

User == OpenTab \/ LeaveTab \/ SelectThread \/ newThread \/ deleteThread \/ sendChat

-----------------------------------------------------------------------------
(* The server *)

Reply(r, answer) == net' = (net \ {r}) \cup {answer}
Refuse(r) == Reply(r, [r EXCEPT !.code = "failed"]) /\ UNCHANGED <<threads, used, sent>>

In(t) == {k \in Tasks : sent[k] = t}

handleThreadList(r) ==
  Reply(r, [r EXCEPT !.code = "ok", !.listed = threads]) /\ UNCHANGED <<threads, used, sent>>

handleThreadMessages(r) ==
  /\ Reply(r, [r EXCEPT !.code = "ok", !.in = In(r.thread) \cap answered, !.out = In(r.thread)])
  /\ UNCHANGED <<threads, used, sent>>

handleThreadCreate(r) ==
  \E t \in Threads \ used :
     /\ threads' = threads \cup {t}
     /\ used' = used \cup {t}
     /\ Reply(r, [r EXCEPT !.code = "ok", !.thread = t])
     /\ UNCHANGED sent

\* The messages of the thread go with it; its tasks do not.
handleThreadDelete(r) ==
  /\ threads' = threads \ {r.thread}
  /\ sent' = [k \in Tasks |-> IF sent[k] = r.thread THEN None ELSE sent[k]]
  /\ Reply(r, [r EXCEPT !.code = "ok"])
  /\ UNCHANGED used

Free == {k \in Tasks : sent[k] = None /\ k \notin answered /\ k \notin ui.pendingTasks
                        /\ \A r \in net : k \notin r.out}

handleChatSend(r) ==
  \E k \in Free :
     /\ sent' = [sent EXCEPT ![k] = r.thread]
     /\ Reply(r, [r EXCEPT !.code = "ok", !.out = {k}])
     /\ UNCHANGED <<threads, used>>

Serve(op) ==
  /\ \E r \in net :
        /\ r.op = op
        /\ r.code = "sent"
        /\ \/ op = "list" /\ handleThreadList(r)
           \/ op = "messages" /\ handleThreadMessages(r)
           \/ op \in {"create", "createAndSend"} /\ handleThreadCreate(r)
           \/ op = "remove" /\ handleThreadDelete(r)
           \/ op = "send" /\ handleChatSend(r)
           \/ op \in {"create", "createAndSend", "remove", "send"} /\ Refuse(r)
  /\ UNCHANGED <<answered, ui, clicks>>

BotAnswers ==
  /\ \E k \in Tasks : sent[k] # None /\ k \notin answered /\ answered' = answered \cup {k}
  /\ UNCHANGED <<threads, used, sent, net, ui, clicks>>

-----------------------------------------------------------------------------
Init ==
  /\ threads = Existing
  /\ used = Existing
  /\ sent = [k \in Tasks |-> None]
  /\ answered = {}
  /\ net = {Call("list", None)}
  /\ ui = [activeTab |-> "board", allThreads |-> {}, activeThreadID |-> None, hist |-> NoMessages,
           pendingTasks |-> {}, fastPollTimer |-> FALSE, send |-> {}]
  /\ clicks = 0

\* A request is served and its answer handled.
Progress(op) == Serve(op) \/ Answer(op)

OtherProgress == \E op \in Ops \ {"list", "messages"} : Progress(op)

Next == User \/ FastTick \/ RefreshTick \/ BotAnswers \/ \E op \in Ops : Progress(op)

Spec == Init /\ [][Next]_vars

\* The server answers and the refreshing goes on; nothing makes a user or a bot act.
FairSpec ==
  /\ Spec
  /\ WF_vars(RefreshTick)
  /\ WF_vars(Progress("list"))
  /\ WF_vars(Progress("messages"))
  /\ WF_vars(OtherProgress)
-----------------------------------------------------------------------------
(* Properties *)

\* The chat comes to show the messages of the thread that is active, though the
\* messages of another one may be loaded last (loadChat, selectThread, refreshAll).
UpToDate ==
  OnChat /\ ui.activeThreadID \in threads =>
    ui.hist = [thread |-> ui.activeThreadID,
               in |-> In(ui.activeThreadID) \cap answered, out |-> In(ui.activeThreadID)]
ChatCatchesUp == <>[]UpToDate

\* An answer in the active thread ends the waiting for it, in whatever order the
\* answers to sendChat and to the polls come (doSend, loadChat).
NotAwaited ==
  OnChat /\ ui.activeThreadID \in threads =>
    ui.pendingTasks \cap In(ui.activeThreadID) \cap answered = {}
WaitingEnds == <>[]NotAwaited
=============================================================================
