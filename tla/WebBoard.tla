----------------------------- MODULE WebBoard ------------------------------
(***************************************************************************)
(* The board of the web page that the orchestrator serves: its script keeps *)
(* a copy of the items, a panel on one of them with four tabs, two timers  *)
(* that poll for the output and for the conversation of the item, and one  *)
(* that refreshes the page.                                                *)
(*                                                                         *)
(* A handler of the script runs alone; what it asks of the server is       *)
(* answered later, in any order, and the answer is handled whatever the    *)
(* user has done in between.  A handler is a function of the page's state  *)
(* ui; the requests it makes are collected in ui.send.                     *)
(*                                                                         *)
(* Abstracted: an item is its status, whether it has an active task, and   *)
(* how much output there is; the footer with the time of the run; equal    *)
(* requests under way are one; the server is what KanbanQueue and          *)
(* TaskDispatch model, here any order of changes.                          *)
(* The user is signed in.                                                  *)
(***************************************************************************)
EXTENDS Naturals, FiniteSets

CONSTANTS
  Items,        \* work items
  Starts,       \* which items may be in progress at the start
  None,         \* no item
  Undefined,    \* what the page takes for an item when an upload failed
  MaxClicks,    \* bound on what the user does
  MaxChanges,   \* bound on what others change on the server
  MaxRequests   \* bound on the requests under way when the user acts

ASSUME BoardAssumption ==
  /\ None \notin Items /\ Undefined \notin Items \cup {None}
  /\ Starts \subseteq SUBSET Items
  /\ MaxClicks \in Nat /\ MaxChanges \in Nat /\ MaxRequests \in Nat

VARIABLES
  board,    \* the server's items
  talk,     \* the server's messages on each item: the last one's direction
  net,      \* requests under way, answered or not
  ui,       \* the page
  clicks,   \* number of actions of the user so far
  changes   \* number of changes by others so far

vars == <<board, talk, net, ui, clicks, changes>>

Targets == Items \cup {None, Undefined}
Statuses == {"backlog", "queued", "in-progress", "done", "deleted"}
ItemCopy == [status : Statuses, working : BOOLEAN, output : 0 .. MaxChanges]
Talks == {"none", "outbound", "inbound"}
Tabs == {"detail", "output", "ask", "files"}
Reads == {"list", "activity", "poll", "messages"}
Writes == {"start", "queue", "move", "save", "remove", "discard", "ask", "upload"}
Request == [op : Reads \cup Writes, item : Targets,
            code : {"sent", "ok", "at_capacity", "failed"},
            seen : [Items -> ItemCopy], said : Talks]
Bodies == [kind : {"blank", "form", "view", "loading", "output", "failed", "talk", "files"},
           item : Targets, output : 0 .. MaxChanges]

TypeOK ==
  /\ board \in [Items -> ItemCopy]
  /\ talk \in [Items -> Talks]
  /\ net \subseteq Request
  /\ ui \in [allItems : [Items -> ItemCopy], boardCtxItem : Targets,
             copy : ItemCopy, boardCtxTab : Tabs,
             body : Bodies, outputPollTimer : Items \cup {None},
             askPollTimer : Targets, boardAskPending : BOOLEAN,
             dialog : {"none", "queue", "capacity"}, pending : Items \cup {None},
             send : {{}}]
  /\ clicks \in 0 .. MaxClicks
  /\ changes \in 0 .. MaxChanges

Deleted == [status |-> "deleted", working |-> FALSE, output |-> 0]
Fresh == [status |-> "backlog", working |-> FALSE, output |-> 0]
InProgress == [Fresh EXCEPT !.status = "in-progress", !.working = TRUE]
Nothing == [i \in Items |-> Deleted]
Ask(op, i) == [op |-> op, item |-> i, code |-> "sent", seen |-> Nothing, said |-> "none"]

Api(u, op, i) == [u EXCEPT !.send = @ \cup {Ask(op, i)}]

-----------------------------------------------------------------------------
(* Functions of the script *)

loadBoard(u) == Api(u, "list", None)

Body(kind, i, n) == [kind |-> kind, item |-> i, output |-> n]

\* Only an item of the backlog may be edited.
showDetail(u) ==
  [u EXCEPT !.body = Body(IF u.copy.status = "backlog" THEN "form" ELSE "view",
                          u.boardCtxItem, 0)]

showOutput(u) ==
  Api([u EXCEPT !.body = Body("loading", u.boardCtxItem, 0)], "activity", u.boardCtxItem)

showTalk(u) ==
  Api([u EXCEPT !.body = Body("loading", u.boardCtxItem, 0),
                !.askPollTimer = IF @ = None /\ u.copy.working THEN u.boardCtxItem ELSE @],
      "messages", u.boardCtxItem)

loadBoardCtx(u) ==
  IF u.boardCtxItem = None THEN u
  ELSE CASE u.boardCtxTab = "detail" -> showDetail(u)
         [] u.boardCtxTab = "output" -> showOutput(u)
         [] u.boardCtxTab = "ask" -> showTalk(u)
         [] u.boardCtxTab = "files" -> [u EXCEPT !.body = Body("files", u.boardCtxItem, 0)]

bctxTab(u, name) ==
  loadBoardCtx(
    [u EXCEPT !.boardCtxTab = name,
              !.outputPollTimer = IF name = "output" THEN @ ELSE None,
              !.askPollTimer = IF name = "ask" THEN @ ELSE None,
              !.boardAskPending = @ /\ name = "ask"])

openBoardCtx(u, i) ==
  bctxTab([u EXCEPT !.boardCtxItem = i, !.copy = u.allItems[i]],
          u.boardCtxTab)

closeBoardCtx(u) ==
  [u EXCEPT !.boardCtxItem = None, !.copy = Deleted,
            !.outputPollTimer = None, !.askPollTimer = None]

\* The timer that it stops is whichever runs.
renderOutput(u, i, seen) ==
  [u EXCEPT !.body = Body("output", i, seen.output),
            !.outputPollTimer = IF seen.working THEN @ ELSE None]

renderBoardAskMsgs(u, i, said) ==
  [u EXCEPT !.body = Body("talk", i, 0),
            !.boardAskPending = @ /\ said # "inbound"]

Open(u, dialog, i) == [u EXCEPT !.dialog = dialog, !.pending = i]
Closed(u) == [u EXCEPT !.dialog = "none", !.pending = None]

\* The item that the answer brings becomes the one of the panel.
Adopt(u, i, seen) == [u EXCEPT !.boardCtxItem = i, !.copy = seen]

AdoptOnly(u, i, seen) == [u EXCEPT !.boardCtxItem = i, !.copy = seen]

AdoptAndShow(u, i, seen) == loadBoardCtx(Adopt(u, i, seen))

-----------------------------------------------------------------------------
(* What becomes of an answer *)

Listed(u, items) ==
  LET i == u.boardCtxItem
      fresh == [u EXCEPT !.allItems = items]
  IN IF i \notin Items \/ items[i] = Deleted THEN fresh
     ELSE IF items[i].status = u.copy.status THEN [fresh EXCEPT !.copy = items[i]]
     ELSE loadBoardCtx([fresh EXCEPT !.copy = items[i]])

\* The first answer starts the timer, if the panel's item has a task by then.
ActivityLoaded(u, i, seen) ==
  LET shown == renderOutput(u, i, seen)
  IN [shown EXCEPT !.outputPollTimer =
        IF @ = None /\ u.boardCtxItem # None /\ u.copy.working THEN i ELSE @]

\* A closed panel has no item to poll: the script stops there.
Asked(u) ==
  LET shown == loadBoardCtx([u EXCEPT !.boardAskPending = TRUE])
  IN [shown EXCEPT !.askPollTimer = IF @ = None THEN u.boardCtxItem ELSE @]

Succeeded(u, r) ==
  CASE r.op = "list" -> Listed(u, r.seen)
    [] r.op = "activity" -> ActivityLoaded(u, r.item, r.seen[r.item])
    [] r.op = "poll" -> renderOutput(u, r.item, r.seen[r.item])
    [] r.op = "messages" -> renderBoardAskMsgs(u, r.item, r.said)
    [] r.op \in {"start", "queue", "move"} -> loadBoard(u)
    [] r.op = "save" -> loadBoard(AdoptAndShow(u, r.item, r.seen[r.item]))
    [] r.op = "upload" -> AdoptAndShow(u, r.item, r.seen[r.item])
    [] r.op = "remove" -> loadBoard(closeBoardCtx(u))
    [] r.op = "discard" -> loadBoard(IF u.boardCtxItem = r.item THEN closeBoardCtx(u) ELSE u)
    [] r.op = "ask" -> Asked(u)

\* An upload does not look at the answer's status: the object with the error becomes the
\* panel's item, which has no identifier and no status.
UploadFailed(u) == AdoptAndShow(u, Undefined, Deleted)

\* Of most errors the user only gets a message.
Failed(u, r) ==
  CASE r.code = "at_capacity" -> Open(u, "capacity", r.item)
    [] r.op = "queue" -> loadBoard(u)
    [] r.op = "upload" -> UploadFailed(u)
    [] r.op \in {"activity", "messages"} -> [u EXCEPT !.body = Body("failed", u.boardCtxItem, 0)]
    [] OTHER -> u

-----------------------------------------------------------------------------
(* The page's steps *)

\* A handler has run: its requests go out.
Run(u, pending) ==
  /\ ui' = [u EXCEPT !.send = {}]
  /\ net' = pending \cup u.send

\* A timer waits while a request of the kind it makes is under way.
Tick(u) ==
  /\ \A r \in net, s \in u.send : r.op # s.op
  /\ Run(u, net)
  /\ UNCHANGED <<board, talk, clicks, changes>>

Answer(op) ==
  \E r \in net :
     /\ r.op = op
     /\ r.code # "sent"
     /\ Run(IF r.code = "ok" THEN Succeeded(ui, r) ELSE Failed(ui, r), net \ {r})
     /\ UNCHANGED <<board, talk, clicks, changes>>

OutputTick ==
  /\ ui.outputPollTimer # None
  /\ Tick(IF ui.boardCtxTab = "output" /\ ui.boardCtxItem = ui.outputPollTimer
          THEN Api(ui, "poll", ui.outputPollTimer)
          ELSE [ui EXCEPT !.outputPollTimer = None])

AskTick ==
  /\ ui.askPollTimer # None
  /\ Tick(IF ui.boardCtxTab = "ask" /\ ui.boardCtxItem = ui.askPollTimer
          THEN Api(ui, "messages", ui.askPollTimer)
          ELSE [ui EXCEPT !.askPollTimer = None])

\* Every 30 seconds; only the output is loaded again, not the conversation.
refreshAll(u) ==
  LET i == u.boardCtxItem
      sent == loadBoard(u)
  IN IF i \notin Items \/ u.allItems[i] = Deleted THEN sent
     ELSE LET fresh == [sent EXCEPT !.copy = u.allItems[i]]
          IN IF u.boardCtxTab = "output" THEN loadBoardCtx(fresh) ELSE fresh

RefreshTick == Tick(refreshAll(ui))

Click(u) ==
  /\ clicks < MaxClicks
  /\ clicks' = clicks + 1
  /\ Cardinality(net) < MaxRequests
  /\ Run(u, net)
  /\ UNCHANGED <<board, talk, changes>>

\* A modal dialog keeps the user from the rest of the page.
OnPage == ui.dialog = "none"
OnPanel == OnPage /\ ui.boardCtxItem # None
Shown == {i \in Items : ui.allItems[i] # Deleted}

OpenCard == OnPage /\ \E i \in Shown : Click(openBoardCtx(ui, i))
SelectTab == OnPanel /\ \E name \in Tabs : Click(bctxTab(ui, name))
ClosePanel == OnPanel /\ Click(closeBoardCtx(ui))

\* A card is dropped on a column, or on a card of another column.
DropCard ==
  /\ OnPage
  /\ \E i \in Shown :
        \/ Click(Open(ui, "queue", i))
        \/ Click(Api(ui, "start", i))
        \/ Click(Api(ui, "move", i))

confirmQcfg == ui.dialog = "queue" /\ Click(Api(Closed(ui), "queue", ui.pending))

\* An item that is queued already goes back to the backlog.
cancelQcfg ==
  /\ ui.dialog = "queue"
  /\ Click(IF ui.allItems[ui.pending].status = "queued"
           THEN Api(Closed(ui), "move", ui.pending) ELSE Closed(ui))

queueAsASAP == ui.dialog = "capacity" /\ Click(Api(Closed(ui), "queue", ui.pending))

saveBoardAllEdits == OnPanel /\ ui.body.kind = "form" /\ Click(Api(ui, "save", ui.boardCtxItem))

deleteBoardItem ==
  /\ OnPanel /\ ui.boardCtxItem # Undefined
  /\ ui.body.kind = "view"
  /\ Click(Api(ui, "remove", ui.boardCtxItem))
deleteCardItem == OnPage /\ \E i \in Shown : Click(Api(ui, "discard", i))

boardAsk == OnPanel /\ ui.boardCtxTab = "ask" /\ Click(Api(ui, "ask", ui.boardCtxItem))

uploadFiles == OnPanel /\ ui.body.kind = "files" /\ Click(Api(ui, "upload", ui.boardCtxItem))

User ==
  \/ OpenCard \/ SelectTab \/ ClosePanel \/ DropCard \/ confirmQcfg \/ cancelQcfg \/ queueAsASAP
  \/ saveBoardAllEdits \/ deleteBoardItem \/ deleteCardItem \/ boardAsk \/ uploadFiles

-----------------------------------------------------------------------------
(* The server *)

Reply(r, code, seen, said) ==
  net' = (net \ {r}) \cup {[r EXCEPT !.code = code, !.seen = seen, !.said = said]}

Only(i, copy) == [Nothing EXCEPT ![i] = copy]

Write(r, copy) ==
  /\ board' = [board EXCEPT ![r.item] = copy]
  /\ Reply(r, "ok", IF r.op \in {"save", "upload"} THEN Only(r.item, copy) ELSE Nothing, "none")

Failure(r) == Reply(r, "failed", Nothing, "none") /\ UNCHANGED <<board, talk>>

handleBoardList(r) == Reply(r, "ok", board, "none") /\ UNCHANGED <<board, talk>>
handleBoardActivity(r) ==
  Reply(r, "ok", Only(r.item, board[r.item]), "none") /\ UNCHANGED <<board, talk>>
handleBoardMessages(r) ==
  /\ Reply(r, "ok", Nothing, IF r.item \in Items THEN talk[r.item] ELSE "none")
  /\ UNCHANGED <<board, talk>>

handleBoardUpdate(r) ==
  LET copy == board[r.item]
  IN /\ CASE r.op = "start" -> \/ Write(r, [copy EXCEPT !.status = "in-progress", !.working = TRUE])
                               \/ Reply(r, "at_capacity", Nothing, "none") /\ UNCHANGED board
          [] r.op = "queue" -> Write(r, [copy EXCEPT !.status = "queued", !.working = FALSE])
          [] r.op = "move" -> Write(r, [copy EXCEPT !.status = "backlog", !.working = FALSE])
          [] r.op = "save" -> Write(r, copy)
     /\ UNCHANGED talk

handleBoardDelete(r) == Write(r, Deleted) /\ UNCHANGED talk

\* A file may be too large, and neither it nor the item need be written.
handleBoardAttachmentUpload(r) == (Write(r, board[r.item]) /\ UNCHANGED talk) \/ Failure(r)

handleBoardAsk(r) == Write(r, board[r.item]) /\ talk' = [talk EXCEPT ![r.item] = "outbound"]

Gone(i) == i \notin Items \/ board[i] = Deleted

Handle(r) ==
  CASE r.op = "list" -> handleBoardList(r)
    [] r.op = "messages" -> handleBoardMessages(r)
    [] r.op \notin {"list", "messages"} /\ Gone(r.item) -> Failure(r)
    [] r.op \in {"activity", "poll"} /\ ~Gone(r.item) -> handleBoardActivity(r)
    [] r.op \in {"start", "queue", "move", "save"} /\ ~Gone(r.item) -> handleBoardUpdate(r)
    [] r.op \in {"remove", "discard"} /\ ~Gone(r.item) -> handleBoardDelete(r)
    [] r.op = "upload" /\ ~Gone(r.item) -> handleBoardAttachmentUpload(r)
    [] r.op = "ask" /\ ~Gone(r.item) -> handleBoardAsk(r)

Serve(op) ==
  /\ \E r \in net : r.op = op /\ r.code = "sent" /\ Handle(r)
  /\ UNCHANGED <<ui, clicks, changes>>

\* The queue runner starts an item, a bot reports output, ends, answers.
Change(i, copy) == board' = [board EXCEPT ![i] = copy] /\ UNCHANGED talk

Others ==
  /\ changes < MaxChanges
  /\ changes' = changes + 1
  /\ \E i \in Items :
        \/ /\ board[i].status = "queued"
           /\ Change(i, [board[i] EXCEPT !.status = "in-progress", !.working = TRUE])
        \/ board[i].working /\ Change(i, [board[i] EXCEPT !.output = @ + 1])
        \/ board[i].working /\ Change(i, [board[i] EXCEPT !.status = "done", !.working = FALSE])
        \/ talk[i] = "outbound" /\ talk' = [talk EXCEPT ![i] = "inbound"] /\ UNCHANGED board
  /\ UNCHANGED <<net, ui, clicks>>

-----------------------------------------------------------------------------
Init ==
  /\ \E some \in Starts :
        board = [i \in Items |-> IF i \in some THEN InProgress ELSE Fresh]
  /\ talk = [i \in Items |-> "none"]
  /\ net = {Ask("list", None)}
  /\ ui = [allItems |-> Nothing, boardCtxItem |-> None, copy |-> Deleted,
           boardCtxTab |-> "detail", body |-> Body("blank", None, 0),
           outputPollTimer |-> None, askPollTimer |-> None, boardAskPending |-> FALSE,
           dialog |-> "none", pending |-> None, send |-> {}]
  /\ clicks = 0
  /\ changes = 0

\* A request is served and its answer handled.
Progress(op) == Serve(op) \/ Answer(op)

OtherProgress == \E op \in (Reads \cup Writes) \ {"list", "activity"} : Progress(op)

Timers == OutputTick \/ AskTick \/ RefreshTick

Next == User \/ Timers \/ Others \/ \E op \in Reads \cup Writes : Progress(op)

Spec == Init /\ [][Next]_vars

\* The server answers and the timers go on; nothing makes a user or a bot act.
FairSpec ==
  /\ Spec
  /\ WF_vars(RefreshTick)
  /\ WF_vars(Progress("list"))
  /\ WF_vars(Progress("activity"))
  /\ WF_vars(OtherProgress)
-----------------------------------------------------------------------------
(* Properties *)

\* What the user edits is the item that Save sends: the form of one item is never
\* on the panel while the panel's item is another one (loadBoardCtx, saveBoardAllEdits
\* and the answers that replace boardCtxItem).
FormIsOfItem ==
  ui.body.kind = "form" /\ ui.boardCtxItem # None => ui.body.item = ui.boardCtxItem

\* When the user and the bots are quiet, the page comes to show the server's board, though
\* answers overtake each other, and an item left open on its output comes to show all of
\* it, though its timer may have been stopped for another item (loadBoard, renderOutput,
\* refreshAll).  A panel that a failed upload has left without an item stays so: see
\* PanelRecovers.
UpToDate ==
  /\ ui.allItems = board
  /\ \A i \in Items :
        ui.boardCtxItem = i /\ ui.boardCtxTab = "output" /\ board[i] # Deleted
          => /\ ui.body.item = i
             /\ ui.body.kind = "loading" \/ ui.body.output = board[i].output
BoardCatchesUp == <>[]UpToDate

\* An open panel comes to be that of an item.  It fails: uploadFiles does not test r.ok, so
\* that a file that is too large, or an item that was deleted, makes the error the panel's
\* item; loadBoardCtx then asks for /board/undefined, and neither loadBoard nor refreshAll
\* finds an item of the board to put in its place.
PanelRecovers == <>[](ui.boardCtxItem # Undefined)
=============================================================================
