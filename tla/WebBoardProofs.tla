--------------------------- MODULE WebBoardProofs ---------------------------
(***************************************************************************)
(* Proofs about WebBoard, for any items and bounds: the types, and that    *)
(* the form on the panel is that of the panel's item.                      *)
(*                                                                         *)
(* A handler is a function of the page; a lemma per function says that it  *)
(* makes a good page of a good one.  A page is good if it has its type,    *)
(* its dialog is about an item, and its form is that of its item.          *)
(***************************************************************************)
EXTENDS WebBoard, TLAPS

\* Only a request about an item of the board succeeds, but for one for a list; only a start
\* is refused for want of a slot.
KnownRequest ==
  {r \in Request :
     /\ r.op # "list" => r.item # None
     /\ r.code = "ok" /\ r.op \notin {"list", "messages"} => r.item \in Items
     /\ r.code = "at_capacity" => r.op = "start" /\ r.item \in Items}

Page ==
  [allItems : [Items -> ItemCopy], boardCtxItem : Targets,
   copy : ItemCopy, boardCtxTab : Tabs,
   body : Bodies, outputPollTimer : Items \cup {None},
   askPollTimer : Targets, boardAskPending : BOOLEAN,
   dialog : {"none", "queue", "capacity"}, pending : Items \cup {None},
   send : SUBSET KnownRequest]

FormIsOwn(u) == u.body.kind = "form" /\ u.boardCtxItem # None => u.body.item = u.boardCtxItem

\* All but the form, which the functions that show the panel replace.
Sound(u) == u \in Page /\ (u.dialog # "none" => u.pending \in Items)

GoodPage(u) == Sound(u) /\ FormIsOwn(u)

BoardInv ==
  /\ board \in [Items -> ItemCopy]
  /\ talk \in [Items -> Talks]
  /\ clicks \in 0 .. MaxClicks
  /\ changes \in 0 .. MaxChanges
  /\ \A i \in Items : board[i].output <= changes
  /\ net \subseteq KnownRequest
  /\ GoodPage(ui) /\ ui.send = {}

-----------------------------------------------------------------------------
(* The functions of the script *)

LEMMA CopiesAreItems ==
  /\ Deleted \in ItemCopy /\ Fresh \in ItemCopy /\ InProgress \in ItemCopy
  /\ Nothing \in [Items -> ItemCopy]
  <1>1. 0 \in 0 .. MaxChanges BY BoardAssumption
  <1>2. Deleted \in ItemCopy /\ Fresh \in ItemCopy BY <1>1 DEF Deleted, Fresh, ItemCopy, Statuses
  <1>3. InProgress \in ItemCopy BY <1>1 DEF InProgress, Fresh, ItemCopy, Statuses
  <1>4. Nothing \in [Items -> ItemCopy] BY <1>2 DEF Nothing
  <1> QED BY <1>2, <1>3, <1>4

LEMMA AskIsKnown ==
  ASSUME NEW op \in Reads \cup Writes, NEW i \in Targets, op # "list" => i # None
  PROVE  Ask(op, i) \in KnownRequest
  BY CopiesAreItems DEF Ask, KnownRequest, Request, Talks

LEMMA ApiIsSound ==
  ASSUME NEW u, Sound(u),
         NEW op \in Reads \cup Writes, NEW i \in Targets, op # "list" => i # None
  PROVE  /\ Sound(Api(u, op, i))
         /\ FormIsOwn(u) => FormIsOwn(Api(u, op, i))
  <1>1. Ask(op, i) \in KnownRequest BY AskIsKnown
  <1> QED BY <1>1 DEF Api, Sound, Page, FormIsOwn

LEMMA BodyIsBody ==
  ASSUME NEW kind \in {"blank", "form", "view", "loading", "output", "failed", "talk", "files"},
         NEW i \in Targets, NEW n \in 0 .. MaxChanges
  PROVE  /\ Body(kind, i, n) \in Bodies
         /\ Body(kind, i, n).kind = kind
         /\ Body(kind, i, n).item = i
  BY DEF Body, Bodies

\* Another body on the panel, which is no form or that of the panel's item.
LEMMA BodyShown ==
  ASSUME NEW u, Sound(u), NEW b \in Bodies,
         b.kind = "form" /\ u.boardCtxItem # None => b.item = u.boardCtxItem
  PROVE  /\ Sound([u EXCEPT !.body = b])
         /\ FormIsOwn([u EXCEPT !.body = b])
         /\ [u EXCEPT !.body = b].boardCtxItem = u.boardCtxItem
  BY DEF Sound, Page, FormIsOwn

\* The panel shows its item, whatever was there before.
LEMMA PanelIsGood ==
  ASSUME NEW u, Sound(u)
  PROVE  GoodPage(loadBoardCtx(u))
  <1>0. 0 \in 0 .. MaxChanges BY BoardAssumption
  <1>1. CASE u.boardCtxItem = None
    BY <1>1 DEF loadBoardCtx, GoodPage, FormIsOwn
  <1>2. CASE u.boardCtxItem # None
    <2> DEFINE i == u.boardCtxItem
    <2>0. i \in Targets /\ i # None /\ u.boardCtxTab \in Tabs BY <1>2 DEF Sound, Page
    <2>1. CASE u.boardCtxTab = "detail"
      <3>1. loadBoardCtx(u) = showDetail(u) BY <1>2, <2>1 DEF loadBoardCtx
      <3> DEFINE kind == IF u.copy.status = "backlog" THEN "form" ELSE "view"
      <3>2. Body(kind, i, 0) \in Bodies /\ Body(kind, i, 0).item = i BY <1>0, <2>0, BodyIsBody
      <3> QED BY <3>1, <3>2, BodyShown DEF showDetail, GoodPage
    <2>2. CASE u.boardCtxTab = "output"
      <3>1. loadBoardCtx(u) = showOutput(u) BY <1>2, <2>2 DEF loadBoardCtx
      <3>2. Body("loading", i, 0) \in Bodies /\ Body("loading", i, 0).item = i
        BY <1>0, <2>0, BodyIsBody
      <3> DEFINE v == [u EXCEPT !.body = Body("loading", i, 0)]
      <3>3. Sound(v) /\ FormIsOwn(v) BY <3>2, BodyShown
      <3>4. showOutput(u) = Api(v, "activity", i) BY DEF showOutput
      <3> HIDE DEF v
      <3> QED BY <2>0, <3>1, <3>3, <3>4, ApiIsSound DEF GoodPage, Reads
    <2>3. CASE u.boardCtxTab = "ask"
      <3>1. loadBoardCtx(u) = showTalk(u) BY <1>2, <2>3 DEF loadBoardCtx
      <3>2. Body("loading", i, 0) \in Bodies /\ Body("loading", i, 0).item = i
        BY <1>0, <2>0, BodyIsBody
      <3> DEFINE v == [u EXCEPT !.body = Body("loading", i, 0),
                                !.askPollTimer = IF @ = None /\ u.copy.working THEN i ELSE @]
      <3>3. Sound(v) /\ FormIsOwn(v)
        BY <2>0, <3>2 DEF Sound, Page, FormIsOwn
      <3>4. showTalk(u) = Api(v, "messages", i) BY DEF showTalk
      <3> HIDE DEF v
      <3> QED BY <2>0, <3>1, <3>3, <3>4, ApiIsSound DEF GoodPage, Reads
    <2>4. CASE u.boardCtxTab = "files"
      <3>1. loadBoardCtx(u) = [u EXCEPT !.body = Body("files", i, 0)]
        BY <1>2, <2>4 DEF loadBoardCtx
      <3>2. Body("files", i, 0) \in Bodies /\ Body("files", i, 0).item = i
        BY <1>0, <2>0, BodyIsBody
      <3> QED BY <3>1, <3>2, BodyShown DEF GoodPage
    <2> QED BY <2>0, <2>1, <2>2, <2>3, <2>4 DEF Tabs
  <1> QED BY <1>1, <1>2

LEMMA TabIsGood ==
  ASSUME NEW u, Sound(u), NEW name \in Tabs
  PROVE  GoodPage(bctxTab(u, name))
  <1> DEFINE v == [u EXCEPT !.boardCtxTab = name,
                            !.outputPollTimer = IF name = "output" THEN @ ELSE None,
                            !.askPollTimer = IF name = "ask" THEN @ ELSE None,
                            !.boardAskPending = @ /\ name = "ask"]
  <1>1. (u.boardAskPending /\ name = "ask") \in BOOLEAN BY DEF Sound, Page
  <1>2. Sound(v) BY <1>1 DEF Sound, Page, Targets
  <1>3. bctxTab(u, name) = loadBoardCtx(v) BY DEF bctxTab
  <1> HIDE DEF v
  <1> QED BY <1>2, <1>3, PanelIsGood

LEMMA AdoptIsSound ==
  ASSUME NEW u, Sound(u), NEW i \in Targets, NEW seen \in ItemCopy
  PROVE  Sound([u EXCEPT !.boardCtxItem = i, !.copy = seen])
  BY DEF Sound, Page

LEMMA OpenedIsGood ==
  ASSUME NEW u, Sound(u), NEW i \in Items
  PROVE  GoodPage(openBoardCtx(u, i))
  <1>1. u.allItems[i] \in ItemCopy /\ u.boardCtxTab \in Tabs BY DEF Sound, Page
  <1>2. i \in Targets BY DEF Targets
  <1> QED BY <1>1, <1>2, AdoptIsSound, TabIsGood DEF openBoardCtx

LEMMA ClosedIsGood ==
  ASSUME NEW u, Sound(u)
  PROVE  GoodPage(closeBoardCtx(u))
  BY CopiesAreItems DEF closeBoardCtx, GoodPage, Sound, Page, FormIsOwn, Targets

LEMMA OutputIsGood ==
  ASSUME NEW u, Sound(u), NEW i \in Items, NEW seen \in ItemCopy
  PROVE  GoodPage(renderOutput(u, i, seen))
  <1>1. seen.output \in 0 .. MaxChanges BY DEF ItemCopy
  <1>2. Body("output", i, seen.output) \in Bodies /\ Body("output", i, seen.output).kind = "output"
    BY <1>1, BodyIsBody DEF Targets
  <1> QED BY <1>2 DEF renderOutput, GoodPage, Sound, Page, FormIsOwn

LEMMA TalkIsGood ==
  ASSUME NEW u, Sound(u), NEW i \in Targets, NEW said
  PROVE  GoodPage(renderBoardAskMsgs(u, i, said))
  <1>0. 0 \in 0 .. MaxChanges BY BoardAssumption
  <1>1. Body("talk", i, 0) \in Bodies /\ Body("talk", i, 0).kind = "talk" BY <1>0, BodyIsBody
  <1>2. (u.boardAskPending /\ said # "inbound") \in BOOLEAN BY DEF Sound, Page
  <1> QED BY <1>1, <1>2 DEF renderBoardAskMsgs, GoodPage, Sound, Page, FormIsOwn

\* A dialog opens on an item, and closes.
LEMMA DialogIsGood ==
  ASSUME NEW u, GoodPage(u), NEW i \in Items, NEW dialog \in {"queue", "capacity"}
  PROVE  GoodPage(Open(u, dialog, i)) /\ GoodPage(Closed(u))
  BY DEF Open, Closed, GoodPage, Sound, Page, FormIsOwn

LEMMA LoadIsGood ==
  ASSUME NEW u, GoodPage(u)
  PROVE  GoodPage(loadBoard(u))
  BY ApiIsSound DEF loadBoard, GoodPage, Reads, Targets

LEMMA ApiIsGood ==
  ASSUME NEW u, GoodPage(u), NEW op \in Reads \cup Writes, NEW i \in Targets, i # None
  PROVE  GoodPage(Api(u, op, i))
  BY ApiIsSound DEF GoodPage

-----------------------------------------------------------------------------
(* The answers *)

LEMMA ListedIsGood ==
  ASSUME NEW u, GoodPage(u), NEW items \in [Items -> ItemCopy]
  PROVE  GoodPage(Listed(u, items))
  <1> DEFINE i == u.boardCtxItem
  <1> DEFINE fresh == [u EXCEPT !.allItems = items]
  <1>1. GoodPage(fresh) BY DEF GoodPage, Sound, Page, FormIsOwn
  <1>2. CASE i \notin Items \/ items[i] = Deleted BY <1>1, <1>2 DEF Listed
  <1>3. CASE ~(i \notin Items \/ items[i] = Deleted)
    <2>1. items[i] \in ItemCopy BY <1>3
    <2> DEFINE v == [fresh EXCEPT !.copy = items[i]]
    <2>2. GoodPage(v) BY <1>1, <2>1 DEF GoodPage, Sound, Page, FormIsOwn
    <2>3. Listed(u, items) \in {v, loadBoardCtx(v)} BY <1>3 DEF Listed
    <2> HIDE DEF v
    <2> QED BY <2>2, <2>3, PanelIsGood DEF GoodPage
  <1> QED BY <1>2, <1>3

LEMMA ActivityIsGood ==
  ASSUME NEW u, GoodPage(u), NEW i \in Items, NEW seen \in ItemCopy
  PROVE  GoodPage(ActivityLoaded(u, i, seen))
  <1> DEFINE shown == renderOutput(u, i, seen)
  <1>1. GoodPage(shown) BY OutputIsGood DEF GoodPage
  <1>2. ActivityLoaded(u, i, seen) =
          [shown EXCEPT !.outputPollTimer =
             IF @ = None /\ u.boardCtxItem # None /\ u.copy.working THEN i ELSE @]
    BY DEF ActivityLoaded
  <1> HIDE DEF shown
  <1> QED BY <1>1, <1>2 DEF GoodPage, Sound, Page, FormIsOwn

LEMMA AskedIsGood ==
  ASSUME NEW u, GoodPage(u)
  PROVE  GoodPage(Asked(u))
  <1> DEFINE v == [u EXCEPT !.boardAskPending = TRUE]
  <1> DEFINE shown == loadBoardCtx(v)
  <1>1. Sound(v) BY DEF GoodPage, Sound, Page
  <1>2. GoodPage(shown) BY <1>1, PanelIsGood
  <1>3. Asked(u) = [shown EXCEPT !.askPollTimer = IF @ = None THEN u.boardCtxItem ELSE @]
    BY DEF Asked
  <1>4. u.boardCtxItem \in Targets BY DEF GoodPage, Sound, Page
  <1> HIDE DEF shown
  <1> QED BY <1>2, <1>3, <1>4 DEF GoodPage, Sound, Page, FormIsOwn

\* An item of the board takes the panel, or an error does.
LEMMA AdoptedIsGood ==
  ASSUME NEW u, GoodPage(u), NEW i \in Targets, NEW seen \in ItemCopy
  PROVE  GoodPage(AdoptAndShow(u, i, seen))
  BY AdoptIsSound, PanelIsGood DEF AdoptAndShow, Adopt, GoodPage

LEMMA SuccessIsGood ==
  ASSUME NEW u, GoodPage(u), NEW r \in KnownRequest, r.code = "ok"
  PROVE  GoodPage(Succeeded(u, r))
  <1>1. r.op \in Reads \cup Writes /\ r.item \in Targets /\ r.seen \in [Items -> ItemCopy]
    BY DEF KnownRequest, Request
  <1>2. r.op \notin {"list", "messages"} => r.item \in Items /\ r.seen[r.item] \in ItemCopy
    BY <1>1 DEF KnownRequest
  <1>3. r.op \in {"save", "upload"} => GoodPage(AdoptAndShow(u, r.item, r.seen[r.item]))
    BY <1>1, <1>2, AdoptedIsGood
  <1>4. GoodPage(closeBoardCtx(u)) BY ClosedIsGood DEF GoodPage
  <1>5. CASE r.op = "list" BY <1>1, <1>5, ListedIsGood DEF Succeeded
  <1>6. CASE r.op = "activity" BY <1>2, <1>6, ActivityIsGood DEF Succeeded
  <1>7. CASE r.op = "poll" BY <1>2, <1>7, OutputIsGood DEF Succeeded, GoodPage
  <1>8. CASE r.op = "messages" BY <1>1, <1>8, TalkIsGood DEF Succeeded, GoodPage
  <1>9. CASE r.op \in {"start", "queue", "move"} BY <1>9, LoadIsGood DEF Succeeded
  <1>10. CASE r.op = "save" BY <1>3, <1>10, LoadIsGood DEF Succeeded
  <1>11. CASE r.op = "upload" BY <1>3, <1>11 DEF Succeeded
  <1>12. CASE r.op = "remove" BY <1>4, <1>12, LoadIsGood DEF Succeeded
  <1>13. CASE r.op = "discard" BY <1>4, <1>13, LoadIsGood DEF Succeeded
  <1>14. CASE r.op = "ask" BY <1>14, AskedIsGood DEF Succeeded
  <1> QED
    BY <1>1, <1>5, <1>6, <1>7, <1>8, <1>9, <1>10, <1>11, <1>12, <1>13, <1>14 DEF Reads, Writes

LEMMA FailureIsGood ==
  ASSUME NEW u, GoodPage(u), NEW r \in KnownRequest
  PROVE  GoodPage(Failed(u, r))
  <1>1. CASE r.code = "at_capacity"
    <2>1. r.op = "start" /\ r.item \in Items BY <1>1 DEF KnownRequest
    <2>2. Failed(u, r) = Open(u, "capacity", r.item) BY <1>1, <2>1 DEF Failed
    <2> QED BY <2>1, <2>2, DialogIsGood
  <1>2. CASE r.code # "at_capacity" /\ r.op = "queue" BY <1>2, LoadIsGood DEF Failed
  <1>3. CASE r.code # "at_capacity" /\ r.op = "upload"
    <2>1. Failed(u, r) = AdoptAndShow(u, Undefined, Deleted) BY <1>3 DEF Failed, UploadFailed
    <2>2. Undefined \in Targets BY DEF Targets
    <2> QED BY <2>1, <2>2, AdoptedIsGood, CopiesAreItems
  <1>4. CASE r.code # "at_capacity" /\ r.op \in {"activity", "messages"}
    <2>1. u.boardCtxItem \in Targets /\ 0 \in 0 .. MaxChanges
      BY BoardAssumption DEF GoodPage, Sound, Page
    <2>2. /\ Body("failed", u.boardCtxItem, 0) \in Bodies
          /\ Body("failed", u.boardCtxItem, 0).kind = "failed"
      BY <2>1, BodyIsBody
    <2> QED BY <1>4, <2>2, BodyShown DEF Failed, GoodPage
  <1>5. CASE r.code # "at_capacity" /\ r.op \notin {"queue", "upload", "activity", "messages"}
    BY <1>5 DEF Failed
  <1> QED BY <1>1, <1>2, <1>3, <1>4, <1>5

-----------------------------------------------------------------------------
(* The steps of the page *)

\* The page and its requests, which the steps of the page change.
PageInv == net \subseteq KnownRequest /\ GoodPage(ui) /\ ui.send = {}

ServerInv ==
  /\ board \in [Items -> ItemCopy]
  /\ talk \in [Items -> Talks]
  /\ changes \in 0 .. MaxChanges
  /\ \A i \in Items : board[i].output <= changes

LEMMA RunKeepsPage ==
  ASSUME NEW u, GoodPage(u), NEW pending \in SUBSET KnownRequest, Run(u, pending)
  PROVE  PageInv'
  BY DEF Run, PageInv, GoodPage, Sound, Page, FormIsOwn

LEMMA ClickKeepsPage ==
  ASSUME BoardInv, NEW u, GoodPage(u), Click(u)
  PROVE  BoardInv'
  <1>1. net \in SUBSET KnownRequest /\ Run(u, net) BY DEF BoardInv, Click
  <1>2. PageInv' BY <1>1, RunKeepsPage
  <1>3. clicks' \in 0 .. MaxClicks BY BoardAssumption DEF BoardInv, Click
  <1> QED BY <1>2, <1>3 DEF BoardInv, PageInv, Click

LEMMA TickKeepsPage ==
  ASSUME BoardInv, NEW u, GoodPage(u), Tick(u)
  PROVE  BoardInv'
  <1>1. net \in SUBSET KnownRequest /\ Run(u, net) BY DEF BoardInv, Tick
  <1>2. PageInv' BY <1>1, RunKeepsPage
  <1> QED BY <1>2 DEF BoardInv, PageInv, Tick

LEMMA AnswerStep ==
  ASSUME BoardInv, NEW op, Answer(op)
  PROVE  BoardInv'
  <1>1. PICK r \in net :
          /\ Run(IF r.code = "ok" THEN Succeeded(ui, r) ELSE Failed(ui, r), net \ {r})
          /\ UNCHANGED <<board, talk, clicks, changes>>
    BY DEF Answer
  <1>2. r \in KnownRequest /\ net \ {r} \in SUBSET KnownRequest /\ GoodPage(ui)
    BY DEF BoardInv
  <1>3. GoodPage(IF r.code = "ok" THEN Succeeded(ui, r) ELSE Failed(ui, r))
    BY <1>2, SuccessIsGood, FailureIsGood
  <1>4. PageInv' BY <1>1, <1>2, <1>3, RunKeepsPage
  <1> QED BY <1>1, <1>4 DEF BoardInv, PageInv

LEMMA TimerStep ==
  ASSUME BoardInv, Timers
  PROVE  BoardInv'
  <1>1. GoodPage(ui) /\ ui \in Page BY DEF BoardInv, GoodPage, Sound
  <1>2. CASE OutputTick
    <2>1. ui.outputPollTimer \in Items BY <1>1, <1>2 DEF OutputTick, Page
    <2>2. GoodPage(Api(ui, "poll", ui.outputPollTimer))
      BY <1>1, <2>1, BoardAssumption, ApiIsGood DEF Reads, Targets
    <2>3. GoodPage([ui EXCEPT !.outputPollTimer = None])
      BY <1>1 DEF GoodPage, Sound, Page, FormIsOwn
    <2> QED BY <1>2, <2>2, <2>3, TickKeepsPage DEF OutputTick
  <1>3. CASE AskTick
    <2>1. ui.askPollTimer \in Targets /\ ui.askPollTimer # None BY <1>1, <1>3 DEF AskTick, Page
    <2>2. GoodPage(Api(ui, "messages", ui.askPollTimer)) BY <1>1, <2>1, ApiIsGood DEF Reads
    <2>3. GoodPage([ui EXCEPT !.askPollTimer = None])
      BY <1>1 DEF GoodPage, Sound, Page, FormIsOwn, Targets
    <2> QED BY <1>3, <2>2, <2>3, TickKeepsPage DEF AskTick
  <1>4. CASE RefreshTick
    <2> DEFINE i == ui.boardCtxItem
    <2> DEFINE sent == loadBoard(ui)
    <2>1. GoodPage(sent) BY <1>1, LoadIsGood
    <2>2. CASE i \notin Items \/ ui.allItems[i] = Deleted
      <3>1. refreshAll(ui) = sent BY <2>2 DEF refreshAll
      <3> QED BY <1>4, <2>1, <3>1, TickKeepsPage DEF RefreshTick
    <2>3. CASE ~(i \notin Items \/ ui.allItems[i] = Deleted)
      <3>1. ui.allItems[i] \in ItemCopy BY <1>1, <2>3 DEF Page
      <3> DEFINE fresh == [sent EXCEPT !.copy = ui.allItems[i]]
      <3>2. refreshAll(ui) = IF ui.boardCtxTab = "output" THEN loadBoardCtx(fresh) ELSE fresh
        BY <2>3 DEF refreshAll
      <3> HIDE DEF sent
      <3>3. GoodPage(fresh) BY <2>1, <3>1 DEF GoodPage, Sound, Page, FormIsOwn
      <3> HIDE DEF fresh
      <3>4. GoodPage(loadBoardCtx(fresh)) BY <3>3, PanelIsGood DEF GoodPage
      <3>5. GoodPage(refreshAll(ui)) BY <3>2, <3>3, <3>4
      <3> QED BY <1>4, <3>5, TickKeepsPage DEF RefreshTick
    <2> QED BY <2>2, <2>3
  <1> QED BY <1>2, <1>3, <1>4 DEF Timers

LEMMA UserStep ==
  ASSUME BoardInv, User
  PROVE  BoardInv'
  <1>1. GoodPage(ui) /\ Sound(ui) /\ ui \in Page BY DEF BoardInv, GoodPage, Sound
  <1>2. Shown \subseteq Items BY DEF Shown
  <1>3. OnPanel => ui.boardCtxItem \in Targets \ {None} BY <1>1 DEF OnPanel, Page
  <1>4. \A op \in Reads \cup Writes, i \in Targets \ {None} : GoodPage(Api(ui, op, i))
    BY <1>1, ApiIsGood
  <1>0. Items \subseteq Targets \ {None} BY BoardAssumption DEF Targets
  <1>5. ui.dialog # "none" =>
          /\ ui.pending \in Items
          /\ GoodPage(Closed(ui))
          /\ \A op \in Reads \cup Writes : GoodPage(Api(Closed(ui), op, ui.pending))
    <2> SUFFICES ASSUME ui.dialog # "none"
                 PROVE  /\ ui.pending \in Items
                        /\ GoodPage(Closed(ui))
                        /\ \A op \in Reads \cup Writes : GoodPage(Api(Closed(ui), op, ui.pending))
      OBVIOUS
    <2>1. ui.pending \in Items BY <1>1 DEF Sound
    <2>2. GoodPage(Closed(ui)) BY <1>1, <2>1, DialogIsGood
    <2> QED BY <1>0, <2>1, <2>2, ApiIsGood
  <1>6. CASE OpenCard
    <2>1. PICK i \in Items : Click(openBoardCtx(ui, i)) BY <1>2, <1>6 DEF OpenCard
    <2> QED BY <1>1, <2>1, OpenedIsGood, ClickKeepsPage
  <1>7. CASE SelectTab
    <2>1. PICK name \in Tabs : Click(bctxTab(ui, name)) BY <1>7 DEF SelectTab
    <2> QED BY <1>1, <2>1, TabIsGood, ClickKeepsPage
  <1>8. CASE ClosePanel BY <1>1, <1>8, ClosedIsGood, ClickKeepsPage DEF ClosePanel
  <1>9. CASE DropCard
    <2>1. PICK i \in Items : \/ Click(Open(ui, "queue", i))
                             \/ Click(Api(ui, "start", i))
                             \/ Click(Api(ui, "move", i))
      BY <1>2, <1>9 DEF DropCard
    <2>2. GoodPage(Open(ui, "queue", i)) BY <1>1, DialogIsGood
    <2>3. GoodPage(Api(ui, "start", i)) /\ GoodPage(Api(ui, "move", i)) BY <1>0, <1>4 DEF Writes
    <2> QED BY <2>1, <2>2, <2>3, ClickKeepsPage
  <1>10. CASE confirmQcfg \/ queueAsASAP
    <2>1. ui.dialog # "none" /\ Click(Api(Closed(ui), "queue", ui.pending))
      BY <1>10 DEF confirmQcfg, queueAsASAP
    <2> QED BY <1>5, <2>1, ClickKeepsPage DEF Writes
  <1>11. CASE cancelQcfg
    <2>1. ui.dialog # "none" BY <1>11 DEF cancelQcfg
    <2>2. GoodPage(Api(Closed(ui), "move", ui.pending)) /\ GoodPage(Closed(ui))
      BY <1>5, <2>1 DEF Writes
    <2> QED BY <1>11, <2>2, ClickKeepsPage DEF cancelQcfg
  <1>12. CASE saveBoardAllEdits \/ deleteBoardItem \/ boardAsk \/ uploadFiles
    <2>1. PICK op \in Writes : OnPanel /\ Click(Api(ui, op, ui.boardCtxItem))
      BY <1>12 DEF saveBoardAllEdits, deleteBoardItem, boardAsk, uploadFiles, Writes
    <2> QED BY <1>3, <1>4, <2>1, ClickKeepsPage
  <1>13. CASE deleteCardItem
    <2>1. PICK i \in Items : Click(Api(ui, "discard", i)) BY <1>2, <1>13 DEF deleteCardItem
    <2> QED BY <1>0, <1>4, <2>1, ClickKeepsPage DEF Writes
  <1> QED
    BY <1>6, <1>7, <1>8, <1>9, <1>10, <1>11, <1>12, <1>13 DEF User

-----------------------------------------------------------------------------
(* The steps of the server and of others *)

LEMMA ReplyIsKnown ==
  ASSUME net \subseteq KnownRequest, NEW r \in net,
         NEW code \in {"ok", "failed", "at_capacity"},
         code = "at_capacity" => r.op = "start" /\ r.item \in Items,
         code = "ok" /\ r.op \notin {"list", "messages"} => r.item \in Items,
         NEW seen \in [Items -> ItemCopy], NEW said \in Talks,
         Reply(r, code, seen, said)
  PROVE  net' \subseteq KnownRequest
  <1>1. r \in KnownRequest OBVIOUS
  <1>2. [r EXCEPT !.code = code, !.seen = seen, !.said = said] \in KnownRequest
    BY <1>1 DEF KnownRequest, Request
  <1> QED BY <1>2 DEF Reply

LEMMA OnlyIsBoard ==
  ASSUME NEW i \in Items, NEW copy \in ItemCopy
  PROVE  Only(i, copy) \in [Items -> ItemCopy]
  BY CopiesAreItems DEF Only

\* A copy that has no more output than the item.
LEMMA WriteKeeps ==
  ASSUME ServerInv, net \subseteq KnownRequest, NEW r \in net, r.item \in Items,
         NEW copy \in ItemCopy, copy.output <= changes, Write(r, copy)
  PROVE  /\ board' \in [Items -> ItemCopy]
         /\ \A i \in Items : board'[i].output <= changes
         /\ net' \subseteq KnownRequest
  <1> DEFINE seen == IF r.op \in {"save", "upload"} THEN Only(r.item, copy) ELSE Nothing
  <1>1. seen \in [Items -> ItemCopy] BY CopiesAreItems, OnlyIsBoard
  <1>2. board' = [board EXCEPT ![r.item] = copy] /\ Reply(r, "ok", seen, "none") BY DEF Write
  <1> HIDE DEF seen
  <1>3. net' \subseteq KnownRequest BY <1>1, <1>2, ReplyIsKnown DEF Talks
  <1> QED BY <1>2, <1>3 DEF ServerInv

LEMMA HandleKeeps ==
  ASSUME ServerInv, net \subseteq KnownRequest, NEW r \in net, Handle(r)
  PROVE  /\ board' \in [Items -> ItemCopy]
         /\ talk' \in [Items -> Talks]
         /\ \A i \in Items : board'[i].output <= changes
         /\ net' \subseteq KnownRequest
  <1>1. r \in KnownRequest /\ r.op \in Reads \cup Writes BY DEF KnownRequest, Request
  <1>2. CASE r.op = "list"
    <2>1. Reply(r, "ok", board, "none") /\ UNCHANGED <<board, talk>>
      BY <1>2 DEF Handle, handleBoardList
    <2> QED BY <1>2, <2>1, ReplyIsKnown DEF ServerInv, Talks
  <1>3. CASE r.op = "messages"
    <2> DEFINE said == IF r.item \in Items THEN talk[r.item] ELSE "none"
    <2>1. Reply(r, "ok", Nothing, said) /\ UNCHANGED <<board, talk>>
      BY <1>3 DEF Handle, handleBoardMessages
    <2>2. said \in Talks BY DEF Talks, ServerInv
    <2> HIDE DEF said
    <2> QED BY <1>3, <2>1, <2>2, ReplyIsKnown, CopiesAreItems DEF ServerInv
  <1>4. CASE r.op \notin {"list", "messages"} /\ Gone(r.item)
    <2>1. Reply(r, "failed", Nothing, "none") /\ UNCHANGED <<board, talk>>
      BY <1>4 DEF Handle, Failure
    <2> QED BY <2>1, ReplyIsKnown, CopiesAreItems DEF ServerInv, Talks
  <1>5. CASE r.op \notin {"list", "messages"} /\ ~Gone(r.item)
    <2> DEFINE copy == board[r.item]
    <2>1. r.item \in Items /\ copy \in ItemCopy /\ copy.output <= changes
      BY <1>5 DEF Gone, ServerInv
    <2>2. CASE r.op \in {"activity", "poll"}
      <3>1. Reply(r, "ok", Only(r.item, copy), "none") /\ UNCHANGED <<board, talk>>
        BY <1>5, <2>2 DEF Handle, handleBoardActivity
      <3> QED BY <2>1, <3>1, OnlyIsBoard, ReplyIsKnown DEF ServerInv, Talks
    <2>3. CASE r.op \in {"start", "queue", "move", "save"}
      <3>1. handleBoardUpdate(r) BY <1>5, <2>3 DEF Handle
      <3> DEFINE Moved(status, working) == [copy EXCEPT !.status = status, !.working = working]
      <3>2. \A status \in Statuses, working \in BOOLEAN :
               Moved(status, working) \in ItemCopy /\ Moved(status, working).output <= changes
        BY <2>1 DEF ItemCopy
      <3>3. talk' = talk BY <3>1 DEF handleBoardUpdate
      <3>4. CASE r.op = "start" /\ Reply(r, "at_capacity", Nothing, "none") /\ UNCHANGED board
        BY <2>1, <3>3, <3>4, ReplyIsKnown, CopiesAreItems DEF ServerInv, Talks
      <3>5. CASE \/ Write(r, Moved("in-progress", TRUE)) \/ Write(r, Moved("queued", FALSE))
                 \/ Write(r, Moved("backlog", FALSE)) \/ Write(r, copy)
        <4>1. PICK new \in ItemCopy : new.output <= changes /\ Write(r, new)
          BY <2>1, <3>2, <3>5 DEF Statuses
        <4> QED BY <2>1, <3>3, <4>1, WriteKeeps DEF ServerInv
      <3> QED BY <2>3, <3>1, <3>4, <3>5 DEF handleBoardUpdate
    <2>4. CASE r.op \in {"remove", "discard"}
      <3>1. Write(r, Deleted) /\ talk' = talk
        BY <1>5, <2>4 DEF Handle, handleBoardDelete
      <3>2. Deleted.output <= changes BY DEF Deleted, ServerInv
      <3> QED BY <2>1, <3>1, <3>2, CopiesAreItems, WriteKeeps DEF ServerInv
    <2>5. CASE r.op \in {"upload", "ask"}
      <3>1. \/ /\ Write(r, copy)
               /\ talk' = talk \/ talk' = [talk EXCEPT ![r.item] = "outbound"]
            \/ Failure(r)
        BY <1>5, <2>5 DEF Handle, handleBoardAttachmentUpload, handleBoardAsk
      <3>2. CASE Failure(r)
        BY <3>2, ReplyIsKnown, CopiesAreItems DEF Failure, ServerInv, Talks
      <3>3. CASE /\ Write(r, copy)
                 /\ talk' = talk \/ talk' = [talk EXCEPT ![r.item] = "outbound"]
        <4>1. talk' \in [Items -> Talks] BY <2>1, <3>3 DEF ServerInv, Talks
        <4> QED BY <2>1, <3>3, <4>1, WriteKeeps
      <3> QED BY <3>1, <3>2, <3>3
    <2> QED BY <1>1, <1>5, <2>2, <2>3, <2>4, <2>5 DEF Reads, Writes
  <1> QED BY <1>2, <1>3, <1>4, <1>5

LEMMA ServeStep ==
  ASSUME BoardInv, NEW op, Serve(op)
  PROVE  BoardInv'
  <1>1. PICK r \in net : Handle(r) BY DEF Serve
  <1>2. ServerInv /\ net \subseteq KnownRequest BY DEF BoardInv, ServerInv
  <1> QED BY <1>1, <1>2, HandleKeeps DEF BoardInv, Serve

LEMMA OthersStep ==
  ASSUME BoardInv, Others
  PROVE  BoardInv'
  <1>1. changes' = changes + 1 /\ changes' \in 0 .. MaxChanges
    BY BoardAssumption DEF BoardInv, Others
  <1>2. PICK i \in Items :
          \/ Change(i, [board[i] EXCEPT !.status = "in-progress", !.working = TRUE])
          \/ Change(i, [board[i] EXCEPT !.output = @ + 1])
          \/ Change(i, [board[i] EXCEPT !.status = "done", !.working = FALSE])
          \/ talk' = [talk EXCEPT ![i] = "inbound"] /\ UNCHANGED board
    BY DEF Others
  <1>3. board[i] \in ItemCopy /\ board[i].output <= changes BY DEF BoardInv
  <1>4. CASE \E copy \in ItemCopy : copy.output <= changes' /\ Change(i, copy)
    <2>1. board' \in [Items -> ItemCopy] /\ talk' = talk BY <1>4 DEF BoardInv, Change
    <2>2. \A j \in Items : board'[j].output <= changes'
      BY <1>1, <1>4 DEF BoardInv, Change, ItemCopy
    <2> QED BY <1>1, <2>1, <2>2 DEF BoardInv, Others
  <1>5. CASE talk' = [talk EXCEPT ![i] = "inbound"] /\ UNCHANGED board
    <2>1. \A j \in Items : board'[j].output <= changes' BY <1>1, <1>5 DEF BoardInv, ItemCopy
    <2> QED BY <1>1, <1>5, <2>1 DEF BoardInv, Others, Talks
  <1>6. \/ \E copy \in ItemCopy : copy.output <= changes' /\ Change(i, copy)
        \/ talk' = [talk EXCEPT ![i] = "inbound"] /\ UNCHANGED board
    <2>0. board[i].output <= changes'
      BY <1>1, <1>3, BoardAssumption DEF BoardInv, ItemCopy
    <2>1. \A status \in Statuses, working \in BOOLEAN :
             LET copy == [board[i] EXCEPT !.status = status, !.working = working]
             IN copy \in ItemCopy /\ copy.output = board[i].output
      BY <1>3 DEF ItemCopy
    <2>2. /\ [board[i] EXCEPT !.output = @ + 1] \in ItemCopy
          /\ [board[i] EXCEPT !.output = @ + 1].output <= changes'
      BY <1>1, <1>3, BoardAssumption DEF BoardInv, ItemCopy
    <2> QED BY <1>2, <2>0, <2>1, <2>2 DEF Statuses
  <1> QED BY <1>4, <1>5, <1>6

-----------------------------------------------------------------------------
(* The invariant *)

LEMMA BoardInvInit ==
  ASSUME Init
  PROVE  BoardInv
  <1>0. 0 \in 0 .. MaxChanges /\ 0 \in 0 .. MaxClicks BY BoardAssumption
  <1>1. PICK some \in Starts :
          board = [i \in Items |-> IF i \in some THEN InProgress ELSE Fresh]
    BY DEF Init
  <1>2. board \in [Items -> ItemCopy] BY <1>1, CopiesAreItems
  <1>3. \A i \in Items : board[i].output <= 0 BY <1>1 DEF InProgress, Fresh
  <1>4. net \subseteq KnownRequest
    <2>1. Ask("list", None) \in KnownRequest BY AskIsKnown DEF Reads, Targets
    <2> QED BY <2>1 DEF Init
  <1>5. Body("blank", None, 0) \in Bodies /\ Body("blank", None, 0).kind = "blank"
    BY <1>0, BodyIsBody DEF Targets
  <1>6. GoodPage(ui) /\ ui.send = {}
    BY <1>5, CopiesAreItems DEF Init, GoodPage, Sound, Page, FormIsOwn, Tabs, Targets
  <1> QED BY <1>0, <1>2, <1>3, <1>4, <1>6 DEF Init, BoardInv, Talks

LEMMA BoardInvNext ==
  ASSUME BoardInv, [Next]_vars
  PROVE  BoardInv'
  <1>1. CASE User BY <1>1, UserStep
  <1>2. CASE Timers BY <1>2, TimerStep
  <1>3. CASE Others BY <1>3, OthersStep
  <1>4. CASE \E op \in Reads \cup Writes : Progress(op)
    BY <1>4, ServeStep, AnswerStep DEF Progress
  <1>5. CASE UNCHANGED vars
    BY <1>5 DEF vars, BoardInv, GoodPage, Sound, FormIsOwn
  <1> QED BY <1>1, <1>2, <1>3, <1>4, <1>5 DEF Next

LEMMA BoardInvariance == Spec => []BoardInv
  BY BoardInvInit, BoardInvNext, PTL DEF Spec

\* Every variable keeps its type, for any items and any number of clicks and changes.
THEOREM TypesAreRespected == Spec => []TypeOK
  <1>1. BoardInv => TypeOK
    BY DEF BoardInv, GoodPage, Sound, Page, TypeOK, KnownRequest
  <1> QED BY <1>1, BoardInvariance, PTL

\* Save sends the form of the panel's item, for any items, clicks, changes and requests
\* under way, in whatever order these are answered (loadBoardCtx, saveBoardAllEdits).
THEOREM FormsAreOwn == Spec => []FormIsOfItem
  <1>1. BoardInv => FormIsOfItem
    BY DEF BoardInv, GoodPage, FormIsOwn, FormIsOfItem
  <1> QED BY <1>1, BoardInvariance, PTL
=============================================================================
