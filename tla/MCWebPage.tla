----------------------------- MODULE MCWebPage ------------------------------
(***************************************************************************)
(* The four parts of the web page in one run.  They share nothing that     *)
(* they keep, so that each is checked alone: "part" says which of them the *)
(* behaviour is about.                                                     *)
(***************************************************************************)
EXTENDS WebBoard

CONSTANTS t1, t2, k1, k2, d1, d2, r1, r2

VARIABLES
  part,                     \* the part of the page
  srv1, srv2, srv3, srv4,   \* what a part other than the board knows of the server
  calls, page, acts, edits  \* its requests, its page, and what its user and others did

otherVars == <<srv1, srv2, srv3, srv4, calls, page, acts, edits>>
allVars == <<vars, part, otherVars>>

Chat == INSTANCE WebChat WITH
  Threads <- {t1, t2}, Existing <- {t1}, Tasks <- {k1, k2},
  threads <- srv1, used <- srv2, sent <- srv3, answered <- srv4,
  net <- calls, ui <- page, clicks <- acts
Bots == INSTANCE WebTasks WITH
  Tasks <- {d1, d2}, Scheduled <- {d2}, tasks <- srv1, talk <- srv2,
  net <- calls, ui <- page, clicks <- acts, changes <- edits
Panes == INSTANCE WebPanes WITH
  Registries <- {r1, r2}, Configured <- {r1}, registries <- srv1, plugin <- srv2, users <- srv3,
  net <- calls, ui <- page, clicks <- acts

OnBoard == part = "board" /\ UNCHANGED <<part, otherVars>>
OnChat == part = "chat" /\ UNCHANGED <<part, vars, edits>>
OnTasks == part = "tasks" /\ UNCHANGED <<part, vars, srv3, srv4>>
OnPanes == part = "panes" /\ UNCHANGED <<part, vars, srv4, edits>>

\* Each part has its own initial states; the board is at rest while it is another's turn.
PageInit ==
  /\ Init
  /\ \/ /\ part = "board"
        /\ srv1 = None /\ srv2 = None /\ srv3 = None /\ srv4 = None
        /\ calls = {} /\ page = None /\ acts = 0 /\ edits = 0
     \/ part = "chat" /\ edits = 0 /\ Chat!Init
     \/ part = "tasks" /\ srv3 = None /\ srv4 = None /\ Bots!Init
     \/ part = "panes" /\ srv4 = None /\ edits = 0 /\ Panes!Init

\* A step of the part that the behaviour is about.
Step(inBoard, inChat, inTasks, inPanes) ==
  \/ OnBoard /\ inBoard
  \/ OnChat /\ inChat
  \/ OnTasks /\ inTasks
  \/ OnPanes /\ inPanes

PageNext == Step(Next, Chat!Next, Bots!Next, Panes!Next)

\* The fairness of each part.  The part never changes, so that one condition on several
\* parts says of each what its own would.
Fairness ==
  /\ WF_allVars(Step(RefreshTick, Chat!RefreshTick, Bots!RefreshTick, Panes!RefreshTick))
  /\ WF_allVars(Step(Progress("list"), Chat!Progress("list"), Bots!Progress("list"),
                     Panes!Progress("registries")))
  /\ WF_allVars(Step(Progress("activity"), Chat!Progress("messages"), Bots!Progress("task"),
                     Panes!Progress("plugins")))
  /\ WF_allVars(Step(FALSE, FALSE, Bots!Serve("messages"), Panes!Serve("index")))
  /\ WF_allVars(Step(FALSE, FALSE, Bots!Answer("messages"), Panes!Answer("index")))
  /\ WF_allVars(Step(OtherProgress, Chat!OtherProgress, Bots!OtherProgress,
                     Panes!OtherProgress))

PageSpec == PageInit /\ [][PageNext]_allVars /\ Fairness

-----------------------------------------------------------------------------
\* Every part comes to show what the server has (UpToDate of the four modules).
PageCatchesUp ==
  <>[](/\ part = "board" => UpToDate
       /\ part = "chat" => Chat!UpToDate
       /\ part = "tasks" => Bots!UpToDate
       /\ part = "panes" => Panes!UpToDate)

\* What a bot has answered is not awaited for ever (NotAwaited, NotThinking).
WaitingEnds ==
  <>[](/\ part = "chat" => Chat!NotAwaited
       /\ part = "tasks" => Bots!NotThinking)
=============================================================================
