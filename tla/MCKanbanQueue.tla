--------------------------- MODULE MCKanbanQueue ---------------------------
(***************************************************************************)
(* Instances of KanbanQueue: the boards the orchestrator may find on disk  *)
(* and the PATCH bodies the operators send.                                *)
(***************************************************************************)
EXTENDS KanbanQueue

CONSTANT bot

Stored(i, st) ==
  [id |-> i, status |-> st, bot |-> bot, active |-> NoTask, mode |-> "asap",
   runAt |-> NoTime, after |-> NoItem, requireSuccess |-> FALSE,
   queuedAt |-> NoTime, pos |-> i]

QueuedItem(i, mode, runAt, after, must, at) ==
  [Stored(i, "queued") EXCEPT !.mode = mode, !.runAt = runAt, !.after = after,
                              !.requireSuccess = must, !.queuedAt = at]

\* Three items queued in every mode: the second after the first or as soon as
\* possible, the third after the second, at a date, or without a bot.
QueuedBoards ==
  { [i \in 1..3 |-> CASE i = 1 -> a [] i = 2 -> b [] OTHER -> c] :
      a \in {QueuedItem(1, "asap", NoTime, NoItem, FALSE, 1),
             QueuedItem(1, "run_at", 1, NoItem, FALSE, 0)},
      b \in {QueuedItem(2, "run_after", NoTime, 1, must, 0) : must \in BOOLEAN}
            \cup {QueuedItem(2, "asap", NoTime, NoItem, FALSE, 0)},
      c \in {QueuedItem(3, "run_when", at, 2, TRUE, 0) : at \in {1, NoTime}}
            \cup {[QueuedItem(3, "asap", NoTime, NoItem, FALSE, 1) EXCEPT !.bot = NoBot]} }

Absent == [status |-> Keep, bot |-> Keep, mode |-> Keep, runAt |-> Keep,
           after |-> Keep, requireSuccess |-> Keep]
Move(st) == [Absent EXCEPT !.status = st]

NoPatches == {}

\* What operators do to a board: start, queue, stop, reassign.
EditPatches == {Move("in-progress"), Move("queued"), Move("backlog"),
                [Absent EXCEPT !.bot = bot]}
StartPatches == {Move("in-progress")}

\* One item queued, one in the backlog, and one that can still be created.
EditBoards == { [i \in Items |-> CASE i = 1 -> QueuedItem(1, "asap", NoTime, NoItem, FALSE, 0)
                                    [] i = 2 -> Stored(2, "backlog")
                                    [] OTHER -> NoItem] }

\* A single queued item.
OneQueued == { [i \in 1..2 |-> IF i = 1 THEN QueuedItem(1, "asap", NoTime, NoItem, FALSE, 0)
                               ELSE NoItem] }

BacklogBoards == { [i \in 1..2 |-> Stored(i, "backlog")] }
=============================================================================
