-------------------------- MODULE BuzzBridgeProofs --------------------------
(***************************************************************************)
(* Proofs about the conversations, for any readers, threads and events: an *)
(* event of the relay is dispatched once, but for the tasks that were      *)
(* deleted while they were dispatched, and is not swallowed, and a request *)
(* ends once in a thread that one goroutine reads.                         *)
(***************************************************************************)
EXTENDS BuzzBridge, FiniteSetTheorems, TLAPS

Busy(r) == pc[r] \notin {"idle", "mark"}

\* What a reader holds between two steps of a handler.
Holds(r) ==
  /\ pc[r] = "idle" <=> cur[r] = NoEvent
  /\ cur[r] # NoEvent => In[cur[r]] \in Serves[r]
  /\ pc[r] \in {"idle", "mark", "load", "detect"} <=> what[r] = NoEvent
  /\ pc[r] \in {"confirm", "cancel"} =>
       /\ Hears(cur[r]) = (IF pc[r] = "confirm" THEN "yes" ELSE "no")
       /\ In[what[r]] = In[cur[r]] /\ Hears(what[r]) = "task"
  /\ pc[r] \in {"send", "link", "undo", "backlog", "item", "await"} => Current(r) \in Tasks
  /\ pc[r] \in {"mark", "undo", "backlog", "item", "await"} => OnRelay(cur[r])
  /\ pc[r] = "await" => cur[r] \in handled

\* A pending intent is a request of its thread.
Intents == \A t \in Threads : intent[t] # NoEvent => In[intent[t]] = t /\ Hears(intent[t]) = "task"

\* An event of the relay that is marked is handled by one reader at most, and one that is
\* handled is marked.
Marks ==
  /\ \A e \in seen : OnRelay(e)
  /\ \A r \in Readers : Busy(r) /\ OnRelay(cur[r]) /\ cur[r] \notin expired =>
       /\ cur[r] \in seen
       /\ \A q \in Readers : Busy(q) /\ cur[q] = cur[r] => q = r

\* What has been dispatched for an event of the relay: one task more than were lost, and
\* then by the reader that is still at work on it.
Sent(e) ==
  /\ copies[<<e, e>>] <= 1 + lost[<<e, e>>]
  /\ copies[<<e, e>>] > lost[<<e, e>>] =>
       /\ e \in seen
       /\ \A r \in Readers : cur[r] = e => pc[r] \in {"mark", "link", "backlog", "item", "await"}
Dispatched == \A e \in Events : OnRelay(e) /\ e \notin expired /\ <<e, e>> \in Tasks => Sent(e)

\* The witness is past its mark: a reader that is not may find the event marked and leave.
Kept == \A e \in seen : e \in handled \/ \E r \in Readers : cur[r] = e /\ pc[r] # "mark"

\* Nobody else touches the intent of a thread with one reader.
Undisturbed ==
  \A r \in Readers :
    pc[r] \in {"confirm", "cancel"} /\ SingleReader(Thread(r)) => intent[Thread(r)] = what[r]

Executed(e, t) == t[2] = e /\ copies[t] > 0
Untouched(e) == e \notin ended /\ \A t \in Tasks : ~Executed(e, t)

\* The life of a request of the chat page: unsent, read, waiting, confirmed, executed.
Unsent(e) ==
  deliveries[e] = 0 =>
    /\ intent[In[e]] # e /\ Untouched(e)
    /\ \A r \in Readers : cur[r] # e /\ what[r] # e
Read(e) ==
  \A r \in Readers : cur[r] = e => pc[r] \in {"load", "detect"} /\ intent[In[e]] # e /\ Untouched(e)
Waiting(e) ==
  intent[In[e]] = e => Untouched(e) /\ \A r \in Readers : what[r] = e => pc[r] # "send"
Confirmed(e) ==
  \A r \in Readers : what[r] = e /\ pc[r] = "send" => Untouched(e)
Once(e) ==
  \A t \in Tasks : Executed(e, t) =>
    copies[t] = 1 /\ e \notin ended /\ \A u \in Tasks : Executed(e, u) => u = t
Life(e) == Unsent(e) /\ Read(e) /\ Waiting(e) /\ Confirmed(e) /\ Once(e)

Watched(e) ==
  e \notin expired /\ Says[e] = "task" /\ ~OnRelay(e) /\ SingleReader(In[e]) /\ deliveries[e] <= 1
Lives == \A e \in Events : Watched(e) => Life(e)

IInv ==
  /\ TypeOK
  /\ \A r \in Readers : Holds(r)
  /\ Intents /\ Marks /\ Dispatched /\ Kept /\ Undisturbed /\ Lives
-----------------------------------------------------------------------------
(* What the operators do *)

LEMMA InOf ==
  /\ NoEvent \notin Events
  /\ \A e \in Events : In[e] \in Threads
  /\ \A t \in Tasks : t = <<t[1], t[2]>> /\ t[1] \in Events /\ t[2] \in Events /\ In[t[1]] = In[t[2]]
  BY EventsAreTyped DEF Tasks

\* Says decides what a request is, wherever it is heard.
LEMMA RequestsAreHeard == \A e \in Events : Hears(e) = "task" <=> Says[e] = "task"
  BY DEF Hears

\* On the relay nothing counts as a confirmation, so that a task executes its own trigger.
LEMMA RelayedTasks == \A t \in Tasks : OnRelay(t[1]) => t = <<t[1], t[1]>> /\ Hears(t[2]) # "task"
  BY InOf DEF Tasks, Hears

LEMMA OnlyReader ==
  ASSUME NEW t, SingleReader(t), NEW r \in Readers, NEW q \in Readers, t \in Serves[r], t \in Serves[q]
  PROVE  q = r
  <1> DEFINE S == {p \in Readers : t \in Serves[p]}
  <1>1. IsFiniteSet(S) BY EventsAreTyped, FS_Subset
  <1>2. PICK p : S = {p} BY <1>1, FS_Singleton DEF SingleReader
  <1> QED BY <1>2

-----------------------------------------------------------------------------
(* The invariant *)

LEMMA InitInv == Init => IInv
  <1> SUFFICES ASSUME Init PROVE IInv OBVIOUS
  <1>1. TypeOK BY EventsAreTyped DEF Init, TypeOK
  <1>2. \A r \in Readers : Holds(r) BY DEF Init, Holds
  <1>3. Intents /\ Marks /\ Dispatched /\ Kept /\ Undisturbed
    BY EventsAreTyped DEF Init, Intents, Marks, Dispatched, Sent, Kept, Undisturbed, Busy
  <1>4. Lives
    BY InOf DEF Init, Lives, Life, Unsent, Read, Waiting, Confirmed, Once, Watched, Untouched, Executed
  <1> QED BY <1>1, <1>2, <1>3, <1>4 DEF IInv

\* What a reader holds has a type.
LEMMA Held ==
  ASSUME IInv, NEW r \in Readers, pc[r] # "idle"
  PROVE  /\ cur[r] \in Events /\ In[cur[r]] \in Threads /\ In[cur[r]] \in Serves[r]
         /\ what[r] \in Events \cup {NoEvent}
         /\ pc[r] \in {"confirm", "cancel"} => what[r] \in Events
  BY InOf DEF IInv, TypeOK, Holds

LEMMA TypeStep == IInv /\ [Next]_vars => TypeOK'
  <1> SUFFICES ASSUME IInv, [Next]_vars PROVE TypeOK' OBVIOUS
  <1> TypeOK BY DEF IInv
  <1> USE EventsAreTyped DEF TypeOK, bounds
  <1>1. ASSUME NEW r \in Readers, Receive(r) PROVE TypeOK'
    BY <1>1 DEF Receive, Goto, bridge, bots, history
  <1>2. ASSUME NEW r \in Readers, Mark(r) PROVE TypeOK'
    BY <1>2, Held DEF Mark, Goto, Finish, Thread, bots, history
  <1>3. ASSUME NEW r \in Readers, Load(r) PROVE TypeOK'
    BY <1>3, Held DEF Load, Goto, Thread, bots
  <1>4. ASSUME NEW r \in Readers, Confirm(r) PROVE TypeOK'
    BY <1>4, Held DEF Confirm, Clear, Goto, Thread, bots, history
  <1>5. ASSUME NEW r \in Readers, Cancel(r) PROVE TypeOK'
    BY <1>5, Held DEF Cancel, Clear, Goto, Finish, Thread, bots
  <1>6. ASSUME NEW r \in Readers, Detect(r) PROVE TypeOK'
    BY <1>6, Held DEF Detect, Goto, Finish, Thread, bots
  <1>7. ASSUME NEW r \in Readers, Send(r) PROVE TypeOK'
    <2>1. Current(r) \in Tasks /\ cur[r] \in Events BY <1>7, Held DEF Send, IInv, Holds
    <2>2. CASE Refuse(r) BY <1>7, <2>1, <2>2 DEF Send, Refuse, Fail, Goto, Finish, bridge
    <2>3. CASE Dispatch(r) BY <1>7, <2>1, <2>3 DEF Send, Dispatch, Continue, Goto, Finish, bridge
    <2> QED BY <1>7, <2>2, <2>3 DEF Send
  <1>8. ASSUME NEW r \in Readers, Undo(r) PROVE TypeOK'
    BY <1>8 DEF Undo, Unmark, Goto, Finish, bots, history
  <1>9. ASSUME NEW r \in Readers, CreateItem(r) PROVE TypeOK'
    <2>1. Current(r) \in Tasks /\ cur[r] \in Events BY <1>9, Held DEF CreateItem, IInv, Holds
    <2> QED BY <1>9, <2>1 DEF CreateItem, Goto, Finish, bridge
  <1>10. ASSUME NEW r \in Readers, Await(r) PROVE TypeOK'
    <2>1. Current(r) \in Tasks BY <1>10 DEF Await, IInv, Holds
    <2> QED BY <1>10, <2>1 DEF Await, Goto, Finish, bridge, history
  <1>11. ASSUME NEW t \in Tasks, Answer(t) PROVE TypeOK'
    BY <1>11 DEF Answer, StoreResult, SettleItem, HandleResult, bridge, history
  <1>12. ASSUME NEW e \in Events, Expire(e) PROVE TypeOK'
    BY <1>12 DEF Expire, bots
  <1>13. ASSUME NEW r \in Readers, Link(r) PROVE TypeOK'
    <2>1. Current(r) \in Tasks /\ cur[r] \in Events BY <1>13, Held DEF Link, IInv, Holds
    <2>2. UNCHANGED <<bounds, bridge, item, queued, result, awaited, replied, copies, expired, ended>>
      BY <1>13 DEF Link
    <2>3. CASE task[Current(r)] = "none"
      <3>1. Fail(r) /\ UNCHANGED <<task, handled>> /\ lost' = [lost EXCEPT ![Current(r)] = @ + 1]
        BY <1>13, <2>3 DEF Link
      <3> QED BY <2>1, <2>2, <3>1 DEF Fail, Goto, Finish, bridge
    <2>4. CASE task[Current(r)] # "none"
      <3>1. Continue(r, "item") /\ UNCHANGED lost /\ task' = [task EXCEPT ![Current(r)] = "running"]
        BY <1>13, <2>4 DEF Link
      <3> QED BY <2>1, <2>2, <3>1 DEF Continue, Goto, Finish, bridge
    <2> QED BY <2>3, <2>4
  <1>14. ASSUME NEW t \in Tasks, DeleteTask(t) PROVE TypeOK'
    BY <1>14 DEF DeleteTask, bridge, history
  <1>15. CASE UNCHANGED vars
    BY <1>15 DEF vars
  <1> QED
    BY <1>1, <1>2, <1>3, <1>4, <1>5, <1>6, <1>7, <1>8, <1>9, <1>10, <1>11, <1>12, <1>13, <1>14, <1>15
    DEF Next, Handle

\* A step of a reader leaves the others as they are.
LEMMA OneReaderMoves ==
  ASSUME IInv, NEW r \in Readers, Receive(r) \/ Handle(r), NEW q \in Readers, q # r
  PROVE  pc'[q] = pc[q] /\ cur'[q] = cur[q] /\ what'[q] = what[q]
  BY DEF IInv, TypeOK, Receive, Handle, Mark, Load, Confirm, Cancel, Detect, Send, Refuse, Fail, Dispatch, Continue, Link,
         Undo, CreateItem, Await, Goto, Finish

\* No step takes back a delivery, an expiry, the end of a request or of a handling.
LEMMA OnlyGrows ==
  ASSUME IInv, [Next]_vars
  PROVE  /\ expired \subseteq expired' /\ handled \subseteq handled' /\ ended \subseteq ended'
         /\ \A e \in Events : deliveries[e] <= deliveries'[e]
  <1> USE DEF IInv, TypeOK, bounds, history
  <1>1. ASSUME NEW r \in Readers, Receive(r) PROVE \A e \in Events : deliveries[e] <= deliveries'[e]
    BY <1>1 DEF Receive
  <1>2. ASSUME NEW r \in Readers, Handle(r) PROVE UNCHANGED deliveries
    BY <1>2 DEF Handle, Mark, Load, Confirm, Cancel, Detect, Send, Link, Undo, CreateItem, Await
  <1>3. ASSUME NEW r \in Readers, Receive(r) \/ Handle(r)
        PROVE  expired \subseteq expired' /\ handled \subseteq handled' /\ ended \subseteq ended'
    BY <1>3 DEF Receive, Handle, Mark, Load, Confirm, Cancel, Detect, Send, Refuse, Dispatch, Continue,
         Link, Undo, CreateItem, Await
  <1> QED
    BY <1>1, <1>2, <1>3 DEF Next, vars, Answer, StoreResult, SettleItem, HandleResult, DeleteTask, Expire

LEMMA HoldsStep ==
  ASSUME IInv, [Next]_vars, NEW p \in Readers
  PROVE  Holds(p)'
  <1> TypeOK /\ (\A r \in Readers : Holds(r)) /\ Intents BY DEF IInv
  <1>0. handled \subseteq handled' BY OnlyGrows
  <1>1. ASSUME NEW r \in Readers, Receive(r) \/ Handle(r), r # p PROVE Holds(p)'
    BY <1>0, <1>1, OneReaderMoves DEF Holds, Current
  <1>2. CASE Receive(p)
    BY <1>2, InOf DEF Receive, Goto, TypeOK, Holds
  <1>3. CASE Mark(p)
    BY <1>3, Held DEF Mark, Goto, Finish, TypeOK, Holds
  <1>4. CASE Load(p)
    BY <1>4, Held DEF Load, Goto, Thread, TypeOK, Holds, Intents
  <1>5. CASE Confirm(p)
    <2>1. Current(p) \in Tasks BY <1>5, Held DEF Confirm, Holds, Current, Tasks
    <2> QED BY <1>5, <2>1, Held DEF Confirm, Goto, TypeOK, Holds, Current
  <1>6. CASE Cancel(p)
    BY <1>6 DEF Cancel, Finish, Goto, TypeOK, Holds
  <1>7. CASE Detect(p)
    <2>1. CASE Hears(cur[p]) = "task" BY <1>7, <2>1 DEF Detect, Finish, Goto, TypeOK, Holds
    <2>2. CASE Hears(cur[p]) # "task"
      <3>1. <<cur[p], cur[p]>> \in Tasks BY <1>7, <2>2, Held DEF Detect, Tasks
      <3> QED BY <1>7, <2>2, <3>1, Held, InOf DEF Detect, Goto, TypeOK, Holds, Current
    <2> QED BY <2>1, <2>2
  <1>8. CASE Send(p)
    BY <1>8, Held DEF Send, Refuse, Fail, Dispatch, Continue, Finish, Goto, TypeOK, Holds, Current
  <1>9. CASE Undo(p)
    BY <1>9 DEF Undo, Finish, Goto, TypeOK, Holds
  <1>10. CASE CreateItem(p)
    BY <1>10, Held DEF CreateItem, Finish, Goto, TypeOK, Holds, Current
  <1>11. CASE Await(p)
    BY <1>11 DEF Await, Finish, Goto, TypeOK, Holds
  <1>12. ASSUME NEW t \in Tasks, Answer(t) PROVE Holds(p)'
    BY <1>12 DEF Answer, StoreResult, SettleItem, HandleResult, history, Holds, Current
  <1>13. ASSUME NEW e \in Events, Expire(e) PROVE Holds(p)'
    BY <1>13 DEF Expire, Holds, Current
  <1>14. CASE Link(p)
    BY <1>14, Held DEF Link, Fail, Continue, Finish, Goto, TypeOK, Holds, Current
  <1>15. ASSUME NEW t \in Tasks, DeleteTask(t) PROVE Holds(p)'
    BY <1>15 DEF DeleteTask, history, Holds, Current
  <1>16. CASE UNCHANGED vars
    BY <1>16 DEF vars, Holds, Current
  <1> QED
    BY <1>1, <1>2, <1>3, <1>4, <1>5, <1>6, <1>7, <1>8, <1>9, <1>10, <1>11, <1>12, <1>13, <1>14, <1>15, <1>16
    DEF Next, Handle

LEMMA IntentsStep == IInv /\ [Next]_vars => Intents'
  <1> SUFFICES ASSUME IInv, [Next]_vars, NEW t \in Threads PROVE
        (intent[t] # NoEvent => In[intent[t]] = t /\ Hears(intent[t]) = "task")'
    BY DEF Intents
  <1> TypeOK /\ Intents BY DEF IInv
  <1>1. ASSUME NEW r \in Readers, Load(r) \/ Confirm(r) \/ Cancel(r) \/ Detect(r)
        PROVE  intent'[t] \in {intent[t], NoEvent}
                 \/ (pc[r] = "detect" /\ t = Thread(r) /\ Hears(cur[r]) = "task" /\ intent'[t] = cur[r])
    BY <1>1 DEF Load, Confirm, Cancel, Detect, Clear, TypeOK
  <1>2. CASE UNCHANGED intent BY <1>2 DEF Intents
  <1> QED
    BY <1>1, <1>2 DEF Next, vars, bridge, Receive, Handle, Mark, Send, Link, Undo, CreateItem, Await,
      Answer, StoreResult, SettleItem, HandleResult, DeleteTask, Expire, Intents, Thread

\* A reader that takes the mark is alone with its event; one that expires, or is
\* unmarked, loses nobody's mark but its own.
LEMMA MarksStep == IInv /\ [Next]_vars => Marks'
  <1> SUFFICES ASSUME IInv, [Next]_vars PROVE Marks' OBVIOUS
  <1> TypeOK /\ Marks /\ \A r \in Readers : Holds(r) BY DEF IInv
  <1>0. expired \subseteq expired' BY OnlyGrows
  <1>1. ASSUME UNCHANGED seen, \A r \in Readers : (Busy(r) /\ OnRelay(cur[r]))' => Busy(r) /\ cur'[r] = cur[r]
        PROVE  Marks'
    <2>1. \A r \in Readers, q \in Readers :
            (Busy(r) /\ OnRelay(cur[r]) /\ Busy(q) /\ cur[q] = cur[r])' =>
            Busy(r) /\ OnRelay(cur[r]) /\ Busy(q) /\ cur[q] = cur[r]
      BY <1>1 DEF OnRelay
    <2> QED BY <1>0, <1>1, <2>1 DEF Marks, OnRelay
  <1>2. ASSUME NEW r \in Readers, Receive(r) PROVE Marks'
    <2>1. \A q \in Readers : (Busy(q) /\ OnRelay(cur[q]))' => q # r
      BY <1>2 DEF Receive, Goto, Busy, TypeOK, OnRelay
    <2>2. UNCHANGED seen BY <1>2 DEF Receive, bridge
    <2> QED BY <1>1, <1>2, <2>1, <2>2, OneReaderMoves DEF Busy
  <1>3. ASSUME NEW r \in Readers, Mark(r) PROVE Marks'
    <2>1. OnRelay(cur[r]) /\ cur[r] \in Events BY <1>3, Held DEF Mark, Holds
    <2>2. \A q \in Readers \ {r} : pc'[q] = pc[q] /\ cur'[q] = cur[q]
      BY <1>3, OneReaderMoves DEF Handle
    <2>3. CASE cur[r] \in seen
      <3>1. UNCHANGED seen BY <1>3, <2>3 DEF Mark
      <3>2. ~Busy(r)' BY <1>3, <2>3 DEF Mark, Finish, Goto, Busy, TypeOK
      <3> QED BY <1>1, <2>2, <3>1, <3>2 DEF Busy
    <2>4. CASE cur[r] \notin seen
      <3>1. seen' = seen \cup {cur[r]} /\ cur' = cur /\ pc'[r] = "load"
        BY <1>3, <2>4 DEF Mark, Goto, TypeOK
      <3>2. \A q \in Readers : Busy(q) /\ cur[q] = cur[r] /\ cur[r] \notin expired => FALSE
        BY <2>1, <2>4 DEF Marks
      <3>3. UNCHANGED expired BY <1>3 DEF Mark, history
      <3> QED BY <2>1, <2>2, <3>1, <3>2, <3>3 DEF Marks, Busy, OnRelay
    <2> QED BY <2>3, <2>4
  <1>4. ASSUME NEW r \in Readers, Load(r) \/ Confirm(r) \/ Cancel(r) \/ Detect(r) \/ Send(r) \/ Link(r) \/ CreateItem(r) \/ Await(r)
        PROVE  Marks'
    <2>1. UNCHANGED seen
      BY <1>4 DEF Load, Confirm, Cancel, Detect, Send, Link, CreateItem, Await, bridge
    <2>2. Busy(r) /\ (cur'[r] \in {cur[r], NoEvent}) /\ (Busy(r)' => cur'[r] = cur[r])
      BY <1>4 DEF Load, Confirm, Cancel, Detect, Send, Refuse, Fail, Dispatch, Continue, Link, CreateItem, Await, Finish, Goto, Busy, TypeOK
    <2> QED BY <1>1, <1>4, <2>1, <2>2, OneReaderMoves DEF Busy, Handle
  <1>5. ASSUME NEW r \in Readers, Undo(r) PROVE Marks'
    <2>1. \A q \in Readers \ {r} : pc'[q] = pc[q] /\ cur'[q] = cur[q]
      BY <1>5, OneReaderMoves DEF Handle
    <2>2. seen' = seen \ {cur[r]} /\ ~Busy(r)' /\ Busy(r) /\ UNCHANGED expired
      BY <1>5 DEF Undo, Unmark, Finish, Goto, Busy, TypeOK, history
    <2>3. OnRelay(cur[r]) BY <1>5 DEF Undo, Holds
    <2>4. \A q \in Readers \ {r} : Busy(q) /\ cur[q] = cur[r] => cur[r] \in expired
      BY <2>2, <2>3 DEF Marks
    <2> QED BY <2>1, <2>2, <2>3, <2>4 DEF Marks, Busy, OnRelay
  <1>6. ASSUME NEW t \in Tasks, Answer(t) PROVE Marks'
    BY <1>1, <1>6 DEF Answer, StoreResult, SettleItem, HandleResult, bridge, Busy
  <1>7. ASSUME NEW e \in Events, Expire(e) PROVE Marks'
    BY <1>7 DEF Expire, Marks, Busy, OnRelay
  <1>8. ASSUME NEW t \in Tasks, DeleteTask(t) PROVE Marks'
    BY <1>1, <1>8 DEF DeleteTask, bridge, Busy
  <1>9. CASE UNCHANGED vars BY <1>1, <1>9 DEF vars, Busy
  <1> QED BY <1>2, <1>3, <1>4, <1>5, <1>6, <1>7, <1>8, <1>9 DEF Next, Handle

\* The first dispatch of an event finds none before it, and an event is unmarked only
\* by the reader whose dispatch of it failed.
LEMMA DispatchedStep == IInv /\ [Next]_vars => Dispatched'
  <1> SUFFICES ASSUME IInv, [Next]_vars, NEW e \in Events,
                      OnRelay(e), e \notin expired', <<e, e>> \in Tasks
               PROVE  Sent(e)'
    BY DEF Dispatched, OnRelay
  <1> DEFINE t == <<e, e>>
  <1> TypeOK /\ Marks /\ \A r \in Readers : Holds(r) BY DEF IInv
  <1>0. e \notin expired /\ copies[t] \in Nat /\ lost[t] \in Nat /\ Sent(e)
    BY OnlyGrows DEF Dispatched, IInv, TypeOK
  <1>1. ASSUME NEW r \in Readers, Dispatch(r), Send(r), cur[r] = e PROVE Sent(e)'
    <2>1. Current(r) = t /\ pc[r] = "send" BY <1>1, RelayedTasks DEF Send, Holds, Current
    <2>2. copies[t] <= lost[t] /\ e \in seen BY <1>0, <1>1, <2>1 DEF Marks, Busy, Sent
    <2>3. copies'[t] = copies[t] + 1 /\ pc'[r] \in {"link", "backlog"} /\ UNCHANGED <<seen, lost>>
      BY <1>1, <2>1, <2>2 DEF Dispatch, Continue, Send, Goto, TypeOK, bridge
    <2>4. ASSUME NEW q \in Readers, q # r, cur'[q] = e PROVE pc'[q] = "mark"
      <3>1. pc'[q] = pc[q] /\ cur[q] = e BY <1>1, <2>4, OneReaderMoves DEF Handle
      <3>2. ~Busy(q) /\ pc[q] # "idle" BY <1>0, <1>1, <2>1, <2>4, <3>1, InOf DEF Marks, Busy, Holds
      <3> QED BY <3>1, <3>2 DEF Busy
    <2> QED BY <1>0, <2>2, <2>3, <2>4 DEF Sent
  <1>2. ASSUME UNCHANGED <<copies[t], lost[t]>>, e \in seen => e \in seen',
               \A r \in Readers : cur'[r] = e =>
                 \/ cur[r] = e /\ pc'[r] \in {pc[r], "mark", "backlog", "item", "await"}
                 \/ pc'[r] = "mark"
        PROVE  Sent(e)'
    BY <1>0, <1>2 DEF Sent
  <1>3. ASSUME NEW r \in Readers, Receive(r) PROVE Sent(e)'
    <2>1. \A q \in Readers : cur'[q] = e => (cur[q] = e /\ pc'[q] = pc[q]) \/ pc'[q] = "mark"
      BY <1>3 DEF Receive, Goto, TypeOK
    <2> QED BY <1>2, <1>3, <2>1 DEF Receive, bridge, history
  <1>4. ASSUME NEW r \in Readers, Handle(r), cur[r] # e PROVE Sent(e)'
    <2>1. \A q \in Readers : cur'[q] = e => cur[q] = e /\ pc'[q] = pc[q]
      <3>1. cur'[r] \in {cur[r], NoEvent}
        BY <1>4 DEF Handle, Mark, Load, Confirm, Cancel, Detect, Send, Refuse, Fail, Dispatch, Continue, Link, Undo,
             CreateItem, Await, Finish, TypeOK
      <3> QED BY <1>4, <3>1, InOf, OneReaderMoves
    <2>2. e \in seen => e \in seen'
      BY <1>4 DEF Handle, Mark, Load, Confirm, Cancel, Detect, Send, Link, Undo, Unmark,
             CreateItem, Await, bridge
    <2>3. UNCHANGED <<copies[t], lost[t]>>
      <3>1. Current(r) # t BY <1>4 DEF Current
      <3> QED BY <1>4, <3>1 DEF Handle, Mark, Load, Confirm, Cancel, Detect, Send, Refuse, Fail, Dispatch, Continue, Link, Undo,
             CreateItem, Await, history, TypeOK
    <2> QED BY <1>2, <2>1, <2>2, <2>3
  <1>5. ASSUME NEW r \in Readers, Handle(r), cur[r] = e, ~(Send(r) /\ Dispatch(r)) PROVE Sent(e)'
    <2>1. copies'[t] = copies[t] /\ lost'[t] \in {lost[t], lost[t] + 1} /\ (~Link(r) => UNCHANGED lost)
      BY <1>5 DEF Handle, Mark, Load, Confirm, Cancel, Detect, Send, Refuse, Link, Undo, CreateItem, Await,
           history, TypeOK
    <2>2. CASE pc[r] \in {"mark", "backlog", "item", "await"}
      <3>1. Mark(r) \/ CreateItem(r) \/ Await(r)
        BY <1>5, <2>2 DEF Handle, Load, Confirm, Cancel, Detect, Send, Link, Undo, Mark, CreateItem, Await
      <3>2. e \in seen => e \in seen' BY <3>1 DEF Mark, CreateItem, Await, bridge
      <3>3. CASE Mark(r) /\ cur[r] \notin seen
        BY <1>0, <1>5, <2>1, <3>3 DEF Sent, Mark, Link
      <3>4. CASE ~(Mark(r) /\ cur[r] \notin seen)
        <4>1. cur'[r] = e => pc'[r] \in {"mark", "backlog", "item", "await"}
          BY <1>5, <2>2, <3>1, <3>4, InOf DEF Mark, CreateItem, Await, Finish, Goto, TypeOK
        <4>2. UNCHANGED lost BY <2>1, <3>1 DEF Link, Mark, CreateItem, Await
        <4> QED BY <1>2, <1>5, <2>1, <3>2, <4>1, <4>2, OneReaderMoves
      <3> QED BY <3>3, <3>4
    <2>3. CASE pc[r] = "link"
      <3>1. Link(r)
        BY <1>5, <2>3 DEF Handle, Load, Confirm, Cancel, Detect, Send, Link, Undo, Mark, CreateItem, Await
      <3>2. Current(r) = t BY <1>5, <2>3, RelayedTasks DEF Holds, Current
      <3>3. CASE task[t] = "none"
        <4>1. lost'[t] = lost[t] + 1 BY <3>1, <3>2, <3>3 DEF Link, TypeOK
        <4> QED BY <1>0, <2>1, <4>1 DEF Sent
      <3>4. CASE task[t] # "none"
        <4>1. UNCHANGED <<lost, seen, cur>> /\ pc'[r] = "item"
          BY <1>5, <3>1, <3>2, <3>4 DEF Link, Continue, Goto, TypeOK, bridge
        <4> QED BY <1>2, <1>5, <2>1, <4>1, OneReaderMoves
      <3> QED BY <3>3, <3>4
    <2>4. CASE pc[r] \notin {"mark", "link", "backlog", "item", "await"}
      <3>1. copies[t] <= lost[t] BY <1>0, <1>5, <2>4 DEF Sent
      <3> QED BY <1>0, <2>1, <3>1 DEF Sent
    <2> QED BY <2>2, <2>3, <2>4
  <1>6. ASSUME NEW u \in Tasks, Answer(u) PROVE Sent(e)'
    BY <1>2, <1>6 DEF Answer, StoreResult, SettleItem, HandleResult, bridge, history
  <1>7. ASSUME NEW f \in Events, Expire(f) PROVE Sent(e)'
    BY <1>2, <1>7 DEF Expire
  <1>8. ASSUME NEW u \in Tasks, DeleteTask(u) PROVE Sent(e)'
    BY <1>2, <1>8 DEF DeleteTask, bridge, history
  <1>9. CASE UNCHANGED vars BY <1>2, <1>9 DEF vars
  <1> QED BY <1>1, <1>3, <1>4, <1>5, <1>6, <1>7, <1>8, <1>9 DEF Next

\* A reader past its mark goes on with its event until it has handled or unmarked it.
LEMMA KeptStep == IInv /\ [Next]_vars => Kept'
  <1> SUFFICES ASSUME IInv, [Next]_vars, NEW e \in seen'
               PROVE  e \in handled' \/ \E r \in Readers : cur'[r] = e /\ pc'[r] # "mark"
    BY DEF Kept
  <1> TypeOK /\ Marks /\ Kept /\ \A r \in Readers : Holds(r) BY DEF IInv
  <1>0. handled \subseteq handled' BY OnlyGrows
  <1>1. ASSUME NEW r \in Readers, Mark(r), e \notin seen
        PROVE  cur'[r] = e /\ pc'[r] # "mark"
    BY <1>1 DEF Mark, Goto, TypeOK
  <1>2. CASE e \in seen
    <2>1. CASE e \in handled BY <1>0, <2>1
    <2>2. CASE e \notin handled
      <3>1. PICK p \in Readers : cur[p] = e /\ pc[p] # "mark" BY <1>2, <2>2 DEF Kept
      <3>2. OnRelay(e) /\ e \in Events /\ pc[p] # "idle" BY <1>2, <3>1, InOf DEF Marks, Holds, TypeOK
      <3>3. CASE UNCHANGED <<pc, cur>> BY <3>1, <3>3
      <3>4. ASSUME NEW r \in Readers, Receive(r) \/ Handle(r), r # p
            PROVE  cur'[p] = e /\ pc'[p] # "mark"
        BY <3>1, <3>4, OneReaderMoves
      <3>5. CASE Receive(p) BY <3>2, <3>5 DEF Receive
      <3>6. CASE Handle(p)
        <4>1. ~Mark(p) /\ ~Cancel(p)
          BY <3>1, <3>2 DEF Mark, Cancel, Holds, Hears
        <4>2. CASE Load(p) BY <3>1, <4>2 DEF Load, Goto, TypeOK
        <4>3. CASE Confirm(p) BY <3>1, <4>3 DEF Confirm, Goto, TypeOK
        <4>4. CASE Detect(p) BY <3>1, <4>4 DEF Detect, Goto, TypeOK
        <4>5. CASE Send(p) BY <3>1, <3>2, <4>5 DEF Send, Refuse, Fail, Dispatch, Continue, Goto, TypeOK
        <4>6. CASE Undo(p) BY <3>1, <4>6 DEF Undo, Unmark
        <4>7. CASE CreateItem(p) BY <3>1, <4>7 DEF CreateItem
        <4>8. CASE Await(p) BY <2>2, <3>1, <4>8 DEF Await, Holds
        <4>9. CASE Link(p) BY <3>1, <3>2, <4>9 DEF Link, Fail, Continue, Goto, TypeOK
        <4> QED BY <3>6, <4>1, <4>2, <4>3, <4>4, <4>5, <4>6, <4>7, <4>8, <4>9 DEF Handle
      <3> QED BY <3>3, <3>4, <3>5, <3>6
        DEF Next, Answer, StoreResult, SettleItem, HandleResult, DeleteTask, Expire, vars
    <2> QED BY <2>1, <2>2
  <1>3. CASE e \notin seen
    BY <1>1, <1>3 DEF Next, Receive, Handle, Load, Confirm, Cancel, Detect, Send, Link, Undo, Unmark,
      CreateItem, Await, Answer, StoreResult, SettleItem, HandleResult, DeleteTask, Expire, vars, bridge
  <1> QED BY <1>2, <1>3

\* Only a reader of the thread touches its intent.
LEMMA UndisturbedStep == IInv /\ [Next]_vars => Undisturbed'
  <1> SUFFICES ASSUME IInv, [Next]_vars, NEW p \in Readers,
                      (pc[p] \in {"confirm", "cancel"} /\ SingleReader(Thread(p)))'
               PROVE  (intent[Thread(p)] = what[p])'
    BY DEF Undisturbed
  <1> TypeOK /\ Undisturbed /\ \A r \in Readers : Holds(r) BY DEF IInv
  <1>1. CASE Load(p) BY <1>1, Held DEF Load, Goto, Thread, TypeOK
  <1>2. ASSUME NEW r \in Readers, Receive(r) \/ Handle(r), r # p PROVE (intent[Thread(p)] = what[p])'
    <2>1. /\ pc[p] \in {"confirm", "cancel"} /\ SingleReader(Thread(p)) /\ Thread(p)' = Thread(p)
          /\ intent[Thread(p)] = what[p] /\ what'[p] = what[p]
      BY <1>2, OneReaderMoves DEF Undisturbed, Thread, SingleReader
    <2>2. pc[r] # "idle" => Thread(r) # Thread(p) BY <1>2, <2>1, Held, OnlyReader DEF Thread
    <2>3. intent'[Thread(p)] = intent[Thread(p)]
      <3>1. CASE Load(r) \/ Confirm(r) \/ Cancel(r) \/ Detect(r)
        <4>1. Thread(p) \in Threads /\ pc[r] # "idle"
          BY <2>1, <3>1, Held DEF Thread, Load, Confirm, Cancel, Detect
        <4> QED BY <2>2, <3>1, <4>1 DEF TypeOK, Load, Confirm, Cancel, Detect, Clear
      <3>2. CASE Receive(r) \/ Mark(r) \/ Send(r) \/ Link(r) \/ Undo(r) \/ CreateItem(r) \/ Await(r)
        BY <3>2 DEF Receive, Mark, Send, Link, Undo, CreateItem, Await, bridge
      <3> QED BY <1>2, <3>1, <3>2 DEF Handle
    <2> QED BY <2>1, <2>3
  <1>3. CASE (Receive(p) \/ Handle(p)) /\ ~Load(p)
    BY <1>3 DEF TypeOK, Receive, Handle, Mark, Confirm, Cancel, Detect, Send, Refuse, Fail, Dispatch, Continue, Link, Undo,
      CreateItem, Await, Finish, Goto
  <1>4. CASE UNCHANGED <<pc, cur, what, intent>>
    BY <1>4 DEF Undisturbed, Thread, SingleReader
  <1> QED BY <1>1, <1>2, <1>3, <1>4
    DEF Next, vars, bridge, Answer, StoreResult, SettleItem, HandleResult, DeleteTask, Expire

\* A reader works on the thread of its request.
LEMMA RequestIsOfThread ==
  ASSUME IInv, NEW r \in Readers, what[r] # NoEvent
  PROVE  pc[r] # "idle" /\ In[what[r]] = Thread(r)
  <1>1. pc[r] # "idle" BY DEF IInv, Holds
  <1>2. CASE pc[r] \in {"confirm", "cancel"} BY <1>2 DEF IInv, Holds, Thread
  <1>3. CASE pc[r] \in {"send", "link", "undo", "backlog", "item", "await"}
    <2>1. Current(r) \in Tasks BY <1>3 DEF IInv, Holds
    <2> QED BY <1>1, <2>1, InOf DEF Current, Thread
  <1> QED BY <1>1, <1>2, <1>3 DEF IInv, TypeOK, Holds

\* A step that neither gives nor takes a request, for each reader and as a whole.
Ignores(e, q) ==
  /\ cur'[q] = e => cur[q] = e /\ pc'[q] \in {"load", "detect"}
  /\ what'[q] = e => deliveries[e] # 0 /\ (pc'[q] = "send" => what[q] = e /\ pc[q] = "send")
LeftAlone(e) ==
  /\ UNCHANGED <<deliveries, copies>>
  /\ e \in ended' => e \in ended
  /\ intent'[In[e]] = e => intent[In[e]] = e
  /\ \A q \in Readers : Ignores(e, q)

LEMMA AloneIsSafe ==
  ASSUME NEW e \in Events, Life(e), LeftAlone(e)
  PROVE  Life(e)'
  <1>1. \A t \in Tasks : Executed(e, t)' <=> Executed(e, t) BY DEF LeftAlone, Executed
  <1>2. Untouched(e) => Untouched(e)' BY <1>1 DEF Untouched, LeftAlone
  <1>3. Unsent(e)' BY <1>2 DEF Life, Unsent, LeftAlone, Ignores
  <1>4. Read(e)' BY <1>2 DEF Life, Read, LeftAlone, Ignores
  <1>5. Waiting(e)' BY <1>2 DEF Life, Waiting, LeftAlone, Ignores
  <1>6. Confirmed(e)' BY <1>2 DEF Life, Confirmed, LeftAlone, Ignores
  <1>7. Once(e)' BY <1>1 DEF Life, Once, LeftAlone
  <1> QED BY <1>3, <1>4, <1>5, <1>6, <1>7 DEF Life

LEMMA LivesStep == IInv /\ [Next]_vars => Lives'
  <1> SUFFICES ASSUME IInv, [Next]_vars, NEW e \in Events, Watched(e)' PROVE Life(e)'
    BY DEF Lives
  <1> TypeOK /\ \A r \in Readers : Holds(r) BY DEF IInv
  <1> USE DEF bounds
  <1>0. /\ e \notin expired /\ ~OnRelay(e) /\ In[e] \in Threads /\ Hears(e) = "task" /\ Says[e] = "task"
        /\ deliveries[e] \in Nat /\ deliveries[e] <= 1 /\ deliveries'[e] \in Nat /\ deliveries'[e] <= 1
        /\ SingleReader(In[e]) /\ Life(e)
    BY OnlyGrows, InOf, RequestsAreHeard, TypeStep DEF Watched, Lives, OnRelay, SingleReader, IInv, TypeOK
  <1>1. \A q, r \in Readers :
          pc[q] # "idle" /\ pc[r] # "idle" /\ Thread(q) = In[e] /\ Thread(r) = In[e] => q = r
    BY <1>0, Held, OnlyReader DEF Thread
  <1>2. ASSUME NEW r \in Readers, Handle(r), \A q \in {r} : Ignores(e, q) PROVE \A q \in Readers : Ignores(e, q)
    <2>1. ASSUME NEW q \in Readers, q # r PROVE Ignores(e, q)
      BY <1>0, <1>2, <2>1, OneReaderMoves DEF Ignores, Life, Read, Unsent
    <2> QED BY <1>2, <2>1
  <1>3. CASE UNCHANGED <<pc, cur, what, deliveries, intent, copies, ended>>
    <2>1. \A q \in Readers : Ignores(e, q) BY <1>0, <1>3 DEF Ignores, Life, Read, Unsent
    <2> QED BY <1>0, <1>3, <2>1, AloneIsSafe DEF LeftAlone
  <1>4. ASSUME NEW r \in Readers, Receive(r) PROVE Life(e)'
    <2>1. UNCHANGED <<what, intent, copies, ended>> BY <1>4 DEF Receive, bridge, history
    <2>2. Untouched(e)' <=> Untouched(e) BY <2>1 DEF Untouched, Executed
    <2>3. pc'[r] # "send" /\ \A q \in Readers : pc'[q] = "send" => pc[q] = "send"
      BY <1>4, OneReaderMoves DEF Receive, Goto, TypeOK
    <2>4. \A q \in Readers : cur'[q] = e =>
            \/ cur[q] = e /\ pc'[q] = pc[q]
            \/ deliveries[e] = 0 /\ deliveries'[e] = 1 /\ pc'[q] = "load"
      <3>1. PICK f \in Events :
              /\ deliveries' = [deliveries EXCEPT ![f] = @ + 1]
              /\ \/ cur' = [cur EXCEPT ![r] = f] /\ pc'[r] = (IF OnRelay(f) THEN "mark" ELSE "load")
                 \/ UNCHANGED <<cur, pc>>
        BY <1>4 DEF Receive, Goto, TypeOK
      <3>2. f = e => deliveries[e] = 0 /\ deliveries'[e] = 1 BY <1>0, <3>1 DEF TypeOK
      <3>3. ASSUME NEW q \in Readers, cur'[q] = e
            PROVE  \/ cur[q] = e /\ pc'[q] = pc[q]
                   \/ deliveries[e] = 0 /\ deliveries'[e] = 1 /\ pc'[q] = "load"
        <4>1. CASE q = r /\ cur' # cur
          <5>1. cur'[r] = f /\ pc'[r] = (IF OnRelay(f) THEN "mark" ELSE "load") BY <3>1, <4>1 DEF TypeOK
          <5> QED BY <1>0, <3>2, <3>3, <4>1, <5>1
        <4>2. CASE q # r
          <5>1. pc'[q] = pc[q] /\ cur'[q] = cur[q] BY <1>4, <4>2, OneReaderMoves
          <5> QED BY <3>3, <5>1
        <4>3. CASE q = r /\ cur' = cur
          <5>1. cur[r] = NoEvent BY <1>4 DEF Receive, Holds
          <5> QED BY <3>3, <4>3, <5>1, InOf
        <4> QED BY <4>1, <4>2, <4>3
      <3> QED BY <3>3
    <2>5. Unsent(e)' BY <1>0, <1>4, <2>1, <2>2, <2>4, OnlyGrows DEF Life, Unsent
    <2>6. Read(e)' BY <1>0, <2>1, <2>2, <2>4 DEF Life, Read, Unsent
    <2>7. Waiting(e)' /\ Confirmed(e)' BY <1>0, <2>1, <2>2, <2>3 DEF Life, Waiting, Confirmed
    <2>8. Once(e)' BY <1>0, <2>1 DEF Life, Once, Executed
    <2> QED BY <2>5, <2>6, <2>7, <2>8 DEF Life
  \* The relay's readers have no request of the chat page.
  <1>5. ASSUME NEW r \in Readers, Mark(r) \/ Undo(r) \/ CreateItem(r) \/ Await(r) PROVE Life(e)'
    <2>1. OnRelay(cur[r]) /\ cur[r] # e /\ what[r] # e
      BY <1>0, <1>5, RequestIsOfThread, InOf DEF Mark, Undo, CreateItem, Await, Holds, OnRelay, Thread
    <2>2. UNCHANGED <<deliveries, copies, intent, ended>>
      BY <1>5 DEF Mark, Undo, CreateItem, Await, bridge, history
    <2>3. cur'[r] \in {cur[r], NoEvent} /\ what'[r] \in {what[r], NoEvent}
      BY <1>5 DEF Mark, Undo, CreateItem, Await, Finish, TypeOK
    <2>4. Ignores(e, r) BY <2>1, <2>3, InOf DEF Ignores
    <2> QED BY <1>0, <1>2, <1>5, <2>2, <2>4, AloneIsSafe DEF Handle, LeftAlone
  <1>6. ASSUME NEW r \in Readers, Load(r) PROVE Life(e)'
    <2>1. /\ UNCHANGED <<cur, deliveries, copies>> /\ pc'[r] # "send"
          /\ e \in ended' => e \in ended
          /\ intent'[In[e]] = e => intent[In[e]] = e
          /\ what'[r] = e => what[r] = e \/ intent[In[e]] = e
      BY <1>0, <1>6, InOf, Held DEF Load, Goto, Thread, TypeOK, IInv, Intents
    <2>2. cur[r] = e => pc'[r] = "detect" BY <1>0, <1>6 DEF Load, Goto, TypeOK
    <2>3. intent[In[e]] = e => deliveries[e] # 0 BY <1>0 DEF Life, Unsent
    <2>4. Ignores(e, r) BY <1>0, <2>1, <2>2, <2>3 DEF Ignores, Life, Unsent
    <2> QED BY <1>0, <1>2, <1>6, <2>1, <2>4, AloneIsSafe DEF Handle, LeftAlone
  <1>7. ASSUME NEW r \in Readers, Confirm(r) PROVE Life(e)'
    <2>1. cur[r] # e /\ Thread(r) = In[what[r]] /\ what[r] \in Events /\ Thread(r) \in Threads
      BY <1>0, <1>7, Held, RequestIsOfThread, InOf DEF Confirm, Holds, Thread
    <2>2. /\ UNCHANGED <<cur, what, deliveries, copies, ended>> /\ pc' = [pc EXCEPT ![r] = "send"]
          /\ intent' = [intent EXCEPT ![Thread(r)] = NoEvent]
      BY <1>7 DEF Confirm, Clear, Goto, history
    <2>3. intent'[In[e]] = e => intent[In[e]] = e BY <1>0, <2>1, <2>2, InOf DEF TypeOK
    <2>4. CASE what[r] # e
      <3>1. Ignores(e, r) BY <2>1, <2>2, <2>4 DEF Ignores, TypeOK
      <3> QED BY <1>0, <1>2, <1>7, <2>2, <2>3, <3>1, AloneIsSafe DEF Handle, LeftAlone
    <2>5. CASE what[r] = e
      <3>1. intent[In[e]] = e BY <1>0, <1>7, <2>1, <2>5 DEF IInv, Undisturbed, Confirm
      <3>2. Untouched(e) /\ deliveries[e] # 0 /\ intent'[In[e]] # e
        BY <1>0, <2>1, <2>2, <2>5, <3>1, InOf DEF Life, Waiting, Unsent, TypeOK
      <3>3. Untouched(e)' BY <2>2, <3>2 DEF Untouched, Executed
      <3>4. \A q \in Readers : cur[q] # e BY <1>0, <3>1 DEF Life, Read
      <3> QED BY <2>2, <3>2, <3>3, <3>4
          DEF Life, Unsent, Read, Waiting, Confirmed, Once, Untouched
    <2> QED BY <2>4, <2>5
  <1>8. ASSUME NEW r \in Readers, Cancel(r) PROVE Life(e)'
    <2>1. cur[r] # e /\ Thread(r) = In[what[r]] /\ what[r] \in Events /\ Thread(r) \in Threads
      BY <1>0, <1>8, Held, RequestIsOfThread, InOf DEF Cancel, Holds, Thread
    <2>2. /\ UNCHANGED <<deliveries, copies>> /\ ended' = ended \cup {what[r]}
          /\ intent' = [intent EXCEPT ![Thread(r)] = NoEvent]
          /\ pc'[r] = "idle" /\ cur'[r] = NoEvent /\ what'[r] = NoEvent
          /\ \A q \in Readers \ {r} : pc'[q] = pc[q] /\ cur'[q] = cur[q] /\ what'[q] = what[q]
      BY <1>8 DEF Cancel, Clear, Goto, Finish, TypeOK
    <2>3. intent'[In[e]] = e => intent[In[e]] = e BY <1>0, <2>1, <2>2, InOf DEF TypeOK
    <2>4. CASE what[r] # e
      <3>1. Ignores(e, r) BY <2>2, InOf DEF Ignores
      <3> QED BY <1>0, <1>2, <1>8, <2>2, <2>3, <2>4, <3>1, AloneIsSafe DEF Handle, LeftAlone
    <2>5. CASE what[r] = e
      <3>1. intent[In[e]] = e BY <1>0, <1>8, <2>1, <2>5 DEF IInv, Undisturbed, Cancel
      <3>2. Untouched(e) /\ deliveries[e] # 0 /\ intent'[In[e]] # e
        BY <1>0, <2>1, <2>2, <2>5, <3>1, InOf DEF Life, Waiting, Unsent, TypeOK
      <3>3. \A t \in Tasks : ~Executed(e, t)' BY <2>2, <3>2 DEF Untouched, Executed
      <3>4. \A q \in Readers : cur'[q] # e BY <1>0, <2>2, <3>1, InOf DEF Life, Read
      <3>5. \A q \in Readers : what'[q] = e => pc'[q] # "send"
        BY <1>0, <2>2, <3>1, InOf DEF Life, Waiting
      <3> QED BY <2>2, <3>2, <3>3, <3>4, <3>5 DEF Life, Unsent, Read, Waiting, Confirmed, Once
    <2> QED BY <2>4, <2>5
  <1>9. ASSUME NEW r \in Readers, Detect(r) PROVE Life(e)'
    <2>1. /\ pc[r] = "detect" /\ cur[r] \in Events /\ Thread(r) \in Threads /\ what[r] = NoEvent
          /\ UNCHANGED <<deliveries, copies>>
          /\ \A q \in Readers \ {r} : pc'[q] = pc[q] /\ cur'[q] = cur[q] /\ what'[q] = what[q]
      BY <1>9, Held, OneReaderMoves DEF Detect, Handle, Holds, Thread
    <2>2. CASE Hears(cur[r]) # "task"
      <3>1. cur' = cur /\ what'[r] = cur[r] /\ UNCHANGED <<intent, ended>>
        BY <1>9, <2>2 DEF Detect, TypeOK
      <3>2. Ignores(e, r) BY <1>0, <2>2, <3>1 DEF Ignores
      <3> QED BY <1>0, <1>2, <1>9, <2>1, <3>1, <3>2, AloneIsSafe DEF Handle, LeftAlone
    <2>3. CASE Hears(cur[r]) = "task" /\ Thread(r) # In[e]
      <3>1. intent'[In[e]] = intent[In[e]] BY <1>0, <1>9, <2>1, <2>3 DEF Detect, TypeOK
      <3>2. intent[Thread(r)] # e BY <2>1, <2>3, InOf DEF IInv, Intents
      <3>3. cur'[r] = NoEvent /\ what'[r] = NoEvent /\ (e \in ended' => e \in ended)
        BY <1>9, <2>3, <3>2 DEF Detect, Finish, TypeOK
      <3>4. Ignores(e, r) BY <3>3, InOf DEF Ignores
      <3> QED BY <1>0, <1>2, <1>9, <2>1, <3>1, <3>3, <3>4, AloneIsSafe DEF Handle, LeftAlone
    <2>4. CASE Hears(cur[r]) = "task" /\ Thread(r) = In[e]
      <3>1. /\ intent'[In[e]] = cur[r] /\ ended' = ended \cup ({intent[In[e]]} \ {NoEvent, cur[r]})
            /\ pc'[r] = "idle" /\ cur'[r] = NoEvent /\ what'[r] = NoEvent
        BY <1>9, <2>1, <2>4 DEF Detect, Finish, Goto, TypeOK
      <3>2. \A q \in Readers : what[q] # e
        BY <1>1, <2>1, <2>4, InOf, RequestIsOfThread
      <3>3. \A q \in Readers : what'[q] # e BY <2>1, <3>1, <3>2, InOf
      <3>4. \A q \in Readers : cur[q] = e => q = r
        BY <1>0, <1>1, <2>1, <2>4, InOf DEF Holds, Thread
      <3>5. \A q \in Readers : cur'[q] # e BY <2>1, <3>1, <3>4, InOf
      <3>6. \A t \in Tasks : Executed(e, t)' <=> Executed(e, t) BY <2>1 DEF Executed
      <3>7. CASE cur[r] = e
        <4>1. Untouched(e) /\ intent[In[e]] # e /\ deliveries[e] # 0
          BY <1>0, <2>1, <3>7 DEF Life, Read, Unsent
        <4>2. Untouched(e)' BY <3>1, <3>6, <4>1 DEF Untouched
        <4> QED BY <2>1, <3>3, <3>5, <4>1, <4>2 DEF Life, Unsent, Read, Waiting, Confirmed, Once, Untouched
      <3>8. CASE cur[r] # e
        <4>1. intent'[In[e]] # e BY <3>1, <3>8
        <4>2. Unsent(e)' BY <1>0, <2>1, <3>1, <3>3, <3>5, <3>6, <4>1 DEF Life, Unsent, Untouched
        <4>3. Once(e)'
          <5>1. (\E t \in Tasks : Executed(e, t)) => intent[In[e]] # e BY <1>0 DEF Life, Waiting, Untouched
          <5> QED BY <1>0, <2>1, <3>1, <3>6, <5>1 DEF Life, Once
        <4> QED BY <3>3, <3>5, <4>1, <4>2, <4>3 DEF Life, Read, Waiting, Confirmed
      <3> QED BY <3>7, <3>8
    <2> QED BY <2>2, <2>3, <2>4
  <1>10. ASSUME NEW r \in Readers, Send(r) PROVE Life(e)'
    <2>1. /\ pc[r] = "send" /\ UNCHANGED <<deliveries, intent, ended>> /\ Current(r) \in Tasks
          /\ cur[r] # e
      BY <1>0, <1>10 DEF Send, bridge, Holds, Life, Read
    <2>2. /\ pc'[r] # "send" /\ cur'[r] \in {cur[r], NoEvent} /\ what'[r] \in {what[r], NoEvent}
          /\ \A q \in Readers \ {r} : pc'[q] = pc[q] /\ cur'[q] = cur[q] /\ what'[q] = what[q]
      BY <1>10, OneReaderMoves DEF Send, Refuse, Fail, Dispatch, Continue, Finish, Goto, TypeOK, Handle
    <2>3. what'[r] = e => what[r] = e BY <2>2, InOf
    <2>4. CASE Refuse(r) \/ what[r] # e
      <3>1. \A t \in Tasks : t[2] = e => copies'[t] = copies[t]
        BY <1>10, <2>1, <2>4 DEF Send, Refuse, Dispatch, TypeOK, Current
      <3>2. Untouched(e)' <=> Untouched(e) BY <2>1, <3>1 DEF Untouched, Executed
      <3>3. Once(e)' BY <1>0, <2>1, <3>1 DEF Life, Once, Executed
      <3> QED BY <1>0, <2>1, <2>2, <2>3, <3>2, <3>3, InOf DEF Life, Unsent, Read, Waiting, Confirmed
    <2>5. CASE Dispatch(r) /\ what[r] = e
      <3>1. Untouched(e) /\ intent[In[e]] # e /\ deliveries[e] # 0 /\ Thread(r) = In[e]
        BY <1>0, <2>1, <2>5, InOf, RequestIsOfThread DEF Life, Waiting, Confirmed, Unsent
      <3>2. Current(r)[2] = e BY <2>5 DEF Current
      <3>3. copies[Current(r)] = 0 BY <2>1, <3>1, <3>2 DEF Untouched, Executed, TypeOK
      <3>4. copies' = [copies EXCEPT ![Current(r)] = 1] BY <2>1, <2>5, <3>3 DEF Dispatch, TypeOK
      <3>5. Once(e)' BY <2>1, <3>1, <3>4 DEF Once, Untouched, Executed, TypeOK
      <3>6. \A q \in Readers : cur'[q] # e
        BY <1>0, <1>1, <2>1, <2>2, <3>1, InOf DEF Holds, Thread
      <3>7. \A q \in Readers : what'[q] = e => pc'[q] # "send"
        BY <1>1, <2>1, <2>2, <3>1, InOf, RequestIsOfThread
      <3> QED BY <2>1, <3>1, <3>5, <3>6, <3>7 DEF Life, Unsent, Read, Waiting, Confirmed
    <2> QED BY <1>10, <2>4, <2>5 DEF Send
  <1>11. ASSUME NEW t \in Tasks, Answer(t) PROVE Life(e)'
    BY <1>3, <1>11 DEF Answer, StoreResult, SettleItem, HandleResult, bridge, history
  <1>12. ASSUME NEW f \in Events, Expire(f) PROVE Life(e)'
    BY <1>3, <1>12 DEF Expire
  <1>13. ASSUME NEW r \in Readers, Link(r) PROVE Life(e)'
    <2>1. /\ UNCHANGED <<deliveries, copies, intent, ended>> /\ pc'[r] \notin {"send", "load", "detect"}
          /\ cur'[r] \in {cur[r], NoEvent} /\ what'[r] \in {what[r], NoEvent}
      BY <1>13 DEF Link, Fail, Continue, Finish, Goto, TypeOK, bridge
    <2>2. cur[r] # e BY <1>0, <1>13 DEF Link, Life, Read
    <2>3. what[r] = e => deliveries[e] # 0 BY <1>0 DEF Life, Unsent
    <2>4. Ignores(e, r) BY <2>1, <2>2, <2>3, InOf DEF Ignores
    <2> QED BY <1>0, <1>2, <1>13, <2>1, <2>4, AloneIsSafe DEF Handle, LeftAlone
  <1>14. ASSUME NEW t \in Tasks, DeleteTask(t) PROVE Life(e)'
    BY <1>3, <1>14 DEF DeleteTask, bridge, history
  <1>15. CASE UNCHANGED vars BY <1>3, <1>15 DEF vars
  <1> QED BY <1>4, <1>5, <1>6, <1>7, <1>8, <1>9, <1>10, <1>11, <1>12, <1>13, <1>14, <1>15 DEF Next, Handle

\* Every reachable state satisfies the invariant.
THEOREM Invariance == Spec => []IInv
  <1>1. IInv /\ [Next]_vars => IInv'
    BY TypeStep, HoldsStep, IntentsStep, MarksStep, DispatchedStep, KeptStep, UndisturbedStep, LivesStep
    DEF IInv
  <1> QED BY InitInv, <1>1, PTL DEF Spec

\* The bridge's state keeps its shape: no handler leaves a status, a step or a count
\* that the code has no name for.
THEOREM TypesHold == Spec => []TypeOK
  BY Invariance, PTL DEF IInv

\* checkAndMarkSeen lets one reader proceed: until its mark expires an event of the relay
\* is dispatched once, and again only for a task that was deleted while dispatchNow was
\* between its message and its record (the bridge then takes the mark back).
THEOREM EventsMakeOneTask == Spec => []OneTaskPerEvent
  <1>1. IInv => OneTaskPerEvent
    BY RelayedTasks, InOf DEF IInv, Dispatched, Sent, OneTaskPerEvent
  <1> QED BY <1>1, Invariance, PTL

\* An event that counts as seen is being handled or was handled (dispatch undoes the mark of
\* an event whose task it could not create).
THEOREM EventsAreNotSwallowed == Spec => []NothingSwallowed
  <1>1. IInv => NothingSwallowed BY DEF IInv, Kept, NothingSwallowed
  <1> QED BY <1>1, Invariance, PTL

\* In a thread that one goroutine reads, a request that does not outlive its TTL waits, or
\* ended, or was dispatched, once.  Where two read the thread, two confirmations may both have
\* read the request before either deletes it, and nothing is claimed.
THEOREM RequestsEndOnce == Spec => []RequestEndsOnce
  <1>1. ASSUME IInv PROVE RequestEndsOnce
    <2> SUFFICES ASSUME NEW e \in Events \ expired,
                        Says[e] = "task", SingleReader(In[e]), OnRelay(e) \/ deliveries[e] <= 1
                 PROVE  LET executed == {t \in Tasks : t[2] = e /\ copies[t] > 0} IN
                        /\ Cardinality(executed) <= 1 /\ \A t \in executed : copies[t] = 1
                        /\ executed # {} => e \notin ended /\ intent[In[e]] # e
      BY DEF RequestEndsOnce
    <2> DEFINE executed == {t \in Tasks : t[2] = e /\ copies[t] > 0}
    <2>1. /\ \A t, u \in executed : t = u
          /\ \A t \in executed : copies[t] = 1 /\ e \notin ended /\ intent[In[e]] # e
      <3>1. CASE OnRelay(e)
        BY <3>1, InOf, RelayedTasks, RequestsAreHeard DEF OnRelay
      <3>2. CASE ~OnRelay(e)
        BY <1>1, <3>2 DEF IInv, Lives, Watched, Life, Once, Waiting, Untouched, Executed
      <3> QED BY <3>1, <3>2
    <2>2. Cardinality(executed) <= 1
      <3>1. CASE executed = {} BY <3>1, FS_EmptySet
      <3>2. CASE executed # {}
        <4>1. PICK t \in executed : executed = {t} BY <2>1, <3>2
        <4> QED BY <4>1, FS_Singleton
      <3> QED BY <3>1, <3>2
    <2> QED BY <2>1, <2>2
  <1> QED BY <1>1, Invariance, PTL
=============================================================================
