---------------------------- MODULE RelayClient ----------------------------
(***************************************************************************)
(* The client of a Buzz relay: one connection at a time, replaced by the   *)
(* reconnect loop when it is lost; subscriptions whose channel outlives    *)
(* the connections; closing.                                               *)
(*                                                                         *)
(* Every attachment of a subscription to a connection starts a pump, which *)
(* forwards events from the library's channel to the caller's.  A pump     *)
(* belongs to a generation of its subscription and stops when it sees that *)
(* it is not the latest.  rc.mu and rc.subMu are held for one step each.   *)
(*                                                                         *)
(* External: the library closes a connection's channels when it is lost or *)
(* the subscriber's context ends, and refuses to subscribe only then.      *)
(* Abstracted: filters, signatures, publishing, the presence callback.     *)
(* rc.closed and the closing of rc.closedCh right after it are one step.   *)
(***************************************************************************)
EXTENDS Integers, FiniteSets

CONSTANTS
  Subs,      \* calls of Subscribe
  MaxConns,  \* bound: connections dialed
  Buffer,    \* room in a caller's channel
  None

Conns == 1..MaxConns
Gens == 1..MaxConns   \* one attachment by Subscribe, one by each reconnection
Loop == "reconnect"

ASSUME BoundsAreNumbers == MaxConns \in Nat \ {0} /\ Buffer \in Nat \ {0}
ASSUME NamesAreDistinct == None \notin Subs \cup Conns /\ Loop \notin Subs

Attachers == Subs \cup {Loop}

VARIABLES
  up,        \* the connections that are not lost
  dialed,    \* how many were dialed
  conn,      \* rc.conn
  closed,    \* rc.closed
  connector, \* the call of Connect
  loop,      \* watchLoop and reconnect: what comes next
  fresh,     \* the connection that reconnect dialed
  todo,      \* resubscribeAll: entries listed and not yet attached
  subs,      \* rc.subs
  call,      \* per subscription: how far Subscribe is
  att,       \* per goroutine: the attachSub it is in
  gen,       \* per subscription: its latest generation
  pump,      \* per subscription and generation: the pump
  queue,     \* per subscription: events in the caller's channel
  closes,    \* per subscription: how often that channel was closed
  gone,      \* subscriptions whose context has ended
  remover,   \* per subscription: the goroutine that waits for that
  closer,    \* the call of Close
  closing    \* the connection Close read

connVars == <<up, dialed, conn, closed, connector>>
loopVars == <<loop, fresh, todo>>
subVars == <<subs, call, gen, gone, remover>>
pumpVars == <<pump, queue>>
closeVars == <<closer, closing>>
vars == <<connVars, loopVars, subVars, att, pumpVars, closes, closeVars>>

Attach == [sub : Subs \cup {None}, on : Conns \cup {None},
           stage : {"none", "register", "check", "open", "add", "undo"}]
NoAttach == [sub |-> None, on |-> None, stage |-> "none"]
Pump == [on : Conns \cup {None}, stage : {"none", "wait", "event", "send", "over"}]

TypeOK ==
  /\ up \subseteq Conns /\ dialed \in 0..MaxConns
  /\ conn \in Conns \cup {None}
  /\ closed \in BOOLEAN
  /\ connector \in {"idle", "dialed", "done"}
  /\ loop \in {"off", "watch", "retry", "dial", "swap", "list", "resubscribe", "over"}
  /\ fresh \in Conns \cup {None}
  /\ todo \subseteq Subs /\ subs \subseteq Subs
  /\ call \in [Subs -> {"none", "attach", "returned", "failed"}]
  /\ att \in [Attachers -> Attach]
  /\ gen \in [Subs -> 0..MaxConns]
  /\ pump \in [Subs -> [Gens -> Pump]]
  /\ queue \in [Subs -> 0..Buffer]
  /\ closes \in [Subs -> 0..2]
  /\ gone \subseteq Subs
  /\ remover \in [Subs -> {"none", "asleep", "waiting", "over"}]
  /\ closer \in {"idle", "drop", "wait", "over"}
  /\ closing \in Conns \cup {None}

-----------------------------------------------------------------------------
(* Connections *)

Dial == dialed < MaxConns /\ dialed' = dialed + 1 /\ up' = up \cup {dialed + 1}

ConnectDials ==
  /\ connector = "idle"
  /\ Dial
  /\ connector' = "dialed"
  /\ UNCHANGED <<conn, closed, loopVars, subVars, att, pumpVars, closes, closeVars>>

\* Connect stores the connection, whether or not Close was called meanwhile.
ConnectStores ==
  /\ connector = "dialed"
  /\ connector' = "done"
  /\ conn' = dialed
  /\ loop' = "watch"
  /\ UNCHANGED <<up, dialed, closed, fresh, todo, subVars, att, pumpVars, closes, closeVars>>

LoseConn(c) ==
  /\ c \in up
  /\ up' = up \ {c}
  /\ UNCHANGED <<dialed, conn, closed, connector, loopVars, subVars, att, pumpVars,
                 closes, closeVars>>

LoopKeeps == UNCHANGED <<subVars, pumpVars, closes, closeVars, closed, connector>>

\* watchLoop leaves its select when the connection is lost or the client closed.
Watch ==
  /\ loop = "watch"
  /\ closed \/ conn \notin up
  /\ loop' = IF closed THEN "over" ELSE "retry"
  /\ UNCHANGED <<up, dialed, conn, fresh, todo, att>> /\ LoopKeeps

\* reconnect looks at closed, sleeps, and looks again; a failed attempt comes back.
Retry ==
  /\ loop = "retry"
  /\ loop' = IF closed THEN "over" ELSE "dial"
  /\ UNCHANGED <<up, dialed, conn, fresh, todo, att>> /\ LoopKeeps

Redial ==
  /\ loop = "dial"
  /\ \/ Dial /\ fresh' = dialed + 1 /\ loop' = "swap"
     \/ UNCHANGED <<dialed, up, fresh>> /\ loop' = "retry"
  /\ UNCHANGED <<conn, todo, att>> /\ LoopKeeps

SwapAlways ==
  /\ loop = "swap"
  /\ conn' = fresh /\ loop' = "list" /\ UNCHANGED up
  /\ UNCHANGED <<dialed, fresh, todo, att>> /\ LoopKeeps

\* The new connection is stored, or closed at once if the client is.
Swap ==
  /\ loop = "swap"
  /\ IF closed THEN loop' = "over" /\ up' = up \ {fresh} /\ UNCHANGED conn
               ELSE loop' = "list" /\ conn' = fresh /\ UNCHANGED up
  /\ UNCHANGED <<dialed, fresh, todo, att>> /\ LoopKeeps

ListNone == {}

\* resubscribeAll copies the registered entries.
Listing == subs

ListSubs ==
  /\ loop = "list"
  /\ loop' = "resubscribe"
  /\ todo' = Listing
  /\ UNCHANGED <<up, dialed, conn, fresh, att>> /\ LoopKeeps

\* It attaches one after the other, but for those whose context has ended.
Resubscribe(s) ==
  /\ loop = "resubscribe" /\ att[Loop] = NoAttach
  /\ s \in todo
  /\ todo' = todo \ {s}
  /\ att' = IF s \in gone THEN att
            ELSE [att EXCEPT ![Loop] = [sub |-> s, on |-> fresh, stage |-> "check"]]
  /\ UNCHANGED <<up, dialed, conn, loop, fresh>> /\ LoopKeeps

Resubscribed ==
  /\ loop = "resubscribe" /\ att[Loop] = NoAttach /\ todo = {}
  /\ loop' = "watch"
  /\ UNCHANGED <<up, dialed, conn, fresh, todo, att>> /\ LoopKeeps

-----------------------------------------------------------------------------
(* Subscribe and attachSub *)

\* Subscribe reads the connection, and then registers its entry.
Subscribe(s) ==
  /\ connector = "done"   \* the monitor subscribes after it has connected
  /\ call[s] = "none"
  /\ IF closed THEN call' = [call EXCEPT ![s] = "failed"] /\ UNCHANGED att
     ELSE /\ call' = [call EXCEPT ![s] = "attach"]
          /\ att' = [att EXCEPT ![s] = [sub |-> s, on |-> conn, stage |-> "register"]]
  /\ UNCHANGED <<connVars, loopVars, subs, gen, gone, remover, pumpVars, closes, closeVars>>

To(p, stage) == att' = [att EXCEPT ![p].stage = stage]

Register(s) ==
  /\ att[s].stage = "register"
  /\ subs' = subs \cup {s}
  /\ To(s, "check")
  /\ UNCHANGED <<connVars, loopVars, call, gen, gone, remover, pumpVars, closes, closeVars>>

\* The loop logs the error of an attachment; Subscribe takes its entry out again.
AttachFails(p) == IF p = Loop THEN att' = [att EXCEPT ![p] = NoAttach] ELSE To(p, "undo")

AttachKeeps == UNCHANGED <<connVars, loopVars, gone, closes, closeVars, queue>>

Check(p) ==
  /\ att[p].stage = "check"
  /\ IF att[p].sub \in subs THEN To(p, "open") ELSE AttachFails(p)
  /\ UNCHANGED <<subs, call, gen, remover, pump>> /\ AttachKeeps

\* The library opens the subscription, if the connection is there.
Open(p) ==
  /\ att[p].stage = "open"
  /\ \/ att[p].on \in up /\ To(p, "add")
     \/ (att[p].on \notin up \/ att[p].sub \in gone) /\ AttachFails(p)
  /\ UNCHANGED <<subs, call, gen, remover, pump>> /\ AttachKeeps

\* The second look, under rc.mu and rc.subMu: may a pump still be started?
Admitted(s) == ~closed /\ s \in subs

Add(p) ==
  LET s == att[p].sub
  IN  /\ att[p].stage = "add"
      /\ IF Admitted(s)
         THEN /\ gen' = [gen EXCEPT ![s] = @ + 1]
              /\ pump' = [pump EXCEPT ![s][gen[s] + 1] = [on |-> att[p].on, stage |-> "wait"]]
              /\ att' = [att EXCEPT ![p] = NoAttach]
              /\ IF p = Loop THEN UNCHANGED <<call, remover>>
                 ELSE /\ call' = [call EXCEPT ![s] = "returned"]
                      /\ remover' = [remover EXCEPT ![s] = "asleep"]
         ELSE AttachFails(p) /\ UNCHANGED <<gen, pump, call, remover>>
      /\ UNCHANGED subs /\ AttachKeeps

\* Subscribe returns the error.
Undo(s) ==
  /\ att[s].stage = "undo"
  /\ subs' = subs \ {s}
  /\ call' = [call EXCEPT ![s] = "failed"]
  /\ att' = [att EXCEPT ![s] = NoAttach]
  /\ UNCHANGED <<gen, remover, pump>> /\ AttachKeeps

-----------------------------------------------------------------------------
(* Pumps and readers *)

PumpKeeps == UNCHANGED <<connVars, loopVars, subVars, att, closes, closeVars>>
PumpTo(s, g, stage) == pump' = [pump EXCEPT ![s][g].stage = stage]
Fed(s, g) == pump[s][g].on \in up /\ s \notin gone

Receive(s, g) ==
  /\ pump[s][g].stage = "wait" /\ Fed(s, g)
  /\ PumpTo(s, g, "event")
  /\ UNCHANGED queue /\ PumpKeeps

PumpEndsAtWait(s, g) ==
  /\ pump[s][g].stage = "wait" /\ (closed \/ ~Fed(s, g))
  /\ PumpTo(s, g, "over")
  /\ UNCHANGED queue /\ PumpKeeps

\* The library's channel is closed, or the client.
PumpEnds(s, g) ==
  /\ \/ pump[s][g].stage = "wait" /\ (closed \/ ~Fed(s, g))
     \/ pump[s][g].stage = "send" /\ closed
  /\ PumpTo(s, g, "over")
  /\ UNCHANGED queue /\ PumpKeeps

\* A pump that is not of the latest generation drops its event and ends.
Judge(s, g) ==
  /\ pump[s][g].stage = "event"
  /\ PumpTo(s, g, IF gen[s] = g THEN "send" ELSE "over")
  /\ UNCHANGED queue /\ PumpKeeps

HasRoom(s) == queue[s] < Buffer

Forward(s, g) ==
  /\ pump[s][g].stage = "send" /\ HasRoom(s)
  /\ queue' = [queue EXCEPT ![s] = @ + 1]
  /\ PumpTo(s, g, "wait")
  /\ PumpKeeps

\* The caller reads until its context has ended, like the monitor's consumers.
ReadEvent(s) ==
  /\ call[s] = "returned" /\ s \notin gone
  /\ queue[s] > 0
  /\ queue' = [queue EXCEPT ![s] = @ - 1]
  /\ UNCHANGED pump /\ PumpKeeps

-----------------------------------------------------------------------------
(* The end of a subscription, and of the client *)

Cancel(s) ==
  /\ call[s] # "none" /\ s \notin gone
  /\ gone' = gone \cup {s}
  /\ UNCHANGED <<connVars, loopVars, subs, call, gen, remover, att, pumpVars, closes, closeVars>>

PumpsOf(s) == {g \in Gens : pump[s][g].stage \in {"wait", "event", "send"}}

\* Who takes the entry out closes the channel; Close may have been first.
Remove(s) ==
  /\ remover[s] = "asleep" /\ s \in gone
  /\ remover' = [remover EXCEPT ![s] = IF s \in subs THEN "waiting" ELSE "over"]
  /\ subs' = subs \ {s}
  /\ UNCHANGED <<connVars, loopVars, call, gen, gone, att, pumpVars, closes, closeVars>>

\* entry.wg counts every generation.
PumpsAreOver(s) == PumpsOf(s) = {}

RemoverCloses(s) ==
  /\ remover[s] = "waiting" /\ PumpsAreOver(s)
  /\ remover' = [remover EXCEPT ![s] = "over"]
  /\ closes' = [closes EXCEPT ![s] = @ + 1]
  /\ UNCHANGED <<connVars, loopVars, subs, call, gen, gone, att, pumpVars, closeVars>>

CloseBegins ==
  /\ closer = "idle"
  /\ closed' = TRUE
  /\ closing' = conn
  /\ closer' = "drop"
  /\ UNCHANGED <<up, dialed, conn, connector, loopVars, subVars, att, pumpVars, closes>>

CloseDrops ==
  /\ closer = "drop"
  /\ up' = up \ {closing}
  /\ closer' = "wait"
  /\ UNCHANGED <<dialed, conn, closed, connector, loopVars, subVars, att, pumpVars, closes,
                 closing>>

\* rc.pumpWG counts the pumps of every subscription.
AllPumpsAreOver == \A s \in Subs : PumpsOf(s) = {}

SweptNone == {}

\* Close closes the channels that are still registered.
Swept == subs

CloseSweeps ==
  /\ closer = "wait" /\ AllPumpsAreOver
  /\ closer' = "over"
  /\ closes' = [s \in Subs |-> IF s \in Swept THEN closes[s] + 1 ELSE closes[s]]
  /\ subs' = {}
  /\ UNCHANGED <<connVars, loopVars, call, gen, gone, remover, att, pumpVars, closing>>

-----------------------------------------------------------------------------
Init ==
  /\ up = {} /\ dialed = 0 /\ conn = None /\ closed = FALSE /\ connector = "idle"
  /\ loop = "off" /\ fresh = None /\ todo = {}
  /\ subs = {} /\ gone = {}
  /\ call = [s \in Subs |-> "none"]
  /\ gen = [s \in Subs |-> 0]
  /\ remover = [s \in Subs |-> "none"]
  /\ att = [p \in Attachers |-> NoAttach]
  /\ pump = [s \in Subs |-> [g \in Gens |-> [on |-> None, stage |-> "none"]]]
  /\ queue = [s \in Subs |-> 0]
  /\ closes = [s \in Subs |-> 0]
  /\ closer = "idle" /\ closing = None

AttachStep(p) == Check(p) \/ Open(p) \/ Add(p)
LoopStep == \/ Watch \/ Retry \/ Redial \/ Swap \/ ListSubs \/ Resubscribed
            \/ \E s \in Subs : Resubscribe(s)
            \/ AttachStep(Loop)
SubscribeStep(s) == Register(s) \/ AttachStep(s) \/ Undo(s)
PumpStep(s, g) == PumpEnds(s, g) \/ Judge(s, g) \/ Forward(s, g)
RemoverStep(s) == Remove(s) \/ RemoverCloses(s)
CloseStep == CloseDrops \/ CloseSweeps

Next ==
  \/ ConnectDials \/ ConnectStores
  \/ \E c \in Conns : LoseConn(c)
  \/ LoopStep
  \/ \E s \in Subs : \/ Subscribe(s) \/ SubscribeStep(s)
                     \/ ReadEvent(s) \/ Cancel(s) \/ RemoverStep(s)
  \/ \E s \in Subs, g \in Gens : Receive(s, g) \/ PumpStep(s, g)
  \/ CloseBegins \/ CloseStep

Spec == Init /\ [][Next]_vars

\* Every goroutine of the client goes on when it can.  Nothing makes the relay
\* send events, accept connections or keep them, or the caller read or close.
FairSpec ==
  /\ Spec
  /\ WF_vars(LoopStep) /\ WF_vars(CloseStep)
  /\ \A s \in Subs : WF_vars(SubscribeStep(s)) /\ WF_vars(RemoverStep(s))
  /\ \A s \in Subs, g \in Gens : WF_vars(PumpStep(s, g))

-----------------------------------------------------------------------------
(* Properties *)

\* A channel is closed once, and after its last pump has ended: sending on a closed
\* channel or closing it again would panic (attachSub, removeAndClose, Close).
ClosedLast == \A s \in Subs : closes[s] <= 1 /\ (closes[s] = 1 => PumpsOf(s) = {})

Settled == loop = "watch" /\ ~closed /\ conn \in up

Live(s) == call[s] = "returned" /\ s \in subs /\ s \notin gone

\* Through every reconnection, whatever the order in which Subscribe and
\* resubscribeAll saw the connection and the entries, a subscription that was
\* returned has been attached to the connection the loop now watches.
AttachedToCurrent ==
  Settled => \A s \in Subs : Live(s) => \E g \in Gens : pump[s][g].on = conn

\* reconnect.go: "no pending correlation is lost across a reconnect": the pump that
\* forwards, the latest one, is that of the current connection.
ForwardsFromCurrent ==
  Settled => \A s \in Subs : Live(s) => pump[s][gen[s]].on = conn

\* When Close has returned and the loop has ended, no connection is left: either
\* Close found it, or reconnect found the client closed.  Only a Close that came
\* before Connect had stored its connection leaves that one.
NoConnectionLeft ==
  closer = "over" /\ loop = "over" => up \subseteq IF closing = None THEN {1} ELSE {}

\* Close comes back, whatever pumps, attachments and removals it meets.
CloseReturns == closer # "idle" ~> closer = "over"

\* Once the client is closed, each channel that was given out is closed.
EveryChannelCloses ==
  \A s \in Subs : closed /\ call[s] = "returned" ~> closes[s] = 1

\* Closing comes to its end, for the client and for each of its channels (Close,
\* removeAndClose).
ClosingEnds == CloseReturns /\ EveryChannelCloses
=============================================================================
