---------------------------- MODULE BuzzMonitor ----------------------------
(***************************************************************************)
(* One Buzz monitor: its start under the singleton lock, the channels it   *)
(* subscribes to as it is made a member, and the presence that it shows    *)
(* while the relay connection is up.                                       *)
(*                                                                         *)
(* Every bot of the process starts every monitor; the lock lets one start  *)
(* through.  Two loops subscribe to channels, one for the member lists of  *)
(* discovery and one for the membership events; a third, the relay         *)
(* client's watch loop, reconnects and tells the monitor.                  *)
(*                                                                         *)
(* Abstracted: the messages of the channels (module BuzzBridge) and how a  *)
(* subscription is carried to a new connection (module RelayClient).       *)
(* Direct messages have a third subscription, which changes nothing here.  *)
(* Stop is left out: nothing in the program calls it.                      *)
(*                                                                         *)
(* Start, Init, Next and their like bear the monitor's name, and the lock  *)
(* and run of the source are identity and stage, so that one module can    *)
(* extend this one and those of other services.                            *)
(***************************************************************************)
EXTENDS Naturals, Sequences, FiniteSets

CONSTANTS
  Channels,
  MaxStarts,     \* bound on the calls of Start
  MaxEvents,     \* bound on the events of the two loops
  MaxDrops       \* bound on lost connections

ASSUME MonitorAssumption == {MaxStarts, MaxEvents, MaxDrops} \subseteq Nat

VARIABLES
  identity,  \* "free", "own" or "other": who holds the lock file of the identity
  stage,     \* the step of the goroutine that Start begins
  conn,      \* the relay client's connection, as it is
  authed,    \* whether that connection is authenticated and announced
  watch,     \* the step of the watch loop
  presenceCancel, loops, \* the presence loop that may be cancelled; those that run
  channels,  \* per channel: its entry, the subscription it can cancel
  subs,      \* the subscriptions of channels, by the order they were begun in
  worker,    \* per loop: its step, and the subscription it is working on
  starts, events, drops,
  failed     \* history: a subscription has failed

linkVars == <<conn, authed, watch, presenceCancel, loops, drops>>
channelVars == <<channels, subs, worker, events, failed>>
monitorVars == <<identity, stage, linkVars, channelVars, starts>>

Workers == {"discovery", "membership"}
Sub == [channel : Channels, state : {"opening", "live", "failed"}, cancelled : BOOLEAN,
        link : 0 .. MaxDrops]

LinkTypeOK ==
  /\ identity \in {"free", "own", "other"}
  /\ stage \in {"off", "connect", "authenticate", "announce", "discovery", "membership", "ready",
                "failed"}
  /\ conn \in {"none", "up", "lost"}
  /\ authed \in BOOLEAN
  /\ watch \in {"off", "watching", "lost", "redial", "announce", "swap"}
  /\ presenceCancel \in Nat
  /\ loops \subseteq Nat
  /\ starts \in 0 .. MaxStarts /\ drops \in 0 .. MaxDrops

ChannelTypeOK ==
  /\ channels \in [Channels -> 0 .. MaxEvents]
  /\ subs \in Seq(Sub)
  /\ worker \in [Workers -> [pc : {"off", "wait", "opening", "undo", "cancel"},
                            sub : 0 .. MaxEvents]]
  /\ events \in 0 .. MaxEvents
  /\ failed \in BOOLEAN

MonitorTypeOK == LinkTypeOK /\ ChannelTypeOK

-----------------------------------------------------------------------------
(* Start and run *)

\* A lock that is held, be it by this process, is no error: the monitor does not attach.
StartMonitor ==
  /\ starts < MaxStarts
  /\ starts' = starts + 1
  /\ IF identity = "free" THEN identity' = "own" /\ stage' = "connect"
     ELSE UNCHANGED <<identity, stage>>
  /\ UNCHANGED <<linkVars, channelVars>>

RunStep(from) == stage = from /\ UNCHANGED <<identity, starts>>

RunFails ==
  /\ \/ stage \in {"connect", "authenticate"}
     \/ stage \in {"discovery", "membership"} /\ conn = "lost"
  /\ stage' = "failed"
  /\ UNCHANGED <<identity, linkVars, channelVars, starts>>

\* The watch loop begins with the first connection.
Connect ==
  /\ RunStep("connect")
  /\ conn' = "up"
  /\ watch' = "watching"
  /\ stage' = "authenticate"
  /\ UNCHANGED <<authed, presenceCancel, loops, drops, channelVars>>

Authenticate ==
  /\ RunStep("authenticate")
  /\ conn = "up"
  /\ stage' = "announce"
  /\ UNCHANGED <<linkVars, channelVars>>

StartLoop(w, from, next) ==
  /\ RunStep(from)
  /\ conn = "up"
  /\ worker' = [worker EXCEPT ![w].pc = "wait"]
  /\ stage' = next
  /\ UNCHANGED <<linkVars, channels, subs, events, failed>>

startDiscovery == StartLoop("discovery", "discovery", "membership")
startMembershipWatch == StartLoop("membership", "membership", "ready")

-----------------------------------------------------------------------------
(* Presence *)

AlwaysStarts == presenceCancel' = Cardinality(loops) + 1 /\ loops' = loops \cup {presenceCancel'}

\* onConnStateChange(true)
Connected ==
  IF presenceCancel # 0 THEN UNCHANGED <<presenceCancel, loops>>
  ELSE /\ presenceCancel' = Cardinality(loops) + 1
       /\ loops' = loops \cup {presenceCancel'}

\* onConnStateChange(false)
Disconnected == loops' = loops \ {presenceCancel} /\ presenceCancel' = 0

\* The end of authenticateOn for the first connection, which may be lost by now.
Announce ==
  /\ RunStep("announce")
  /\ Connected
  /\ authed' = (authed \/ watch = "watching")
  /\ stage' = "discovery"
  /\ UNCHANGED <<conn, watch, drops, channelVars>>

LoseConnection ==
  /\ conn = "up"
  /\ drops < MaxDrops
  /\ drops' = drops + 1
  /\ conn' = "lost"
  /\ UNCHANGED <<identity, stage, authed, watch, presenceCancel, loops, channelVars, starts>>

WatchStep(from, to) ==
  /\ watch = from
  /\ watch' = to
  /\ UNCHANGED <<identity, stage, drops, channelVars, starts>>

NoticeLoss ==
  /\ WatchStep("watching", "lost")
  /\ conn = "lost"
  /\ UNCHANGED <<conn, authed, presenceCancel, loops>>

Suspend == WatchStep("lost", "redial") /\ Disconnected /\ authed' = FALSE /\ UNCHANGED conn

\* The new connection is authenticated; failed attempts are repeated.
Redial == WatchStep("redial", "announce") /\ UNCHANGED <<conn, authed, presenceCancel, loops>>

\* The end of authenticateOn for the new connection, which is not yet in use.
Resume == WatchStep("announce", "swap") /\ Connected /\ UNCHANGED <<conn, authed>>

Swap ==
  /\ WatchStep("swap", "watching")
  /\ conn' = "up"
  /\ authed' = TRUE
  /\ UNCHANGED <<presenceCancel, loops>>

watchLoop == NoticeLoss \/ Suspend \/ Redial \/ Resume \/ Swap

-----------------------------------------------------------------------------
(* Channels *)

Event(w) ==
  /\ worker[w].pc = "wait"
  /\ events < MaxEvents
  /\ events' = events + 1
  /\ UNCHANGED <<identity, stage, linkVars, starts, failed>>

\* A new subscription is the channel's entry.
Begin(w, c) ==
  /\ channels' = [channels EXCEPT ![c] = Len(subs) + 1]
  /\ subs' = Append(subs, [channel |-> c, state |-> "opening", cancelled |-> FALSE, link |-> drops])
  /\ worker' = [worker EXCEPT ![w] = [pc |-> "opening", sub |-> Len(subs) + 1]]

SubscribeAlways(w, c) == Event(w) /\ Begin(w, c)

\* A member list with the monitor's key, or its addition to a channel.
subscribeToChannel(w, c) ==
  /\ Event(w)
  /\ IF channels[c] # 0 THEN UNCHANGED <<channels, subs, worker>> ELSE Begin(w, c)

Working(w, pc) == worker[w].pc = pc /\ UNCHANGED <<identity, stage, linkVars, starts, events>>
Waits(w) == worker' = [worker EXCEPT ![w] = [pc |-> "wait", sub |-> 0]]

\* Its events are consumed from now on, until it is cancelled.
Subscribed(w) ==
  /\ Working(w, "opening")
  /\ conn = "up"
  /\ subs' = [subs EXCEPT ![worker[w].sub].state = "live"]
  /\ Waits(w)
  /\ UNCHANGED <<channels, failed>>

\* The connection that it was begun on has been lost.
SubscribeFails(w) ==
  /\ Working(w, "opening")
  /\ conn = "lost" \/ drops > subs[worker[w].sub].link
  /\ subs' = [subs EXCEPT ![worker[w].sub].state = "failed"]
  /\ failed' = TRUE
  /\ worker' = [worker EXCEPT ![w].pc = "undo"]
  /\ UNCHANGED channels

\* The channel's entry goes, whichever subscription it is of.
UndoEntry(w) ==
  /\ Working(w, "undo")
  /\ channels' = [channels EXCEPT ![subs[worker[w].sub].channel] = 0]
  /\ worker' = [worker EXCEPT ![w].pc = "cancel"]
  /\ UNCHANGED <<subs, failed>>

\* The end of a failed subscription and of unsubscribeFromChannel.
Cancel(w) ==
  /\ Working(w, "cancel")
  /\ subs' = [subs EXCEPT ![worker[w].sub].cancelled = TRUE]
  /\ Waits(w)
  /\ UNCHANGED <<channels, failed>>

\* The monitor is removed from a channel.
unsubscribeFromChannel(c) ==
  /\ Event("membership")
  /\ channels[c] # 0
  /\ channels' = [channels EXCEPT ![c] = 0]
  /\ worker' = [worker EXCEPT !["membership"] = [pc |-> "cancel", sub |-> channels[c]]]
  /\ UNCHANGED subs

-----------------------------------------------------------------------------
MonitorInit ==
  /\ identity \in {"free", "other"}
  /\ stage = "off"
  /\ conn = "none" /\ authed = FALSE /\ watch = "off"
  /\ presenceCancel = 0 /\ loops = {}
  /\ channels = [c \in Channels |-> 0]
  /\ subs = <<>>
  /\ worker = [w \in Workers |-> [pc |-> "off", sub |-> 0]]
  /\ starts = 0 /\ events = 0 /\ drops = 0
  /\ failed = FALSE

MonitorNext ==
  \/ StartMonitor \/ RunFails \/ Connect \/ Authenticate \/ Announce
  \/ startDiscovery \/ startMembershipWatch
  \/ LoseConnection \/ watchLoop
  \/ \E w \in Workers :
        \/ \E c \in Channels : subscribeToChannel(w, c)
        \/ Subscribed(w) \/ SubscribeFails(w) \/ UndoEntry(w) \/ Cancel(w)
  \/ \E c \in Channels : unsubscribeFromChannel(c)

MonitorSpec == MonitorInit /\ [][MonitorNext]_monitorVars
-----------------------------------------------------------------------------
(* Properties *)

\* The announcements of the first connection and of the watch loop come from two goroutines
\* and in any order: there is never a second presence loop, and there is one whenever the
\* connection is up (onConnStateChange, authenticateOn, watchLoop).
OneLoopWhileConnected ==
  /\ Cardinality(loops) <= 1
  /\ conn = "up" /\ authed => loops # {}

Listening(s) == subs[s].state = "live" /\ ~subs[s].cancelled

\* Until a subscription fails, what is consumed from a channel is what its entry, or the loop
\* that has just taken the entry out, can cancel (subscribeToChannel, unsubscribeFromChannel).
ListedUnlessFailed ==
  ~failed => \A s \in DOMAIN subs :
     Listening(s) => \/ channels[subs[s].channel] = s
                     \/ worker["membership"] = [pc |-> "cancel", sub |-> s]

\* Both, as a run checks them together.
MonitorIsConsistent == OneLoopWhileConnected /\ ListedUnlessFailed

\* subscribeToChannel "subscribes to kind:9 messages for channelUUID [...] if not already
\* subscribed" (discovery.go): once both loops have done their work, a channel is not
\* consumed twice.
OneSubscriptionEach ==
  (\A w \in Workers : worker[w].pc \in {"off", "wait"}) =>
     \A s, t \in DOMAIN subs :
        Listening(s) /\ Listening(t) /\ subs[s].channel = subs[t].channel => s = t
=============================================================================
