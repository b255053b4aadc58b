----------------------------- MODULE MessageBus -----------------------------
(***************************************************************************)
(* The Mosquitto message bus (component/messagebusmosq): the subscriptions *)
(* an application holds, those the bus records and those the broker has,   *)
(* through lost connections, reconnections and destruction.                *)
(*                                                                         *)
(* Threads: the application's threads App call the bus; the library's      *)
(* network loop thread (loop) runs the on_... callbacks and reconnects by  *)
(* itself; detached threads started by schedule_reconnect sleep            *)
(* (sleepers) and then reconnect too (callers).                            *)
(*                                                                         *)
(* link and broker stand for libmosquitto, the network and the broker,     *)
(* which are not under src/src: a new connection is a clean session, so it *)
(* starts without subscriptions.  _mutex is held over several steps only   *)
(* by disconnect(), in the state "joining"; every other critical section   *)
(* is one step, connect() with the library calls it makes included.        *)
(***************************************************************************)
EXTENDS Naturals, FiniteSets

CONSTANTS
    App,            \* threads of the application that use the bus
    Topic,          \* topics they subscribe to
    NoTopic,        \* no topic at hand
    AutoReconnect,  \* Config::auto_reconnect
    MaxSubscribes,  \* bound: subscriptions made in a behaviour
    MaxFailures     \* bound: connections failed, refused or lost in a behaviour

ASSUME BusAssumption ==
    /\ NoTopic \notin Topic /\ AutoReconnect \in BOOLEAN
    /\ MaxSubscribes \in Nat /\ MaxFailures \in Nat

VARIABLES
    link,        \* connection: "down", "connecting" (no CONNACK yet), "up"
    broker,      \* topics the broker has subscribed on this connection
    loop,        \* the network thread: "off", "idle" in its poll, or inside
                 \* a callback: "announce", "resubscribe" of on_connect,
                 \* "match", "deliver" of on_message
    cancelled,   \* mosquitto_loop_stop(force) has cancelled it
    message,     \* topic of the message on_message is working on
    connected,   \* _connected
    subs,        \* _subscriptions: records [topic, id]
    nextId,      \* _next_subscription_id
    held,        \* Subscription objects still active
    apc,         \* thread of the application -> where it is in a call
    arg,         \* thread of the application -> topic and id of the call
    scheduled,   \* _reconnect_scheduled
    sleepers,    \* detached threads in sleep_for
    callers,     \* detached threads on their way into connect()
    failures,    \* connections that failed so far
    destroying,  \* _destroying
    destroyed,   \* ~MessageBus has returned
    missed       \* history: topics the broker lost between the sending and
                 \* the recording of a subscription, and has not had since

subVars == <<subs, nextId, held>>
reconnectVars == <<scheduled, sleepers, callers, failures>>
brokerVars == <<broker, missed>>
vars == <<link, brokerVars, loop, cancelled, message, connected, subVars, apc,
          arg, reconnectVars, destroying, destroyed>>

Sub == [topic : Topic, id : Nat \ {0}]
NoSub == [topic |-> NoTopic, id |-> 0]

Init ==
    /\ link = "down" /\ broker = {} /\ loop = "off" /\ cancelled = FALSE
    /\ message = NoTopic /\ connected = FALSE
    /\ subs = {} /\ nextId = 1 /\ held = {}
    /\ apc = [a \in App |-> "idle"] /\ arg = [a \in App |-> NoSub]
    /\ scheduled = FALSE /\ sleepers = 0 /\ callers = 0 /\ failures = 0
    /\ destroying = FALSE /\ destroyed = FALSE /\ missed = {}

Topics(S) == {s.topic : s \in S}

\* topics that subscribe() has sent and not yet recorded
InTheGap == {arg[a].topic : a \in {b \in App : apc[b] \in {"draw", "record"}}}

BrokerHas(topics) ==
    broker' = topics /\ missed' = (missed \cup InTheGap) \ topics

MutexFree == \A a \in App : apc[a] # "joining"

-----------------------------------------------------------------------------
(* connect(), whoever calls it *)

\* mosquitto_connect replaces the connection there may be by a clean one and
\* sends CONNECT, or fails and leaves none; loop_start starts the network
\* thread unless there is one.  With bad credentials connect() returns first.
ConnectOutcome ==
    \/ /\ link' = "connecting" /\ BrokerHas({})
       /\ loop' = IF loop = "off" THEN "idle" ELSE loop
       /\ UNCHANGED failures
    \/ /\ failures < MaxFailures /\ failures' = failures + 1
       /\ link' = "down" /\ BrokerHas({}) /\ UNCHANGED loop
    \/ UNCHANGED <<link, brokerVars, loop, failures>>

-----------------------------------------------------------------------------
(* The application's threads *)

Goto(a, pc) == apc' = [apc EXCEPT ![a] = pc]

\* the call returns and forgets what it worked on
Return(a) == Goto(a, "idle") /\ arg' = [arg EXCEPT ![a] = NoSub]

connectFrame == <<cancelled, message, connected, subVars, scheduled,
                  destroying, destroyed>>

Connect(a) ==
    /\ apc[a] = "idle" /\ ~destroying /\ MutexFree
    /\ ConnectOutcome
    /\ UNCHANGED <<apc, arg, sleepers, callers, connectFrame>>

\* the first look of ensure_connected, for a call that continues at pc
EnsureConnected(a, pc) ==
    /\ Goto(a, IF connected THEN "reconnect" ELSE pc)
    /\ UNCHANGED <<link, brokerVars, loop, failures>>

\* ensure_connected reconnects a bus that it saw connected ...
Reconnect(a) ==
    /\ apc[a] = "reconnect"
    /\ IF AutoReconnect THEN MutexFree /\ ConnectOutcome
                        ELSE UNCHANGED <<link, brokerVars, loop, failures>>
    /\ Goto(a, "look")
    /\ UNCHANGED <<arg, sleepers, callers, connectFrame>>

\* ... and looks again; what follows in publish changes nothing of the bus
Look(a) ==
    /\ apc[a] = "look"
    /\ Goto(a, IF connected /\ arg[a] # NoSub THEN "send" ELSE "idle")
    /\ arg' = IF connected THEN arg ELSE [arg EXCEPT ![a] = NoSub]
    /\ UNCHANGED <<link, brokerVars, loop, cancelled, message, connected, subVars,
                   reconnectVars, destroying, destroyed>>

Publish(a) ==
    /\ apc[a] = "idle" /\ ~destroying
    /\ EnsureConnected(a, "idle")
    /\ UNCHANGED <<arg, sleepers, callers, connectFrame>>

\* subscriptions made and in the making
Subscribes ==
    nextId - 1 + Cardinality(
        {a \in App : /\ apc[a] \in {"reconnect", "look", "send", "draw"}
                     /\ arg[a] # NoSub})

Subscribe(a, topic) ==
    /\ apc[a] = "idle" /\ ~destroying /\ Subscribes < MaxSubscribes
    /\ arg' = [arg EXCEPT ![a] = [topic |-> topic, id |-> 0]]
    /\ EnsureConnected(a, "send")
    /\ UNCHANGED <<sleepers, callers, connectFrame>>

\* mosquitto_subscribe fails without a connection, and subscribe with it
SubscribeSend(a) ==
    /\ apc[a] = "send"
    /\ \/ /\ link = "down" /\ Return(a)
          /\ UNCHANGED brokerVars
       \/ /\ link # "down" /\ Goto(a, "draw")
          /\ BrokerHas(broker \cup {arg[a].topic})
          /\ UNCHANGED arg
    /\ UNCHANGED <<link, loop, cancelled, message, connected, subVars,
                   reconnectVars, destroying, destroyed>>

drawFrame == <<link, brokerVars, loop, cancelled, message, connected, subs, held,
               reconnectVars, destroying, destroyed>>

\* mutant: the id drawn is not the one used
SubscribeDrawUnused(a) ==
    /\ apc[a] = "draw"
    /\ nextId' = nextId + 1
    /\ Goto(a, "record")
    /\ UNCHANGED <<arg, drawFrame>>

\* mutant: the id is the number of records there will be
SubscribeDrawCount(a) ==
    /\ apc[a] = "draw"
    /\ arg' = [arg EXCEPT ![a].id = Cardinality(subs) + 1]
    /\ nextId' = nextId + 1
    /\ Goto(a, "record")
    /\ UNCHANGED drawFrame

\* the id is drawn before the mutex is taken
SubscribeDraw(a) ==
    /\ apc[a] = "draw"
    /\ arg' = [arg EXCEPT ![a].id = nextId] /\ nextId' = nextId + 1
    /\ Goto(a, "record")
    /\ UNCHANGED drawFrame

\* only now is the mutex taken and the subscription recorded; the caller gets
\* its handle
SubscribeRecord(a) ==
    /\ apc[a] = "record" /\ MutexFree
    /\ subs' = subs \cup {arg[a]} /\ held' = held \cup {arg[a]}
    /\ Return(a)
    /\ UNCHANGED <<link, brokerVars, loop, cancelled, message, connected, nextId,
                   reconnectVars, destroying, destroyed>>

\* Subscription::unsubscribe or its destructor: _active.exchange(false)
Unsubscribe(a, sub) ==
    /\ apc[a] = "idle" /\ ~destroying /\ sub \in held
    /\ held' = held \ {sub}
    /\ arg' = [arg EXCEPT ![a] = sub]
    /\ Goto(a, "remove")
    /\ UNCHANGED <<link, brokerVars, loop, cancelled, message, connected, subs,
                   nextId, reconnectVars, destroying, destroyed>>

\* mutant: the broker is not told
UnsubscribeQuietly(a) ==
    /\ apc[a] = "remove" /\ MutexFree
    /\ subs' = subs \ {arg[a]}
    /\ Return(a)
    /\ UNCHANGED <<link, brokerVars, loop, cancelled, message, connected, nextId,
                   held, reconnectVars, destroying, destroyed>>

\* mutant: the broker is told although the topic has another subscription
UnsubscribeAlways(a) ==
    /\ apc[a] = "remove" /\ MutexFree
    /\ subs' = subs \ {arg[a]}
    /\ BrokerHas(IF link # "down" THEN broker \ {arg[a].topic} ELSE broker)
    /\ Return(a)
    /\ UNCHANGED <<link, loop, cancelled, message, connected, nextId, held,
                   reconnectVars, destroying, destroyed>>

\* internal_unsubscribe; the broker is told when the topic has no other
UnsubscribeRemove(a) ==
    /\ apc[a] = "remove" /\ MutexFree
    /\ subs' = subs \ {arg[a]}
    /\ BrokerHas(IF arg[a].topic \in Topics(subs) \ Topics(subs') /\ link # "down"
                 THEN broker \ {arg[a].topic} ELSE broker)
    /\ Return(a)
    /\ UNCHANGED <<link, loop, cancelled, message, connected, nextId, held,
                   reconnectVars, destroying, destroyed>>

\* disconnect() takes the mutex; mosquitto_loop_stop(force) cancels the network
\* thread and waits for it; without _connected it does nothing
DisconnectBegin(a) ==
    /\ MutexFree
    /\ IF connected THEN cancelled' = (loop # "off") /\ Goto(a, "joining")
       ELSE UNCHANGED cancelled /\ Goto(a, IF destroying THEN "free" ELSE "idle")

Disconnect(a) ==
    /\ apc[a] = "idle" /\ ~destroying
    /\ DisconnectBegin(a)
    /\ UNCHANGED <<link, brokerVars, loop, message, connected, subVars, arg,
                   reconnectVars, destroying, destroyed>>

\* mutant: _connected is left set
DisconnectEndConnected(a) ==
    /\ apc[a] = "joining" /\ loop = "off"
    /\ link' = "down" /\ BrokerHas({})
    /\ Goto(a, IF destroying THEN "free" ELSE "idle")
    /\ UNCHANGED <<loop, cancelled, message, connected, subVars, arg,
                   reconnectVars, destroying, destroyed>>

\* the thread is joined; mosquitto_disconnect ends the session
DisconnectEnd(a) ==
    /\ apc[a] = "joining" /\ loop = "off"
    /\ link' = "down" /\ BrokerHas({})
    /\ connected' = FALSE
    /\ Goto(a, IF destroying THEN "free" ELSE "idle")
    /\ UNCHANGED <<loop, cancelled, message, subVars, arg, reconnectVars,
                   destroying, destroyed>>

\* ~MessageBus, once no call is in progress and no Subscription is left
Destroy(a) ==
    /\ \A b \in App : apc[b] = "idle"
    /\ held = {} /\ ~destroying
    /\ destroying' = TRUE
    /\ Goto(a, "stop")
    /\ UNCHANGED <<link, brokerVars, loop, cancelled, message, connected, subVars,
                   arg, reconnectVars, destroyed>>

DestroyDisconnect(a) ==
    /\ apc[a] = "stop"
    /\ DisconnectBegin(a)
    /\ UNCHANGED <<link, brokerVars, loop, message, connected, subVars, arg,
                   reconnectVars, destroying, destroyed>>

\* mosquitto_destroy cancels and joins a network thread that is still there
DestroyFree(a) ==
    /\ apc[a] = "free" /\ loop \in {"off", "idle"}
    /\ link' = "down" /\ BrokerHas({}) /\ loop' = "off"
    /\ destroyed' = TRUE
    /\ Goto(a, "gone")
    /\ UNCHANGED <<cancelled, message, connected, subVars, arg, reconnectVars,
                   destroying>>

-----------------------------------------------------------------------------
(* Detached reconnection threads *)

\* mutant: _reconnect_scheduled is not looked at
ScheduleAnother ==
    IF AutoReconnect
    THEN scheduled' = TRUE /\ sleepers' = sleepers + 1 /\ UNCHANGED callers
    ELSE UNCHANGED <<scheduled, sleepers, callers>>

\* schedule_reconnect
ScheduleReconnect ==
    IF AutoReconnect /\ ~scheduled
    THEN scheduled' = TRUE /\ sleepers' = sleepers + 1 /\ UNCHANGED callers
    ELSE UNCHANGED <<scheduled, sleepers, callers>>

\* the thread wakes up; it uses the bus, so it must still be there
ReconnectWake ==
    /\ sleepers > 0 /\ ~destroyed
    /\ sleepers' = sleepers - 1 /\ scheduled' = FALSE
    /\ callers' = IF ~connected /\ ~destroying THEN callers + 1 ELSE callers
    /\ UNCHANGED <<link, brokerVars, loop, cancelled, message, connected, subVars,
                   apc, arg, failures, destroying, destroyed>>

\* mutant: connect() does not take the mutex
ReconnectConnectUnlocked ==
    /\ callers > 0 /\ ~destroyed
    /\ callers' = callers - 1
    /\ ConnectOutcome
    /\ UNCHANGED <<apc, arg, sleepers, connectFrame>>

\* do_reconnect calls connect()
ReconnectConnect ==
    /\ callers > 0 /\ MutexFree /\ ~destroyed
    /\ callers' = callers - 1
    /\ ConnectOutcome
    /\ UNCHANGED <<apc, arg, sleepers, connectFrame>>

-----------------------------------------------------------------------------
(* The network thread: library, callbacks *)

loopFrame == <<subVars, apc, arg, destroying, destroyed>>

\* loop_forever reconnects by itself when the connection is down
LibraryReconnect ==
    /\ loop = "idle" /\ ~cancelled /\ link = "down"
    /\ link' = "connecting" /\ BrokerHas({})
    /\ UNCHANGED <<loop, cancelled, message, connected, reconnectVars, loopFrame>>

\* CONNACK: on_connect(0) sets _connected, calls the connection handler and
\* logs, and then waits for the mutex
Accepted ==
    /\ loop = "idle" /\ ~cancelled /\ link = "connecting"
    /\ link' = "up"
    /\ IF destroying THEN UNCHANGED <<connected, loop>>
                     ELSE connected' = TRUE /\ loop' = "announce"
    /\ UNCHANGED <<brokerVars, cancelled, message, reconnectVars, loopFrame>>

Announce ==
    /\ loop = "announce"
    /\ loop' = "resubscribe"
    /\ UNCHANGED <<link, brokerVars, cancelled, message, connected, reconnectVars,
                   loopFrame>>

\* mutant: on_connect does not subscribe again
ResubscribeNothing ==
    /\ loop = "resubscribe" /\ MutexFree
    /\ loop' = "idle"
    /\ UNCHANGED <<link, brokerVars, cancelled, message, connected, reconnectVars,
                   loopFrame>>

\* on_connect under the mutex: every recorded subscription again
Resubscribe ==
    /\ loop = "resubscribe" /\ MutexFree
    /\ BrokerHas(IF link = "down" THEN broker ELSE broker \cup Topics(subs))
    /\ loop' = "idle"
    /\ UNCHANGED <<link, cancelled, message, connected, reconnectVars, loopFrame>>

\* a refused CONNACK: on_connect(rc # 0)
Refused ==
    /\ loop = "idle" /\ ~cancelled /\ link = "connecting"
    /\ failures < MaxFailures /\ failures' = failures + 1
    /\ link' = "down" /\ BrokerHas({})
    /\ IF destroying THEN UNCHANGED <<connected, scheduled, sleepers, callers>>
                     ELSE connected' = FALSE /\ ScheduleReconnect
    /\ UNCHANGED <<loop, cancelled, message, loopFrame>>

\* the connection breaks: on_disconnect(rc # 0)
Lost ==
    /\ loop = "idle" /\ ~cancelled /\ link = "up"
    /\ failures < MaxFailures /\ failures' = failures + 1
    /\ link' = "down" /\ BrokerHas({})
    /\ IF destroying THEN UNCHANGED <<connected, scheduled, sleepers, callers>>
                     ELSE connected' = FALSE /\ ScheduleReconnect
    /\ UNCHANGED <<loop, cancelled, message, loopFrame>>

\* on_message up to the lock of the mutex
Message(topic) ==
    /\ loop = "idle" /\ ~cancelled /\ link = "up" /\ topic \in broker
    /\ ~destroying
    /\ message' = topic /\ loop' = "match"
    /\ UNCHANGED <<link, brokerVars, cancelled, connected, reconnectVars, loopFrame>>

\* the handlers to call are copied under the mutex and called without it
Match ==
    /\ loop = "match" /\ MutexFree
    /\ loop' = IF message \in Topics(subs) THEN "deliver" ELSE "idle"
    /\ message' = NoTopic
    /\ UNCHANGED <<link, brokerVars, cancelled, connected, reconnectVars, loopFrame>>

Deliver ==
    /\ loop = "deliver"
    /\ loop' = "idle"
    /\ UNCHANGED <<link, brokerVars, cancelled, message, connected, reconnectVars,
                   loopFrame>>

\* a cancelled thread ends where it polls or logs, or in a handler's output;
\* waiting for a mutex is no cancellation point
LoopEnds ==
    /\ cancelled /\ loop \in {"idle", "announce", "deliver"}
    /\ loop' = "off" /\ cancelled' = FALSE
    /\ UNCHANGED <<link, brokerVars, message, connected, reconnectVars, loopFrame>>

-----------------------------------------------------------------------------
AppCall(a) ==
    \/ Connect(a) \/ Publish(a) \/ Disconnect(a) \/ Destroy(a)
    \/ \E topic \in Topic : Subscribe(a, topic)
    \/ \E sub \in held : Unsubscribe(a, sub)

AppStep(a) ==
    \/ Reconnect(a) \/ Look(a)
    \/ SubscribeSend(a) \/ SubscribeDraw(a) \/ SubscribeRecord(a)
    \/ UnsubscribeRemove(a)
    \/ DisconnectEnd(a) \/ DestroyDisconnect(a) \/ DestroyFree(a)

ReconnectStep == ReconnectWake \/ ReconnectConnect

LoopStep == Announce \/ Resubscribe \/ Match \/ Deliver \/ LoopEnds

Network ==
    \/ LibraryReconnect \/ Accepted \/ Refused \/ Lost
    \/ \E topic \in Topic : Message(topic)

Next == \/ \E a \in App : AppCall(a) \/ AppStep(a)
        \/ ReconnectStep \/ LoopStep \/ Network

Spec == Init /\ [][Next]_vars

(***************************************************************************)
(* Threads that can go on do.  The library keeps reconnecting and the      *)
(* broker accepts a connection it is not made to refuse: with finitely     *)
(* many failures a connection comes up in the end.  The application's      *)
(* calls and the arrival of messages are left to chance.  Steps that need  *)
(* the mutex have strong fairness: it is free again and again.             *)
(***************************************************************************)
Fairness ==
    /\ \A a \in App : SF_vars(AppStep(a))
    /\ SF_vars(LoopStep) /\ SF_vars(ReconnectStep)
    /\ WF_vars(LibraryReconnect) /\ SF_vars(Accepted)

FairSpec == Spec /\ Fairness

-----------------------------------------------------------------------------
(* Properties *)

TypeOK ==
    /\ link \in {"down", "connecting", "up"}
    /\ broker \in SUBSET Topic
    /\ loop \in {"off", "idle", "announce", "resubscribe", "match", "deliver"}
    /\ message \in Topic \cup {NoTopic}
    /\ cancelled \in BOOLEAN /\ connected \in BOOLEAN /\ scheduled \in BOOLEAN
    /\ destroying \in BOOLEAN /\ destroyed \in BOOLEAN
    /\ subs \in SUBSET Sub /\ held \in SUBSET Sub /\ nextId \in Nat \ {0}
    /\ apc \in [App -> {"idle", "reconnect", "look", "send", "draw", "record",
                        "remove", "joining", "stop", "free", "gone"}]
    /\ arg \in [App -> [topic : Topic, id : Nat] \cup {NoSub}]
    /\ sleepers \in Nat /\ callers \in Nat /\ failures \in Nat
    /\ missed \in SUBSET Topic

\* The broker never holds a subscription that nobody records: the last
\* unsubscribe of a topic takes it back even when threads subscribe to the
\* same topic, reconnect or lose the connection meanwhile
\* (messagebus.cpp:157-176, 242-249, 359-377).
NoOrphan ==
    broker \subseteq Topics(subs) \cup InTheGap

\* A Subscription the application still holds is on record, so its handler is
\* found by on_message and it is subscribed again after a reconnection; what
\* is on record is held, or being removed; and whatever threads draw ids and
\* record, or look an id up to remove it, at the same time, the id of a
\* subscription about to be recorded is nobody else's
\* (messagebus.cpp:13-16, 169-176, 366-376).
HeldIsRecorded ==
    /\ held \subseteq subs
    /\ \A sub \in subs \ held : \E a \in App : apc[a] = "remove" /\ arg[a] = sub
    /\ \A a \in App : apc[a] = "record" =>
          /\ \A sub \in subs : sub.id # arg[a].id
          /\ \A b \in App \ {a} :
                apc[b] \in {"record", "remove"} => arg[b].id # arg[a].id

\* Whenever disconnect() is free to run, a bus that says it is connected has a
\* network thread to stop (messagebus.cpp:95-107, 232-234, 258-260).
ConnectedHasLoop == connected /\ MutexFree => loop # "off"

\* One detached thread sleeps at a time: it exists exactly while
\* _reconnect_scheduled is set (messagebus.cpp:341-351).
OneSleeper == sleepers = IF scheduled THEN 1 ELSE 0

\* Once on_connect of a connection is over, whatever is on record is subscribed
\* at the broker, although publish and subscribe replace the connection each
\* time, whoever subscribes, unsubscribes and reconnects meanwhile and whatever
\* fails: unless the topic was lost to the broker while a subscribe() had sent
\* and not yet recorded it, by a new connection or by the last unsubscribe
\* (messagebus.cpp:159-175, 232-250, 331-339, 359-376).
RecordedIsSubscribed ==
    link = "up" /\ loop \in {"idle", "match", "deliver"} /\ ~destroying
        => Topics(subs) \subseteq broker \cup missed

\* disconnect() waits only for a network thread it has cancelled: none is
\* started while it holds the mutex.  If the thread it caught waits for that
\* mutex in a callback, neither of them moves any more (messagebus.cpp:70-107,
\* 242, 282).
DisconnectWaits ==
    [][\A a \in App : apc[a] = "joining" =>
          /\ loop = "off" \/ cancelled
          /\ loop \in {"resubscribe", "match"} =>
                apc'[a] = "joining" /\ UNCHANGED <<loop, cancelled>>]_vars

\* A subscription on record when the connection is lost is subscribed at the
\* broker again later, unless the application removes it or disconnects
\* (messagebus.cpp:232-273, 341-357).
RestoredAfterLoss ==
    \A topic \in Topic :
        topic \in Topics(subs) /\ link = "down" /\ loop # "off"
        ~> \/ topic \in broker \/ topic \notin Topics(subs)
           \/ \E a \in App : apc[a] = "joining"

\* disconnect() comes back from mosquitto_loop_stop, which "will block until
\* the network thread finishes.  For the network thread to end, you must have
\* previously called mosquitto_disconnect or have set the force parameter to
\* true" (prebuilt/include/mosquitto/mosquitto.h:1281-1283), as messagebus.cpp:101
\* does.
DisconnectReturns ==
    \A a \in App : apc[a] = "joining" ~> apc[a] # "joining"
=============================================================================
