-------------------------- MODULE MessageBusProofs --------------------------
(***************************************************************************)
(* For any threads and topics and any bounds: what the broker has          *)
(* subscribed is on the bus's record, and the reverse except for what a    *)
(* subscribe() missed; what the application holds is on the record; one    *)
(* detached thread sleeps at a time; a connected bus has a network thread. *)
(* disconnect() waits only for a thread it has cancelled, and for ever if  *)
(* it caught it in a callback.                                             *)
(***************************************************************************)
EXTENDS MessageBus, TLAPS

\* Ids are drawn once: those on record and in use are below the next one, and
\* a handle being removed is held no longer.
IdInv ==
    /\ \A sub \in subs : sub.id < nextId
    /\ \A a \in App : apc[a] = "record" => arg[a] \in Sub /\ arg[a].id < nextId
    /\ \A a \in App : apc[a] = "remove" =>
           arg[a].id < nextId /\ arg[a] \notin held
    /\ \A a \in App : apc[a] \in {"send", "draw"} => arg[a].topic \in Topic

\* Without a connection the broker holds nothing for this client.
LinkInv == link = "down" => broker = {}

RecordInv == IdInv /\ LinkInv /\ NoOrphan /\ HeldIsRecorded

CoreInv == TypeOK /\ RecordInv /\ OneSleeper

-----------------------------------------------------------------------------
\* A step that takes subscriptions from the broker, or leaves the calls in
\* progress where they were, keeps the record's invariants.
LEMMA RecordKept ==
    ASSUME TypeOK, RecordInv,
           broker' \subseteq broker, link' = "down" => broker' = {},
           UNCHANGED <<subs, nextId, held>>,
           \A a \in App :
               \/ apc'[a] = apc[a] /\ arg'[a] = arg[a]
               \/ /\ apc[a] \notin {"draw", "record", "remove"}
                  /\ apc'[a] \notin {"draw", "record", "remove"}
                  /\ apc'[a] = "send" => arg'[a].topic \in Topic
    PROVE  RecordInv'
<1>1. IdInv'
  BY DEF RecordInv, IdInv
<1>2. InTheGap \subseteq InTheGap'
  BY DEF InTheGap
<1>3. NoOrphan'
  BY <1>2 DEF RecordInv, NoOrphan, Topics
<1>4. HeldIsRecorded'
  <2>1. held' \subseteq subs'
        /\ \A sub \in subs' \ held' :
               \E a \in App : apc'[a] = "remove" /\ arg'[a] = sub
    BY DEF RecordInv, HeldIsRecorded
  <2>2. \A a \in App : apc'[a] \in {"record", "remove"} =>
            apc'[a] = apc[a] /\ arg'[a] = arg[a]
    OBVIOUS
  <2>3. QED
    BY <2>1, <2>2 DEF RecordInv, HeldIsRecorded
<1>5. QED
  BY <1>1, <1>3, <1>4 DEF RecordInv, LinkInv

\* the same when nothing it reads changes
LEMMA RecordStutter ==
    ASSUME TypeOK, RecordInv, UNCHANGED <<link, broker, subs, nextId, held, apc, arg>>
    PROVE  RecordInv'
  BY RecordKept DEF RecordInv, LinkInv

LEMMA GapTopics ==
    ASSUME RecordInv PROVE InTheGap \subseteq Topic
  BY DEF RecordInv, IdInv, InTheGap, Sub

LEMMA ConnectKept ==
    ASSUME TypeOK, RecordInv, ConnectOutcome
    PROVE  /\ link' \in {"down", "connecting", "up"}
           /\ broker' \subseteq broker /\ (link' = "down" => broker' = {})
           /\ missed' \in SUBSET Topic
           /\ loop' \in {"off", "idle", "announce", "resubscribe", "match",
                         "deliver"}
           /\ failures' \in Nat
  BY GapTopics DEF ConnectOutcome, BrokerHas, brokerVars, TypeOK, RecordInv, LinkInv

-----------------------------------------------------------------------------
(* The steps of the application's threads *)

\* the two looks of ensure_connected, and the reconnection between them
LEMMA Ensures ==
    ASSUME TypeOK, RecordInv, NEW a \in App,
           \/ Publish(a) \/ \E topic \in Topic : Subscribe(a, topic)
           \/ Reconnect(a) \/ Look(a)
    PROVE  TypeOK' /\ RecordInv'
<1> USE DEF connectFrame, subVars, reconnectVars, brokerVars, Goto
<1>1. ASSUME NEW topic \in Topic, Subscribe(a, topic)
      PROVE  TypeOK' /\ RecordInv'
  <2>1. PICK pc \in {"send", "reconnect"} :
            apc[a] = "idle" /\ apc' = [apc EXCEPT ![a] = pc]
    BY <1>1 DEF Subscribe, EnsureConnected
  <2>2. PICK sub \in [topic : Topic, id : Nat] :
            arg' = [arg EXCEPT ![a] = sub]
    BY <1>1 DEF Subscribe
  <2>3. UNCHANGED <<link, broker, missed, loop, failures, sleepers, callers,
                    connectFrame>>
    BY <1>1 DEF Subscribe, EnsureConnected
  <2>4. TypeOK'
    BY <2>1, <2>2, <2>3 DEF TypeOK
  <2>5. RecordInv'
    BY <2>1, <2>2, <2>3, RecordKept DEF TypeOK, RecordInv, LinkInv
  <2>6. QED
    BY <2>4, <2>5
<1>2. CASE Publish(a)
  <2>1. PICK pc \in {"idle", "reconnect"} :
            apc[a] = "idle" /\ apc' = [apc EXCEPT ![a] = pc]
    BY <1>2 DEF Publish, EnsureConnected
  <2>2. UNCHANGED <<link, broker, missed, loop, failures, arg, sleepers, callers,
                    connectFrame>>
    BY <1>2 DEF Publish, EnsureConnected
  <2>3. TypeOK'
    BY <2>1, <2>2 DEF TypeOK
  <2>4. RecordInv'
    BY <2>1, <2>2, RecordKept DEF TypeOK, RecordInv, LinkInv
  <2>5. QED
    BY <2>3, <2>4
<1>3. CASE Reconnect(a)
  <2>1. /\ apc[a] = "reconnect" /\ apc' = [apc EXCEPT ![a] = "look"]
        /\ UNCHANGED <<arg, sleepers, callers, connectFrame>>
    BY <1>3 DEF Reconnect
  <2>2. /\ link' \in {"down", "connecting", "up"}
        /\ broker' \subseteq broker /\ (link' = "down" => broker' = {})
        /\ missed' \in SUBSET Topic
        /\ loop' \in {"off", "idle", "announce", "resubscribe", "match",
                      "deliver"}
        /\ failures' \in Nat
    <3>1. CASE ConnectOutcome
      BY <3>1, ConnectKept
    <3>2. CASE UNCHANGED <<link, broker, missed, loop, failures>>
      BY <3>2 DEF TypeOK, RecordInv, LinkInv
    <3>3. QED
      BY <1>3, <3>1, <3>2 DEF Reconnect
  <2>3. TypeOK'
    BY <2>1, <2>2 DEF TypeOK
  <2>4. RecordInv'
    BY <2>1, <2>2, RecordKept DEF TypeOK, RecordInv, IdInv
  <2>5. QED
    BY <2>3, <2>4
<1>4. CASE Look(a)
  <2>1. PICK pc \in {"send", "idle"} :
            /\ apc[a] = "look" /\ apc' = [apc EXCEPT ![a] = pc]
            /\ pc = "send" => connected /\ arg[a] # NoSub
    BY <1>4 DEF Look
  <2>2. PICK sub \in {arg[a], NoSub} :
            arg' = [arg EXCEPT ![a] = sub] /\ (connected => sub = arg[a])
    BY <1>4 DEF Look, TypeOK
  <2>3. TypeOK'
    BY <1>4, <2>1, <2>2 DEF Look, TypeOK
  <2>4. UNCHANGED <<link, broker, subs, nextId, held>>
    BY <1>4 DEF Look
  <2>5. RecordInv'
    BY <2>1, <2>2, <2>4, RecordKept DEF TypeOK, RecordInv, LinkInv
  <2>6. QED
    BY <2>3, <2>5
<1>5. QED
  BY <1>1, <1>2, <1>3, <1>4

LEMMA SubscribeSends ==
    ASSUME TypeOK, RecordInv, NEW a \in App, SubscribeSend(a)
    PROVE  TypeOK' /\ RecordInv'
<1> USE DEF SubscribeSend, Goto, Return, BrokerHas, brokerVars, subVars, reconnectVars
<1>2. TypeOK'
  BY GapTopics DEF TypeOK, RecordInv, IdInv
<1>3. CASE link = "down"
  <2>1. apc' = [apc EXCEPT ![a] = "idle"] /\ arg' = [arg EXCEPT ![a] = NoSub]
    BY <1>3
  <2>2. apc[a] = "send" /\ UNCHANGED <<link, broker, subs, nextId, held>>
    BY <1>3
  <2>3. RecordInv'
    BY <2>1, <2>2, RecordKept DEF TypeOK, RecordInv, LinkInv
  <2>4. QED
    BY <1>2, <2>3
<1>4. CASE link # "down"
  <2>1. /\ apc[a] = "send" /\ apc' = [apc EXCEPT ![a] = "draw"]
        /\ broker' = broker \cup {arg[a].topic}
        /\ UNCHANGED <<link, arg, subs, nextId, held>>
    BY <1>4
  <2>2. IdInv' /\ LinkInv'
    BY <1>4, <2>1 DEF TypeOK, RecordInv, IdInv, LinkInv
  <2>3. InTheGap \cup {arg[a].topic} \subseteq InTheGap'
    BY <2>1 DEF TypeOK, InTheGap
  <2>4. NoOrphan'
    BY <2>1, <2>3 DEF RecordInv, NoOrphan, Topics
  <2>5. HeldIsRecorded'
    <3>1. \A b \in App : apc'[b] \in {"record", "remove"} => apc'[b] = apc[b]
      BY <2>1 DEF TypeOK
    <3>2. \A b \in App : apc[b] = "remove" => apc'[b] = "remove"
      BY <2>1 DEF TypeOK
    <3>3. QED
      BY <2>1, <3>1, <3>2 DEF RecordInv, HeldIsRecorded
  <2>6. QED
    BY <1>2, <2>2, <2>4, <2>5 DEF RecordInv
<1>5. QED
  BY <1>3, <1>4

\* the new subscription has an id no other one has
LEMMA SubscribeDraws ==
    ASSUME TypeOK, RecordInv, NEW a \in App, SubscribeDraw(a)
    PROVE  TypeOK' /\ RecordInv'
<1>1. /\ apc[a] = "draw" /\ apc' = [apc EXCEPT ![a] = "record"]
      /\ arg' = [arg EXCEPT ![a].id = nextId] /\ nextId' = nextId + 1
      /\ UNCHANGED <<subs, held, broker, link>>
  BY DEF SubscribeDraw, drawFrame, Goto, brokerVars
<1>2. PICK sub \in Sub : /\ sub.id = nextId /\ sub.topic = arg[a].topic
                         /\ arg' = [arg EXCEPT ![a] = sub]
  <2>1. arg[a].topic \in Topic /\ arg[a] # NoSub
    BY <1>1, BusAssumption DEF RecordInv, IdInv, NoSub
  <2>2. [topic |-> arg[a].topic, id |-> nextId] \in Sub
    BY <2>1 DEF TypeOK, Sub
  <2>3. PICK old \in [topic : Topic, id : Nat] : old = arg[a]
    BY <2>1 DEF TypeOK
  <2>4. [old EXCEPT !.id = nextId] = [topic |-> old.topic, id |-> nextId]
    OBVIOUS
  <2>5. arg' = [arg EXCEPT ![a] = [topic |-> arg[a].topic, id |-> nextId]]
    BY <1>1, <2>3, <2>4
  <2>6. QED
    BY <2>2, <2>5
<1>3. TypeOK'
  <2>1. sub \in [topic : Topic, id : Nat]
    BY DEF Sub
  <2>2. nextId' \in Nat \ {0}
    BY <1>1 DEF TypeOK
  <2>3. arg' \in [App -> [topic : Topic, id : Nat] \cup {NoSub}]
    BY <1>2, <2>1 DEF TypeOK
  <2>4. QED
    BY <1>1, <2>2, <2>3 DEF TypeOK, SubscribeDraw, drawFrame, reconnectVars, brokerVars
<1>4. IdInv'
  <2>1. \A s \in subs' : s.id < nextId'
    BY <1>1 DEF TypeOK, RecordInv, IdInv, Sub
  <2>2. \A b \in App : apc'[b] = "record" => arg'[b] \in Sub /\ arg'[b].id < nextId'
    BY <1>1, <1>2 DEF TypeOK, RecordInv, IdInv, Sub
  <2>3. \A b \in App : arg[b].id \in Nat
    BY DEF TypeOK, NoSub
  <2>4. \A b \in App : apc'[b] = "remove" => arg'[b].id < nextId' /\ arg'[b] \notin held'
    BY <1>1, <1>2, <2>3 DEF TypeOK, RecordInv, IdInv
  <2>5. \A b \in App : apc'[b] \in {"send", "draw"} => apc'[b] = apc[b] /\ arg'[b] = arg[b]
    BY <1>1, <1>2 DEF TypeOK
  <2>6. QED
    BY <2>1, <2>2, <2>4, <2>5 DEF RecordInv, IdInv
<1>5. NoOrphan'
  <2>1. \A b \in App : apc[b] \in {"draw", "record"} =>
            apc'[b] \in {"draw", "record"} /\ arg'[b].topic = arg[b].topic
    BY <1>1, <1>2 DEF TypeOK
  <2>2. InTheGap \subseteq InTheGap'
    BY <2>1 DEF InTheGap
  <2>3. QED
    BY <1>1, <2>2 DEF RecordInv, NoOrphan, Topics
<1>6. HeldIsRecorded'
  <2>1. \A b \in App \ {a} : apc'[b] = apc[b] /\ arg'[b] = arg[b]
    BY <1>1, <1>2 DEF TypeOK
  <2>2. apc'[a] = "record" /\ arg'[a].id = nextId
    BY <1>1, <1>2 DEF TypeOK
  <2>3. \A s \in subs : s.id # nextId
    BY DEF TypeOK, RecordInv, IdInv, Sub
  <2>4. \A b \in App : apc[b] \in {"record", "remove"} => arg[b].id # nextId
    BY DEF TypeOK, RecordInv, IdInv
  <2>5. QED
    BY <1>1, <2>1, <2>2, <2>3, <2>4 DEF RecordInv, HeldIsRecorded
<1>7. QED
  BY <1>1, <1>3, <1>4, <1>5, <1>6 DEF RecordInv, LinkInv

LEMMA SubscribeRecords ==
    ASSUME TypeOK, RecordInv, NEW a \in App, SubscribeRecord(a)
    PROVE  TypeOK' /\ RecordInv'
<1>1. PICK sub \in Sub : sub = arg[a] /\ sub.id < nextId
  BY DEF RecordInv, IdInv, SubscribeRecord
<1>2. /\ apc[a] = "record" /\ apc' = [apc EXCEPT ![a] = "idle"]
      /\ arg' = [arg EXCEPT ![a] = NoSub]
      /\ subs' = subs \cup {sub} /\ held' = held \cup {sub}
      /\ UNCHANGED <<link, broker, nextId>>
  BY <1>1 DEF SubscribeRecord, Return, Goto, brokerVars
<1>3. apc'[a] = "idle" /\ \A b \in App \ {a} : apc'[b] = apc[b] /\ arg'[b] = arg[b]
  BY <1>2 DEF TypeOK
<1>4. TypeOK'
  BY <1>2 DEF TypeOK, SubscribeRecord, reconnectVars, brokerVars
<1>5. \A b \in App \ {a} : apc[b] \in {"record", "remove"} => arg[b].id # sub.id
  BY <1>1, <1>2 DEF RecordInv, HeldIsRecorded
<1>6. IdInv'
  <2>1. \A s \in subs' : s.id < nextId'
    BY <1>1, <1>2 DEF RecordInv, IdInv
  <2>2. \A b \in App : apc'[b] = "remove" =>
            arg'[b].id < nextId' /\ arg'[b] \notin held'
    BY <1>2, <1>3, <1>5 DEF RecordInv, IdInv
  <2>3. QED
    BY <1>2, <1>3, <2>1, <2>2 DEF RecordInv, IdInv
<1>7. NoOrphan'
  <2>1. sub.topic \in Topics(subs') /\ Topics(subs) \subseteq Topics(subs')
    BY <1>2 DEF Topics
  <2>2. InTheGap \subseteq InTheGap' \cup {sub.topic}
    BY <1>1, <1>3 DEF InTheGap
  <2>3. QED
    BY <2>1, <2>2, <1>2 DEF RecordInv, NoOrphan
<1>8. HeldIsRecorded'
  <2>1. held' \subseteq subs'
        /\ \A s \in subs' \ held' : \E b \in App : apc'[b] = "remove" /\ arg'[b] = s
    BY <1>2, <1>3 DEF RecordInv, HeldIsRecorded
  <2>2. \A b \in App : apc'[b] = "record" =>
            /\ \A s \in subs' : s.id # arg'[b].id
            /\ \A c \in App \ {b} :
                  apc'[c] \in {"record", "remove"} => arg'[c].id # arg'[b].id
    BY <1>2, <1>3, <1>5 DEF RecordInv, HeldIsRecorded
  <2>3. QED
    BY <2>1, <2>2 DEF HeldIsRecorded
<1>9. QED
  BY <1>2, <1>4, <1>6, <1>7, <1>8 DEF RecordInv, LinkInv

LEMMA Unsubscribes ==
    ASSUME TypeOK, RecordInv, NEW a \in App, NEW sub \in held, Unsubscribe(a, sub)
    PROVE  TypeOK' /\ RecordInv'
<1>1. /\ apc[a] = "idle" /\ apc' = [apc EXCEPT ![a] = "remove"]
      /\ arg' = [arg EXCEPT ![a] = sub] /\ held' = held \ {sub}
      /\ UNCHANGED <<link, broker, subs, nextId>>
  BY DEF Unsubscribe, Goto, brokerVars
<1>2. /\ apc'[a] = "remove" /\ arg'[a] = sub
      /\ \A b \in App \ {a} : apc'[b] = apc[b] /\ arg'[b] = arg[b]
  BY <1>1 DEF TypeOK
<1>3. TypeOK'
  BY <1>1 DEF TypeOK, Unsubscribe, Sub, reconnectVars, brokerVars
<1>4. sub \in subs /\ sub.id < nextId
  BY DEF RecordInv, IdInv, HeldIsRecorded
<1>5. IdInv'
  BY <1>1, <1>2, <1>4 DEF RecordInv, IdInv
<1>6. InTheGap \subseteq InTheGap'
  BY <1>1, <1>2 DEF InTheGap
<1>7. NoOrphan'
  BY <1>1, <1>6 DEF RecordInv, NoOrphan, Topics
<1>8. HeldIsRecorded'
  <2>1. held' \subseteq subs'
        /\ \A s \in subs' \ held' : \E b \in App : apc'[b] = "remove" /\ arg'[b] = s
    BY <1>1, <1>2 DEF RecordInv, HeldIsRecorded
  <2>2. \A b \in App : apc'[b] = "record" =>
            /\ \A s \in subs' : s.id # arg'[b].id
            /\ \A c \in App \ {b} :
                  apc'[c] \in {"record", "remove"} => arg'[c].id # arg'[b].id
    BY <1>1, <1>2, <1>4 DEF RecordInv, HeldIsRecorded
  <2>3. QED
    BY <2>1, <2>2 DEF HeldIsRecorded
<1>9. QED
  BY <1>1, <1>3, <1>5, <1>7, <1>8 DEF RecordInv, LinkInv

\* a topic stays at the broker only while it is on record
LEMMA UnsubscribeRemoves ==
    ASSUME TypeOK, RecordInv, NEW a \in App, UnsubscribeRemove(a)
    PROVE  TypeOK' /\ RecordInv'
<1>1. PICK sub : sub = arg[a]
  OBVIOUS
<1>2. /\ apc[a] = "remove" /\ apc' = [apc EXCEPT ![a] = "idle"]
      /\ arg' = [arg EXCEPT ![a] = NoSub]
      /\ subs' = subs \ {sub}
      /\ UNCHANGED <<link, held, nextId>>
  BY <1>1 DEF UnsubscribeRemove, Return, Goto
<1>3. /\ broker' \subseteq broker
      /\ sub.topic \notin Topics(subs) \ Topics(subs') \/ link = "down" \/ sub.topic \notin broker'
      /\ missed' \in SUBSET Topic
  BY <1>1, GapTopics DEF UnsubscribeRemove, BrokerHas, TypeOK
<1>4. apc'[a] = "idle" /\ \A b \in App \ {a} : apc'[b] = apc[b] /\ arg'[b] = arg[b]
  BY <1>2 DEF TypeOK
<1>5. TypeOK'
  BY <1>2, <1>3 DEF UnsubscribeRemove, TypeOK, reconnectVars
<1>6. IdInv'
  BY <1>2, <1>4 DEF RecordInv, IdInv
<1>7. NoOrphan'
  <2>1. ASSUME NEW topic \in broker', topic \in Topics(subs)
        PROVE  topic \in Topics(subs')
    <3>1. CASE topic = sub.topic
      BY <2>1, <3>1, <1>3 DEF RecordInv, LinkInv
    <3>2. CASE topic # sub.topic
      BY <2>1, <3>2, <1>2 DEF Topics
    <3>3. QED
      BY <3>1, <3>2
  <2>2. InTheGap \subseteq InTheGap'
    BY <1>2, <1>4 DEF InTheGap
  <2>3. QED
    BY <2>1, <2>2, <1>3 DEF RecordInv, NoOrphan
<1>8. HeldIsRecorded'
  <2>1. held' \subseteq subs'
    BY <1>1, <1>2 DEF RecordInv, IdInv, HeldIsRecorded
  <2>2. \A s \in subs' \ held' : \E b \in App : apc'[b] = "remove" /\ arg'[b] = s
    BY <1>1, <1>2, <1>4 DEF RecordInv, HeldIsRecorded
  <2>3. \A b \in App : apc'[b] = "record" =>
            /\ \A s \in subs' : s.id # arg'[b].id
            /\ \A c \in App \ {b} :
                  apc'[c] \in {"record", "remove"} => arg'[c].id # arg'[b].id
    BY <1>2, <1>4 DEF RecordInv, HeldIsRecorded
  <2>4. QED
    BY <2>1, <2>2, <2>3 DEF HeldIsRecorded
<1>9. LinkInv'
  BY <1>2, <1>3 DEF RecordInv, LinkInv
<1>10. QED
  BY <1>5, <1>6, <1>7, <1>8, <1>9 DEF RecordInv

LEMMA AppSteps ==
    ASSUME TypeOK, RecordInv, NEW a \in App, AppCall(a) \/ AppStep(a)
    PROVE  TypeOK' /\ RecordInv'
<1> USE DEF connectFrame, subVars, reconnectVars, brokerVars, Goto
<1>1. CASE Connect(a)
  BY <1>1, ConnectKept, RecordKept DEF Connect, TypeOK
<1>2. CASE \/ Publish(a) \/ \E topic \in Topic : Subscribe(a, topic)
           \/ Reconnect(a) \/ Look(a)
  BY <1>2, Ensures
<1>3. CASE SubscribeDraw(a)
  BY <1>3, SubscribeDraws
<1>4. ASSUME NEW sub \in held, Unsubscribe(a, sub)
      PROVE  TypeOK' /\ RecordInv'
  BY <1>4, Unsubscribes
<1>5. CASE SubscribeSend(a)
  BY <1>5, SubscribeSends
<1>6. CASE SubscribeRecord(a)
  BY <1>6, SubscribeRecords
<1>7. CASE UnsubscribeRemove(a)
  BY <1>7, UnsubscribeRemoves
<1>8. ASSUME DisconnectBegin(a), apc[a] \in {"idle", "stop"},
             UNCHANGED <<link, broker, missed, loop, message, connected, subVars,
                         arg, reconnectVars, destroying, destroyed>>
      PROVE  TypeOK' /\ RecordInv'
  <2>1. cancelled' \in BOOLEAN
    BY <1>8 DEF DisconnectBegin, TypeOK
  <2>2. \E pc \in {"joining", "free", "idle"} : apc' = [apc EXCEPT ![a] = pc]
    BY <1>8 DEF DisconnectBegin
  <2>3. TypeOK'
    BY <1>8, <2>1, <2>2 DEF TypeOK
  <2>4. RecordInv'
    BY <1>8, <2>2, RecordKept DEF TypeOK, RecordInv, LinkInv
  <2>5. QED
    BY <2>3, <2>4
<1>9. CASE Disconnect(a) \/ DestroyDisconnect(a)
  BY <1>8, <1>9 DEF Disconnect, DestroyDisconnect
<1>10. CASE DisconnectEnd(a)
  BY <1>10, RecordKept, GapTopics DEF DisconnectEnd, BrokerHas, TypeOK
<1>11. CASE Destroy(a)
  BY <1>11, RecordKept DEF Destroy, TypeOK, RecordInv, LinkInv
<1>12. CASE DestroyFree(a)
  BY <1>12, RecordKept, GapTopics DEF DestroyFree, BrokerHas, TypeOK
<1>13. QED
  BY <1>1, <1>2, <1>3, <1>4, <1>5, <1>6, <1>7, <1>8, <1>9, <1>10, <1>11, <1>12
     DEF AppCall, AppStep

-----------------------------------------------------------------------------
(* The steps of the library's and the detached threads *)

LEMMA ScheduleKept ==
    ASSUME TypeOK, OneSleeper, ScheduleReconnect
    PROVE  /\ scheduled' \in BOOLEAN /\ sleepers' \in Nat /\ callers' \in Nat
           /\ OneSleeper'
<1>1. CASE AutoReconnect /\ ~scheduled
  <2>1. scheduled' = TRUE /\ sleepers' = sleepers + 1 /\ callers' = callers
    BY <1>1 DEF ScheduleReconnect
  <2>2. sleepers = 0
    BY <1>1 DEF OneSleeper
  <2>3. QED
    BY <2>1, <2>2 DEF TypeOK, OneSleeper
<1>2. CASE ~(AutoReconnect /\ ~scheduled)
  BY <1>2 DEF TypeOK, OneSleeper, ScheduleReconnect
<1>3. QED
  BY <1>1, <1>2

LEMMA ReconnectSteps ==
    ASSUME TypeOK, RecordInv, OneSleeper, ReconnectStep
    PROVE  TypeOK' /\ RecordInv' /\ OneSleeper'
<1>1. CASE ReconnectWake
  <2>1. TypeOK'
    <3>1. callers' \in Nat /\ sleepers' \in Nat /\ scheduled' = FALSE
      BY <1>1 DEF ReconnectWake, TypeOK
    <3>2. QED
      BY <1>1, <3>1 DEF ReconnectWake, TypeOK, subVars, brokerVars
  <2>2. OneSleeper'
    BY <1>1 DEF ReconnectWake, OneSleeper, TypeOK
  <2>3. RecordInv'
    BY <1>1, RecordStutter DEF ReconnectWake, subVars, brokerVars
  <2>4. QED
    BY <2>1, <2>2, <2>3
<1>2. CASE ReconnectConnect
  <2>1. TypeOK'
    BY <1>2, ConnectKept DEF ReconnectConnect, TypeOK, connectFrame, subVars
  <2>2. RecordInv'
    BY <1>2, ConnectKept, RecordKept
       DEF ReconnectConnect, TypeOK, connectFrame, subVars
  <2>3. OneSleeper'
    BY <1>2 DEF ReconnectConnect, OneSleeper, connectFrame
  <2>4. QED
    BY <2>1, <2>2, <2>3
<1>3. QED
  BY <1>1, <1>2 DEF ReconnectStep

LEMMA LoopSteps ==
    ASSUME TypeOK, RecordInv, OneSleeper, LoopStep \/ Network
    PROVE  TypeOK' /\ RecordInv' /\ OneSleeper'
<1> USE DEF loopFrame, reconnectVars, subVars, brokerVars
<1>1. ASSUME UNCHANGED <<link, brokerVars, reconnectVars, loopFrame>>, TypeOK'
      PROVE  TypeOK' /\ RecordInv' /\ OneSleeper'
  <2>1. RecordInv'
    BY <1>1, RecordStutter
  <2>2. OneSleeper'
    BY <1>1 DEF OneSleeper
  <2>3. QED
    BY <1>1, <2>1, <2>2
<1>2. CASE Announce \/ Deliver \/ LoopEnds
  BY <1>1, <1>2 DEF Announce, Deliver, LoopEnds, TypeOK
<1>3. CASE Match \/ \E topic \in Topic : Message(topic)
  BY <1>1, <1>3 DEF Match, Message, TypeOK
<1>4. CASE Resubscribe
  <2>1. Topics(subs) \subseteq Topic
    BY DEF TypeOK, Topics, Sub
  <2>2. TypeOK'
    BY <1>4, <2>1, GapTopics DEF Resubscribe, BrokerHas, TypeOK
  <2>3. OneSleeper' /\ IdInv' /\ HeldIsRecorded' /\ LinkInv'
    BY <1>4 DEF Resubscribe, BrokerHas, OneSleeper, RecordInv, IdInv, HeldIsRecorded,
                LinkInv
  <2>4. NoOrphan'
    BY <1>4 DEF Resubscribe, BrokerHas, RecordInv, NoOrphan, Topics, InTheGap
  <2>5. QED
    BY <2>2, <2>3, <2>4 DEF RecordInv
<1>5. CASE LibraryReconnect
  BY <1>5, RecordKept, GapTopics DEF LibraryReconnect, BrokerHas, TypeOK, OneSleeper
<1>6. CASE Accepted
  <2>1. TypeOK'
    BY <1>6 DEF Accepted, TypeOK
  <2>2. RecordInv' /\ OneSleeper'
    BY <1>6, RecordKept DEF Accepted, OneSleeper
  <2>3. QED
    BY <2>1, <2>2
<1>7. CASE Refused \/ Lost
  <2>1. /\ link' = "down" /\ broker' = {} /\ failures' = failures + 1
        /\ missed' \in SUBSET Topic
        /\ UNCHANGED <<loop, cancelled, message, loopFrame>>
    BY <1>7, GapTopics DEF Refused, Lost, BrokerHas, TypeOK
  <2>2. \/ UNCHANGED <<connected, scheduled, sleepers, callers>>
        \/ connected' = FALSE /\ ScheduleReconnect
    BY <1>7 DEF Refused, Lost
  <2>3. /\ connected' \in BOOLEAN /\ scheduled' \in BOOLEAN /\ sleepers' \in Nat
        /\ callers' \in Nat /\ OneSleeper'
    <3>1. CASE UNCHANGED <<connected, scheduled, sleepers, callers>>
      BY <3>1 DEF TypeOK, OneSleeper
    <3>2. CASE connected' = FALSE /\ ScheduleReconnect
      BY <3>2, ScheduleKept
    <3>3. QED
      BY <2>2, <3>1, <3>2
  <2>4. TypeOK'
    BY <2>1, <2>3 DEF TypeOK
  <2>5. RecordInv'
    BY <2>1, RecordKept
  <2>6. QED
    BY <2>3, <2>4, <2>5
<1>8. QED
  BY <1>2, <1>3, <1>4, <1>5, <1>6, <1>7 DEF LoopStep, Network

\* The application's steps leave the detached threads alone.
LEMMA AppSleepers ==
    ASSUME NEW a \in App, AppCall(a) \/ AppStep(a)
    PROVE  UNCHANGED <<scheduled, sleepers>>
  BY DEF AppCall, AppStep, Connect, Publish, Disconnect, Destroy, Subscribe,
         Unsubscribe, Reconnect, Look, SubscribeSend, SubscribeDraw, drawFrame,
         SubscribeRecord, UnsubscribeRemove, DisconnectEnd, DestroyDisconnect,
         DestroyFree, connectFrame, reconnectVars

-----------------------------------------------------------------------------
\* The types, the record of the bus and its sleeping thread, in every state, with
\* any number of threads, topics, subscriptions and failures.
THEOREM CoreInvariant == Spec => []CoreInv
<1>1. Init => CoreInv
  <2> SUFFICES ASSUME Init PROVE CoreInv
    OBVIOUS
  <2>1. TypeOK
    <3>2. arg \in [App -> [topic : Topic, id : Nat] \cup {NoSub}]
      BY DEF Init
    <3>3. apc \in [App -> {"idle", "reconnect", "look", "send", "draw", "record",
                           "remove", "joining", "stop", "free", "gone"}]
      BY DEF Init
    <3>4. /\ cancelled \in BOOLEAN /\ connected \in BOOLEAN
          /\ scheduled \in BOOLEAN /\ destroying \in BOOLEAN
          /\ destroyed \in BOOLEAN
      BY DEF Init
    <3>5. /\ link = "down" /\ broker = {} /\ loop = "off" /\ message = NoTopic
          /\ subs = {} /\ held = {} /\ nextId = 1 /\ missed = {}
          /\ sleepers = 0 /\ callers = 0 /\ failures = 0
      BY DEF Init
    <3>6. QED
      BY <3>2, <3>3, <3>4, <3>5 DEF TypeOK
  <2>2. RecordInv /\ OneSleeper
    BY DEF Init, RecordInv, IdInv, LinkInv, NoOrphan, HeldIsRecorded, OneSleeper
  <2>3. QED
    BY <2>1, <2>2 DEF CoreInv
<1>2. CoreInv /\ [Next]_vars => CoreInv'
  <2> SUFFICES ASSUME CoreInv, [Next]_vars PROVE CoreInv'
    OBVIOUS
  <2> USE DEF CoreInv
  <2>1. ASSUME NEW a \in App, AppCall(a) \/ AppStep(a)
        PROVE  CoreInv'
    BY <2>1, AppSteps, AppSleepers DEF OneSleeper
  <2>2. CASE ReconnectStep
    BY <2>2, ReconnectSteps
  <2>3. CASE LoopStep \/ Network
    BY <2>3, LoopSteps
  <2>4. CASE UNCHANGED vars
    BY <2>4, RecordStutter
       DEF vars, subVars, brokerVars, reconnectVars, TypeOK, OneSleeper
  <2>5. QED
    BY <2>1, <2>2, <2>3, <2>4 DEF Next
<1>3. QED
  BY <1>1, <1>2, PTL DEF Spec

\* Every variable of the bus keeps its type; the ids of subscriptions are not 0.
THEOREM TypeOKHolds == Spec => []TypeOK
  BY CoreInvariant, PTL DEF CoreInv

\* The broker never holds a subscription of this bus that is not on its record:
\* the last unsubscribe of a topic takes it back (messagebus.cpp:359-377).
THEOREM NoOrphanHolds == Spec => []NoOrphan
<1>1. CoreInv => NoOrphan
  BY DEF CoreInv, RecordInv
<1>2. QED
  BY <1>1, CoreInvariant, PTL

\* A Subscription that is active is on record, and what is on record is active
\* or being removed (messagebus.cpp:11-16, 169-176, 359-377).
THEOREM HeldIsRecordedHolds == Spec => []HeldIsRecorded
<1>1. CoreInv => HeldIsRecorded
  BY DEF CoreInv, RecordInv
<1>2. QED
  BY <1>1, CoreInvariant, PTL

\* One detached thread sleeps at a time (messagebus.cpp:341-351).
THEOREM OneSleeperHolds == Spec => []OneSleeper
<1>1. CoreInv => OneSleeper
  BY DEF CoreInv
<1>2. QED
  BY <1>1, CoreInvariant, PTL

-----------------------------------------------------------------------------
(* A connected bus has its network thread *)

\* A cancelled thread is there, and someone waits for it with the mutex held;
\* only a bus that is being destroyed and has disconnected is freed, by a thread
\* that is alone.
LoopInv ==
    /\ ConnectedHasLoop
    /\ cancelled => ~MutexFree /\ loop # "off"
    /\ \A a \in App : apc[a] \in {"free", "gone"} => ~connected
    /\ \A a \in App : apc[a] \in {"stop", "free", "gone"} => destroying
    /\ destroying => \A a, b \in App : a = b \/ apc[a] = "idle" \/ apc[b] = "idle"

\* a step that neither ends the thread nor moves a call to or from disconnect()
LEMMA LoopKept ==
    ASSUME LoopInv, loop # "off" => loop' # "off", cancelled' = cancelled,
           destroying' = destroying,
           connected' => connected \/ (loop # "off" /\ ~destroying),
           \A a \in App :
               \/ apc'[a] = apc[a]
               \/ /\ apc[a] \notin {"joining", "stop", "free", "gone"}
                  /\ apc'[a] \notin {"joining", "stop", "free", "gone"}
                  /\ apc[a] = "idle" /\ destroying => apc'[a] = "idle"
    PROVE  LoopInv'
<1>1. MutexFree' <=> MutexFree
  BY DEF MutexFree
<1>2. QED
  BY <1>1 DEF LoopInv, ConnectedHasLoop

LEMMA ConnectKeepsLoop ==
    ASSUME ConnectOutcome PROVE loop # "off" => loop' # "off"
  BY DEF ConnectOutcome

\* disconnect() takes the mutex with the thread cancelled, or returns at once
LEMMA DisconnectKeepsLoop ==
    ASSUME TypeOK, LoopInv, NEW a \in App, DisconnectBegin(a),
           apc[a] \in {"idle", "stop"}, apc[a] = "idle" => ~destroying,
           UNCHANGED <<loop, connected, destroying>>
    PROVE  LoopInv'
<1>1. MutexFree /\ ~cancelled
  BY DEF DisconnectBegin, LoopInv
<1>2. CASE connected
  <2>1. apc' = [apc EXCEPT ![a] = "joining"] /\ cancelled' = (loop # "off")
    BY <1>2 DEF DisconnectBegin, Goto
  <2>2. apc'[a] = "joining" /\ \A b \in App : b # a => apc'[b] = apc[b]
    BY <2>1 DEF TypeOK
  <2>3. ~MutexFree'
    BY <2>2 DEF MutexFree
  <2>4. QED
    BY <2>1, <2>2, <2>3 DEF LoopInv, ConnectedHasLoop
<1>3. CASE ~connected
  <2>1. cancelled' = cancelled
        /\ apc' = [apc EXCEPT ![a] = IF destroying THEN "free" ELSE "idle"]
    BY <1>3 DEF DisconnectBegin, Goto
  <2>2. \A b \in App : b # a => apc'[b] = apc[b]
    BY <2>1 DEF TypeOK
  <2>3. apc'[a] \in {"free", "idle"} /\ (apc'[a] = "free" => destroying)
    BY <2>1 DEF TypeOK
  <2>4. QED
    BY <1>1, <1>3, <2>1, <2>2, <2>3 DEF LoopInv, ConnectedHasLoop
<1>4. QED
  BY <1>2, <1>3

LEMMA AppKeepsLoop ==
    ASSUME TypeOK, LoopInv, NEW a \in App, AppCall(a) \/ AppStep(a)
    PROVE  LoopInv'
<1> USE DEF connectFrame, Goto
<1>1. CASE Connect(a)
  BY <1>1, ConnectKeepsLoop, LoopKept DEF Connect
<1>2. CASE Publish(a) \/ \E topic \in Topic : Subscribe(a, topic)
  <2>1. PICK pc \in {"idle", "send", "reconnect"} :
            apc' = [apc EXCEPT ![a] = pc]
    BY <1>2 DEF Publish, Subscribe, EnsureConnected
  <2>2. apc[a] = "idle" /\ ~destroying /\ UNCHANGED <<loop, connectFrame>>
    BY <1>2 DEF Publish, Subscribe, EnsureConnected
  <2>3. QED
    BY <2>1, <2>2, LoopKept DEF TypeOK
<1>3. CASE Reconnect(a) \/ Look(a)
  <2>1. PICK pc \in {"look", "idle", "send"} :
            apc' = [apc EXCEPT ![a] = pc] /\ apc[a] \in {"reconnect", "look"}
    BY <1>3 DEF Reconnect, Look
  <2>2. loop # "off" => loop' # "off"
    BY <1>3, ConnectKeepsLoop DEF Reconnect, Look
  <2>3. UNCHANGED <<cancelled, connected, destroying>>
    BY <1>3 DEF Reconnect, Look
  <2>4. QED
    BY <2>1, <2>2, <2>3, LoopKept DEF TypeOK
<1>4. CASE SubscribeSend(a)
  <2>1. apc[a] = "send" /\ \E pc \in {"idle", "draw"} : apc' = [apc EXCEPT ![a] = pc]
    BY <1>4 DEF SubscribeSend, Return
  <2>2. QED
    BY <1>4, <2>1, LoopKept DEF SubscribeSend, TypeOK
<1>5. CASE SubscribeDraw(a) \/ SubscribeRecord(a) \/ UnsubscribeRemove(a)
  BY <1>5, LoopKept DEF SubscribeDraw, drawFrame, SubscribeRecord,
                        UnsubscribeRemove, Return, TypeOK
<1>6. CASE \E sub \in held : Unsubscribe(a, sub)
  BY <1>6, LoopKept DEF Unsubscribe, TypeOK
<1>7. CASE Disconnect(a) \/ DestroyDisconnect(a)
  BY <1>7, DisconnectKeepsLoop DEF Disconnect, DestroyDisconnect
<1>8. CASE DisconnectEnd(a)
  <2>1. /\ connected' = FALSE /\ cancelled' = cancelled /\ loop = "off"
        /\ destroying' = destroying
        /\ apc' = [apc EXCEPT ![a] = IF destroying THEN "free" ELSE "idle"]
    BY <1>8 DEF DisconnectEnd
  <2>2. /\ \A b \in App : b # a => apc'[b] = apc[b]
        /\ apc'[a] \in {"free", "idle"} /\ (apc'[a] = "free" => destroying)
        /\ apc[a] = "joining"
    BY <1>8, <2>1 DEF DisconnectEnd, TypeOK
  <2>3. QED
    BY <2>1, <2>2 DEF LoopInv, ConnectedHasLoop
<1>9. CASE Destroy(a)
  <2>1. /\ MutexFree /\ UNCHANGED <<loop, cancelled, connected>>
        /\ destroying' = TRUE /\ apc' = [apc EXCEPT ![a] = "stop"]
    BY <1>9 DEF Destroy, MutexFree
  <2>2. apc'[a] = "stop" /\ \A b \in App : b # a => apc'[b] = "idle"
    BY <1>9, <2>1 DEF Destroy, TypeOK
  <2>3. QED
    BY <2>1, <2>2 DEF LoopInv, ConnectedHasLoop, MutexFree
<1>10. CASE DestroyFree(a)
  <2>1. /\ apc[a] = "free"
        /\ UNCHANGED <<cancelled, connected, destroying>>
        /\ apc' = [apc EXCEPT ![a] = "gone"]
    BY <1>10 DEF DestroyFree
  <2>2. destroying /\ ~connected /\ \A b \in App : b # a => apc[b] = "idle"
    BY <2>1 DEF LoopInv
  <2>3. ~cancelled
    BY <2>1, <2>2 DEF LoopInv, MutexFree
  <2>4. apc'[a] = "gone" /\ \A b \in App : b # a => apc'[b] = "idle"
    BY <2>1, <2>2 DEF TypeOK
  <2>5. QED
    BY <2>1, <2>2, <2>3, <2>4 DEF LoopInv, ConnectedHasLoop
<1>11. QED
  BY <1>1, <1>2, <1>3, <1>4, <1>5, <1>6, <1>7, <1>8, <1>9, <1>10
     DEF AppCall, AppStep

LEMMA OthersKeepLoop ==
    ASSUME TypeOK, LoopInv, ReconnectStep \/ LoopStep \/ Network
    PROVE  LoopInv'
<1> USE DEF connectFrame, loopFrame
<1>1. CASE ReconnectWake
  BY <1>1, LoopKept DEF ReconnectWake
<1>2. CASE ReconnectConnect
  BY <1>2, ConnectKeepsLoop, LoopKept DEF ReconnectConnect
<1>3. CASE LibraryReconnect \/ Accepted \/ Announce
  BY <1>3, LoopKept DEF LibraryReconnect, Accepted, Announce
<1>4. CASE Refused \/ Lost
  BY <1>4, LoopKept DEF Refused, Lost
<1>5. CASE Resubscribe \/ Match \/ Deliver \/ \E topic \in Topic : Message(topic)
  BY <1>5, LoopKept DEF Resubscribe, Match, Deliver, Message
<1>6. CASE LoopEnds
  BY <1>6 DEF LoopEnds, LoopInv, ConnectedHasLoop, MutexFree
<1>7. QED
  BY <1>1, <1>2, <1>3, <1>4, <1>5, <1>6 DEF ReconnectStep, LoopStep, Network

\* The invariant of the network thread: a connected bus that is free to
\* disconnect has one, a cancelled one is there and waited for, and whoever
\* frees the bus is alone (messagebus.cpp:38-52, 95-107, 232-234, 258-260).
THEOREM LoopInvariant == Spec => []LoopInv
<1>1. Init => LoopInv
  BY DEF Init, LoopInv, ConnectedHasLoop
<1>2. TypeOK /\ LoopInv /\ [Next]_vars => LoopInv'
  <2> SUFFICES ASSUME TypeOK, LoopInv, [Next]_vars PROVE LoopInv'
    OBVIOUS
  <2>1. CASE UNCHANGED vars
    BY <2>1, LoopKept DEF vars
  <2>2. QED
    BY <2>1, AppKeepsLoop, OthersKeepLoop DEF Next
<1>3. QED
  BY <1>1, <1>2, TypeOKHolds, PTL DEF Spec

\* When disconnect() is free to run, a bus that says it is connected has a
\* network thread, whoever connected it, reconnected it or destroys it
\* (messagebus.cpp:95-107, 232-234, 258-260).
THEOREM ConnectedHasLoopHolds == Spec => []ConnectedHasLoop
<1>1. LoopInv => ConnectedHasLoop
  BY DEF LoopInv
<1>2. QED
  BY <1>1, LoopInvariant, PTL

-----------------------------------------------------------------------------
(* What disconnect() waits for *)

\* One call waits for the thread, and it has cancelled the thread or the thread
\* has ended.
JoinInv ==
    /\ \A a, b \in App : apc[a] = "joining" /\ apc[b] = "joining" => a = b
    /\ ~MutexFree => loop = "off" \/ cancelled

\* a step that moves no call to disconnect() and, while one waits there, starts
\* no thread
LEMMA JoinKept ==
    ASSUME JoinInv, \A a \in App : apc'[a] = "joining" => apc[a] = "joining",
           \/ MutexFree \/ loop' = "off"
           \/ cancelled' = cancelled /\ loop' = loop
    PROVE  JoinInv'
<1>1. MutexFree => MutexFree'
  BY DEF MutexFree
<1>2. QED
  BY <1>1 DEF JoinInv

LEMMA DisconnectJoins ==
    ASSUME TypeOK, JoinInv, NEW a \in App, DisconnectBegin(a), loop' = loop
    PROVE  JoinInv'
<1>1. CASE connected
  <2>1. apc' = [apc EXCEPT ![a] = "joining"] /\ cancelled' = (loop # "off")
    BY <1>1 DEF DisconnectBegin, Goto
  <2>2. \A b \in App : apc'[b] = "joining" => b = a
    BY <2>1 DEF TypeOK, DisconnectBegin, MutexFree
  <2>3. QED
    BY <2>1, <2>2 DEF JoinInv
<1>2. CASE ~connected
  <2>1. /\ MutexFree
        /\ apc' = [apc EXCEPT ![a] = IF destroying THEN "free" ELSE "idle"]
    BY <1>2 DEF DisconnectBegin, Goto
  <2>2. \A b \in App : apc'[b] = "joining" => apc[b] = "joining"
    BY <2>1 DEF TypeOK
  <2>3. QED
    BY <2>1, <2>2, JoinKept
<1>3. QED
  BY <1>1, <1>2

LEMMA AppJoins ==
    ASSUME TypeOK, JoinInv, NEW a \in App, AppCall(a) \/ AppStep(a)
    PROVE  JoinInv'
<1> USE DEF connectFrame, Goto
<1>1. CASE \/ Publish(a) \/ \E topic \in Topic : Subscribe(a, topic)
           \/ Reconnect(a) \/ Look(a)
  <2>1. PICK pc \in {"idle", "send", "reconnect", "look"} :
            apc' = [apc EXCEPT ![a] = pc]
    BY <1>1 DEF Publish, Subscribe, EnsureConnected, Reconnect, Look
  <2>2. cancelled' = cancelled /\ (MutexFree \/ loop' = loop)
    BY <1>1 DEF Publish, Subscribe, EnsureConnected, Reconnect, Look
  <2>3. \A b \in App : apc'[b] = "joining" => apc[b] = "joining"
    BY <2>1 DEF TypeOK
  <2>4. QED
    BY <2>2, <2>3, JoinKept
<1>3. CASE Disconnect(a) \/ DestroyDisconnect(a)
  BY <1>3, DisconnectJoins DEF Disconnect, DestroyDisconnect
<1>4. ASSUME \/ Connect(a) \/ Destroy(a) \/ \E sub \in held : Unsubscribe(a, sub)
             \/ SubscribeSend(a) \/ SubscribeDraw(a) \/ SubscribeRecord(a)
             \/ UnsubscribeRemove(a) \/ DisconnectEnd(a) \/ DestroyFree(a)
      PROVE  JoinInv'
  <2>1. \A b \in App : apc'[b] = "joining" => apc[b] = "joining"
    BY <1>4 DEF Connect, Destroy, Unsubscribe, SubscribeSend, SubscribeDraw,
                drawFrame, SubscribeRecord, Return, UnsubscribeRemove,
                DisconnectEnd, DestroyFree, TypeOK
  <2>2. \/ MutexFree \/ loop' = "off"
        \/ cancelled' = cancelled /\ loop' = loop
    BY <1>4 DEF Connect, Destroy, Unsubscribe, SubscribeSend, SubscribeDraw,
                drawFrame, SubscribeRecord, Return, UnsubscribeRemove,
                DisconnectEnd, DestroyFree
  <2>3. QED
    BY <2>1, <2>2, JoinKept
<1>5. QED
  BY <1>1, <1>3, <1>4 DEF AppCall, AppStep

\* nobody else begins or ends a disconnect(), or starts the thread meanwhile
LEMMA OthersJoin ==
    ASSUME JoinInv, ReconnectStep \/ LoopStep \/ Network
    PROVE  JoinInv'
<1> USE DEF connectFrame, loopFrame
<1>1. apc' = apc
  BY DEF ReconnectStep, ReconnectWake, ReconnectConnect, LoopStep, Announce,
         Resubscribe, Match, Deliver, LoopEnds, Network, LibraryReconnect,
         Accepted, Refused, Lost, Message
<1>2. \/ MutexFree' \/ loop' = "off"
      \/ cancelled' = cancelled /\ (loop # "off" \/ loop' = loop)
  BY <1>1 DEF ReconnectStep, ReconnectWake, ReconnectConnect, LoopStep, Announce,
         Resubscribe, Match, Deliver, LoopEnds, Network, LibraryReconnect,
         Accepted, Refused, Lost, Message, MutexFree
<1>3. QED
  BY <1>1, <1>2 DEF JoinInv, MutexFree

\* disconnect() has caught the network thread in a callback that waits for the
\* mutex it holds itself.
Caught(a) == apc[a] = "joining" /\ loop \in {"resubscribe", "match"}

LEMMA CaughtStays ==
    ASSUME TypeOK, NEW a \in App, Caught(a), [Next]_vars
    PROVE  Caught(a)' /\ UNCHANGED <<loop, cancelled>>
<1> USE DEF Caught, connectFrame, loopFrame, Goto
<1>1. ~MutexFree
  BY DEF MutexFree
<1>2. ASSUME NEW b \in App, AppCall(b) \/ AppStep(b)
      PROVE  Caught(a)' /\ UNCHANGED <<loop, cancelled>>
  <2>1. CASE \/ Publish(b) \/ \E topic \in Topic : Subscribe(b, topic)
             \/ Reconnect(b) \/ Look(b)
    <3>1. apc[b] # "joining" /\ \E pc : apc' = [apc EXCEPT ![b] = pc]
      BY <2>1 DEF Publish, Subscribe, EnsureConnected, Reconnect, Look
    <3>2. UNCHANGED <<loop, cancelled>>
      BY <1>1, <2>1 DEF Publish, Subscribe, EnsureConnected, Reconnect, Look
    <3>3. QED
      BY <3>1, <3>2 DEF TypeOK
  <2>2. CASE \/ SubscribeSend(b) \/ SubscribeDraw(b)
             \/ \E sub \in held : Unsubscribe(b, sub)
    BY <2>2 DEF SubscribeSend, SubscribeDraw, drawFrame, Return, Unsubscribe, TypeOK
  <2>3. ~(\/ Connect(b) \/ Disconnect(b) \/ Destroy(b) \/ SubscribeRecord(b)
          \/ UnsubscribeRemove(b) \/ DisconnectEnd(b) \/ DestroyDisconnect(b)
          \/ DestroyFree(b))
    BY <1>1 DEF Connect, Disconnect, Destroy, SubscribeRecord, UnsubscribeRemove,
                DisconnectEnd, DestroyDisconnect, DestroyFree, DisconnectBegin
  <2>4. QED
    BY <1>2, <2>1, <2>2, <2>3 DEF AppCall, AppStep
<1>3. ASSUME ReconnectStep \/ LoopStep \/ Network
      PROVE  Caught(a)' /\ UNCHANGED <<loop, cancelled>>
  BY <1>1, <1>3 DEF ReconnectStep, ReconnectWake, ReconnectConnect, LoopStep,
         Announce, Resubscribe, Match, Deliver, LoopEnds, Network,
         LibraryReconnect, Accepted, Refused, Lost, Message
<1>4. CASE UNCHANGED vars
  BY <1>4 DEF vars
<1>5. QED
  BY <1>2, <1>3, <1>4 DEF Next

\* The invariant of disconnect(): one call at a time waits for the network
\* thread, and the thread is cancelled as long as it is there
\* (messagebus.cpp:70-107).
THEOREM JoinInvariant == Spec => []JoinInv
<1>1. Init => JoinInv
  BY DEF Init, JoinInv, MutexFree
<1>2. TypeOK /\ JoinInv /\ [Next]_vars => JoinInv'
  <2> SUFFICES ASSUME TypeOK, JoinInv, [Next]_vars PROVE JoinInv'
    OBVIOUS
  <2>1. CASE UNCHANGED vars
    BY <2>1, JoinKept DEF vars
  <2>2. QED
    BY <2>1, AppJoins, OthersJoin DEF Next
<1>3. QED
  BY <1>1, <1>2, TypeOKHolds, PTL DEF Spec

\* disconnect() waits only for a thread it has cancelled, and a thread caught in
\* a callback stays there (messagebus.cpp:95-107, 242, 282).
THEOREM DisconnectWaitsHolds == Spec => DisconnectWaits
<1> DEFINE Waits ==
      \A a \in App : apc[a] = "joining" =>
          /\ loop = "off" \/ cancelled
          /\ loop \in {"resubscribe", "match"} =>
                apc'[a] = "joining" /\ UNCHANGED <<loop, cancelled>>
<1>1. TypeOK /\ JoinInv /\ [Next]_vars => Waits
  BY CaughtStays DEF JoinInv, MutexFree, Caught
<1>2. QED
  BY <1>1, TypeOKHolds, JoinInvariant, PTL DEF Spec, DisconnectWaits

\* A disconnect() that catches the network thread in such a callback never
\* returns, whatever the application, the broker and the library do
\* (messagebus.cpp:97-101, 242, 282).
THEOREM CaughtForGood == ASSUME NEW a \in App PROVE Spec => [](Caught(a) => []Caught(a))
<1>1. TypeOK /\ Caught(a) /\ [Next]_vars => Caught(a)'
  BY CaughtStays
<1>2. QED
  BY <1>1, TypeOKHolds, PTL DEF Spec

-----------------------------------------------------------------------------
(* What is on record is subscribed *)

\* A topic in the gap, and with on_connect behind it every topic on record, is at
\* the broker or missed.
GapInv ==
    /\ InTheGap \subseteq broker \cup missed
    /\ link = "up" /\ loop \in {"idle", "match", "deliver"} /\ ~destroying
           => Topics(subs) \subseteq broker \cup missed

\* a step that sends and records nothing, and replaces the connection if at all
\* by one that is not up yet
LEMMA GapKept ==
    ASSUME GapInv, subs' = subs, destroying => destroying',
           UNCHANGED brokerVars \/ (BrokerHas({}) /\ link' # "up"),
           \A a \in App : apc'[a] \in {"draw", "record"} =>
               apc[a] \in {"draw", "record"} /\ arg'[a].topic = arg[a].topic,
           \/ link' # "up"
           \/ link = "up" /\ loop \in {"idle", "match", "deliver"}
           \/ loop' \notin {"idle", "match", "deliver"}
           \/ destroying'
    PROVE  GapInv'
<1>1. InTheGap' \subseteq InTheGap
  BY DEF InTheGap
<1>2. CASE UNCHANGED brokerVars
  BY <1>1, <1>2 DEF GapInv, brokerVars, Topics
<1>3. CASE BrokerHas({}) /\ link' # "up"
  BY <1>1, <1>3 DEF GapInv, BrokerHas
<1>4. QED
  BY <1>2, <1>3

LEMMA ConnectGap ==
    ASSUME ConnectOutcome
    PROVE  /\ UNCHANGED brokerVars \/ (BrokerHas({}) /\ link' # "up")
           /\ link' # "up" \/ (link' = link /\ loop' = loop)
  BY DEF ConnectOutcome

LEMMA AppGap ==
    ASSUME TypeOK, GapInv, NEW a \in App, AppCall(a) \/ AppStep(a)
    PROVE  GapInv'
<1> USE DEF connectFrame, Goto, Return, subVars
<1>1. CASE Connect(a)
  BY <1>1, ConnectGap, GapKept DEF Connect
<1>2. CASE Publish(a) \/ \E topic \in Topic : Subscribe(a, topic)
  <2>1. PICK pc \in {"idle", "send", "reconnect"} :
            apc' = [apc EXCEPT ![a] = pc]
    BY <1>2 DEF Publish, Subscribe, EnsureConnected
  <2>2. \A b \in App \ {a} : arg'[b] = arg[b]
    BY <1>2 DEF Publish, Subscribe, TypeOK
  <2>3. UNCHANGED <<link, brokerVars, loop, connectFrame>>
    BY <1>2 DEF Publish, Subscribe, EnsureConnected
  <2>4. QED
    BY <2>1, <2>2, <2>3, GapKept DEF TypeOK
<1>3. CASE Reconnect(a)
  <2>1. apc' = [apc EXCEPT ![a] = "look"]
        /\ UNCHANGED <<arg, connectFrame>>
    BY <1>3 DEF Reconnect
  <2>2. /\ UNCHANGED brokerVars \/ (BrokerHas({}) /\ link' # "up")
        /\ link' # "up" \/ (link' = link /\ loop' = loop)
    BY <1>3, ConnectGap DEF Reconnect
  <2>3. QED
    BY <2>1, <2>2, GapKept DEF TypeOK
<1>4. CASE Look(a)
  <2>1. PICK pc \in {"send", "idle"} : apc' = [apc EXCEPT ![a] = pc]
    BY <1>4 DEF Look
  <2>2. /\ \A b \in App \ {a} : arg'[b] = arg[b]
        /\ UNCHANGED <<link, brokerVars, loop, subs, destroying>>
    BY <1>4 DEF Look, TypeOK
  <2>3. QED
    BY <2>1, <2>2, GapKept DEF TypeOK
<1>5. CASE SubscribeSend(a)
  <2>1. CASE link = "down"
    BY <1>5, <2>1, GapKept DEF SubscribeSend, TypeOK
  <2>2. CASE link # "down"
    <3>1. /\ BrokerHas(broker \cup {arg[a].topic})
          /\ apc' = [apc EXCEPT ![a] = "draw"]
          /\ UNCHANGED <<link, loop, subs, arg, destroying>>
      BY <1>5, <2>2 DEF SubscribeSend
    <3>2. broker' \cup missed' = broker \cup missed \cup InTheGap \cup {arg[a].topic}
      BY <3>1 DEF BrokerHas
    <3>3. InTheGap' \subseteq InTheGap \cup {arg[a].topic}
      BY <3>1 DEF InTheGap, TypeOK
    <3>4. Topics(subs)' = Topics(subs)
      BY <3>1 DEF Topics
    <3>5. QED
      BY <3>1, <3>2, <3>3, <3>4 DEF GapInv
  <2>3. QED
    BY <2>1, <2>2
<1>6. CASE SubscribeDraw(a)
  <2>1. \A b \in App : apc'[b] \in {"draw", "record"} =>
            apc[b] \in {"draw", "record"} /\ arg'[b].topic = arg[b].topic
    BY <1>6 DEF SubscribeDraw, TypeOK
  <2>2. QED
    BY <1>6, <2>1, GapKept DEF SubscribeDraw, drawFrame
<1>7. CASE SubscribeRecord(a)
  <2>1. PICK sub : sub = arg[a]
    OBVIOUS
  <2>2. /\ apc[a] = "record" /\ subs' = subs \cup {sub}
        /\ apc' = [apc EXCEPT ![a] = "idle"] /\ arg' = [arg EXCEPT ![a] = NoSub]
        /\ UNCHANGED <<link, broker, missed, loop, destroying>>
    BY <1>7, <2>1 DEF SubscribeRecord, brokerVars
  <2>3. InTheGap' \subseteq InTheGap /\ sub.topic \in InTheGap
    BY <2>1, <2>2 DEF InTheGap, TypeOK
  <2>4. Topics(subs)' = Topics(subs) \cup {sub.topic}
    BY <2>2 DEF Topics
  <2>5. QED
    BY <2>2, <2>3, <2>4 DEF GapInv
<1>8. CASE UnsubscribeRemove(a)
  <2>1. PICK sub : sub = arg[a]
    OBVIOUS
  <2>2. PICK left : /\ BrokerHas(left)
                    /\ broker \subseteq left \cup (Topics(subs) \ Topics(subs'))
    <3>1. CASE arg[a].topic \in Topics(subs) \ Topics(subs') /\ link # "down"
      <4>1. BrokerHas(broker \ {arg[a].topic})
        BY <1>8, <3>1 DEF UnsubscribeRemove
      <4>2. broker \subseteq (broker \ {arg[a].topic}) \cup (Topics(subs) \ Topics(subs'))
        BY <3>1
      <4>3. QED
        BY <4>1, <4>2
    <3>2. CASE ~(arg[a].topic \in Topics(subs) \ Topics(subs') /\ link # "down")
      BY <1>8, <3>2 DEF UnsubscribeRemove
    <3>3. QED
      BY <3>1, <3>2
  <2>3. broker' \cup missed' = left \cup missed \cup InTheGap
    BY <2>2 DEF BrokerHas
  <2>4. /\ apc' = [apc EXCEPT ![a] = "idle"] /\ arg' = [arg EXCEPT ![a] = NoSub]
        /\ subs' = subs \ {sub} /\ UNCHANGED <<link, loop, destroying>>
    BY <1>8, <2>1 DEF UnsubscribeRemove
  <2>5. InTheGap' \subseteq InTheGap
    BY <2>4 DEF InTheGap, TypeOK
  <2>6. Topics(subs)' = Topics(subs') /\ Topics(subs') \subseteq Topics(subs)
    BY <2>4 DEF Topics
  <2>7. QED
    BY <2>2, <2>3, <2>4, <2>5, <2>6 DEF GapInv
<1>9. CASE \E sub \in held : Unsubscribe(a, sub)
  BY <1>9, GapKept DEF Unsubscribe, TypeOK
<1>10. CASE Disconnect(a) \/ DestroyDisconnect(a)
  <2>1. PICK pc \in {"joining", "free", "idle"} : apc' = [apc EXCEPT ![a] = pc]
    BY <1>10 DEF Disconnect, DestroyDisconnect, DisconnectBegin
  <2>2. UNCHANGED <<link, brokerVars, loop, subs, arg, destroying>>
    BY <1>10 DEF Disconnect, DestroyDisconnect
  <2>3. QED
    BY <2>1, <2>2, GapKept DEF TypeOK
<1>11. CASE DisconnectEnd(a)
  <2>1. PICK pc \in {"free", "idle"} : apc' = [apc EXCEPT ![a] = pc]
    BY <1>11 DEF DisconnectEnd
  <2>2. QED
    BY <1>11, <2>1, GapKept DEF DisconnectEnd, TypeOK
<1>12. CASE Destroy(a)
  BY <1>12, GapKept DEF Destroy, TypeOK
<1>13. CASE DestroyFree(a)
  BY <1>13, GapKept DEF DestroyFree, TypeOK
<1>14. QED
  BY <1>1, <1>2, <1>3, <1>4, <1>5, <1>6, <1>7, <1>8, <1>9, <1>10, <1>11, <1>12,
     <1>13 DEF AppCall, AppStep

LEMMA OthersGap ==
    ASSUME GapInv, ReconnectStep \/ LoopStep \/ Network
    PROVE  GapInv'
<1> USE DEF loopFrame, connectFrame, subVars, reconnectVars
<1>1. CASE ReconnectWake
  BY <1>1, GapKept DEF ReconnectWake
<1>2. CASE ReconnectConnect
  BY <1>2, ConnectGap, GapKept DEF ReconnectConnect
<1>3. CASE Announce \/ Match \/ Deliver \/ LoopEnds \/ \E topic \in Topic : Message(topic)
  <2>1. UNCHANGED <<link, brokerVars, loopFrame>>
    BY <1>3 DEF Announce, Match, Deliver, LoopEnds, Message
  <2>2. \/ loop \in {"idle", "match", "deliver"}
        \/ loop' \notin {"idle", "match", "deliver"}
    BY <1>3 DEF Announce, Match, Deliver, LoopEnds, Message
  <2>3. QED
    BY <2>1, <2>2, GapKept
<1>4. CASE Resubscribe
  <2>1. PICK topics : /\ BrokerHas(topics)
                      /\ broker \subseteq topics
                      /\ link # "down" => Topics(subs) \subseteq topics
    BY <1>4 DEF Resubscribe
  <2>2. /\ broker' = topics /\ broker' \cup missed' = topics \cup missed \cup InTheGap
    BY <2>1 DEF BrokerHas
  <2>3. InTheGap' = InTheGap /\ Topics(subs)' = Topics(subs) /\ link' = link
    BY <1>4 DEF Resubscribe, InTheGap, Topics
  <2>4. QED
    BY <2>1, <2>2, <2>3 DEF GapInv
<1>5. CASE LibraryReconnect
  BY <1>5, GapKept DEF LibraryReconnect
<1>6. CASE Accepted
  BY <1>6, GapKept DEF Accepted
<1>7. CASE Refused \/ Lost
  BY <1>7, GapKept DEF Refused, Lost
<1>8. QED
  BY <1>1, <1>2, <1>3, <1>4, <1>5, <1>6, <1>7 DEF ReconnectStep, LoopStep, Network

\* Once on_connect is over, what is on record is subscribed at the broker, except
\* for topics that were lost to it while a subscribe() was between the sending
\* and the recording: with any number of threads, reconnections and failures
\* (messagebus.cpp:159-175, 232-250, 331-339, 359-376).
THEOREM RecordedIsSubscribedHolds == Spec => []RecordedIsSubscribed
<1>1. Init => GapInv
  BY DEF Init, GapInv, InTheGap
<1>2. TypeOK /\ GapInv /\ [Next]_vars => GapInv'
  <2> SUFFICES ASSUME TypeOK, GapInv, [Next]_vars PROVE GapInv'
    OBVIOUS
  <2>1. CASE UNCHANGED vars
    BY <2>1, GapKept DEF vars, subVars
  <2>2. QED
    BY <2>1, AppGap, OthersGap DEF Next
<1>3. GapInv => RecordedIsSubscribed
  BY DEF GapInv, RecordedIsSubscribed
<1>4. QED
  BY <1>1, <1>2, <1>3, TypeOKHolds, PTL DEF Spec

-----------------------------------------------------------------------------
\* The record, the detached thread, the network thread and the mutex together.
BusInv == CoreInv /\ LoopInv /\ JoinInv

\* In every state of the bus, ids on record and under way are below the next one
\* and no two are the same, the broker has nothing that is not on record or about
\* to be, one thread at most holds the mutex in disconnect() and the network
\* thread is then gone or cancelled, a cancelled thread is there and waited for,
\* a connected bus has a network thread when the mutex is free, and one detached
\* thread sleeps exactly while a reconnection is scheduled
\* (messagebus.cpp:38-52, 95-107, 157-176, 341-377).
THEOREM BusInvariant == Spec => []BusInv
<1>1. CoreInv /\ LoopInv /\ JoinInv => BusInv
  BY DEF BusInv
<1>2. QED
  BY <1>1, CoreInvariant, LoopInvariant, JoinInvariant, PTL
=============================================================================
