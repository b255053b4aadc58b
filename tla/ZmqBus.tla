------------------------------- MODULE ZmqBus -------------------------------
(***************************************************************************)
(* The ZeroMQ message bus (component/messagebus): one context and up to    *)
(* four clients, all behind global shared pointers that mb_ipc_init        *)
(* replaces, while threads publish, push, pull, subscribe and receive.     *)
(*                                                                         *)
(* A generation is what one mb_ipc_init makes: a context and its clients.  *)
(* Every client shares its context, and mb_recv shares the subscriber it   *)
(* receives from, so that an old generation lives on under a receive that  *)
(* blocks.  uses and contextUses are the use counts of the shared pointers;*)
(* a destructor runs in the step that takes the last share.                *)
(*                                                                         *)
(* Callers are assumed to keep the rules the code needs and does not       *)
(* enforce: no call begins during mb_ipc_init, only mb_recv may be in      *)
(* progress when it begins (mb.cpp:52-74 use the globals unguarded), and a *)
(* client that is not thread safe is used by one call at a time.           *)
(*                                                                         *)
(* A message is its number; it is sent in two parts.  A subscription       *)
(* matches the topics it is a prefix of: the empty one all, any other its  *)
(* equal.                                                                  *)
(***************************************************************************)
EXTENDS Naturals, Sequences, FiniteSets

CONSTANTS
    Thread,        \* threads that call the bus
    Topic,         \* topics of messages
    Content,       \* contents of messages
    Empty,         \* the empty text, as a topic and as a content
    Flags,         \* the flags mb_ipc_init is called with, as sets of kinds
    MaxInits,      \* bound: calls of mb_ipc_init
    MaxMessages,   \* bound: messages published
    MaxPushes      \* bound: messages pushed

Kind == {"pub", "sub", "pull", "push"}
Order == <<"pub", "sub", "pull", "push">>   \* of resets and constructions
Generation == 1..MaxInits

ASSUME ThreadFinite == IsFiniteSet(Thread)
ASSUME FlagAssumption == Flags \subseteq SUBSET Kind
ASSUME InitAssumption == MaxInits \in Nat

VARIABLES
    gen,          \* the last generation begun
    safe,         \* generation -> its thread_safe
    asked,        \* mb_ipc_init's flag: clients it has still to make
    ipc, at,      \* where mb_ipc_init is: step, position in Order
    global,       \* kind -> generation of g_publisher, ..., 0 for null
    gcontext,     \* generation of g_context, 0 for null
    client,       \* kind -> generation -> state of the client and its socket
    uses,         \* kind -> generation -> shares of the client
    contextUses,  \* generation -> shares of the context
    op, pc, ref,  \* thread -> its call, where it is, the generation it uses
    parts,        \* thread -> parts its call has sent or received
    published,    \* messages given to publishers
    sending,      \* generation -> parts of its publisher's unfinished message
    torn,         \* history: messages whose content could not be sent
    subscribed,   \* generation -> subscriptions of its subscriber
    inbox,        \* generation -> messages its subscriber has not received
    pushed,       \* messages pushed
    pulls         \* generation -> messages its puller has not pulled

initVars == <<gen, safe, asked, ipc, at, global, gcontext>>
lifeVars == <<client, uses, contextUses>>
callVars == <<op, pc, ref, parts>>
socketVars == <<sending, subscribed, inbox, pulls>>
historyVars == <<published, torn, pushed>>
vars == <<initVars, lifeVars, callVars, socketVars, historyVars>>

Open == {"unconnected", "connected"}
Exists == {"noSocket"} \cup Open
Operation == {"pub", "sub", "recv", "pull", "push"}
KindOf(o) == IF o = "recv" THEN "sub" ELSE o

Init ==
    /\ gen = 0 /\ safe = [g \in Generation |-> FALSE] /\ asked = {}
    /\ ipc = "idle" /\ at = 1
    /\ global = [k \in Kind |-> 0] /\ gcontext = 0
    /\ client = [k \in Kind |-> [g \in Generation |-> "none"]]
    /\ uses = [k \in Kind |-> [g \in Generation |-> 0]]
    /\ contextUses = [g \in Generation |-> 0]
    /\ op = [t \in Thread |-> "none"] /\ pc = [t \in Thread |-> "idle"]
    /\ ref = [t \in Thread |-> 0] /\ parts = [t \in Thread |-> <<>>]
    /\ published = 0 /\ sending = [g \in Generation |-> <<>>] /\ torn = {}
    /\ subscribed = [g \in Generation |-> {}]
    /\ inbox = [g \in Generation |-> <<>>]
    /\ pushed = 0 /\ pulls = [g \in Generation |-> 0]

-----------------------------------------------------------------------------
(* mb_ipc_init *)

\* zmq_close gives up what the socket has received and an unfinished message.
\* Complete messages a peer has not taken yet linger (ZMQ_LINGER is never set,
\* so without limit): they are in no variable from the send on, and
\* zmq_ctx_term, which waits for them too, is not followed into that wait.
Close(k, g) ==
    /\ sending' = IF k = "pub" THEN [sending EXCEPT ![g] = <<>>] ELSE sending
    /\ subscribed' = IF k = "sub" THEN [subscribed EXCEPT ![g] = {}] ELSE subscribed
    /\ inbox' = IF k = "sub" THEN [inbox EXCEPT ![g] = <<>>] ELSE inbox
    /\ pulls' = IF k = "pull" THEN [pulls EXCEPT ![g] = 0] ELSE pulls

\* mutant: the client does not share its context
DropContextless(k, g) ==
    /\ uses' = [uses EXCEPT ![k][g] = @ - 1]
    /\ IF uses[k][g] = 1
       THEN client' = [client EXCEPT ![k][g] = "none"] /\ Close(k, g)
       ELSE UNCHANGED <<client, socketVars>>
    /\ UNCHANGED contextUses

\* one share of a client less; with the last one its socket is closed and its
\* share of the context given back (zmq_ctx_term with the last of these)
Drop(k, g) ==
    /\ uses' = [uses EXCEPT ![k][g] = @ - 1]
    /\ IF uses[k][g] = 1
       THEN /\ client' = [client EXCEPT ![k][g] = "none"]
            /\ contextUses' = [contextUses EXCEPT ![g] = @ - 1]
            /\ Close(k, g)
       ELSE UNCHANGED <<client, contextUses, socketVars>>

InitBegin(threadSafe, flag) ==
    /\ ipc = "idle" /\ gen < MaxInits
    /\ \A t \in Thread : pc[t] = "idle" \/ op[t] = "recv"
    /\ gen' = gen + 1
    /\ safe' = [safe EXCEPT ![gen + 1] = threadSafe]
    /\ asked' = flag
    /\ ipc' = "reset" /\ at' = 1
    /\ UNCHANGED <<global, gcontext, lifeVars, callVars, socketVars, historyVars>>

NextKind(end) ==
    IF at < Len(Order) THEN at' = at + 1 /\ UNCHANGED ipc
                       ELSE at' = 1 /\ ipc' = end

\* g_publisher.reset(), then the others
Reset ==
    /\ ipc = "reset"
    /\ LET k == Order[at] IN
       /\ global' = [global EXCEPT ![k] = 0]
       /\ IF global[k] # 0 THEN Drop(k, global[k])
          ELSE UNCHANGED <<lifeVars, socketVars>>
    /\ NextKind("context")
    /\ UNCHANGED <<gen, safe, asked, gcontext, callVars, historyVars>>

\* g_context.reset() and make_shared
NewContext ==
    /\ ipc = "context"
    /\ contextUses' = [g \in Generation |->
          CASE g = gen -> 1
            [] g = gcontext -> contextUses[g] - 1
            [] OTHER -> contextUses[g]]
    /\ gcontext' = gen
    /\ ipc' = "urls"
    /\ UNCHANGED <<gen, safe, asked, at, global, client, uses, callVars, socketVars, historyVars>>

\* GetConnectionUrl; without an answer mb_ipc_init returns
FetchUrls ==
    /\ ipc = "urls"
    /\ \/ ipc' = "make" /\ UNCHANGED asked
       \/ ipc' = "idle" /\ asked' = {}
    /\ UNCHANGED <<gen, safe, at, global, gcontext, lifeVars, callVars, socketVars, historyVars>>

\* make_shared and InitializeConnection: without a connection, or without a
\* socket, mb_ipc_init returns and the client stays
Make(outcome) ==
    /\ ipc = "make" /\ Order[at] \in asked
    /\ LET k == Order[at] IN
       /\ global' = [global EXCEPT ![k] = gen]
       /\ client' = [client EXCEPT ![k][gen] = outcome]
       /\ uses' = [uses EXCEPT ![k][gen] = 1]
    /\ contextUses' = [contextUses EXCEPT ![gen] = @ + 1]
    /\ IF outcome = "connected"
       THEN NextKind("idle") /\ asked' = asked \ {Order[at]}
       ELSE ipc' = "idle" /\ at' = 1 /\ asked' = {}
    /\ UNCHANGED <<gen, safe, gcontext, callVars, socketVars, historyVars>>

Skip ==
    /\ ipc = "make" /\ Order[at] \notin asked
    /\ NextKind("idle")
    /\ UNCHANGED <<gen, safe, asked, global, gcontext, lifeVars, callVars, socketVars, historyVars>>

-----------------------------------------------------------------------------
(* The calls: mb_pub, mb_sub, mb_recv, mb_pull, mb_push *)

UsesClient(t, k, g) == pc[t] # "idle" /\ KindOf(op[t]) = k /\ ref[t] = g

\* mutant: mb_recv goes on with the global's share
CallUnshared(t, o) ==
    LET k == KindOf(o)
        g == global[KindOf(o)]
    IN  /\ ipc = "idle" /\ pc[t] = "idle" /\ g # 0
        /\ safe[g] \/ \A u \in Thread : ~UsesClient(u, k, g)
        /\ op' = [op EXCEPT ![t] = o]
        /\ pc' = [pc EXCEPT ![t] = "lock"]
        /\ ref' = [ref EXCEPT ![t] = g]
        /\ UNCHANGED <<initVars, lifeVars, parts, socketVars, historyVars>>

\* a global that is null makes the call return at once; mb_recv takes a share
Call(t, o) ==
    LET k == KindOf(o)
        g == global[KindOf(o)]
    IN  /\ ipc = "idle" /\ pc[t] = "idle" /\ g # 0
        /\ safe[g] \/ \A u \in Thread : ~UsesClient(u, k, g)
        /\ op' = [op EXCEPT ![t] = o]
        /\ pc' = [pc EXCEPT ![t] = "lock"]
        /\ ref' = [ref EXCEPT ![t] = g]
        /\ uses' = IF o = "recv" THEN [uses EXCEPT ![k][g] = @ + 1] ELSE uses
        /\ UNCHANGED <<initVars, client, contextUses, parts, socketVars, historyVars>>

ClientOf(t) == client[KindOf(op[t])][ref[t]]

\* t is inside the critical section of an OptionalLock
Inside(t) == pc[t] \in {"content", "part", "return", "pull"}

\* mutant: only the subscriber takes the lock
MayEnterSub(t) ==
    /\ pc[t] = "lock"
    /\ safe[ref[t]] /\ KindOf(op[t]) = "sub" => \A u \in Thread \ {t} :
          UsesClient(u, KindOf(op[t]), ref[t]) => ~Inside(u)

\* mutant: Subscribe takes no lock
MayEnterSubscribe(t) ==
    /\ pc[t] = "lock"
    /\ safe[ref[t]] /\ op[t] # "sub" => \A u \in Thread \ {t} :
          UsesClient(u, KindOf(op[t]), ref[t]) => ~Inside(u)

\* OptionalLock: nobody else holds the mutex of the client, if it takes one
MayEnter(t) ==
    /\ pc[t] = "lock"
    /\ safe[ref[t]] => \A u \in Thread \ {t} :
          UsesClient(u, KindOf(op[t]), ref[t]) => ~Inside(u)

Goto(t, place) == pc' = [pc EXCEPT ![t] = place]
Return(t) ==
    /\ Goto(t, "idle")
    /\ op' = [op EXCEPT ![t] = "none"]
    /\ ref' = [ref EXCEPT ![t] = 0]
    /\ parts' = [parts EXCEPT ![t] = <<>>]

Part(m, isContent, text) == [msg |-> m, content |-> isContent, text |-> text]

\* Publish, first zmq_send: the topic, more to come
PublishTopic(t, topic) ==
    LET g == ref[t]
        part == Part(published + 1, FALSE, topic)
    IN  /\ op[t] = "pub" /\ MayEnter(t)
        /\ ClientOf(t) \in Open /\ published < MaxMessages
        /\ published' = published + 1
        /\ sending' = [sending EXCEPT ![g] = Append(@, part)]
        /\ parts' = [parts EXCEPT ![t] = <<part>>]
        /\ Goto(t, "content")
        /\ UNCHANGED <<initVars, lifeVars, op, ref, torn, subscribed, inbox,
                       pushed, pulls>>

Accepts(g, topic) ==
    /\ client["sub"][g] = "connected"
    /\ topic \in subscribed[g] \/ Empty \in subscribed[g]

\* second zmq_send: the message is complete and reaches the subscribers, or
\* some of them; without memory it fails and the parts sent so far remain
PublishContent(t, content) ==
    LET g == ref[t]
        m == parts[t][1].msg
        message == Append(sending[g], Part(m, TRUE, content))
    IN  /\ op[t] = "pub" /\ pc[t] = "content"
        /\ \/ /\ \E to \in SUBSET {h \in Generation : Accepts(h, message[1].text)} :
                    /\ ClientOf(t) = "unconnected" => to = {}
                    /\ inbox' = [h \in Generation |->
                          IF h \in to THEN Append(inbox[h], message) ELSE inbox[h]]
              /\ sending' = [sending EXCEPT ![g] = <<>>]
              /\ UNCHANGED torn
           \/ torn' = torn \cup {m} /\ UNCHANGED <<inbox, sending>>
        /\ Return(t)
        /\ UNCHANGED <<initVars, lifeVars, published, subscribed, pushed, pulls>>

\* Subscribe; the receive thread it could start is never asked for
Subscribe(t, topics) ==
    /\ op[t] = "sub" /\ MayEnter(t) /\ ClientOf(t) \in Open
    /\ subscribed' = [subscribed EXCEPT ![ref[t]] = @ \cup topics]
    /\ Return(t)
    /\ UNCHANGED <<initVars, lifeVars, published, sending, torn, inbox, pushed, pulls>>

\* Push of a text that is not empty; it goes to one puller, here or elsewhere
Push(t) ==
    /\ op[t] = "push" /\ MayEnter(t)
    /\ ClientOf(t) = "connected" /\ pushed < MaxPushes
    /\ pushed' = pushed + 1
    /\ \/ UNCHANGED pulls
       \/ \E g \in Generation :
             /\ client["pull"][g] = "connected"
             /\ pulls' = [pulls EXCEPT ![g] = @ + 1]
    /\ Return(t)
    /\ UNCHANGED <<initVars, lifeVars, published, sending, torn, subscribed, inbox>>

\* PullMessage and ReceiveMessage take the lock and keep it while they wait
PullEnter(t) ==
    /\ op[t] = "pull" /\ MayEnter(t) /\ ClientOf(t) \in Open
    /\ Goto(t, "pull")
    /\ UNCHANGED <<initVars, lifeVars, op, ref, parts, socketVars, historyVars>>

Pull(t) ==
    /\ op[t] = "pull" /\ pc[t] = "pull" /\ pulls[ref[t]] > 0
    /\ pulls' = [pulls EXCEPT ![ref[t]] = @ - 1]
    /\ Return(t)
    /\ UNCHANGED <<initVars, lifeVars, published, sending, torn, subscribed, inbox,
                   pushed>>

ReceiveEnter(t) ==
    /\ op[t] = "recv" /\ MayEnter(t) /\ ClientOf(t) \in Open
    /\ Goto(t, "part")
    /\ UNCHANGED <<initVars, lifeVars, op, ref, parts, socketVars, historyVars>>

\* zmq_msg_recv of one part: an empty one ends the loop, and what follows it
\* in its message is left to the next call
ReceivePart(t) ==
    LET g == ref[t]
        first == Head(inbox[g])
        rest == Tail(first)
    IN  /\ op[t] = "recv" /\ pc[t] = "part" /\ inbox[g] # <<>>
        /\ inbox' = [inbox EXCEPT ![g] =
              IF rest = <<>> THEN Tail(@) ELSE <<rest>> \o Tail(@)]
        /\ IF Head(first).text = Empty
           THEN Goto(t, "return") /\ UNCHANGED parts
           ELSE /\ parts' = [parts EXCEPT ![t] = Append(@, Head(first))]
                /\ Goto(t, IF rest = <<>> THEN "return" ELSE "part")
        /\ UNCHANGED <<initVars, lifeVars, op, ref, published, sending, torn,
                       subscribed, pushed, pulls>>

\* zmq_msg_recv fails, by a signal: the call returns with what it has
Interrupt(t) ==
    /\ \/ /\ op[t] = "recv" /\ pc[t] = "part"
          /\ Goto(t, "return") /\ UNCHANGED <<op, ref, parts>>
       \/ op[t] = "pull" /\ pc[t] = "pull" /\ Return(t)
    /\ UNCHANGED <<initVars, lifeVars, socketVars, historyVars>>

\* the lock and then the share of the subscriber are given back
ReceiveReturn(t) ==
    /\ op[t] = "recv" /\ pc[t] = "return"
    /\ Drop("sub", ref[t])
    /\ Return(t)
    /\ UNCHANGED <<initVars, historyVars>>

\* the first ZeroMQ function of the call fails, as each does on a client without
\* a socket, or Push is given an empty text: the call returns
Fail(t) ==
    /\ MayEnter(t)
    /\ IF op[t] = "recv" THEN Drop("sub", ref[t]) ELSE UNCHANGED <<lifeVars, socketVars>>
    /\ Return(t)
    /\ UNCHANGED <<initVars, historyVars>>

-----------------------------------------------------------------------------
InitStep == Reset \/ NewContext \/ FetchUrls \/ Skip \/ \E outcome \in Exists : Make(outcome)

CallStep(t) ==
    \/ \E topic \in Topic \cup {Empty} : PublishTopic(t, topic)
    \/ \E topics \in SUBSET (Topic \cup {Empty}) : Subscribe(t, topics)
    \/ \E content \in Content \cup {Empty} : PublishContent(t, content)
    \/ Push(t) \/ PullEnter(t) \/ Pull(t)
    \/ ReceiveEnter(t) \/ ReceivePart(t) \/ ReceiveReturn(t)
    \/ Interrupt(t) \/ Fail(t)

Next ==
    \/ \E threadSafe \in BOOLEAN, flag \in Flags : InitBegin(threadSafe, flag)
    \/ InitStep
    \/ \E t \in Thread : CallStep(t) \/ \E o \in Operation : Call(t, o)

Spec == Init /\ [][Next]_vars

-----------------------------------------------------------------------------
(* Properties *)

TypeOK ==
    /\ gen \in 0..MaxInits /\ safe \in [Generation -> BOOLEAN] /\ asked \subseteq Kind
    /\ ipc \in {"idle", "reset", "context", "urls", "make"} /\ at \in 1..4
    /\ global \in [Kind -> 0..MaxInits] /\ gcontext \in 0..MaxInits
    /\ client \in [Kind -> [Generation -> Exists \cup {"none"}]]
    /\ uses \in [Kind -> [Generation -> Nat]]
    /\ contextUses \in [Generation -> Nat]
    /\ op \in [Thread -> Operation \cup {"none"}]
    /\ pc \in [Thread -> {"idle", "lock", "content", "part", "return", "pull"}]
    /\ ref \in [Thread -> 0..MaxInits]
    /\ \A t \in Thread : pc[t] # "idle" => ref[t] # 0
    /\ torn \subseteq Nat /\ published \in Nat /\ pushed \in Nat
    /\ pulls \in [Generation -> Nat]
    /\ subscribed \in [Generation -> SUBSET (Topic \cup {Empty})]

Shares(k, g) == global[k] = g \/ \E t \in Thread : op[t] = "recv" /\ UsesClient(t, k, g)

\* Nothing is closed early and nothing lives too long: a client is there
\* exactly while a global or a receive shares it, so that every call in
\* progress has its client, and a context is there while, and only while, it
\* is the global one or a client of it is left, so that zmq_ctx_term never
\* waits for a socket that is open; it may still wait for messages that linger
\* of closed ones.  mb_ipc_init may replace everything under a receive
\* that blocks (mb.cpp:11-17, 84; mb_client.h:14-22; mb_context.cpp:11-14).
Lifetimes ==
    /\ \A k \in Kind, g \in Generation : client[k][g] \in Exists <=> Shares(k, g)
    /\ \A t \in Thread : pc[t] # "idle" => ClientOf(t) \in Exists
    /\ \A g \in Generation : contextUses[g] > 0 <=>
          gcontext = g \/ \E k \in Kind : client[k][g] \in Exists

\* A frame mb_recv returns is the topic and the content of one mb_pub, although
\* each is a message part sent and received on its own, by threads that share
\* sockets and with empty parts among them.  Only a message whose
\* content could not be sent leaves its topic in front of the next one, which
\* is then taken for the content (mb_publisher.cpp:23-31,
\* mb_subscriber.cpp:56-80).
FramesWhole ==
    \A t \in Thread :
        op[t] = "recv" /\ pc[t] = "return" /\ Len(parts[t]) > 1
            /\ parts[t][1].msg \notin torn
        => /\ ~parts[t][1].content /\ parts[t][2].content
           /\ parts[t][1].msg = parts[t][2].msg

\* t makes the first subscription of a client that takes a lock, while u waits
\* with it for a message, which nobody can have sent
Starved(t, u) ==
    /\ op[t] = "sub" /\ pc[t] = "lock" /\ op[u] = "recv" /\ pc[u] = "part"
    /\ ref[t] = ref[u] /\ safe[ref[t]]
    /\ subscribed[ref[t]] = {} /\ inbox[ref[t]] = <<>>

\* A first subscription that finds another thread in mb_recv never gets
\* through: no publication, call, return or initialization of any thread ends
\* the wait, for the lock it needs is released by a message that only the
\* subscription could bring.  Only a signal to the receiver does
\* (mb_subscriber.cpp:27, 56-65).
SubscribeStarves ==
    [][\A t, u \in Thread : Starved(t, u) => Starved(t, u)' \/ Interrupt(u)]_vars
=============================================================================
