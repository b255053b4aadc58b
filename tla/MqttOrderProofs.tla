--------------------------- MODULE MqttOrderProofs ---------------------------
(***************************************************************************)
(* For any set of task objects, names, filters and topics and any bound on *)
(* the arrivals: the dispatcher, the tasks and the manager implement       *)
(* OrderedDelivery, and a task in the manager's map handles what it gets.  *)
(*                                                                         *)
(* The messages of a task wait in a line: those handled, the one its       *)
(* thread holds, its queue.  The invariant says that each follows the one  *)
(* before it without a wanted message between them, and, as long as the    *)
(* task is registered, that the dispatcher has left out none since the     *)
(* last one in the line.                                                   *)
(***************************************************************************)
EXTENDS MqttDispatchProofs, SequenceTheorems

\* the messages the dispatcher has taken from its queue
Taken == Len(arrived) - Len(inbox)

Serving == dpc \in {"dispatch", "push", "notify"}

\* The queue of the dispatcher holds the messages after the one it serves, and
\* whom it has still to serve wants that one.
InboxInv ==
    /\ Taken \in Nat
    /\ \A i \in 1..Len(inbox) : inbox[i] = Taken + i
    /\ Serving => Taken > 0 /\ dmsg = Taken
    /\ dpc \in {"push", "notify"} => \A n \in dtodo :
           registry[n] \in Task /\ arrived[dmsg] \in Wanted(registry[n])

\* a task that has not come to run its thread
NotStarted(t) ==
    object[t] = "unborn" \/ (mpc \in {"regQueue", "regNotifier", "start"} /\ cur = t)

ThreadInv(t) ==
    /\ NotStarted(t) => tpc[t] = "off"
    /\ tpc[t] = "off" => handled[t] = <<>>
    /\ tmsg[t] # 0 <=> tpc[t] = "process"
    /\ handled[t] # <<>> => handlers[t] # {}
    /\ object[t] = "unborn" \/ (mpc = "regQueue" /\ cur = t) =>
           queue[t] = <<>> /\ registry[NameOf[t]] # t

\* m comes after k in t's line
Gapless(t, k, m) ==
    k < m /\ \A i \in (k + 1)..(m - 1) : arrived[i] \notin Wanted(t)

\* the dispatcher serves a message, but has not come to t yet
Awaits(t) ==
    \/ dpc = "dispatch"
    \/ dpc = "push" /\ NameOf[t] \in dtodo
    \/ dpc = "notify" /\ NameOf[t] \in dtodo /\ ~IsNextName(NameOf[t])

\* the first message of which the dispatcher has not decided for t
Ahead(t) == IF Awaits(t) THEN Taken ELSE Taken + 1

InLine(t, m) == m \in 1..Taken /\ arrived[m] \in Wanted(t)

LastHandled(t) == handled[t][Len(handled[t])].msg

RangeInv(t) ==
    /\ \A i \in 1..Len(queue[t]) : InLine(t, queue[t][i])
    /\ tmsg[t] # 0 => InLine(t, tmsg[t])
    /\ handled[t] # <<>> => InLine(t, LastHandled(t))

ChainInv(t) ==
    /\ \A i \in 1..Len(queue[t]) - 1 : Gapless(t, queue[t][i], queue[t][i + 1])
    /\ tmsg[t] # 0 /\ queue[t] # <<>> => Gapless(t, tmsg[t], queue[t][1])
    /\ handled[t] # <<>> /\ tmsg[t] # 0 => Gapless(t, LastHandled(t), tmsg[t])
    /\ handled[t] # <<>> /\ tmsg[t] = 0 /\ queue[t] # <<>> =>
           Gapless(t, LastHandled(t), queue[t][1])

ReachInv(t) ==
    registry[NameOf[t]] = t =>
        /\ queue[t] # <<>> => Gapless(t, queue[t][Len(queue[t])], Ahead(t))
        /\ queue[t] = <<>> /\ tmsg[t] # 0 => Gapless(t, tmsg[t], Ahead(t))
        /\ queue[t] = <<>> /\ tmsg[t] = 0 /\ handled[t] # <<>> =>
               Gapless(t, LastHandled(t), Ahead(t))

LineInv(t) == ThreadInv(t) /\ RangeInv(t) /\ ChainInv(t) /\ ReachInv(t)
OrderInv == InboxInv /\ \A t \in Task : LineInv(t)

-----------------------------------------------------------------------------
(* What a step does to the line of one task *)

LineTypes(t) ==
    /\ queue[t] \in Seq(Nat) /\ tmsg[t] \in Nat /\ handled[t] \in Seq(Call)
    /\ arrived \in Seq(Topic) /\ inbox \in Seq(Nat)

EmptyLine(t) == queue[t] = <<>> /\ tmsg[t] = 0 /\ handled[t] = <<>>

\* Messages arrive, the dispatcher takes one or leaves t out: t's line stays.
LEMMA LineKept ==
    ASSUME NEW t \in Task, LineTypes(t), RangeInv(t), ChainInv(t), ReachInv(t),
           Taken \in Nat, Taken' \in Nat, Taken <= Taken',
           \A i \in 1..Taken : arrived'[i] = arrived[i],
           queue'[t] = queue[t], tmsg'[t] = tmsg[t], handled'[t] = handled[t],
           registry'[NameOf[t]] = t =>
               \/ EmptyLine(t)
               \/ /\ registry[NameOf[t]] = t /\ Ahead(t) <= Ahead(t)'
                  /\ \A i \in Ahead(t)..(Ahead(t)' - 1) : arrived'[i] \notin Wanted(t)
    PROVE  RangeInv(t)' /\ ChainInv(t)' /\ ReachInv(t)'
<1> DEFINE after == arrived'
           Gap(k, m) == k < m /\ \A i \in (k + 1)..(m - 1) : after[i] \notin Wanted(t)
<1>1. ASSUME NEW m, InLine(t, m) PROVE InLine(t, m)'
  BY <1>1 DEF InLine
<1>2. ASSUME NEW k \in Nat, NEW m \in Nat, m <= Taken + 1, Gapless(t, k, m)
      PROVE  Gap(k, m)
  BY <1>2 DEF Gapless
<1>3. RangeInv(t)'
  <2>1. LastHandled(t)' = LastHandled(t)
    BY DEF LastHandled
  <2>2. \A i \in 1..Len(queue[t]) : InLine(t, queue[t][i])'
    BY <1>1 DEF RangeInv
  <2>3. tmsg[t] # 0 => InLine(t, tmsg[t])'
    BY <1>1 DEF RangeInv
  <2>4. handled[t] # <<>> => InLine(t, LastHandled(t))'
    BY <1>1, <2>1 DEF RangeInv
  <2>5. QED
    BY <2>1, <2>2, <2>3, <2>4 DEF RangeInv, InLine
<1>4. ChainInv(t)'
  <2>1. \A i \in 1..Len(queue[t]) : queue[t][i] \in Nat /\ queue[t][i] <= Taken
    BY DEF RangeInv, InLine
  <2>2. ASSUME NEW i \in 1..Len(queue[t]) - 1
        PROVE  Gap(queue[t][i], queue[t][i + 1])
    <3>1. Len(queue[t]) \in Nat
      BY DEF LineTypes
    <3>2. i \in 1..Len(queue[t]) /\ i + 1 \in 1..Len(queue[t])
      BY <3>1
    <3>3. /\ queue[t][i] \in Nat /\ queue[t][i + 1] \in Nat
          /\ queue[t][i + 1] <= Taken + 1 /\ Gapless(t, queue[t][i], queue[t][i + 1])
      BY <2>1, <3>2 DEF ChainInv
    <3>4. QED
      BY <3>3, <1>2
  <2>3. /\ tmsg[t] # 0 /\ queue[t] # <<>> => Gap(tmsg[t], queue[t][1])
        /\ handled[t] # <<>> /\ tmsg[t] # 0 => Gap(LastHandled(t), tmsg[t])
        /\ handled[t] # <<>> /\ tmsg[t] = 0 /\ queue[t] # <<>> =>
               Gap(LastHandled(t), queue[t][1])
    <3>1. queue[t] # <<>> => queue[t][1] \in Nat /\ queue[t][1] <= Taken + 1
      <4>1. queue[t] # <<>> => 1 \in 1..Len(queue[t])
        BY DEF LineTypes
      <4>2. QED
        BY <2>1, <4>1
    <3>2. tmsg[t] # 0 => tmsg[t] \in Nat /\ tmsg[t] <= Taken + 1
      BY DEF RangeInv, InLine
    <3>3. handled[t] # <<>> => LastHandled(t) \in Nat
      BY DEF RangeInv, InLine
    <3>4. QED
      BY <1>2, <3>1, <3>2, <3>3 DEF ChainInv
  <2>4. QED
    BY <2>2, <2>3 DEF ChainInv, Gapless, LastHandled
<1>5. ReachInv(t)'
  <2> SUFFICES ASSUME registry'[NameOf[t]] = t, ~EmptyLine(t)
               PROVE  ReachInv(t)'
    BY DEF ReachInv, EmptyLine
  <2> DEFINE a == Ahead(t)
             b == Ahead(t)'
  <2>1. a \in Nat /\ a <= Taken + 1 /\ b \in Nat
    BY DEF Ahead
  <2>2. ASSUME NEW k \in Nat, Gapless(t, k, a) PROVE Gap(k, b)
    <3>1. Gap(k, a)
      BY <2>1, <2>2, <1>2
    <3>2. a <= b /\ \A i \in a..(b - 1) : after[i] \notin Wanted(t)
      OBVIOUS
    <3>3. QED
      BY <2>1, <3>1, <3>2
  <2>3. /\ queue[t] # <<>> => queue[t][Len(queue[t])] \in Nat
        /\ tmsg[t] \in Nat
        /\ handled[t] # <<>> => LastHandled(t) \in Nat
    BY DEF LineTypes, RangeInv, InLine
  <2>4. /\ queue[t] # <<>> => Gap(queue[t][Len(queue[t])], b)
        /\ queue[t] = <<>> /\ tmsg[t] # 0 => Gap(tmsg[t], b)
        /\ queue[t] = <<>> /\ tmsg[t] = 0 /\ handled[t] # <<>> =>
               Gap(LastHandled(t), b)
    BY <2>2, <2>3 DEF ReachInv, EmptyLine
  <2>5. QED
    BY <2>4 DEF ReachInv, Gapless, LastHandled
<1>6. QED
  BY <1>3, <1>4, <1>5

\* The dispatcher serves t.
LEMMA LinePushed ==
    ASSUME NEW t \in Task, LineTypes(t), RangeInv(t), ChainInv(t), ReachInv(t),
           Taken \in Nat, Taken > 0, arrived[Taken] \in Wanted(t),
           arrived' = arrived, inbox' = inbox,
           tmsg'[t] = tmsg[t], handled'[t] = handled[t],
           registry[NameOf[t]] = t, Awaits(t), Awaits(t)' = FALSE,
           queue'[t] = Append(queue[t], Taken)
    PROVE  RangeInv(t)' /\ ChainInv(t)' /\ ReachInv(t)'
<1> DEFINE q == queue[t]
           n == Len(queue[t])
<1>1. /\ Taken' = Taken /\ Ahead(t) = Taken /\ Ahead(t)' = Taken + 1
      /\ LastHandled(t)' = LastHandled(t) /\ tmsg'[t] = tmsg[t]
  BY DEF Taken, Ahead, LastHandled
<1>2. /\ n \in Nat /\ Len(queue'[t]) = n + 1 /\ queue'[t] # <<>>
      /\ queue'[t][n + 1] = Taken
      /\ \A i \in 1..n : queue'[t][i] = q[i]
      /\ q = <<>> <=> n = 0
  <2> DEFINE s == Append(q, Taken)
  <2>1. q \in Seq(Nat)
    BY DEF LineTypes
  <2>2. /\ Len(s) = n + 1 /\ s[n + 1] = Taken /\ s # <<>>
        /\ \A i \in 1..n : s[i] = q[i]
    BY <2>1, AppendProperties
  <2>3. n \in Nat /\ (q = <<>> <=> n = 0)
    BY <2>1
  <2>4. QED
    BY <2>2, <2>3
<1>3. RangeInv(t)'
  BY <1>1, <1>2 DEF RangeInv, InLine
<1>4. ChainInv(t)'
  <2>1. \A i \in 1..n : i = n \/ Gapless(t, q[i], q[i + 1])
    <3>1. \A i \in 1..n : i = n \/ i \in 1..n - 1
      BY <1>2
    <3>2. QED
      BY <3>1 DEF ChainInv
  <2>2. n > 0 => Gapless(t, q[n], Taken)
    BY <1>1, <1>2 DEF ReachInv
  <2>3. n = 0 /\ tmsg[t] # 0 => Gapless(t, tmsg[t], Taken)
    BY <1>1, <1>2 DEF ReachInv
  <2>4. n = 0 /\ tmsg[t] = 0 /\ handled[t] # <<>> => Gapless(t, LastHandled(t), Taken)
    BY <1>1, <1>2 DEF ReachInv
  <2>5. \A i \in 1..n : Gapless(t, queue'[t][i], queue'[t][i + 1])
    BY <1>2, <2>1, <2>2
  <2>6. QED
    BY <1>1, <1>2, <2>3, <2>4, <2>5 DEF ChainInv, Gapless
<1>5. ReachInv(t)'
  BY <1>1, <1>2 DEF ReachInv, Gapless
<1>6. QED
  BY <1>3, <1>4, <1>5

\* what the thread of a task leaves alone
lineFrame == <<arrived, inbox, registry, dpc, dtodo>>

LEMMA SameAhead ==
    ASSUME NEW t \in Task, UNCHANGED lineFrame
    PROVE  /\ Taken' = Taken /\ Ahead(t)' = Ahead(t)
           /\ \A k, m : Gapless(t, k, m)' <=> Gapless(t, k, m)
           /\ \A m : InLine(t, m)' <=> InLine(t, m)
BY DEF lineFrame, Taken, Ahead, Awaits, IsNextName, Gapless, InLine

\* The thread of t takes the first message of its queue.
LEMMA LinePopped ==
    ASSUME NEW t \in Task, LineTypes(t), RangeInv(t), ChainInv(t), ReachInv(t),
           UNCHANGED lineFrame, tmsg[t] = 0, queue[t] # <<>>, Taken \in Nat,
           tmsg'[t] = Head(queue[t]), queue'[t] = Tail(queue[t]),
           handled'[t] = handled[t]
    PROVE  RangeInv(t)' /\ ChainInv(t)' /\ ReachInv(t)'
<1> DEFINE q == queue[t]
           n == Len(queue[t])
           r == Tail(queue[t])
<1>1. /\ n \in Nat /\ n > 0 /\ tmsg'[t] = q[1] /\ Len(r) = n - 1
      /\ \A i \in 1..(n - 1) : r[i] = q[i + 1]
      /\ r = <<>> <=> n = 1
  <2>1. q \in Seq(Nat) /\ q # <<>>
    BY DEF LineTypes
  <2>2. n \in Nat /\ n > 0 /\ Head(q) = q[1]
    BY <2>1
  <2>3. /\ r \in Seq(Nat) /\ Len(r) = n - 1
        /\ \A i \in 1..Len(r) : r[i] = q[i + 1]
    BY <2>1, HeadTailProperties
  <2>4. r = <<>> <=> n = 1
    <3> HIDE DEF r, n
    <3>1. QED
      BY <2>2, <2>3
  <2>5. QED
    BY <2>2, <2>3, <2>4
<1>2. LastHandled(t)' = LastHandled(t)
  BY DEF LastHandled
<1>3. InLine(t, q[1]) /\ q[1] # 0
  BY <1>1 DEF RangeInv, InLine
<1>4. RangeInv(t)'
  <2>1. \A i \in 1..(n - 1) : InLine(t, r[i])
    BY <1>1 DEF RangeInv
  <2>2. QED
    BY <1>1, <1>2, <1>3, <2>1, SameAhead DEF RangeInv
<1>5. ChainInv(t)'
  <2>1. \A i \in 1..(n - 1) - 1 : Gapless(t, r[i], r[i + 1])
    BY <1>1 DEF ChainInv
  <2>2. r # <<>> => Gapless(t, q[1], r[1])
    BY <1>1 DEF ChainInv
  <2>3. handled[t] # <<>> => Gapless(t, LastHandled(t), q[1])
    BY <1>1 DEF ChainInv
  <2>4. QED
    BY <1>1, <1>2, <1>3, <2>1, <2>2, <2>3, SameAhead DEF ChainInv
<1>6. ReachInv(t)'
  <2>1. r # <<>> => r[Len(r)] = q[n]
    BY <1>1
  <2>2. r = <<>> => q[1] = q[n]
    BY <1>1
  <2>3. registry[NameOf[t]] = t => Gapless(t, q[n], Ahead(t))
    BY DEF ReachInv
  <2>4. QED
    BY <1>1, <1>3, <2>1, <2>2, <2>3, SameAhead DEF ReachInv, lineFrame
<1>7. QED
  BY <1>4, <1>5, <1>6

\* The thread of t hands its message to the handlers, or drops it.
LEMMA LineProcessed ==
    ASSUME NEW t \in Task, LineTypes(t), RangeInv(t), ChainInv(t), ReachInv(t),
           UNCHANGED lineFrame, tmsg[t] # 0, tmsg'[t] = 0,
           queue'[t] = queue[t],
           \/ handled[t] = <<>> /\ handled'[t] = handled[t]
           \/ \E c \in Call : c.msg = tmsg[t] /\ handled'[t] = Append(handled[t], c)
    PROVE  RangeInv(t)' /\ ChainInv(t)' /\ ReachInv(t)'
<1>1. handled'[t] # <<>> => LastHandled(t)' = tmsg[t]
  <2>1. ASSUME NEW c \in Call, c.msg = tmsg[t],
               handled'[t] = Append(handled[t], c)
        PROVE  LastHandled(t)' = tmsg[t]
    <3>1. /\ Len(handled'[t]) = Len(handled[t]) + 1
          /\ handled'[t][Len(handled[t]) + 1] = c
      BY <2>1, AppendProperties DEF LineTypes
    <3>2. QED
      BY <2>1, <3>1 DEF LastHandled
  <2>2. QED
    BY <2>1
<1>2. RangeInv(t)'
  BY <1>1, SameAhead DEF RangeInv
<1>3. ChainInv(t)'
  BY <1>1, SameAhead DEF ChainInv
<1>4. ReachInv(t)'
  BY <1>1, SameAhead DEF ReachInv, lineFrame
<1>5. QED
  BY <1>2, <1>3, <1>4

-----------------------------------------------------------------------------
(* The invariant under each kind of step *)

LEMMA Types == TypeInv => \A t \in Task : LineTypes(t)
BY DEF TypeInv, TypeOK, LineTypes

\* Lines stay, and so does what the dispatcher has still to decide.
LEMMA LinesStay ==
    ASSUME TypeInv, OrderInv, UNCHANGED <<arrived, inbox, queue, tmsg, handled>>,
           \A t \in Task : registry'[NameOf[t]] = t =>
               \/ EmptyLine(t)
               \/ registry[NameOf[t]] = t /\ (Awaits(t)' <=> Awaits(t))
    PROVE  \A t \in Task : RangeInv(t)' /\ ChainInv(t)' /\ ReachInv(t)'
<1> SUFFICES ASSUME NEW t \in Task
             PROVE  RangeInv(t)' /\ ChainInv(t)' /\ ReachInv(t)'
  OBVIOUS
<1>1. Taken' = Taken /\ Taken \in Nat
  BY DEF OrderInv, InboxInv, Taken
<1>2. (Awaits(t)' <=> Awaits(t)) => Ahead(t)' = Ahead(t) /\ Ahead(t) \in Nat
  BY <1>1 DEF Ahead
<1>3. registry'[NameOf[t]] = t =>
          \/ EmptyLine(t)
          \/ /\ registry[NameOf[t]] = t /\ Ahead(t) <= Ahead(t)'
             /\ \A i \in Ahead(t)..(Ahead(t)' - 1) : arrived'[i] \notin Wanted(t)
  BY <1>2
<1>4. LineTypes(t) /\ RangeInv(t) /\ ChainInv(t) /\ ReachInv(t)
  BY Types DEF OrderInv, LineInv
<1>5. QED
  BY <1>1, <1>3, <1>4, LineKept

\* Threads move, but none starts, takes or hands over a message.
LEMMA ThreadsStay ==
    ASSUME OrderInv, UNCHANGED <<object, mpc, cur, tmsg, handled, handlers, registry>>,
           \A t \in Task : \/ tpc'[t] = tpc[t]
                           \/ {tpc[t], tpc'[t]} \cap {"off", "process"} = {},
           \A t \in Task : queue'[t] = queue[t] \/ registry[NameOf[t]] = t
    PROVE  \A t \in Task : ThreadInv(t)'
BY DEF OrderInv, LineInv, ThreadInv, NotStarted

LEMMA OrderArrive ==
    ASSUME TypeInv, OrderInv, NEW topic \in Topic, Arrive(topic)
    PROVE  OrderInv'
<1> USE DEF dispatcherVars, threadVars, managerVars
<1>1. /\ arrived' = Append(arrived, topic)
      /\ inbox' = Append(inbox, Len(arrived) + 1)
      /\ MutexFree
      /\ UNCHANGED <<registry, dpc, dmsg, dtodo, object, mpc, cur, tpc, queue,
                     tmsg, handled, handlers>>
  BY DEF Arrive
<1>2. /\ arrived \in Seq(Topic) /\ inbox \in Seq(Nat) /\ Len(arrived) + 1 \in Nat
  BY DEF TypeInv, TypeOK
<1>3. /\ Len(arrived') = Len(arrived) + 1 /\ Len(inbox') = Len(inbox) + 1
      /\ \A i \in 1..Len(arrived) : arrived'[i] = arrived[i]
      /\ \A i \in 1..Len(inbox) : inbox'[i] = inbox[i]
      /\ inbox'[Len(inbox) + 1] = Len(arrived) + 1
      /\ Len(arrived) \in Nat /\ Len(inbox) \in Nat
  BY <1>1, <1>2, AppendProperties
<1>4. Taken' = Taken /\ Taken \in Nat
  BY <1>3 DEF Taken, OrderInv, InboxInv
<1>5. InboxInv'
  <2>1. ASSUME NEW i \in 1..Len(inbox') PROVE inbox'[i] = Taken + i
    <3>1. CASE i = Len(inbox) + 1
      BY <1>3, <3>1 DEF Taken
    <3>2. CASE i \in 1..Len(inbox)
      BY <1>3, <3>2 DEF OrderInv, InboxInv
    <3>3. QED
      BY <1>3, <3>1, <3>2
  <2>2. QED
    BY <1>1, <1>4, <2>1 DEF OrderInv, InboxInv, Serving, MutexFree
<1>6. ASSUME NEW t \in Task PROVE LineInv(t)'
  <2>1. ThreadInv(t)'
    BY <1>1, ThreadsStay
  <2>2. Ahead(t)' = Ahead(t) /\ Ahead(t) \in Nat
    BY <1>1, <1>4 DEF Ahead, Awaits, IsNextName
  <2>3. \A i \in 1..Taken : arrived'[i] = arrived[i]
    BY <1>3 DEF Taken
  <2>4. LineTypes(t) /\ RangeInv(t) /\ ChainInv(t) /\ ReachInv(t)
    BY Types DEF OrderInv, LineInv
  <2>5. RangeInv(t)' /\ ChainInv(t)' /\ ReachInv(t)'
    <3>1. \A i \in Ahead(t)..(Ahead(t)' - 1) : arrived'[i] \notin Wanted(t)
      BY <2>2
    <3>2. registry'[NameOf[t]] = t =>
              registry[NameOf[t]] = t /\ Ahead(t) <= Ahead(t)'
      BY <1>1, <2>2
    <3>3. Taken' \in Nat /\ Taken <= Taken'
      BY <1>4
    <3>4. UNCHANGED <<queue, tmsg, handled>>
      BY <1>1
    <3>5. QED
      BY <1>4, <2>3, <2>4, <3>1, <3>2, <3>3, <3>4, LineKept
  <2>6. QED
    BY <2>1, <2>5 DEF LineInv
<1>7. QED
  BY <1>5, <1>6 DEF OrderInv

\* The dispatcher's thread moves without serving a message.
LEMMA OrderIdle ==
    ASSUME TypeInv, OrderInv,
           UNCHANGED <<arrived, inbox, registry, object, mpc, cur, queue, tmsg,
                       handled, handlers, tpc, dmsg, dtodo>>,
           dpc' = dpc \/ ~(Serving \/ Serving')
    PROVE  OrderInv'
<1>1. \A t \in Task : Awaits(t)' <=> Awaits(t)
  BY DEF Awaits, Serving, IsNextName
<1>2. \A t \in Task : LineInv(t)'
  <2>1. \A t \in Task : RangeInv(t)' /\ ChainInv(t)' /\ ReachInv(t)'
    BY <1>1, LinesStay
  <2>2. \A t \in Task : ThreadInv(t)'
    BY ThreadsStay
  <2>3. QED
    BY <2>1, <2>2 DEF LineInv
<1>3. InboxInv'
  BY DEF OrderInv, InboxInv, Serving, Taken
<1>4. QED
  BY <1>2, <1>3 DEF OrderInv

LEMMA OrderWait == ASSUME TypeInv, OrderInv, DispatchWait PROVE OrderInv'
<1> USE DEF dispatcherFrame, managerVars
<1>1. CASE UNCHANGED inbox
  <2>1. UNCHANGED <<inbox, dmsg>> /\ dpc = "lock" /\ dpc' \in {"done", "checked"}
    <3>1. ~(inbox # <<>> /\ inbox' = Tail(inbox))
      <4>1. inbox # <<>> => Len(Tail(inbox)) = Len(inbox) - 1 /\ Len(inbox) \in Nat
        BY HeadTailProperties DEF TypeInv, TypeOK
      <4>2. QED
        BY <1>1, <4>1
    <3>2. QED
      BY <1>1, <3>1 DEF DispatchWait
  <2>2. QED
    BY <2>1, OrderIdle DEF DispatchWait, Serving
<1>2. CASE inbox' # inbox
  <2>1. /\ dpc = "lock" /\ inbox # <<>> /\ dmsg' = Head(inbox)
        /\ inbox' = Tail(inbox) /\ dpc' = "dispatch"
        /\ UNCHANGED <<arrived, registry, dtodo, object, mpc, cur, tpc, queue,
                       tmsg, handled, handlers>>
    BY <1>2 DEF DispatchWait
  <2>2. /\ inbox \in Seq(Nat) /\ Len(inbox) \in Nat /\ Len(inbox) > 0
        /\ Head(inbox) = inbox[1] /\ arrived \in Seq(Topic) /\ Len(arrived) \in Nat
    BY <2>1 DEF TypeInv, TypeOK
  <2>3. /\ Len(inbox') = Len(inbox) - 1
        /\ \A i \in 1..Len(inbox') : inbox'[i] = inbox[i + 1]
    BY <2>1, <2>2, HeadTailProperties
  <2>4. Taken' = Taken + 1 /\ Taken \in Nat /\ dmsg' = Taken + 1
    BY <2>1, <2>2, <2>3 DEF Taken, OrderInv, InboxInv
  <2>5. InboxInv'
    <3>1. \A i \in 1..Len(inbox') : inbox'[i] = Taken + 1 + i
      BY <2>2, <2>3, <2>4 DEF OrderInv, InboxInv
    <3>2. QED
      BY <2>1, <2>4, <3>1 DEF InboxInv, Serving
  <2>6. ASSUME NEW t \in Task PROVE LineInv(t)'
    <3>1. ThreadInv(t)'
      BY <2>1, ThreadsStay
    <3>2. Ahead(t) = Taken + 1 /\ Ahead(t)' = Taken + 1
      BY <2>1, <2>4 DEF Ahead, Awaits
    <3>3. Ahead(t) <= Ahead(t)' /\ Ahead(t)..(Ahead(t)' - 1) = {}
      BY <2>4, <3>2
    <3>4. LineTypes(t) /\ RangeInv(t) /\ ChainInv(t) /\ ReachInv(t)
      BY Types DEF OrderInv, LineInv
    <3>5. RangeInv(t)' /\ ChainInv(t)' /\ ReachInv(t)'
      <4>1. Taken' \in Nat /\ Taken <= Taken'
        BY <2>4
      <4>2. QED
        BY <2>1, <2>4, <3>3, <3>4, <4>1, LineKept
    <3>6. QED
      BY <3>1, <3>5 DEF LineInv
  <2>7. QED
    BY <2>5, <2>6 DEF OrderInv
<1>3. QED
  BY <1>1, <1>2

LEMMA OrderLock == ASSUME TypeInv, OrderInv, DispatchLock PROVE OrderInv'
<1> USE DEF dispatcherFrame, managerVars
<1>1. /\ dpc = "dispatch" /\ dtodo' = Addressees(dmsg)
      /\ dpc' = IF dtodo' = {} THEN "top" ELSE "push"
      /\ dtodo' # {} => dmsg' = dmsg
      /\ UNCHANGED <<arrived, inbox, registry, object, mpc, cur, tpc, queue,
                     tmsg, handled, handlers>>
  BY DEF DispatchLock
<1>2. Taken' = Taken /\ Taken \in Nat /\ Taken > 0 /\ dmsg = Taken
  BY <1>1 DEF Taken, OrderInv, InboxInv, Serving
<1>3. InboxInv'
  <2>1. \A n \in dtodo' : registry[n] \in Task /\ arrived[dmsg] \in Wanted(registry[n])
    BY <1>1 DEF Addressees, TypeInv, TypeOK, MaybeTask
  <2>2. QED
    BY <1>1, <1>2, <2>1 DEF OrderInv, InboxInv, Serving
<1>4. ASSUME NEW t \in Task PROVE LineInv(t)'
  <2>1. ThreadInv(t)'
    BY <1>1, ThreadsStay
  <2>2. LineTypes(t) /\ RangeInv(t) /\ ChainInv(t) /\ ReachInv(t)
    BY Types DEF OrderInv, LineInv
  <2>3. Awaits(t)' <=> NameOf[t] \in dtodo'
    BY <1>1 DEF Awaits
  <2>4. Ahead(t) = Taken
    BY <1>1 DEF Ahead, Awaits
  <2>5. ASSUME registry'[NameOf[t]] = t
        PROVE  /\ Ahead(t)' \in {Taken, Taken + 1}
               /\ Ahead(t)' = Taken + 1 => arrived[Taken] \notin Wanted(t)
    <3>1. NameOf[t] \in Name /\ t # NoTask
      BY TaskAssumption DEF TaskAssumption
    <3>2. NameOf[t] \notin dtodo' => arrived[Taken] \notin Wanted(t)
      BY <1>1, <1>2, <2>5, <3>1 DEF Addressees
    <3>3. QED
      BY <1>2, <2>3, <3>2 DEF Ahead
  <2>6. registry'[NameOf[t]] = t =>
            /\ registry[NameOf[t]] = t /\ Ahead(t) <= Ahead(t)'
            /\ \A i \in Ahead(t)..(Ahead(t)' - 1) : arrived'[i] \notin Wanted(t)
    BY <1>1, <1>2, <2>4, <2>5
  <2>7. Taken' \in Nat /\ Taken <= Taken'
    BY <1>2
  <2>8. UNCHANGED <<arrived, queue, tmsg, handled>>
    BY <1>1
  <2>9. RangeInv(t)' /\ ChainInv(t)' /\ ReachInv(t)'
    BY <1>2, <2>2, <2>6, <2>7, <2>8, LineKept
  <2>10. QED
    BY <2>1, <2>9 DEF LineInv
<1>5. QED
  BY <1>3, <1>4 DEF OrderInv

LEMMA OrderPush == ASSUME TypeInv, LifeInv, OrderInv, DispatchPush PROVE OrderInv'
<1> USE DEF dispatcherFrame, managerVars
<1>1. PICK n \in Name : IsNextName(n) /\ queue' = [queue EXCEPT ![registry[n]] =
                                                     Append(@, dmsg)]
  BY DEF DispatchPush
<1>2. /\ dpc = "push" /\ dpc' = "notify"
      /\ UNCHANGED <<arrived, inbox, registry, dmsg, dtodo, object, mpc, cur,
                     tpc, tmsg, handled, handlers>>
  BY DEF DispatchPush
<1>3. Taken' = Taken /\ Taken \in Nat /\ Taken > 0 /\ dmsg = Taken
  BY <1>2 DEF Taken, OrderInv, InboxInv, Serving
<1>4. InboxInv'
  BY <1>2, <1>3 DEF OrderInv, InboxInv, Serving
<1> DEFINE u == registry[n]
<1>5. /\ n \in dtodo /\ u \in Task /\ NameOf[u] = n /\ arrived[Taken] \in Wanted(u)
      /\ registry[NameOf[u]] = u
  BY <1>1, <1>2, <1>3, TaskAssumption
  DEF IsNextName, OrderInv, InboxInv, LifeInv, KeyInv, TaskAssumption
<1>6. \A k \in dtodo : IsNextName(k) <=> k = n
  BY <1>1, NameAssumption DEF IsNextName, NameAssumption, TypeInv, TypeOK
<1>7. \A t \in Task : queue'[t] = IF t = u THEN Append(queue[u], Taken) ELSE queue[t]
  BY <1>1, <1>3, <1>5 DEF TypeInv, TypeOK
<1>8. \A t \in Task : ThreadInv(t)'
  BY <1>2, <1>5, <1>7, ThreadsStay
<1>9. ASSUME NEW t \in Task PROVE RangeInv(t)' /\ ChainInv(t)' /\ ReachInv(t)'
  <2>1. LineTypes(t) /\ RangeInv(t) /\ ChainInv(t) /\ ReachInv(t)
    BY Types DEF OrderInv, LineInv
  <2>2. /\ Awaits(t) <=> NameOf[t] \in dtodo
        /\ Awaits(t)' <=> NameOf[t] \in dtodo /\ NameOf[t] # n
    BY <1>2, <1>6 DEF Awaits, IsNextName
  <2>3. CASE t = u
    <3>1. queue'[t] = Append(queue[t], Taken) /\ UNCHANGED <<tmsg, handled>>
      BY <1>2, <1>7, <2>3
    <3>2. registry[NameOf[t]] = t /\ Awaits(t) /\ Awaits(t)' = FALSE
      BY <1>5, <2>2, <2>3
    <3>3. arrived[Taken] \in Wanted(t) /\ UNCHANGED <<arrived, inbox>>
      BY <1>2, <1>5, <2>3
    <3>4. QED
      BY <1>3, <2>1, <3>1, <3>2, <3>3, LinePushed
  <2>4. CASE t # u
    <3>1. registry'[NameOf[t]] = t => Ahead(t)' = Ahead(t) /\ Ahead(t) \in Nat
      BY <1>2, <1>3, <2>2, <2>4 DEF Ahead
    <3>2. registry'[NameOf[t]] = t =>
              /\ registry[NameOf[t]] = t /\ Ahead(t) <= Ahead(t)'
              /\ \A i \in Ahead(t)..(Ahead(t)' - 1) : arrived'[i] \notin Wanted(t)
      BY <1>2, <3>1
    <3>3. Taken' \in Nat /\ Taken <= Taken' /\ UNCHANGED <<arrived, tmsg, handled>>
      BY <1>2, <1>3
    <3>4. queue'[t] = queue[t]
      BY <1>7, <2>4
    <3>5. QED
      BY <1>3, <2>1, <3>2, <3>3, <3>4, LineKept
  <2>5. QED
    BY <2>3, <2>4
<1>10. QED
  BY <1>4, <1>8, <1>9 DEF OrderInv, LineInv

LEMMA OrderNotify == ASSUME TypeInv, OrderInv, DispatchNotify PROVE OrderInv'
<1> USE DEF dispatcherFrame, managerVars
<1>1. PICK n \in Name : /\ IsNextName(n) /\ dtodo' = dtodo \ {n}
                        /\ tpc' = IF notifier[n] # NoTask THEN Woken(notifier[n])
                                  ELSE tpc
  BY DEF DispatchNotify
<1>2. /\ dpc = "notify" /\ dpc' = IF dtodo' = {} THEN "top" ELSE "push"
      /\ dtodo' # {} => dmsg' = dmsg
      /\ UNCHANGED <<arrived, inbox, registry, object, mpc, cur, queue, tmsg,
                     handled, handlers>>
  BY DEF DispatchNotify
<1>3. InboxInv'
  BY <1>1, <1>2 DEF OrderInv, InboxInv, Serving, Taken
<1>4. \A k \in dtodo : IsNextName(k) <=> k = n
  BY <1>1, NameAssumption DEF IsNextName, NameAssumption, TypeInv, TypeOK
<1>5. \A t \in Task : Awaits(t)' <=> Awaits(t)
  BY <1>1, <1>2, <1>4 DEF Awaits
<1>6. \A t \in Task : RangeInv(t)' /\ ChainInv(t)' /\ ReachInv(t)'
  BY <1>2, <1>5, LinesStay
<1>7. \A t \in Task : \/ tpc'[t] = tpc[t]
                      \/ {tpc[t], tpc'[t]} \cap {"off", "process"} = {}
  BY <1>1 DEF Woken, TypeInv, TypeOK
<1>8. \A t \in Task : ThreadInv(t)'
  BY <1>2, <1>7, ThreadsStay
<1>9. QED
  BY <1>3, <1>6, <1>8 DEF OrderInv, LineInv

LEMMA OrderDispatcher ==
    ASSUME TypeInv, LifeInv, OrderInv, DispatcherStep \/ DispatchSpurious
    PROVE  OrderInv'
<1>1. CASE DispatchTop \/ DispatchPark \/ DispatchSpurious
  BY <1>1, OrderIdle DEF DispatchTop, DispatchPark, DispatchSpurious, Serving,
                         dispatcherFrame, managerVars
<1>2. QED
  BY <1>1, OrderWait, OrderLock, OrderPush, OrderNotify DEF DispatcherStep

LEMMA LineUntouched ==
    ASSUME NEW t \in Task, RangeInv(t), ChainInv(t), ReachInv(t),
           UNCHANGED lineFrame, queue'[t] = queue[t], tmsg'[t] = tmsg[t],
           handled'[t] = handled[t]
    PROVE  RangeInv(t)' /\ ChainInv(t)' /\ ReachInv(t)'
<1>1. LastHandled(t)' = LastHandled(t)
  BY DEF LastHandled
<1>2. QED
  BY <1>1, SameAhead DEF RangeInv, ChainInv, ReachInv, lineFrame

LEMMA OrderTask ==
    ASSUME TypeInv, OrderInv, NEW u \in Task, TaskStep(u) \/ TaskSpurious(u)
    PROVE  OrderInv'
<1> USE DEF taskFrame, dispatcherVars, managerVars
<1>1. /\ UNCHANGED <<arrived, inbox, registry, dpc, dmsg, dtodo, object, mpc, cur,
                     handlers>>
      /\ UNCHANGED lineFrame
  BY DEF TaskStep, TaskTop, TaskWait, TaskPark, TaskProcess, TaskSpurious, lineFrame
<1>2. InboxInv'
  BY <1>1 DEF OrderInv, InboxInv, Serving, Taken
<1>3. LineTypes(u) /\ RangeInv(u) /\ ChainInv(u) /\ ReachInv(u) /\ ThreadInv(u)
  BY Types DEF OrderInv, LineInv
<1>4. Taken \in Nat
  BY DEF OrderInv, InboxInv
<1>5. CASE \/ UNCHANGED <<queue, tmsg, handled>>
           \/ TaskTop(u) \/ TaskPark(u) \/ TaskSpurious(u)
  <2>1. UNCHANGED <<queue, tmsg, handled>>
    BY <1>5 DEF TaskTop, TaskPark, TaskSpurious
  <2>2. \A t \in Task : RangeInv(t)' /\ ChainInv(t)' /\ ReachInv(t)'
    BY <1>1, <2>1, LineUntouched DEF OrderInv, LineInv
  <2>3. \A t \in Task : \/ tpc'[t] = tpc[t]
                        \/ {tpc[t], tpc'[t]} \cap {"off", "process"} = {}
    <3>1. CASE TaskTop(u) \/ TaskPark(u) \/ TaskSpurious(u)
      BY <3>1 DEF TaskTop, TaskPark, TaskSpurious, TypeInv, TypeOK
    <3>2. CASE TaskWait(u)
      <4>1. queue[u] # <<>> => Len(Tail(queue[u])) = Len(queue[u]) - 1 /\ Len(queue[u]) \in Nat
        BY <1>3, HeadTailProperties DEF LineTypes
      <4>2. ~(queue[u] # <<>> /\ queue' = [queue EXCEPT ![u] = Tail(@)])
        BY <2>1, <4>1 DEF TypeInv, TypeOK
      <4>3. QED
        BY <3>2, <4>2 DEF TaskWait, TypeInv, TypeOK
    <3>3. CASE TaskProcess(u)
      <4>1. tmsg'[u] = 0 /\ tmsg[u] # 0
        BY <1>3, <3>3 DEF TaskProcess, ThreadInv, TypeInv, TypeOK
      <4>2. QED
        BY <2>1, <4>1
    <3>4. QED
      BY <3>1, <3>2, <3>3 DEF TaskStep
  <2>4. \A t \in Task : ThreadInv(t)'
    BY <1>1, <2>1, <2>3, ThreadsStay
  <2>5. QED
    BY <1>2, <2>2, <2>4 DEF OrderInv, LineInv
<1>6. CASE TaskWait(u) /\ queue' # queue
  <2>1. /\ tpc[u] = "lock" /\ queue[u] # <<>> /\ handled' = handled
        /\ tmsg' = [tmsg EXCEPT ![u] = Head(queue[u])]
        /\ queue' = [queue EXCEPT ![u] = Tail(@)]
        /\ tpc' = [tpc EXCEPT ![u] = "process"]
    BY <1>6 DEF TaskWait
  <2>2. /\ tmsg'[u] = Head(queue[u]) /\ queue'[u] = Tail(queue[u])
        /\ tpc'[u] = "process" /\ tmsg[u] = 0
        /\ \A t \in Task \ {u} : /\ queue'[t] = queue[t] /\ tmsg'[t] = tmsg[t]
                                 /\ tpc'[t] = tpc[t]
    BY <1>3, <2>1 DEF TypeInv, TypeOK, ThreadInv
  <2>3. ASSUME NEW t \in Task PROVE RangeInv(t)' /\ ChainInv(t)' /\ ReachInv(t)'
    <3>1. CASE t = u
      <4>1. handled'[u] = handled[u]
        BY <2>1
      <4>2. QED
        BY <1>1, <1>3, <1>4, <2>1, <2>2, <3>1, <4>1, LinePopped
    <3>2. CASE t # u
      BY <1>1, <2>1, <2>2, <3>2, LineUntouched DEF OrderInv, LineInv
    <3>3. QED
      BY <3>1, <3>2
  <2>4. Head(queue[u]) # 0
    <3>1. Head(queue[u]) = queue[u][1] /\ 1 \in 1..Len(queue[u])
      BY <1>3, <2>1 DEF LineTypes
    <3>2. InLine(u, queue[u][1])
      BY <1>3, <3>1 DEF RangeInv
    <3>3. QED
      BY <3>1, <3>2 DEF InLine
  <2>5. ASSUME NEW t \in Task PROVE ThreadInv(t)'
    <3>1. CASE t = u
      <4>1. ~NotStarted(u) /\ object[u] # "unborn" /\ ~(mpc = "regQueue" /\ cur = u)
        BY <1>3, <2>1 DEF ThreadInv, NotStarted
      <4>2. QED
        BY <1>1, <1>3, <2>1, <2>2, <2>4, <3>1, <4>1 DEF ThreadInv, NotStarted
    <3>2. CASE t # u
      BY <1>1, <2>1, <2>2, <3>2 DEF OrderInv, LineInv, ThreadInv, NotStarted
    <3>3. QED
      BY <3>1, <3>2
  <2>6. QED
    BY <1>2, <2>3, <2>5 DEF OrderInv, LineInv
<1>7. CASE TaskProcess(u)
  <2> DEFINE c == [msg |-> tmsg[u], by |-> handlers[u]]
  <2>1. /\ tpc[u] = "process" /\ tpc' = [tpc EXCEPT ![u] = "top"]
        /\ tmsg' = [tmsg EXCEPT ![u] = 0] /\ queue' = queue
        /\ handled' = [handled EXCEPT ![u] = IF handlers[u] = {} THEN @
                                             ELSE Append(@, c)]
    BY <1>7 DEF TaskProcess
  <2>2. /\ tmsg'[u] = 0 /\ tmsg[u] # 0 /\ tpc'[u] = "top"
        /\ handled'[u] = IF handlers[u] = {} THEN handled[u] ELSE Append(handled[u], c)
        /\ \A t \in Task \ {u} : /\ handled'[t] = handled[t] /\ tmsg'[t] = tmsg[t]
                                 /\ tpc'[t] = tpc[t]
    BY <1>3, <2>1 DEF TypeInv, TypeOK, ThreadInv
  <2>3. c \in Call /\ c.msg = tmsg[u]
    BY DEF Call, TypeInv, TypeOK
  <2>4. \/ handled[u] = <<>> /\ handled'[u] = handled[u]
        \/ \E d \in Call : d.msg = tmsg[u] /\ handled'[u] = Append(handled[u], d)
    <3>1. CASE handlers[u] = {}
      BY <1>3, <2>2, <3>1 DEF ThreadInv
    <3>2. CASE handlers[u] # {}
      <4>1. handled'[u] = Append(handled[u], c)
        BY <2>2, <3>2
      <4>2. QED
        BY <2>3, <4>1
    <3>3. QED
      BY <3>1, <3>2
  <2>5. ASSUME NEW t \in Task PROVE RangeInv(t)' /\ ChainInv(t)' /\ ReachInv(t)'
    <3>1. CASE t = u
      <4>1. queue'[u] = queue[u]
        BY <2>1
      <4>2. QED
        BY <1>1, <1>3, <2>2, <2>4, <3>1, <4>1, LineProcessed
    <3>2. CASE t # u
      BY <1>1, <2>1, <2>2, <3>2, LineUntouched DEF OrderInv, LineInv
    <3>3. QED
      BY <3>1, <3>2
  <2>6. ASSUME NEW t \in Task PROVE ThreadInv(t)'
    <3>1. CASE t = u
      <4>1. ~NotStarted(u) /\ object[u] # "unborn" /\ ~(mpc = "regQueue" /\ cur = u)
        BY <1>3, <2>1 DEF ThreadInv, NotStarted
      <4>2. handled'[u] # <<>> => handlers[u] # {}
        BY <1>3, <2>2 DEF ThreadInv
      <4>3. QED
        BY <1>1, <2>2, <3>1, <4>1, <4>2 DEF ThreadInv, NotStarted
    <3>2. CASE t # u
      BY <1>1, <2>1, <2>2, <3>2 DEF OrderInv, LineInv, ThreadInv, NotStarted
    <3>3. QED
      BY <3>1, <3>2
  <2>7. QED
    BY <1>2, <2>5, <2>6 DEF OrderInv, LineInv
<1>8. QED
  <2>1. TaskWait(u) => UNCHANGED <<queue, tmsg, handled>> \/ queue' # queue
    <3>1. SUFFICES ASSUME TaskWait(u), queue' = queue, queue[u] # <<>>,
                          queue' = [queue EXCEPT ![u] = Tail(@)]
                   PROVE  FALSE
      BY DEF TaskWait
    <3>2. Len(Tail(queue[u])) = Len(queue[u]) - 1 /\ Len(queue[u]) \in Nat
      BY <1>3, <3>1, HeadTailProperties DEF LineTypes
    <3>3. QED
      BY <3>1, <3>2 DEF TypeInv, TypeOK
  <2>2. QED
    BY <2>1, <1>5, <1>6, <1>7 DEF TaskStep

\* The manager's thread: registers one task at a time, whose line is empty.
LEMMA OrderManager ==
    ASSUME TypeInv, LifeInv, OrderInv, ManagerStep \/ ManagerCall
    PROVE  OrderInv'
<1> USE TaskAssumption DEF TaskAssumption, managerFrame, managerVars
<1> USE DEF TypeInv, TypeOK, MaybeTask, Busy, RegisterPc, StopPc
<1> DEFINE Reg == mpc = "regQueue" /\ cur \in Task
                  /\ registry' = [registry EXCEPT ![NameOf[cur]] = cur]
           Unreg == registry' = [registry EXCEPT ![NameOf[cur]] = NoTask]
<1>1. /\ UNCHANGED <<arrived, inbox, dmsg, dtodo, queue, tmsg, handled>>
      /\ dpc' = dpc \/ ~(Serving \/ Serving')
      /\ registry' # registry => MutexFree /\ (Reg \/ Unreg)
  <2>1. CASE ManagerCall
    BY <2>1 DEF ManagerCall, Register, Unregister, Erase, Shutdown
  <2>2. CASE RegisterTaskQueue \/ UnregisterTaskQueue
    BY <2>2 DEF RegisterTaskQueue, UnregisterTaskQueue
  <2>3. CASE \/ RegisterNotifier \/ StartThread \/ StoreTask \/ StopFlag
             \/ StopNotify \/ StopJoin \/ UnregisterNotifier
             \/ \E f \in Filter : AddHandler(f)
             \/ \E n \in Name : ClearTask(n)
    BY <2>3 DEF RegisterNotifier, StartThread, StoreTask, StopFlag, StopNotify,
                StopJoin, UnregisterNotifier, AddHandler, ClearTask, Erase
  <2>4. CASE DispatcherStopFlag \/ DispatcherStopNotify \/ DispatcherJoin
    BY <2>4 DEF DispatcherStopFlag, DispatcherStopNotify, DispatcherJoin, Serving
  <2>5. QED
    BY <2>1, <2>2, <2>3, <2>4 DEF ManagerStep
<1>2. InboxInv'
  <2>1. Taken' = Taken
    BY <1>1 DEF Taken
  <2>2. dpc' \in {"push", "notify"} => dpc' = dpc /\ registry' = registry
    BY <1>1 DEF MutexFree, Serving
  <2>3. QED
    BY <1>1, <2>1, <2>2 DEF OrderInv, InboxInv, Serving
<1>3. \A t \in Task : RangeInv(t)' /\ ChainInv(t)' /\ ReachInv(t)'
  <2>1. \A t \in Task : Awaits(t)' <=> Awaits(t)
    BY <1>1 DEF Awaits, Serving, IsNextName
  <2>2. Reg => EmptyLine(cur)
    BY DEF OrderInv, LineInv, ThreadInv, NotStarted, EmptyLine
  <2>3. \A t \in Task : registry'[NameOf[t]] = t =>
            EmptyLine(t) \/ registry[NameOf[t]] = t
    <3>1. CASE registry' = registry
      BY <3>1
    <3>2. CASE Reg
      BY <2>2, <3>2
    <3>3. CASE Unreg
      BY <3>3
    <3>4. QED
      BY <1>1, <3>1, <3>2, <3>3
  <2>4. QED
    BY <1>1, <2>1, <2>3, LinesStay
<1>4. \A t \in Task : ThreadInv(t)'
  <2> SUFFICES ASSUME NEW t \in Task PROVE ThreadInv(t)'
    OBVIOUS
  <2>1. ThreadInv(t)
    BY DEF OrderInv, LineInv
  <2> USE <2>1 DEF ThreadInv, NotStarted
  <2>2. ASSUME NEW u \in Task, Register(u) PROVE ThreadInv(t)'
    <3>1. registry[NameOf[u]] # u
      BY <2>2 DEF Register, LifeInv, NoDangling
    <3>2. QED
      BY <2>2, <3>1 DEF Register
  <2>3. ASSUME NEW n \in Name, Erase(n) PROVE ThreadInv(t)'
    BY <2>3 DEF Erase
  <2>4. CASE Shutdown
    BY <2>4 DEF Shutdown
  <2>5. CASE RegisterTaskQueue
    BY <2>5 DEF RegisterTaskQueue, LifeInv, ManagerInv
  <2>6. CASE RegisterNotifier
    BY <2>6 DEF RegisterNotifier
  <2>7. CASE StartThread
    BY <2>7 DEF StartThread, LifeInv, ManagerInv
  <2>8. ASSUME NEW f \in Filter, AddHandler(f) PROVE ThreadInv(t)'
    BY <2>8 DEF AddHandler
  <2>9. CASE StoreTask
    BY <2>9 DEF StoreTask
  <2>10. CASE StopFlag \/ StopNotify \/ StopJoin
    BY <2>10 DEF StopFlag, StopNotify, StopJoin, Woken
  <2>11. CASE UnregisterTaskQueue \/ UnregisterNotifier
    BY <2>11 DEF UnregisterTaskQueue, UnregisterNotifier
  <2>12. CASE DispatcherStopFlag \/ DispatcherStopNotify \/ DispatcherJoin
    BY <2>12 DEF DispatcherStopFlag, DispatcherStopNotify, DispatcherJoin
  <2>13. QED
    BY <2>2, <2>3, <2>4, <2>5, <2>6, <2>7, <2>8, <2>9, <2>10, <2>11, <2>12
    DEF ManagerStep, ManagerCall, Unregister, ClearTask
<1>5. QED
  BY <1>2, <1>3, <1>4 DEF OrderInv, LineInv

-----------------------------------------------------------------------------
\* OrderInv holds of the program's start and is kept by every step.
THEOREM Order == Spec => []OrderInv
<1>1. Init => OrderInv
  <2> SUFFICES ASSUME Init PROVE OrderInv
    OBVIOUS
  <2>1. InboxInv
    BY DEF Init, InboxInv, Taken, Serving
  <2>2. ASSUME NEW t \in Task PROVE LineInv(t)
    <3>1. /\ queue[t] = <<>> /\ tmsg[t] = 0 /\ handled[t] = <<>> /\ tpc[t] = "off"
          /\ registry[NameOf[t]] = NoTask /\ mpc = "idle"
      BY TaskAssumption DEF Init, TaskAssumption
    <3>2. t # NoTask
      BY TaskAssumption DEF TaskAssumption
    <3>3. ThreadInv(t)
      BY <3>1, <3>2 DEF ThreadInv, NotStarted
    <3>4. RangeInv(t) /\ ChainInv(t)
      BY <3>1 DEF RangeInv, ChainInv
    <3>5. QED
      BY <3>1, <3>3, <3>4 DEF LineInv, ReachInv
  <2>3. QED
    BY <2>1, <2>2 DEF OrderInv
<1>2. OrderInv /\ TypeInv /\ LifeInv /\ [Next]_vars => OrderInv'
  <2> SUFFICES ASSUME OrderInv, TypeInv, LifeInv, [Next]_vars PROVE OrderInv'
    OBVIOUS
  <2>1. CASE ArriveNotify
    BY <2>1, OrderIdle DEF ArriveNotify, Serving, threadVars, managerVars
  <2>2. CASE UNCHANGED vars
    BY <2>2, OrderIdle DEF vars, dispatcherVars, threadVars, managerVars
  <2>3. QED
    BY <2>1, <2>2, OrderArrive, OrderDispatcher, OrderTask, OrderManager
    DEF Next, Paho, Spurious
<1>3. QED
  BY <1>1, <1>2, Typing, Lifetime, PTL DEF Spec

\* what the application has seen of the messages of t
Got(t) == [i \in 1..Len(handled[t]) |-> handled[t][i].msg]

LEMMA GotAppend ==
    ASSUME NEW t \in Task, handled[t] \in Seq(Call), NEW c \in Call,
           handled'[t] = Append(handled[t], c)
    PROVE  Got(t)' = Append(Got(t), c.msg)
<1> DEFINE h == handled[t]
           n == Len(h)
           g == Append(h, c)
           s == [i \in 1..n |-> h[i].msg]
           r == Append(s, c.msg)
<1>1. n \in Nat
  OBVIOUS
<1>2. /\ Len(g) = n + 1 /\ g[n + 1] = c
      /\ \A i \in 1..n : g[i] = h[i]
  BY AppendProperties
<1>3. s \in Seq(Nat) /\ Len(s) = n
  <2>1. \A i \in 1..n : h[i].msg \in Nat
    <3>1. \A i \in 1..n : h[i] \in Call
      BY ElementOfSeq
    <3>2. QED
      BY <3>1 DEF Call
  <2>2. s \in [1..n -> Nat] /\ DOMAIN s = 1..n
    BY <2>1
  <2> HIDE DEF s
  <2>3. s \in Seq(Nat)
    BY <1>1, <2>2, SeqDef
  <2>4. 1..Len(s) = 1..n /\ Len(s) \in Nat
    BY <2>2, <2>3, LenProperties
  <2>5. QED
    BY <1>1, <2>3, <2>4
<1>4. c.msg \in Nat
  BY DEF Call
<1>5. /\ r \in Seq(Nat) /\ Len(r) = n + 1 /\ r[n + 1] = c.msg
      /\ \A i \in 1..n : r[i] = s[i]
  BY <1>3, <1>4, AppendProperties
<1>6. DOMAIN r = 1..(n + 1) /\ r = [i \in 1..(n + 1) |-> r[i]]
  BY <1>5
<1>7. \A i \in 1..(n + 1) : r[i] = g[i].msg
  BY <1>1, <1>2, <1>5
<1>8. r = [i \in 1..Len(g) |-> g[i].msg]
  <2> HIDE DEF r, g, s
  <2>1. QED
    BY <1>2, <1>6, <1>7
<1>9. QED
  BY <1>8 DEF Got

\* The callback of a task sees the messages it wants in arrival order, once
\* each and from the first one on without a gap: the program implements
\* OrderedDelivery.
THEOREM DeliversInOrderHolds == Spec => DeliversInOrder
<1>1. Init => Delivery!Init
  <2> SUFFICES ASSUME Init PROVE Delivery!Init
    OBVIOUS
  <2>1. \A t \in Task : [i \in 1..Len(handled[t]) |-> handled[t][i].msg] = <<>>
    BY DEF Init
  <2>2. arrived = <<>>
    BY DEF Init
  <2>3. QED
    BY <2>1, <2>2 DEF Delivery!Init
<1> DEFINE delivered == [t \in Task |->
                           [i \in 1..Len(handled[t]) |-> handled[t][i].msg]]
<1>2. TypeInv /\ OrderInv /\ [Next]_vars
          => [Delivery!Next]_<<arrived, delivered>>
  <2> SUFFICES ASSUME TypeInv, OrderInv, [Next]_vars
               PROVE  Delivery!Next \/ UNCHANGED <<arrived, handled>>
    OBVIOUS
  <2>1. ASSUME NEW topic \in Topic, Arrive(topic) PROVE Delivery!Next
    <3>1. arrived' = Append(arrived, topic) /\ handled' = handled
      BY <2>1 DEF Arrive, threadVars
    <3>2. Delivery!Arrive
      BY <3>1 DEF Delivery!Arrive
    <3>3. QED
      BY <3>2 DEF Delivery!Next
  <2>2. ASSUME NEW u \in Task, TaskProcess(u)
        PROVE  Delivery!Next \/ UNCHANGED <<arrived, handled>>
    <3> DEFINE c == [msg |-> tmsg[u], by |-> handlers[u]]
               m == tmsg[u]
    <3>1. CASE handlers[u] = {}
      BY <2>2, <3>1 DEF TaskProcess, taskFrame, TypeInv, TypeOK
    <3>2. CASE handlers[u] # {}
      <4>1. /\ handled' = [handled EXCEPT ![u] = Append(@, c)]
            /\ arrived' = arrived
        BY <2>2, <3>2 DEF TaskProcess, taskFrame
      <4>2. /\ LineTypes(u) /\ RangeInv(u) /\ ChainInv(u) /\ ThreadInv(u)
            /\ handled \in [Task -> Seq(Call)]
        BY Types DEF OrderInv, LineInv, TypeInv, TypeOK
      <4>3. m # 0 /\ InLine(u, m)
        BY <2>2, <4>2 DEF TaskProcess, ThreadInv, RangeInv
      <4>4. m \in 1..Len(arrived) /\ arrived[m] \in Wanted(u)
        <5>1. Len(inbox) \in Nat /\ Len(arrived) \in Nat
          BY <4>2 DEF LineTypes
        <5>2. QED
          BY <4>3, <5>1 DEF InLine, Taken
      <4>5. c \in Call /\ c.msg = m
        BY DEF Call, TypeInv, TypeOK
      <4>6. handled'[u] = Append(handled[u], c) /\ handled[u] \in Seq(Call)
        BY <4>1, <4>2
      <4>7. Got(u)' = Append(Got(u), m)
        BY <4>5, <4>6, GotAppend
      <4>8. \A t \in Task : t # u => Got(t)' = Got(t)
        BY <4>1, <4>2 DEF Got
      <4>9. delivered' = [delivered EXCEPT ![u] = Append(@, m)]
        BY <4>7, <4>8 DEF Got
      <4>10. Delivery!Follows(u, m)
        <5> SUFFICES ASSUME Got(u) # <<>>
                     PROVE  /\ Got(u)[Len(Got(u))] < m
                            /\ \A i \in (Got(u)[Len(Got(u))] + 1)..(m - 1) :
                                   arrived[i] \notin Wanted(u)
          BY DEF Delivery!Follows, Delivery!NoneBetween, Got
        <5>1. handled[u] # <<>> /\ Len(handled[u]) \in Nat /\ Len(handled[u]) > 0
          BY <4>6 DEF Got
        <5>2. Len(Got(u)) = Len(handled[u])
          BY <5>1, <4>6 DEF Got
        <5>3. Got(u)[Len(Got(u))] = LastHandled(u)
          BY <5>1, <5>2 DEF Got, LastHandled
        <5>4. Gapless(u, LastHandled(u), m)
          BY <4>2, <4>3, <5>1 DEF ChainInv
        <5>5. QED
          BY <5>3, <5>4 DEF Gapless
      <4>11. Delivery!Deliver(u)
        BY <4>1, <4>4, <4>9, <4>10 DEF Delivery!Deliver
      <4>12. QED
        BY <4>11 DEF Delivery!Next
    <3>3. QED
      BY <3>1, <3>2
  <2>3. ASSUME NEW u \in Task,
               TaskTop(u) \/ TaskWait(u) \/ TaskPark(u) \/ TaskSpurious(u)
        PROVE  UNCHANGED <<arrived, handled>>
    BY <2>3 DEF TaskTop, TaskWait, TaskPark, TaskSpurious, taskFrame
  <2>4. CASE ArriveNotify
    BY <2>4 DEF ArriveNotify, threadVars
  <2>5. CASE DispatcherStep \/ DispatchSpurious
    BY <2>5 DEF DispatcherStep, DispatchSpurious, DispatchTop, DispatchWait,
       DispatchPark, DispatchLock, DispatchPush, DispatchNotify, dispatcherFrame
  <2>6. CASE ManagerStep \/ ManagerCall
    BY <2>6 DEF ManagerStep, ManagerCall, Register, Unregister, ClearTask, Erase,
       Shutdown, RegisterTaskQueue, RegisterNotifier, StartThread, AddHandler,
       StoreTask, StopFlag, StopNotify, StopJoin, UnregisterTaskQueue,
       UnregisterNotifier, DispatcherStopFlag, DispatcherStopNotify,
       DispatcherJoin, managerFrame
  <2>7. CASE UNCHANGED vars
    BY <2>7 DEF vars, threadVars
  <2>8. QED
    BY <2>1, <2>2, <2>3, <2>4, <2>5, <2>6, <2>7
    DEF Next, Paho, Spurious, TaskStep
<1>3. QED
  BY <1>1, <1>2, Typing, Order, PTL DEF Spec, DeliversInOrder, Delivery!Spec

-----------------------------------------------------------------------------
(* A task in the manager's map has all its handlers. *)

Equipped ==
    \A n \in Name : tasks[n] # NoTask => handlers[tasks[n]] = FiltersOf[tasks[n]]

\* Equipped holds of the program's start and is kept by every step.
THEOREM Equipment == Spec => []Equipped
<1>1. Init => Equipped
  BY DEF Init, Equipped
<1>2. Equipped /\ TypeInv /\ LifeInv /\ [Next]_vars => Equipped'
  <2> SUFFICES ASSUME Equipped, TypeInv, LifeInv, [Next]_vars PROVE Equipped'
    OBVIOUS
  <2> USE TaskAssumption DEF TaskAssumption, managerFrame, managerVars
  <2> USE DEF TypeInv, TypeOK, MaybeTask, Busy, RegisterPc, StopPc
  <2>1. CASE UNCHANGED <<tasks, handlers>>
    BY <2>1 DEF Equipped
  <2>2. ASSUME NEW n \in Name, Erase(n) PROVE Equipped'
    BY <2>2 DEF Equipped, Erase
  <2>3. ASSUME NEW f \in Filter, AddHandler(f) PROVE Equipped'
    BY <2>3 DEF Equipped, AddHandler, LifeInv, ManagerInv
  <2>4. CASE StoreTask
    BY <2>4 DEF Equipped, StoreTask
  <2>5. CASE ManagerStep \/ ManagerCall
    <3>1. CASE Shutdown \/ \E t \in Task : Register(t)
      BY <2>1, <3>1 DEF Shutdown, Register
    <3>2. CASE \/ RegisterTaskQueue \/ RegisterNotifier \/ StartThread
               \/ StopFlag \/ StopNotify \/ StopJoin
               \/ UnregisterTaskQueue \/ UnregisterNotifier
               \/ DispatcherStopFlag \/ DispatcherStopNotify \/ DispatcherJoin
      BY <2>1, <3>2 DEF RegisterTaskQueue, RegisterNotifier, StartThread,
         StopFlag, StopNotify, StopJoin, UnregisterTaskQueue, UnregisterNotifier,
         DispatcherStopFlag, DispatcherStopNotify, DispatcherJoin
    <3>3. QED
      BY <2>2, <2>3, <2>4, <2>5, <3>1, <3>2
      DEF ManagerStep, ManagerCall, Unregister, ClearTask
  <2>6. CASE DispatcherStep \/ Spurious \/ Paho \/ \E t \in Task : TaskStep(t)
    BY <2>1, <2>6 DEF DispatcherStep, DispatchTop, DispatchWait, DispatchPark,
       DispatchLock, DispatchPush, DispatchNotify, dispatcherFrame, Spurious,
       DispatchSpurious, TaskSpurious, TaskStep, TaskTop, TaskWait, TaskPark,
       TaskProcess, taskFrame, Paho, Arrive, ArriveNotify
  <2>7. QED
    BY <2>1, <2>5, <2>6 DEF Next, vars
<1>3. QED
  BY <1>1, <1>2, Typing, Lifetime, PTL DEF Spec

\* A message that a task in the manager's map takes off its queue reaches the
\* handlers of all the task's topics.
THEOREM RegisteredTaskHandlesHolds == Spec => RegisteredTaskHandles
<1>1. TypeInv /\ OrderInv /\ Equipped /\ [Next]_vars =>
          [\A t \in Task :
               tasks[NameOf[t]] = t /\ tmsg[t] # 0 /\ tmsg'[t] = 0 =>
                   handled'[t] = Append(handled[t],
                                   [msg |-> tmsg[t], by |-> FiltersOf[t]])]_vars
  <2> SUFFICES ASSUME TypeInv, OrderInv, Equipped, [Next]_vars, NEW t \in Task,
                      tasks[NameOf[t]] = t, tmsg[t] # 0, tmsg'[t] = 0
               PROVE  handled'[t] = Append(handled[t],
                                      [msg |-> tmsg[t], by |-> FiltersOf[t]])
    OBVIOUS
  <2>1. tpc[t] = "process" /\ InLine(t, tmsg[t])
    BY DEF OrderInv, LineInv, ThreadInv, RangeInv
  <2>2. handlers[t] = FiltersOf[t] /\ handlers[t] # {}
    <3>1. NameOf[t] \in Name /\ t # NoTask
      BY TaskAssumption DEF TaskAssumption
    <3>2. FiltersOf[t] # {}
      BY <2>1 DEF InLine, Wanted
    <3>3. QED
      BY <3>1, <3>2 DEF Equipped
  <2>3. TaskProcess(t)
    <3>1. ASSUME NEW u \in Task, TaskStep(u) PROVE u = t /\ TaskProcess(u)
      <4>1. CASE TaskProcess(u)
        BY <4>1 DEF TaskProcess, TypeInv, TypeOK
      <4>2. CASE TaskTop(u) \/ TaskPark(u)
        BY <4>2 DEF TaskTop, TaskPark
      <4>3. CASE TaskWait(u)
        BY <2>1, <4>3 DEF TaskWait, TypeInv, TypeOK
      <4>4. QED
        BY <3>1, <4>1, <4>2, <4>3 DEF TaskStep
    <3>2. ~UNCHANGED tmsg
      OBVIOUS
    <3>3. ~(ManagerStep \/ ManagerCall)
      BY <3>2 DEF ManagerStep, ManagerCall, Register, Unregister, ClearTask,
         Erase, Shutdown, RegisterTaskQueue, RegisterNotifier, StartThread,
         AddHandler, StoreTask, StopFlag, StopNotify, StopJoin,
         UnregisterTaskQueue, UnregisterNotifier, DispatcherStopFlag,
         DispatcherStopNotify, DispatcherJoin, managerFrame
    <3>4. ~(DispatcherStep \/ Spurious \/ Paho \/ UNCHANGED vars)
      BY <3>2 DEF DispatcherStep, DispatchTop, DispatchWait, DispatchPark,
         DispatchLock, DispatchPush, DispatchNotify, dispatcherFrame, Spurious,
         DispatchSpurious, TaskSpurious, taskFrame, Paho, Arrive, ArriveNotify,
         vars, threadVars
    <3>5. QED
      BY <3>1, <3>3, <3>4 DEF Next
  <2>4. QED
    BY <2>2, <2>3 DEF TaskProcess, TypeInv, TypeOK
<1>2. QED
  BY <1>1, Typing, Order, Equipment, PTL DEF Spec, RegisteredTaskHandles
=============================================================================
