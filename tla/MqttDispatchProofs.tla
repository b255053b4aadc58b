------------------------- MODULE MqttDispatchProofs -------------------------
(***************************************************************************)
(* For any set of task objects, names, filters and topics and any bound on *)
(* the arrivals: the state is well typed, the dispatcher never reaches a   *)
(* destroyed task, its maps agree with the manager's between calls, and no *)
(* wakeup of the dispatcher, or of a task by name, goes astray.            *)
(***************************************************************************)
EXTENDS MqttDispatch, TLAPS

Busy == mpc \in RegisterPc \cup StopPc

\* TypeOK alone is not inductive: StoreTask looks up the name of cur.
TypeInv == TypeOK /\ (Busy => cur \in Task)

\* TypeInv holds of the program's start and is kept by every step.
THEOREM Typing == Spec => []TypeInv
<1> USE NameAssumption, TaskAssumption, FilterAssumption, BoundAssumption
    DEF NameAssumption, TaskAssumption, FilterAssumption, BoundAssumption
<1>1. Init => TypeInv
  <2>1. /\ <<>> \in Seq(Topic) /\ <<>> \in Seq(Nat) /\ <<>> \in Seq(Call)
    OBVIOUS
  <2>2. Init => Busy = FALSE
    BY DEF Init, Busy, RegisterPc, StopPc
  <2>3. Init => TypeOK
    <3> SUFFICES ASSUME Init PROVE TypeOK
      OBVIOUS
    <3>1. /\ arrived \in Seq(Topic) /\ inbox \in Seq(Nat)
          /\ queue \in [Task -> Seq(Nat)] /\ handled \in [Task -> Seq(Call)]
      BY <2>1 DEF Init
    <3>2. /\ registry \in [Name -> MaybeTask] /\ notifier \in [Name -> MaybeTask]
          /\ tasks \in [Name -> MaybeTask] /\ cur \in MaybeTask
      BY DEF Init, MaybeTask
    <3>3. /\ object \in [Task -> {"unborn", "alive", "dead"}]
          /\ running \in [Task -> BOOLEAN] /\ tpc \in [Task -> ThreadPc]
          /\ tmsg \in [Task -> Nat] /\ handlers \in [Task -> SUBSET Filter]
      BY DEF Init, ThreadPc
    <3>4. QED
      BY <3>1, <3>2, <3>3 DEF Init, TypeOK, QuietPc
  <2>4. QED
    BY <2>2, <2>3 DEF TypeInv
<1>2. TypeInv /\ [Next]_vars => TypeInv'
  <2> SUFFICES ASSUME TypeInv, [Next]_vars PROVE TypeInv'
    OBVIOUS
  <2> USE DEF TypeInv, TypeOK, Busy, MaybeTask, ThreadPc, QuietPc, RegisterPc,
              StopPc
  <2>1. ASSUME NEW topic \in Topic, Arrive(topic) PROVE TypeInv'
    BY <2>1 DEF Arrive, dispatcherVars, threadVars, managerVars
  <2>2. CASE ArriveNotify
    BY <2>2 DEF ArriveNotify, threadVars, managerVars
  <2>3. CASE DispatcherStep
    <3> USE DEF dispatcherFrame, managerVars
    <3>1. CASE DispatchTop
      BY <3>1 DEF DispatchTop
    <3>2. CASE DispatchWait
      <4>1. inbox # <<>> => Head(inbox) \in Nat /\ Tail(inbox) \in Seq(Nat)
        OBVIOUS
      <4>2. /\ inbox' \in Seq(Nat) /\ dmsg' \in Nat
            /\ dpc' \in {"done", "dispatch", "checked"}
        BY <3>2, <4>1 DEF DispatchWait
      <4>3. QED
        BY <3>2, <4>2 DEF DispatchWait
    <3>3. CASE DispatchPark
      BY <3>3 DEF DispatchPark
    <3>4. CASE DispatchLock
      BY <3>4 DEF DispatchLock, Addressees
    <3>5. CASE DispatchPush
      <4>1. PICK n \in Name : queue' = [queue EXCEPT ![registry[n]] =
                                          Append(@, dmsg)]
        BY <3>5 DEF DispatchPush
      <4>2. queue' \in [Task -> Seq(Nat)]
        <5>1. \A t \in Task : Append(queue[t], dmsg) \in Seq(Nat)
          OBVIOUS
        <5>2. QED
          BY <4>1, <5>1
      <4>3. QED
        BY <3>5, <4>2 DEF DispatchPush
    <3>6. CASE DispatchNotify
      BY <3>6 DEF DispatchNotify, Woken
    <3>7. QED
      BY <2>3, <3>1, <3>2, <3>3, <3>4, <3>5, <3>6 DEF DispatcherStep
  <2>4. ASSUME NEW t \in Task, TaskStep(t) PROVE TypeInv'
    <3> USE DEF taskFrame, dispatcherVars, managerVars
    <3>1. CASE TaskTop(t)
      BY <3>1 DEF TaskTop
    <3>2. CASE TaskWait(t)
      <4>1. queue[t] # <<>> => Head(queue[t]) \in Nat /\ Tail(queue[t]) \in Seq(Nat)
        OBVIOUS
      <4>2. queue' \in [Task -> Seq(Nat)] /\ tmsg' \in [Task -> Nat]
        <5>1. CASE queue' = queue /\ tmsg' = tmsg
          BY <5>1
        <5>2. CASE /\ queue[t] # <<>>
                   /\ queue' = [queue EXCEPT ![t] = Tail(@)]
                   /\ tmsg' = [tmsg EXCEPT ![t] = Head(queue[t])]
          BY <4>1, <5>2
        <5>3. QED
          BY <3>2, <5>1, <5>2 DEF TaskWait
      <4>3. tpc' \in [Task -> ThreadPc]
        <5>1. PICK place \in {"done", "process", "checked"} :
                  tpc' = [tpc EXCEPT ![t] = place]
          BY Zenon, <3>2 DEF TaskWait
        <5>2. place \in ThreadPc /\ tpc \in [Task -> ThreadPc]
          OBVIOUS
        <5> HIDE DEF TypeOK, TypeInv, ThreadPc
        <5>3. QED
          BY <5>1, <5>2
      <4>4. QED
        BY SMTT(30), <3>2, <4>2, <4>3 DEF TaskWait
    <3>3. CASE TaskPark(t)
      BY <3>3 DEF TaskPark
    <3>4. CASE TaskProcess(t)
      <4>1. [msg |-> tmsg[t], by |-> handlers[t]] \in Call
        BY DEF Call
      <4>2. handled' \in [Task -> Seq(Call)]
        BY <3>4, <4>1 DEF TaskProcess
      <4>3. QED
        BY <3>4, <4>2 DEF TaskProcess
    <3>5. QED
      BY <2>4, <3>1, <3>2, <3>3, <3>4 DEF TaskStep
  <2>5. CASE Spurious
    <3>1. CASE DispatchSpurious
      BY <3>1 DEF DispatchSpurious, dispatcherFrame, managerVars
    <3>2. ASSUME NEW t \in Task, TaskSpurious(t) PROVE TypeInv'
      BY <3>2 DEF TaskSpurious, taskFrame, dispatcherVars, managerVars
    <3>3. QED
      BY <2>5, <3>1, <3>2 DEF Spurious
  <2>6. CASE ManagerStep
    <3> USE DEF managerFrame, managerVars
    <3>1. CASE RegisterTaskQueue
      BY <3>1 DEF RegisterTaskQueue
    <3>9. CASE RegisterNotifier
      BY <3>9 DEF RegisterNotifier
    <3>10. CASE StartThread
      BY <3>10 DEF StartThread
    <3>2. ASSUME NEW f \in Filter, AddHandler(f) PROVE TypeInv'
      BY <3>2 DEF AddHandler
    <3>3. CASE StoreTask
      BY <3>3 DEF StoreTask
    <3>4. CASE StopFlag \/ StopNotify \/ StopJoin
      BY <3>4 DEF StopFlag, StopNotify, StopJoin, Woken
    <3>5. CASE UnregisterTaskQueue \/ UnregisterNotifier
      BY <3>5 DEF UnregisterTaskQueue, UnregisterNotifier
    <3>6. ASSUME NEW n \in Name, ClearTask(n) PROVE TypeInv'
      BY <3>6 DEF ClearTask, Erase
    <3>7. CASE DispatcherStopFlag \/ DispatcherStopNotify \/ DispatcherJoin
      BY <3>7 DEF DispatcherStopFlag, DispatcherStopNotify, DispatcherJoin
    <3>8. QED
      BY <2>6, <3>1, <3>2, <3>3, <3>4, <3>5, <3>6, <3>7, <3>9,
         <3>10 DEF ManagerStep
  <2>7. CASE ManagerCall
    <3> USE DEF managerFrame
    <3>1. ASSUME NEW t \in Task, Register(t) PROVE TypeInv'
      BY <3>1 DEF Register
    <3>2. ASSUME NEW n \in Name, Unregister(n) PROVE TypeInv'
      BY <3>2 DEF Unregister, Erase
    <3>3. CASE Shutdown
      BY <3>3 DEF Shutdown
    <3>4. QED
      BY <2>7, <3>1, <3>2, <3>3 DEF ManagerCall
  <2>8. CASE UNCHANGED vars
    BY <2>8 DEF vars, dispatcherVars, threadVars, managerVars
  <2>9. QED
    BY <2>1, <2>2, <2>3, <2>4, <2>5, <2>6, <2>7, <2>8 DEF Next, Paho
<1>3. QED
  BY <1>1, <1>2, PTL DEF Spec

-----------------------------------------------------------------------------
(* Lifetime of the task objects *)

\* The object the manager constructs or stops exists and is not in its map;
\* the map holds existing objects under their own names.
ManagerInv ==
    /\ Busy => object[cur] = "alive" /\ \A n \in Name : tasks[n] # cur
    /\ \A n \in Name : tasks[n] # NoTask =>
           object[tasks[n]] = "alive" /\ NameOf[tasks[n]] = n
    /\ mpc \in {"unQueue", "unNotifier"} => tpc[cur] = "done"
    /\ mpc = "unNotifier" => registry[NameOf[cur]] = NoTask

\* Entries of the dispatcher's maps are under their own names.
KeyInv ==
    /\ \A n \in Name : registry[n] # NoTask => NameOf[registry[n]] = n
    /\ \A n \in Name : notifier[n] # NoTask => NameOf[notifier[n]] = n

\* Names the manager is not working on are in agreement, and the name of a
\* task under construction names it already.
Agreed(n) == registry[n] = notifier[n] /\ registry[n] \in {tasks[n], NoTask}
AgreeInv ==
    \A n \in Name :
        IF Busy /\ n = NameOf[cur]
        THEN /\ mpc \in {"regNotifier", "start", "addHandlers"} => registry[n] = cur
             /\ mpc \in {"start", "addHandlers"} => notifier[n] = cur
        ELSE Agreed(n)

LifeInv == ManagerInv /\ KeyInv /\ NoDangling /\ AgreeInv

\* what LifeInv reads; a step that leaves it alone keeps LifeInv
lifeVars == <<registry, notifier, dpc, dtodo, object, tpc, tasks, mpc, cur>>

LEMMA LifeStutter ==
    ASSUME LifeInv, UNCHANGED lifeVars
    PROVE  LifeInv'
<1>1. ManagerInv' /\ KeyInv' /\ NoDangling'
  BY DEF LifeInv, lifeVars, ManagerInv, KeyInv, NoDangling, Busy
<1>2. AgreeInv'
  BY DEF LifeInv, lifeVars, AgreeInv, Agreed, Busy
<1>3. QED
  BY <1>1, <1>2 DEF LifeInv

\* A step of a thread of the program other than the manager's: it changes
\* only where threads are and what the dispatcher has to serve.
LEMMA LifeThreads ==
    ASSUME LifeInv, TypeInv,
           UNCHANGED <<registry, notifier, object, tasks, mpc, cur>>,
           \A t \in Task : tpc[t] = "done" => tpc'[t] = "done",
           dpc' \in {"push", "notify"} =>
               \A n \in dtodo' : n \in Name /\ registry[n] # NoTask
    PROVE  LifeInv'
<1>1. Busy' <=> Busy
  BY DEF Busy
<1>2. ManagerInv'
  BY <1>1 DEF LifeInv, ManagerInv, TypeInv, Busy, RegisterPc, StopPc
<1>3. KeyInv'
  BY DEF LifeInv, KeyInv
<1>4. NoDangling'
  BY DEF LifeInv, NoDangling
<1>5. AgreeInv'
  BY <1>1 DEF LifeInv, AgreeInv, Agreed
<1>6. QED
  BY <1>2, <1>3, <1>4, <1>5 DEF LifeInv

LEMMA LifeDispatcher ==
    ASSUME LifeInv, TypeInv, DispatcherStep \/ DispatchSpurious
    PROVE  LifeInv'
<1> USE DEF dispatcherFrame, managerVars
<1> DEFINE Frame == UNCHANGED <<registry, notifier, object, tasks, mpc, cur>>
           Ends == \A t \in Task : tpc[t] = "done" => tpc'[t] = "done"
           Serves == dpc' \in {"push", "notify"} =>
                         \A n \in dtodo' : n \in Name /\ registry[n] # NoTask
<1>1. ASSUME \/ DispatchTop \/ DispatchWait \/ DispatchPark \/ DispatchSpurious
      PROVE  Frame /\ Ends /\ Serves
  BY <1>1 DEF DispatchTop, DispatchWait, DispatchPark, DispatchSpurious
<1>2. ASSUME DispatchLock PROVE Frame /\ Ends /\ Serves
  BY <1>2 DEF DispatchLock, Addressees
<1>3. ASSUME DispatchPush PROVE Frame /\ Ends /\ Serves
  BY <1>3 DEF DispatchPush, LifeInv, NoDangling, TypeInv, TypeOK
<1>4. ASSUME DispatchNotify PROVE Frame /\ Ends /\ Serves
  <2>1. Frame
    BY <1>4 DEF DispatchNotify
  <2>2. Ends
    BY <1>4 DEF DispatchNotify, Woken, TypeInv, TypeOK
  <2>3. Serves
    BY <1>4 DEF DispatchNotify, LifeInv, NoDangling, TypeInv, TypeOK
  <2>4. QED
    BY <2>1, <2>2, <2>3
<1>5. Frame /\ Ends /\ Serves
  BY <1>1, <1>2, <1>3, <1>4 DEF DispatcherStep
<1>6. QED
  BY <1>5, LifeThreads

LEMMA LifeTask ==
    ASSUME LifeInv, TypeInv, NEW t \in Task, TaskStep(t) \/ TaskSpurious(t)
    PROVE  LifeInv'
<1> USE DEF taskFrame, dispatcherVars, managerVars
<1>1. /\ UNCHANGED <<registry, notifier, object, tasks, mpc, cur, dpc, dtodo>>
      /\ tpc[t] # "done"
      /\ \E v \in ThreadPc : tpc' = [tpc EXCEPT ![t] = v]
  BY DEF TaskStep, TaskTop, TaskWait, TaskPark, TaskProcess, TaskSpurious,
         ThreadPc
<1>2. \A u \in Task : tpc[u] = "done" => tpc'[u] = "done"
  BY <1>1 DEF TypeInv, TypeOK
<1>3. dpc' \in {"push", "notify"} =>
          \A n \in dtodo' : n \in Name /\ registry[n] # NoTask
  BY <1>1 DEF LifeInv, NoDangling, TypeInv, TypeOK
<1>4. QED
  BY <1>1, <1>2, <1>3, LifeThreads

LEMMA LifeErase ==
    ASSUME LifeInv, TypeInv, NEW n \in Name, Erase(n)
    PROVE  LifeInv'
<1> USE TaskAssumption DEF TaskAssumption, managerFrame
<1>1. /\ mpc = "idle" /\ tasks[n] # NoTask /\ tasks[n] \in Task
      /\ cur' = tasks[n] /\ tasks' = [tasks EXCEPT ![n] = NoTask]
      /\ mpc' = "flag" /\ Busy' /\ ~Busy /\ NameOf[cur'] = n
      /\ UNCHANGED <<registry, notifier, dpc, dtodo, object, tpc>>
  BY DEF Erase, Busy, RegisterPc, StopPc, TypeInv, TypeOK, MaybeTask, LifeInv,
         ManagerInv
<1>2. ManagerInv'
  BY <1>1 DEF LifeInv, ManagerInv, TypeInv, TypeOK, MaybeTask
<1>3. KeyInv' /\ NoDangling'
  BY <1>1 DEF LifeInv, KeyInv, NoDangling
<1>4. AgreeInv'
  BY <1>1 DEF LifeInv, AgreeInv, Agreed, TypeInv, TypeOK
<1>5. QED
  BY <1>2, <1>3, <1>4 DEF LifeInv

LEMMA LifeManagerCall ==
    ASSUME LifeInv, TypeInv, ManagerCall
    PROVE  LifeInv'
<1> USE TaskAssumption DEF TaskAssumption, managerFrame
<1>1. ASSUME NEW t \in Task, Register(t) PROVE LifeInv'
  <2>1. /\ mpc = "idle" /\ object[t] = "unborn" /\ Busy' /\ ~Busy
        /\ object' = [object EXCEPT ![t] = "alive"]
        /\ cur' = t /\ mpc' = "regQueue"
        /\ UNCHANGED <<registry, notifier, dpc, dtodo, tpc, tasks>>
    BY <1>1 DEF Register, Busy, RegisterPc, StopPc
  <2>2. ManagerInv'
    BY <2>1 DEF LifeInv, ManagerInv, TypeInv, TypeOK, MaybeTask
  <2>3. KeyInv'
    BY <2>1 DEF LifeInv, KeyInv
  <2>4. NoDangling'
    BY <2>1 DEF LifeInv, NoDangling, TypeInv, TypeOK, MaybeTask
  <2>5. AgreeInv'
    BY <2>1 DEF LifeInv, AgreeInv, Agreed
  <2>6. QED
    BY <2>2, <2>3, <2>4, <2>5 DEF LifeInv
<1>2. ASSUME NEW n \in Name, Erase(n) PROVE LifeInv'
  BY <1>2, LifeErase
<1>3. CASE Shutdown
  BY <1>3, LifeStutter DEF Shutdown, lifeVars
<1>4. QED
  BY <1>1, <1>2, <1>3 DEF ManagerCall, Unregister

LEMMA LifeRegister ==
    ASSUME LifeInv, TypeInv,
           \/ RegisterTaskQueue \/ RegisterNotifier \/ StartThread
           \/ \E f \in Filter : AddHandler(f)
    PROVE  LifeInv'
<1> USE TaskAssumption DEF TaskAssumption, managerFrame, managerVars
<1> USE DEF TypeInv, TypeOK, MaybeTask, Busy, RegisterPc, StopPc
<1>1. CASE RegisterTaskQueue
  <2>1. ManagerInv' /\ KeyInv'
    BY <1>1 DEF RegisterTaskQueue, LifeInv, ManagerInv, KeyInv
  <2>2. NoDangling'
    BY <1>1 DEF RegisterTaskQueue, LifeInv, ManagerInv, NoDangling, MutexFree
  <2>3. AgreeInv'
    BY <1>1 DEF RegisterTaskQueue, LifeInv, AgreeInv, Agreed
  <2>4. QED
    BY <2>1, <2>2, <2>3 DEF LifeInv
<1>2. CASE RegisterNotifier
  <2>1. ManagerInv' /\ KeyInv'
    BY <1>2 DEF RegisterNotifier, LifeInv, ManagerInv, KeyInv
  <2>2. NoDangling'
    BY <1>2 DEF RegisterNotifier, LifeInv, ManagerInv, NoDangling
  <2>3. AgreeInv'
    BY <1>2 DEF RegisterNotifier, LifeInv, AgreeInv, Agreed
  <2>4. QED
    BY <2>1, <2>2, <2>3 DEF LifeInv
<1>3. CASE StartThread
  <2>1. ManagerInv' /\ KeyInv'
    BY <1>3 DEF StartThread, LifeInv, ManagerInv, KeyInv
  <2>2. NoDangling'
    BY <1>3 DEF StartThread, LifeInv, ManagerInv, NoDangling
  <2>3. AgreeInv'
    BY <1>3 DEF StartThread, LifeInv, AgreeInv, Agreed
  <2>4. QED
    BY <2>1, <2>2, <2>3 DEF LifeInv
<1>4. ASSUME NEW f \in Filter, AddHandler(f) PROVE LifeInv'
  BY <1>4, LifeStutter DEF AddHandler, lifeVars
<1>5. QED
  BY <1>1, <1>2, <1>3, <1>4

LEMMA LifeStore == ASSUME LifeInv, TypeInv, StoreTask PROVE LifeInv'
<1> USE TaskAssumption DEF TaskAssumption, managerFrame, managerVars
<1> USE DEF TypeInv, TypeOK, MaybeTask, RegisterPc, StopPc
<1> DEFINE b == NameOf[cur]
<1>1. /\ mpc = "addHandlers" /\ Busy /\ cur \in Task /\ b \in Name
      /\ tasks' = [tasks EXCEPT ![b] = cur] /\ cur' = tasks[b]
      /\ mpc' = IF cur' = NoTask THEN "idle" ELSE "flag"
      /\ UNCHANGED <<registry, notifier, dpc, dtodo, object, tpc>>
  BY DEF StoreTask, Busy
<1>2. /\ cur' # NoTask <=> Busy'
      /\ Busy' => cur' \in Task /\ object[cur'] = "alive" /\ NameOf[cur'] = b
      /\ cur' # cur
  BY <1>1 DEF Busy, LifeInv, ManagerInv
<1>3. ManagerInv'
  BY <1>1, <1>2 DEF LifeInv, ManagerInv
<1>4. KeyInv' /\ NoDangling'
  BY <1>1 DEF LifeInv, KeyInv, NoDangling
<1>5. AgreeInv'
  BY <1>1, <1>2 DEF LifeInv, AgreeInv, Agreed
<1>6. QED
  BY <1>3, <1>4, <1>5 DEF LifeInv

LEMMA LifeStop ==
    ASSUME LifeInv, TypeInv,
           \/ StopFlag \/ StopNotify \/ StopJoin
           \/ UnregisterTaskQueue \/ UnregisterNotifier
    PROVE  LifeInv'
<1> USE TaskAssumption DEF TaskAssumption, managerFrame, managerVars
<1> USE DEF TypeInv, TypeOK, MaybeTask, Busy, RegisterPc, StopPc
<1>1. CASE StopFlag \/ StopNotify \/ StopJoin
  <2>1. /\ UNCHANGED <<registry, notifier, object, tasks, cur, dpc, dtodo>>
        /\ \A t \in Task : tpc[t] = "done" => tpc'[t] = "done"
        /\ mpc \in {"flag", "wake", "join"}
        /\ mpc' \in {"wake", "join", "unQueue"}
        /\ mpc' = "unQueue" => tpc'[cur] = "done"
    BY <1>1 DEF StopFlag, StopNotify, StopJoin, Woken
  <2>2. ManagerInv' /\ KeyInv'
    BY <2>1 DEF LifeInv, ManagerInv, KeyInv
  <2>3. NoDangling'
    BY <2>1 DEF LifeInv, NoDangling
  <2>4. AgreeInv'
    BY <2>1 DEF LifeInv, AgreeInv, Agreed
  <2>5. QED
    BY <2>2, <2>3, <2>4 DEF LifeInv
<1>2. CASE UnregisterTaskQueue
  <2>1. ManagerInv' /\ KeyInv'
    BY <1>2 DEF UnregisterTaskQueue, LifeInv, ManagerInv, KeyInv
  <2>2. NoDangling'
    BY <1>2 DEF UnregisterTaskQueue, LifeInv, ManagerInv, NoDangling, MutexFree
  <2>3. AgreeInv'
    BY <1>2 DEF UnregisterTaskQueue, LifeInv, AgreeInv, Agreed
  <2>4. QED
    BY <2>1, <2>2, <2>3 DEF LifeInv
<1>3. CASE UnregisterNotifier
  <2> DEFINE b == NameOf[cur]
  <2>1. /\ mpc = "unNotifier" /\ mpc' = "idle" /\ cur \in Task /\ b \in Name
        /\ MutexFree /\ registry[b] = NoTask /\ tpc[cur] = "done"
        /\ notifier' = [notifier EXCEPT ![b] = NoTask]
        /\ object' = [object EXCEPT ![cur] = "dead"] /\ Busy /\ ~Busy'
        /\ UNCHANGED <<registry, tasks, tpc, dpc, dtodo>>
    BY <1>3 DEF UnregisterNotifier, LifeInv, ManagerInv
  <2>2. ManagerInv' /\ KeyInv'
    BY <2>1 DEF LifeInv, ManagerInv, KeyInv
  <2>3. NoDangling'
    BY <2>1 DEF LifeInv, KeyInv, NoDangling, MutexFree
  <2>4. AgreeInv'
    BY <2>1 DEF LifeInv, AgreeInv, Agreed
  <2>5. QED
    BY <2>2, <2>3, <2>4 DEF LifeInv
<1>4. QED
  BY <1>1, <1>2, <1>3

LEMMA LifeShutdown ==
    ASSUME LifeInv, TypeInv,
           DispatcherStopFlag \/ DispatcherStopNotify \/ DispatcherJoin
    PROVE  LifeInv'
<1> USE DEF managerFrame, Busy, RegisterPc, StopPc
<1>1. /\ UNCHANGED <<registry, notifier, object, tasks, cur, tpc, dtodo>>
      /\ ~Busy /\ ~Busy' /\ mpc' \in {"dWake", "dJoin", "gone"}
      /\ dpc' \in {"push", "notify"} => dpc' = dpc
  BY DEF DispatcherStopFlag, DispatcherStopNotify, DispatcherJoin
<1>2. ManagerInv' /\ KeyInv'
  BY <1>1 DEF LifeInv, ManagerInv, KeyInv
<1>3. NoDangling' /\ AgreeInv'
  BY <1>1 DEF LifeInv, NoDangling, AgreeInv, Agreed
<1>4. QED
  BY <1>2, <1>3 DEF LifeInv

-----------------------------------------------------------------------------
\* LifeInv holds of the program's start and is kept by every step.
THEOREM Lifetime == Spec => []LifeInv
<1>1. Init => LifeInv
  BY DEF Init, LifeInv, ManagerInv, KeyInv, NoDangling, AgreeInv, Agreed, Busy,
         RegisterPc, StopPc
<1>2. LifeInv /\ TypeInv /\ [Next]_vars => LifeInv'
  <2> SUFFICES ASSUME LifeInv, TypeInv, [Next]_vars PROVE LifeInv'
    OBVIOUS
  <2>1. ASSUME NEW topic \in Topic, Arrive(topic) PROVE LifeInv'
    BY <2>1, LifeStutter DEF Arrive, dispatcherVars, threadVars, managerVars,
                             lifeVars
  <2>2. CASE ArriveNotify
    <3>1. /\ UNCHANGED <<registry, notifier, object, tasks, mpc, cur, tpc, dtodo>>
          /\ dpc' \in {"push", "notify"} => dpc' = dpc
      BY <2>2 DEF ArriveNotify, threadVars, managerVars
    <3>2. dpc' \in {"push", "notify"} =>
              \A n \in dtodo' : n \in Name /\ registry[n] # NoTask
      BY <3>1 DEF LifeInv, NoDangling, TypeInv, TypeOK
    <3>3. QED
      BY <3>1, <3>2, LifeThreads
  <2>3. CASE DispatcherStep \/ Spurious
    BY <2>3, LifeDispatcher, LifeTask DEF Spurious
  <2>4. ASSUME NEW t \in Task, TaskStep(t) PROVE LifeInv'
    BY <2>4, LifeTask
  <2>5. CASE ManagerStep
    <3>1. ASSUME NEW n \in Name, ClearTask(n) PROVE LifeInv'
      BY <3>1, LifeErase DEF ClearTask
    <3>2. QED
      BY <2>5, <3>1, LifeRegister, LifeStore, LifeStop, LifeShutdown
      DEF ManagerStep
  <2>6. CASE ManagerCall
    BY <2>6, LifeManagerCall
  <2>7. CASE UNCHANGED vars
    BY <2>7, LifeStutter DEF vars, dispatcherVars, threadVars, managerVars,
                             lifeVars
  <2>8. QED
    BY <2>1, <2>2, <2>3, <2>4, <2>5, <2>6, <2>7 DEF Next, Paho
<1>3. QED
  BY <1>1, <1>2, Typing, PTL DEF Spec

\* The dispatcher never pushes to or notifies a destroyed task, and no thread
\* outlives its task, for any tasks, names and topics.
THEOREM NoDanglingHolds == Spec => []NoDangling
<1>1. LifeInv => NoDangling
  BY DEF LifeInv
<1>2. QED
  BY <1>1, Lifetime, PTL

\* Between calls the dispatcher's maps agree with the manager's, up to the
\* entries a replacement lost.
THEOREM RegistryAgreesHolds == Spec => []RegistryAgrees
<1>1. LifeInv => RegistryAgrees
  BY DEF LifeInv, AgreeInv, Agreed, RegistryAgrees, Busy, RegisterPc, StopPc
<1>2. QED
  BY <1>1, Lifetime, PTL

-----------------------------------------------------------------------------
(* Wakeups *)

\* The dispatcher is asleep on a message only until the notification is out.
DispatcherWoken ==
    inbox # <<>> /\ dpc \in {"checked", "parked"} => dpc = "parked" /\ paho = "notify"

\* Only the task under construction may have its queue registered alone, and
\* its thread has not been started then.
OwnNotifier ==
    \A n \in Name : registry[n] # NoTask =>
        notifier[n] = registry[n] \/ (mpc = "regNotifier" /\ registry[n] = cur)
Unstarted ==
    \A t \in Task :
        object[t] = "unborn" \/ (mpc \in {"regQueue", "regNotifier"} /\ cur = t)
            => tpc[t] = "off"

LEMMA DispatcherWakes ==
    ASSUME TypeInv, DispatcherWoken, [Next]_vars PROVE DispatcherWoken'
<1> USE DEF DispatcherWoken, dispatcherFrame, taskFrame, managerFrame,
            dispatcherVars, threadVars, managerVars
<1>1. CASE Paho
  BY <1>1 DEF Paho, Arrive, ArriveNotify, MutexFree
<1>2. CASE DispatcherStep \/ DispatchSpurious
  BY <1>2 DEF DispatcherStep, DispatchTop, DispatchWait, DispatchPark,
              DispatchLock, DispatchPush, DispatchNotify, DispatchSpurious
<1>3. ASSUME UNCHANGED <<inbox, paho>>, dpc' = dpc \/ dpc' = "lock"
      PROVE  DispatcherWoken'
  BY <1>3
<1>4. ASSUME NEW t \in Task, TaskStep(t) \/ TaskSpurious(t) PROVE DispatcherWoken'
  BY <1>3, <1>4 DEF TaskStep, TaskTop, TaskWait, TaskPark, TaskProcess,
                    TaskSpurious
<1>5. CASE ManagerStep
  <2>1. ASSUME NEW n \in Name, Erase(n) PROVE DispatcherWoken'
    BY <1>3, <2>1 DEF Erase
  <2>2. QED
    BY <1>3, <1>5, <2>1
       DEF ManagerStep, RegisterTaskQueue, RegisterNotifier, StartThread,
           AddHandler, StoreTask, StopFlag, StopNotify, StopJoin,
           UnregisterTaskQueue, UnregisterNotifier, ClearTask,
           DispatcherStopFlag, DispatcherStopNotify, DispatcherJoin
<1>6. CASE ManagerCall
  BY <1>3, <1>6 DEF ManagerCall, Register, Unregister, Erase, Shutdown
<1>7. CASE UNCHANGED vars
  BY <1>3, <1>7 DEF vars
<1>8. QED
  BY <1>1, <1>2, <1>4, <1>5, <1>6, <1>7 DEF Next, Spurious

\* a step that starts no thread and leaves the registries and the manager alone
LEMMA NotifierKept ==
    ASSUME OwnNotifier, Unstarted,
           UNCHANGED <<registry, notifier, object, mpc, cur>>,
           \A t \in Task : tpc[t] = "off" => tpc'[t] = "off"
    PROVE  OwnNotifier' /\ Unstarted'
  BY DEF OwnNotifier, Unstarted

LEMMA ThreadsKeepNotifier ==
    ASSUME TypeInv, OwnNotifier, Unstarted,
           \/ Paho \/ DispatcherStep \/ Spurious
           \/ \E t \in Task : TaskStep(t)
    PROVE  OwnNotifier' /\ Unstarted'
<1> USE DEF dispatcherFrame, taskFrame, dispatcherVars, threadVars, managerVars,
            TypeInv, TypeOK
<1>1. CASE Paho
  BY <1>1, NotifierKept DEF Paho, Arrive, ArriveNotify
<1>2. CASE DispatcherStep \/ DispatchSpurious
  <2>1. CASE DispatchNotify
    BY <2>1, NotifierKept DEF DispatchNotify, Woken
  <2>2. QED
    BY <1>2, <2>1, NotifierKept
       DEF DispatcherStep, DispatchTop, DispatchWait, DispatchPark, DispatchLock,
           DispatchPush, DispatchSpurious
<1>3. ASSUME NEW t \in Task, TaskStep(t) \/ TaskSpurious(t)
      PROVE  OwnNotifier' /\ Unstarted'
  <2>1. /\ UNCHANGED <<registry, notifier, object, mpc, cur>>
        /\ tpc[t] # "off" /\ \E v : tpc' = [tpc EXCEPT ![t] = v]
    BY <1>3 DEF TaskStep, TaskTop, TaskWait, TaskPark, TaskProcess, TaskSpurious
  <2>2. QED
    BY <2>1, NotifierKept
<1>4. QED
  BY <1>1, <1>2, <1>3 DEF Spurious

LEMMA ManagerKeepsNotifier ==
    ASSUME TypeInv, LifeInv, OwnNotifier, Unstarted, ManagerStep \/ ManagerCall
    PROVE  OwnNotifier' /\ Unstarted'
<1> USE TaskAssumption DEF TaskAssumption, managerFrame, managerVars
<1> USE DEF TypeInv, TypeOK, MaybeTask, OwnNotifier, Unstarted
<1>1. cur \in Task \/ ~Busy
  OBVIOUS
<1>2. CASE RegisterTaskQueue
  BY <1>1, <1>2 DEF RegisterTaskQueue, Busy, RegisterPc
<1>3. CASE RegisterNotifier
  <2>1. /\ mpc = "regNotifier" /\ mpc' = "start" /\ cur \in Task
        /\ notifier' = [notifier EXCEPT ![NameOf[cur]] = cur]
        /\ UNCHANGED <<registry, object, tpc, cur>>
    BY <1>1, <1>3 DEF RegisterNotifier, Busy, RegisterPc
  <2>2. /\ registry[NameOf[cur]] = cur
        /\ \A n \in Name : registry[n] = cur => n = NameOf[cur]
    BY <2>1 DEF LifeInv, AgreeInv, KeyInv, Busy, RegisterPc
  <2>3. QED
    BY <2>1, <2>2
<1>4. CASE StartThread
  <2>1. /\ mpc = "start" /\ mpc' = "addHandlers" /\ object[cur] = "alive"
        /\ tpc' = [tpc EXCEPT ![cur] = "top"]
        /\ UNCHANGED <<registry, notifier, object, cur>>
    BY <1>4 DEF StartThread, LifeInv, ManagerInv, Busy, RegisterPc
  <2>2. QED
    BY <2>1
<1>5. CASE (\E f \in Filter : AddHandler(f)) \/ StoreTask
  BY <1>5 DEF AddHandler, StoreTask
<1>6. CASE StopFlag \/ StopNotify \/ StopJoin \/ UnregisterTaskQueue
  BY <1>6 DEF StopFlag, StopNotify, StopJoin, UnregisterTaskQueue, Woken
<1>7. CASE UnregisterNotifier
  <2>1. /\ mpc = "unNotifier" /\ mpc' = "idle" /\ cur \in Task
        /\ registry[NameOf[cur]] = NoTask
        /\ notifier' = [notifier EXCEPT ![NameOf[cur]] = NoTask]
        /\ object' = [object EXCEPT ![cur] = "dead"]
        /\ UNCHANGED <<registry, tpc>>
    BY <1>1, <1>7 DEF UnregisterNotifier, Busy, StopPc, LifeInv, ManagerInv
  <2>2. QED
    BY <2>1
<1>8. ASSUME NEW n \in Name, Erase(n) PROVE OwnNotifier' /\ Unstarted'
  BY <1>8 DEF Erase
<1>9. CASE DispatcherStopFlag \/ DispatcherStopNotify \/ DispatcherJoin \/ Shutdown
  BY <1>9 DEF DispatcherStopFlag, DispatcherStopNotify, DispatcherJoin, Shutdown
<1>10. ASSUME NEW t \in Task, Register(t) PROVE OwnNotifier' /\ Unstarted'
  BY <1>10 DEF Register
<1>11. QED
  BY <1>2, <1>3, <1>4, <1>5, <1>6, <1>7, <1>8, <1>9, <1>10
     DEF ManagerStep, ManagerCall, ClearTask, Unregister

\* The dispatcher is never left asleep on a message that has been notified, and
\* a push under a name is followed by a notification of the same task, however
\* often tasks are replaced (MqttClient.cpp:202-263, 298-302, 356-363).
THEOREM NoLostWakeupHolds == Spec => []NoLostWakeup
<1> DEFINE WakeInv == DispatcherWoken /\ OwnNotifier /\ Unstarted
<1>1. Init => WakeInv
  BY DEF Init, DispatcherWoken, OwnNotifier, Unstarted
<1>2. TypeInv /\ LifeInv /\ WakeInv /\ [Next]_vars => WakeInv'
  <2> SUFFICES ASSUME TypeInv, LifeInv, WakeInv, [Next]_vars PROVE WakeInv'
    OBVIOUS
  <2>1. CASE UNCHANGED vars
    BY <2>1, DispatcherWakes, NotifierKept DEF vars, threadVars, managerVars
  <2>2. QED
    BY <2>1, DispatcherWakes, ThreadsKeepNotifier, ManagerKeepsNotifier DEF Next
<1>3. TypeInv /\ WakeInv => NoLostWakeup
  BY TaskAssumption
     DEF TaskAssumption, DispatcherWoken, OwnNotifier, Unstarted, NoLostWakeup,
         TypeInv, TypeOK, MaybeTask
<1>4. QED
  BY <1>1, <1>2, <1>3, Typing, Lifetime, PTL DEF Spec

-----------------------------------------------------------------------------
\* Every variable keeps its type.
THEOREM TypeOKHolds == Spec => []TypeOK
<1>1. TypeInv => TypeOK
  BY DEF TypeInv
<1>2. QED
  BY <1>1, Typing, PTL
=============================================================================
