---------------------------- MODULE MqttDispatch ----------------------------
(***************************************************************************)
(* Delivery of arrived MQTT messages to task handlers:                     *)
(*                                                                         *)
(*   paho receive thread --> MqttMessageDispatcher --> MqttTask threads    *)
(*                                                                         *)
(* with MqttClientManager's thread constructing, replacing and destroying  *)
(* tasks meanwhile (component/mqttclient).                                 *)
(*                                                                         *)
(* A message is the position at which it arrived; arrived[m] is its topic. *)
(* A task object is a member of Task and carries the arguments it is       *)
(* constructed with: NameOf (the key of the registries) and FiltersOf (the *)
(* topic filters).  Two objects with one name are a task and its           *)
(* replacement.                                                            *)
(*                                                                         *)
(* condition_variable::wait(lock, pred) is two steps: pred is evaluated    *)
(* with the mutex held ("checked"), then the mutex is released and the     *)
(* thread parked ("parked").  A notification moves a parked thread to      *)
(* "lock"; it is lost on a thread in any other state.  The dispatcher's    *)
(* mutex is held exactly in its states "checked", "push" and "notify": all *)
(* other critical sections on it are single steps.  A task's own mutex is  *)
(* taken by that task's thread only, so it excludes nobody.                *)
(***************************************************************************)
EXTENDS Naturals, Sequences, FiniteSets

CONSTANTS
    Name,        \* task names, numbers so that they have std::map's order
    Task,        \* task objects, each constructed at most once
    NoTask,      \* an absent map entry
    NameOf,      \* the name a task object is constructed with
    FiltersOf,   \* the topic filters it is constructed with
    Topic,       \* topics of messages
    Filter,      \* topic filters
    Matches,     \* filter -> topics is_topic_match accepts (module TopicMatch)
    MaxArrivals  \* bound: messages that arrive in a behaviour

ASSUME NameAssumption == Name \subseteq Nat
ASSUME TaskAssumption == NoTask \notin Task /\ NameOf \in [Task -> Name]
ASSUME FilterAssumption == /\ FiltersOf \in [Task -> SUBSET Filter]
                           /\ Matches \in [Filter -> SUBSET Topic]
ASSUME BoundAssumption == MaxArrivals \in Nat

VARIABLES
    arrived,   \* history: the topics that arrived, in order
    paho,      \* receive thread: "idle", or "notify" inside add_message
    inbox,     \* MqttMessageDispatcher::_message_queue
    registry,  \* MqttMessageDispatcher::_task_queues, name -> queue owner
    notifier,  \* MqttMessageDispatcher::_notifiers, name -> task it notifies
    drunning,  \* MqttMessageDispatcher::_running
    dpc,       \* where the dispatcher thread is
    dmsg,      \* the message it holds, 0 for none
    dtodo,     \* names dispatch_to_task_queues has still to serve
    object,    \* task -> "unborn", "alive" or "dead"
    running,   \* task -> MqttTask::_running
    tpc,       \* task -> where its thread is
    queue,     \* task -> MqttTask::_task_queue
    tmsg,      \* task -> the message its thread holds, 0 for none
    handlers,  \* task -> topics in MqttTask::_handlers
    handled,   \* history: task -> messages its callback was called with
    tasks,     \* MqttClientManager::_tasks
    mpc,       \* where the manager's thread is
    cur,       \* the object it constructs or stops
    closing    \* ~MqttClientManager has begun

dispatcherVars == <<drunning, dpc, dmsg, dtodo>>
threadVars == <<tpc, tmsg, handled>>
managerVars == <<tasks, mpc, cur, closing>>
vars == <<arrived, paho, inbox, registry, notifier, dispatcherVars,
          object, running, queue, handlers, threadVars, managerVars>>

Message == 1..MaxArrivals
Wanted(t) == UNION {Matches[f] : f \in FiltersOf[t]}

\* mutant: the wait's predicate is evaluated without the mutex
MutexFreeWhileChecked == dpc \notin {"push", "notify"}

\* MqttMessageDispatcher::_mutex: nobody else may enter a critical section on it
MutexFree == dpc \notin {"checked", "push", "notify"}

Init ==
    /\ arrived = <<>> /\ paho = "idle" /\ inbox = <<>>
    /\ registry = [n \in Name |-> NoTask]
    /\ notifier = [n \in Name |-> NoTask]
    /\ drunning = TRUE /\ dpc = "top" /\ dmsg = 0 /\ dtodo = {}
    /\ object = [t \in Task |-> "unborn"]
    /\ running = [t \in Task |-> FALSE]
    /\ tpc = [t \in Task |-> "off"]
    /\ queue = [t \in Task |-> <<>>]
    /\ tmsg = [t \in Task |-> 0]
    /\ handlers = [t \in Task |-> {}]
    /\ handled = [t \in Task |-> <<>>]
    /\ tasks = [n \in Name |-> NoTask]
    /\ mpc = "idle" /\ cur = NoTask /\ closing = FALSE

-----------------------------------------------------------------------------
(* The receive thread: message_arrived calls add_message. *)

\* add_message up to the unlock
Arrive(topic) ==
    /\ paho = "idle" /\ ~closing /\ MutexFree
    /\ Len(arrived) < MaxArrivals
    /\ arrived' = Append(arrived, topic)
    /\ inbox' = Append(inbox, Len(arrived) + 1)
    /\ paho' = "notify"
    /\ UNCHANGED <<registry, notifier, dispatcherVars, object, running, queue,
                   handlers, threadVars, managerVars>>

\* add_message's _cv.notify_one, after the unlock
ArriveNotify ==
    /\ paho = "notify"
    /\ paho' = "idle"
    /\ dpc' = IF dpc = "parked" THEN "lock" ELSE dpc
    /\ UNCHANGED <<arrived, inbox, registry, notifier, drunning, dmsg, dtodo,
                   object, running, queue, handlers, threadVars, managerVars>>

-----------------------------------------------------------------------------
(* The dispatcher thread: dispatch_loop and dispatch_to_task_queues. *)

dispatcherFrame == <<arrived, paho, registry, notifier, drunning, object,
                     running, tmsg, handlers, handled, managerVars>>

DispatchTop ==
    /\ dpc = "top"
    /\ dpc' = IF drunning THEN "lock" ELSE "done"
    /\ UNCHANGED <<inbox, dmsg, dtodo, queue, tpc, dispatcherFrame>>

\* _cv.wait's predicate, evaluated under the mutex, and what follows it
DispatchWait ==
    /\ dpc = "lock"
    /\ \/ /\ ~drunning
          /\ dpc' = "done"
          /\ UNCHANGED <<inbox, dmsg>>
       \/ /\ drunning /\ inbox # <<>>
          /\ dmsg' = Head(inbox) /\ inbox' = Tail(inbox)
          /\ dpc' = "dispatch"
       \/ /\ drunning /\ inbox = <<>>
          /\ dpc' = "checked"
          /\ UNCHANGED <<inbox, dmsg>>
    /\ UNCHANGED <<dtodo, queue, tpc, dispatcherFrame>>

DispatchPark ==
    /\ dpc = "checked"
    /\ dpc' = "parked"
    /\ UNCHANGED <<inbox, dmsg, dtodo, queue, tpc, dispatcherFrame>>

DispatchSpurious ==
    /\ dpc = "parked"
    /\ dpc' = "lock"
    /\ UNCHANGED <<inbox, dmsg, dtodo, queue, tpc, dispatcherFrame>>

\* mutant: a message goes to every task, whatever its topic
AddresseesAll(m) == {n \in Name : registry[n] # NoTask}

\* the registered names some filter of which matches the message
Addressees(m) ==
    {n \in Name : registry[n] # NoTask /\ arrived[m] \in Wanted(registry[n])}

\* dispatch_to_task_queues takes the mutex and keeps it until the last name
DispatchLock ==
    /\ dpc = "dispatch"
    /\ dtodo' = Addressees(dmsg)
    /\ IF dtodo' = {} THEN dpc' = "top" /\ dmsg' = 0
                      ELSE dpc' = "push" /\ dmsg' = dmsg
    /\ UNCHANGED <<inbox, queue, tpc, dispatcherFrame>>

\* std::map visits the names in order
IsNextName(n) == n \in dtodo /\ \A k \in dtodo : n <= k

\* task_info.queue->push(message); the task's mutex is not taken
DispatchPush ==
    /\ dpc = "push"
    /\ \E n \in Name :
          /\ IsNextName(n)
          /\ queue' = [queue EXCEPT ![registry[n]] = Append(@, dmsg)]
    /\ dpc' = "notify"
    /\ UNCHANGED <<inbox, dmsg, dtodo, tpc, dispatcherFrame>>

\* threads a notify_one on t's condition variable wakes
Woken(t) == [tpc EXCEPT ![t] = IF @ = "parked" THEN "lock" ELSE @]

\* the notifier registered under the same name, and the next name
DispatchNotify ==
    /\ dpc = "notify"
    /\ \E n \in Name :
          /\ IsNextName(n)
          /\ tpc' = IF notifier[n] # NoTask THEN Woken(notifier[n]) ELSE tpc
          /\ dtodo' = dtodo \ {n}
    /\ IF dtodo' = {} THEN dpc' = "top" /\ dmsg' = 0
                      ELSE dpc' = "push" /\ dmsg' = dmsg
    /\ UNCHANGED <<inbox, queue, dispatcherFrame>>

-----------------------------------------------------------------------------
(* A task's thread: MqttTask::run and process_message. *)

taskFrame == <<arrived, paho, inbox, registry, notifier, dispatcherVars,
               object, running, handlers, managerVars>>

TaskTop(t) ==
    /\ tpc[t] = "top"
    /\ tpc' = [tpc EXCEPT ![t] = IF running[t] THEN "lock" ELSE "done"]
    /\ UNCHANGED <<queue, tmsg, handled, taskFrame>>

TaskWait(t) ==
    /\ tpc[t] = "lock"
    /\ \/ /\ ~running[t]
          /\ tpc' = [tpc EXCEPT ![t] = "done"]
          /\ UNCHANGED <<queue, tmsg>>
       \/ /\ running[t] /\ queue[t] # <<>>
          /\ tmsg' = [tmsg EXCEPT ![t] = Head(queue[t])]
          /\ queue' = [queue EXCEPT ![t] = Tail(@)]
          /\ tpc' = [tpc EXCEPT ![t] = "process"]
       \/ /\ running[t] /\ queue[t] = <<>>
          /\ tpc' = [tpc EXCEPT ![t] = "checked"]
          /\ UNCHANGED <<queue, tmsg>>
    /\ UNCHANGED <<handled, taskFrame>>

TaskPark(t) ==
    /\ tpc[t] = "checked"
    /\ tpc' = [tpc EXCEPT ![t] = "parked"]
    /\ UNCHANGED <<queue, tmsg, handled, taskFrame>>

TaskSpurious(t) ==
    /\ tpc[t] = "parked"
    /\ tpc' = [tpc EXCEPT ![t] = "lock"]
    /\ UNCHANGED <<queue, tmsg, handled, taskFrame>>

\* process_message calls the callback once for every topic in _handlers, so
\* not at all while register_task has added none
TaskProcess(t) ==
    /\ tpc[t] = "process"
    /\ handled' = [handled EXCEPT ![t] =
          IF handlers[t] = {} THEN @
          ELSE Append(@, [msg |-> tmsg[t], by |-> handlers[t]])]
    /\ tmsg' = [tmsg EXCEPT ![t] = 0]
    /\ tpc' = [tpc EXCEPT ![t] = "top"]
    /\ UNCHANGED <<queue, taskFrame>>

-----------------------------------------------------------------------------
(* The manager's thread: register_task, unregister_task, ~MqttClientManager *)

managerFrame == <<arrived, paho, inbox, dmsg, dtodo, queue, tmsg, handled>>

\* register_task: the MqttTask constructor begins
Register(t) ==
    /\ mpc = "idle" /\ ~closing /\ object[t] = "unborn"
    /\ object' = [object EXCEPT ![t] = "alive"]
    /\ running' = [running EXCEPT ![t] = TRUE]
    /\ cur' = t /\ mpc' = "regQueue"
    /\ UNCHANGED <<registry, notifier, drunning, dpc, tpc, handlers, tasks,
                   closing, managerFrame>>

RegisterTaskQueue ==
    /\ mpc = "regQueue" /\ MutexFree
    /\ registry' = [registry EXCEPT ![NameOf[cur]] = cur]
    /\ mpc' = "regNotifier"
    /\ UNCHANGED <<notifier, drunning, dpc, object, running, tpc, handlers,
                   tasks, cur, closing, managerFrame>>

\* mutant: insert() instead of operator[] does not replace an entry
RegisterNotifierInsert ==
    /\ mpc = "regNotifier" /\ MutexFree
    /\ notifier' = IF notifier[NameOf[cur]] # NoTask THEN notifier
                   ELSE [notifier EXCEPT ![NameOf[cur]] = cur]
    /\ mpc' = "start"
    /\ UNCHANGED <<registry, drunning, dpc, object, running, tpc, handlers,
                   tasks, cur, closing, managerFrame>>

RegisterNotifier ==
    /\ mpc = "regNotifier" /\ MutexFree
    /\ notifier' = [notifier EXCEPT ![NameOf[cur]] = cur]
    /\ mpc' = "start"
    /\ UNCHANGED <<registry, drunning, dpc, object, running, tpc, handlers,
                   tasks, cur, closing, managerFrame>>

StartThread ==
    /\ mpc = "start"
    /\ tpc' = [tpc EXCEPT ![cur] = "top"]
    /\ mpc' = "addHandlers"
    /\ UNCHANGED <<registry, notifier, drunning, dpc, object, running,
                   handlers, tasks, cur, closing, managerFrame>>

\* mutant: a handler is added under the name of the task, not under a topic
AddHandlerByName(f) ==
    /\ mpc = "addHandlers" /\ f \in FiltersOf[cur] \ handlers[cur]
    /\ handlers' = [handlers EXCEPT ![cur] = @ \cup {NameOf[cur]}]
    /\ UNCHANGED <<registry, notifier, drunning, dpc, object, running, tpc,
                   managerVars, managerFrame>>

\* add_message_handler for one topic; its thread is already running
AddHandler(f) ==
    /\ mpc = "addHandlers" /\ f \in FiltersOf[cur] \ handlers[cur]
    /\ handlers' = [handlers EXCEPT ![cur] = @ \cup {f}]
    /\ UNCHANGED <<registry, notifier, drunning, dpc, object, running, tpc,
                   managerVars, managerFrame>>

\* mutant: the task is stored before all its handlers are added
StoreTaskEarly ==
    /\ mpc = "addHandlers"
    /\ tasks' = [tasks EXCEPT ![NameOf[cur]] = cur]
    /\ cur' = tasks[NameOf[cur]]
    /\ mpc' = IF cur' = NoTask THEN "idle" ELSE "flag"
    /\ UNCHANGED <<registry, notifier, drunning, dpc, object, running, tpc,
                   handlers, closing, managerFrame>>

\* _tasks[task_name] = std::move(task): a task of that name is destroyed
StoreTask ==
    /\ mpc = "addHandlers" /\ handlers[cur] = FiltersOf[cur]
    /\ tasks' = [tasks EXCEPT ![NameOf[cur]] = cur]
    /\ cur' = tasks[NameOf[cur]]
    /\ mpc' = IF cur' = NoTask THEN "idle" ELSE "flag"
    /\ UNCHANGED <<registry, notifier, drunning, dpc, object, running, tpc,
                   handlers, closing, managerFrame>>

\* unregister_task, or one entry of _tasks.clear() in the destructor
Erase(n) ==
    /\ mpc = "idle" /\ tasks[n] # NoTask
    /\ cur' = tasks[n]
    /\ tasks' = [tasks EXCEPT ![n] = NoTask]
    /\ mpc' = "flag"
    /\ UNCHANGED <<registry, notifier, drunning, dpc, object, running, tpc,
                   handlers, closing, managerFrame>>

Unregister(n) == ~closing /\ Erase(n)

\* MqttTask::stop, called by the destructor of cur
StopFlag ==
    /\ mpc = "flag"
    /\ running' = [running EXCEPT ![cur] = FALSE]
    /\ mpc' = "wake"
    /\ UNCHANGED <<registry, notifier, drunning, dpc, object, tpc, handlers,
                   tasks, cur, closing, managerFrame>>

\* mutant: stop() joins without a notification
StopSilently ==
    /\ mpc = "wake"
    /\ mpc' = "join"
    /\ UNCHANGED <<registry, notifier, drunning, dpc, object, running, tpc,
                   handlers, tasks, cur, closing, managerFrame>>

StopNotify ==
    /\ mpc = "wake"
    /\ tpc' = Woken(cur)
    /\ mpc' = "join"
    /\ UNCHANGED <<registry, notifier, drunning, dpc, object, running,
                   handlers, tasks, cur, closing, managerFrame>>

StopJoin ==
    /\ mpc = "join" /\ tpc[cur] = "done"
    /\ mpc' = "unQueue"
    /\ UNCHANGED <<registry, notifier, drunning, dpc, object, running, tpc,
                   handlers, tasks, cur, closing, managerFrame>>

\* mutant: the dispatcher's mutex is not taken
UnregisterTaskQueueUnlocked ==
    /\ mpc = "unQueue"
    /\ registry' = [registry EXCEPT ![NameOf[cur]] = NoTask]
    /\ mpc' = "unNotifier"
    /\ UNCHANGED <<notifier, drunning, dpc, object, running, tpc, handlers,
                   tasks, cur, closing, managerFrame>>

\* both unregister calls go by name, whoever is registered under it
UnregisterTaskQueue ==
    /\ mpc = "unQueue" /\ MutexFree
    /\ registry' = [registry EXCEPT ![NameOf[cur]] = NoTask]
    /\ mpc' = "unNotifier"
    /\ UNCHANGED <<notifier, drunning, dpc, object, running, tpc, handlers,
                   tasks, cur, closing, managerFrame>>

\* mutant: the notifier is left behind
UnregisterNoNotifier ==
    /\ mpc = "unNotifier" /\ MutexFree
    /\ object' = [object EXCEPT ![cur] = "dead"]
    /\ cur' = NoTask /\ mpc' = "idle"
    /\ UNCHANGED <<registry, notifier, drunning, dpc, running, tpc, handlers,
                   tasks, closing, managerFrame>>

\* the last call of stop; the object's members are destroyed after it
UnregisterNotifier ==
    /\ mpc = "unNotifier" /\ MutexFree
    /\ notifier' = [notifier EXCEPT ![NameOf[cur]] = NoTask]
    /\ object' = [object EXCEPT ![cur] = "dead"]
    /\ cur' = NoTask /\ mpc' = "idle"
    /\ UNCHANGED <<registry, drunning, dpc, running, tpc, handlers, tasks,
                   closing, managerFrame>>

\* ~MqttClientManager: disconnect() returns when no callback is running
Shutdown ==
    /\ mpc = "idle" /\ ~closing /\ paho = "idle"
    /\ closing' = TRUE
    /\ UNCHANGED <<registry, notifier, drunning, dpc, object, running, tpc,
                   handlers, tasks, mpc, cur, managerFrame>>

ClearTask(n) == closing /\ Erase(n)

\* _dispatcher->stop(), once _tasks.clear() has returned
DispatcherStopFlag ==
    /\ closing /\ mpc = "idle" /\ \A n \in Name : tasks[n] = NoTask
    /\ drunning' = FALSE
    /\ mpc' = "dWake"
    /\ UNCHANGED <<registry, notifier, dpc, object, running, tpc, handlers,
                   tasks, cur, closing, managerFrame>>

DispatcherStopNotify ==
    /\ mpc = "dWake"
    /\ dpc' = IF dpc = "parked" THEN "lock" ELSE dpc
    /\ mpc' = "dJoin"
    /\ UNCHANGED <<registry, notifier, drunning, object, running, tpc,
                   handlers, tasks, cur, closing, managerFrame>>

DispatcherJoin ==
    /\ mpc = "dJoin" /\ dpc = "done"
    /\ mpc' = "gone"
    /\ UNCHANGED <<registry, notifier, drunning, dpc, object, running, tpc,
                   handlers, tasks, cur, closing, managerFrame>>

-----------------------------------------------------------------------------
Paho == (\E topic \in Topic : Arrive(topic)) \/ ArriveNotify
DispatcherStep == \/ DispatchTop \/ DispatchWait \/ DispatchPark
                  \/ DispatchLock \/ DispatchPush \/ DispatchNotify
TaskStep(t) == TaskTop(t) \/ TaskWait(t) \/ TaskPark(t) \/ TaskProcess(t)
Spurious == DispatchSpurious \/ \E t \in Task : TaskSpurious(t)

\* what the manager's thread does once a call on it has begun
ManagerStep ==
    \/ RegisterTaskQueue \/ RegisterNotifier \/ StartThread
    \/ \E f \in Filter : AddHandler(f)
    \/ StoreTask
    \/ StopFlag \/ StopNotify \/ StopJoin
    \/ UnregisterTaskQueue \/ UnregisterNotifier
    \/ \E n \in Name : ClearTask(n)
    \/ DispatcherStopFlag \/ DispatcherStopNotify \/ DispatcherJoin

ManagerCall ==
    \/ \E t \in Task : Register(t)
    \/ \E n \in Name : Unregister(n)
    \/ Shutdown

Next == \/ Paho \/ DispatcherStep \/ Spurious \/ ManagerStep \/ ManagerCall
        \/ \E t \in Task : TaskStep(t)

Spec == Init /\ [][Next]_vars

(***************************************************************************)
(* Every thread that can take a step is eventually scheduled.  Nothing is  *)
(* assumed of the broker (Arrive), of the application's calls or of        *)
(* spurious wakeups.  The manager's fairness is strong because it competes *)
(* for the dispatcher's mutex: a thread that finds a mutex free again and  *)
(* again gets it one day, even if spurious wakeups make the dispatcher     *)
(* take it for ever.  The dispatcher itself never finds the mutex taken    *)
(* for longer than one step of another thread.                             *)
(***************************************************************************)
Fairness ==
    /\ WF_vars(ArriveNotify)
    /\ WF_vars(DispatcherStep)
    /\ SF_vars(ManagerStep)
    /\ \A t \in Task : WF_vars(TaskStep(t))

FairSpec == Spec /\ Fairness

-----------------------------------------------------------------------------
(* Properties *)

MaybeTask == Task \cup {NoTask}
ThreadPc == {"off", "top", "lock", "checked", "parked", "process", "done"}
StopPc == {"flag", "wake", "join", "unQueue", "unNotifier"}
RegisterPc == {"regQueue", "regNotifier", "start", "addHandlers"}
QuietPc == {"idle", "dWake", "dJoin", "gone"}
Call == [msg : Nat, by : SUBSET Filter]

TypeOK ==
    /\ arrived \in Seq(Topic) /\ paho \in {"idle", "notify"}
    /\ inbox \in Seq(Nat)
    /\ registry \in [Name -> MaybeTask] /\ notifier \in [Name -> MaybeTask]
    /\ drunning \in BOOLEAN
    /\ dpc \in {"top", "lock", "checked", "parked", "dispatch", "push",
                "notify", "done"}
    /\ dmsg \in Nat /\ dtodo \in SUBSET Name
    /\ object \in [Task -> {"unborn", "alive", "dead"}]
    /\ running \in [Task -> BOOLEAN]
    /\ tpc \in [Task -> ThreadPc]
    /\ queue \in [Task -> Seq(Nat)] /\ tmsg \in [Task -> Nat]
    /\ handlers \in [Task -> SUBSET Filter]
    /\ handled \in [Task -> Seq(Call)]
    /\ tasks \in [Name -> MaybeTask]
    /\ mpc \in QuietPc \cup RegisterPc \cup StopPc
    /\ cur \in MaybeTask /\ closing \in BOOLEAN

\* The dispatcher never reaches a destroyed task: neither of its two maps
\* names one, even between the two unregister calls of MqttTask::stop or while
\* a replacement of the same name registers, and an entry it has yet to serve
\* under the mutex stays registered.  A task is destroyed only after its
\* thread has ended (MqttClient.cpp:356-363, 289-306).
NoDangling ==
    /\ \A n \in Name : registry[n] # NoTask => object[registry[n]] = "alive"
    /\ \A n \in Name : notifier[n] # NoTask => object[notifier[n]] = "alive"
    /\ dpc \in {"push", "notify"} => \A n \in dtodo : registry[n] # NoTask
    /\ \A t \in Task : object[t] = "dead" => tpc[t] = "done"

\* Between two calls of the manager its map of tasks and the dispatcher's two
\* maps agree on every name, except that a name may have lost its dispatcher
\* entries: replacing a task unregisters its replacement
\* (MqttClientManager.cpp:73-78 with MqttClient.cpp:361-362).
RegistryAgrees ==
    mpc = "idle" => \A n \in Name : /\ registry[n] = notifier[n]
                                    /\ registry[n] \in {tasks[n], NoTask}

\* The callback of a task sees the messages it wants in arrival order, once
\* each and from the first one on without a gap, although three threads hand
\* them over and tasks come and go (MqttClient.cpp:238-307, 370-401).
Delivery == INSTANCE OrderedDelivery WITH
    Wants <- [t \in Task |-> Wanted(t)],
    delivered <- [t \in Task |->
                    [i \in 1..Len(handled[t]) |-> handled[t][i].msg]]
DeliversInOrder == Delivery!Spec

\* No wakeup goes astray.  The dispatcher sleeps on a message, or is about to,
\* only while the receive thread is between add_message's unlock and its
\* notification; and whoever is pushed to under a name, once its thread runs,
\* is also the one notified under that name, although replacing a task
\* overwrites and then clears the two entries one by one
\* (MqttClient.cpp:202-263, 298-302, 356-363).
NoLostWakeup ==
    /\ inbox # <<>> /\ dpc \in {"checked", "parked"} =>
           dpc = "parked" /\ paho = "notify"
    /\ \A n \in Name : registry[n] # NoTask /\ tpc[registry[n]] # "off" =>
           notifier[n] = registry[n]

InFlight(m) == dmsg = m \/ \E i \in 1..Len(inbox) : inbox[i] = m

\* No wakeup of the dispatcher is lost: a message that arrived is dispatched,
\* or the dispatcher is told to stop (MqttClient.cpp:238-267).
DispatchProgress ==
    \A m \in Message : InFlight(m) ~> ~InFlight(m) \/ ~drunning

\* t is parked and the dispatcher has pushed to it, but not notified it yet
PushedWhileParked(t) ==
    /\ dpc = "notify" /\ tpc[t] = "parked"
    /\ \E n \in Name : IsNextName(n) /\ registry[n] = t

\* A task that is parked when a message is pushed wakes up and drains its
\* whole queue, or is told to stop: the notifier found under its name is its
\* own (MqttClient.cpp:298-302, 376-384).  A push that comes while the task is
\* still "checked" has no such guarantee.
NotifiedTaskDrains ==
    \A t \in Task : PushedWhileParked(t) ~> queue[t] = <<>> \/ ~running[t]

\* stop() returns, and the task is destroyed, unless it notifies the thread
\* between its look at _running and its parking; the same holds of the
\* dispatcher's stop() (MqttClient.cpp:195-200, 356-363).
StopCompletes ==
    /\ \A t \in Task : mpc = "wake" /\ cur = t /\ tpc[t] # "checked"
                           ~> object[t] = "dead"
    /\ mpc = "dWake" /\ dpc # "checked" ~> mpc = "gone"

\* While a task is in the manager's map, each message its thread takes off the
\* queue reaches the handlers of all its topics: only messages that come while
\* register_task is still adding handlers, after the thread has started, are
\* dropped or reach some of them (MqttClient.cpp:348, 370-401,
\* MqttClientManager.cpp:73-78).
RegisteredTaskHandles ==
    [][\A t \in Task :
          tasks[NameOf[t]] = t /\ tmsg[t] # 0 /\ tmsg'[t] = 0 =>
              handled'[t] = Append(handled[t],
                                   [msg |-> tmsg[t], by |-> FiltersOf[t]])]_vars
=============================================================================
