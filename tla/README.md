# Verification of VayyarCareRV1106

TLA+ models of the concurrent and failure-prone parts of this repository, TLC
configurations that check them on small instances, and TLAPS proofs of theorems
about them for every value of their constants.

Source paths below are relative to `src/src/` unless they say otherwise.

## 1. Inventory

The repository builds a handful of small programs and libraries for a sensor
device. Everything under `prebuilt/` is third-party headers and libraries, and
`component/` at the top holds build output. The program's own code is this:

| Component | Code | State it keeps | Operations | Module |
|---|---|---|---|---|
| MQTT dispatcher, tasks, manager | `component/mqttclient` | dispatcher queue, `_task_queues`, `_notifiers`, `_running`; per task a queue, `_handlers`, `_running`, a thread; manager's `_tasks` | `add_message`, `dispatch_loop`, `register_task_queue`/`unregister_…`, `register_notifier`/`unregister_…`, task constructor, `start`, `stop`, `add_handler`, `process_message`, manager `register_task`, `unregister_task`, `~MqttClientManager` | `MqttDispatch` |
| Session with the cloud broker | `component/mqttclient` | paho handle, `_connected` | `connect`, `subscribe`, `publish`, destructor | `AliyunSession` |
| Matching of topics | `MqttClient.cpp:309-356`, `messagebus.cpp:280-300` | none (a loop) | `is_topic_match`, `split`, the comparison of `on_message` | `TopicMatch` |
| Device application | `app/registery` | certificate files, `_registry`, `is_state_reported` | `main`, `ensure_certificates_exist`, `Device::parse_device_registry`, the reporting loop | `DeviceApp` |
| Authorization | `component/authorization` | none | `generate_keys`, `create_jwt`, `generate_hmac`, base64 | one step of `DeviceApp` |
| Restful client | `component/restful` | a curl handle per request | `Session::get/post` | an input of `DeviceApp` |
| Message bus | `component/messagebusmosq` | `_subscriptions`, `_next_subscription_id`, `_connected`, `_reconnect_scheduled`, the Mosquitto handle | `connect`, `disconnect`, `publish`, `subscribe`, `unsubscribe`, `on_connect`, `on_disconnect`, `on_message`, `schedule_reconnect`, `do_reconnect`, destructor | `MessageBus` |
| Mosquitto's global initialization | `messagebus.cpp:22-67` | a flag and a counter of instances | `global_init`, `global_cleanup`, called by constructors and destructors | `BusGlobal` |
| Log server | `component/log/log_server` | `current_fp`, `keep_running`, the files of the directory, the FIFO | `main`, `switch_file`, `write_data`, `manage_files`, the SIGALRM handler | `LogServer` |
| Log client | `component/log/log_client` | none between calls | `Log_c` | `LogServer` |
| Log test programs, MQTT adapter | `component/log/log_test`, `app/mqttadapter` | none | exercise the log client and the bus by hand | not modelled |
| ZeroMQ bus | `component/messagebus` | a global context and four global clients behind shared pointers, a socket and a lock each | `mb_ipc_init`, `mb_pub`, `mb_sub`, `mb_recv`, `mb_push`, `mb_pull` | `ZmqBus` |
| Bootstrap | `app/bootstrap` | none | an empty build file | not modelled: there is no program |

### How they interact

* **MQTT.** paho's receive thread calls `message_arrived`, which calls
  `add_message`: push under `_mutex`, notify after the unlock. The dispatcher
  thread pops the message and, with its mutex held, pushes a copy to the queue of
  every task one of whose topics matches, and calls that task's notifier. Each
  task's thread waits on its own mutex and condition variable, pops, and calls
  its handlers. The thread of the application calls the manager, which
  constructs tasks (they register themselves), replaces and destroys them (they
  stop, join and unregister themselves).
* **Bus.** Application threads call the bus; Mosquitto's network thread calls
  `on_connect`, `on_disconnect` and `on_message`; every scheduled reconnection is
  a detached thread that sleeps and calls `connect`. All meet at one mutex, and
  some of them join each other.
* **Mosquitto's library.** All buses of a process share it: the first constructor
  initializes it, the last destructor cleans it up. A flag and a counter, both
  atomic, decide who does; no lock joins them.
* **ZeroMQ bus.** Threads call free functions on global clients. `mb_ipc_init`
  replaces context and clients; a receive that blocks keeps its own share of the
  subscriber, and thereby of the old context.
* **Log.** Any number of clients open the FIFO, write a message and close it. The
  server's main loop reads it and appends to the current file. SIGALRM interrupts
  that loop anywhere: the handler deletes the oldest files, clears
  `keep_running` and sets the next alarm; the main loop sees the flag the next
  time it looks, and makes a new file.
* **Device.** `main` makes the key pair, asks the cloud for its registration over
  the restful client, opens the session, registers a task, subscribes, and
  reports in a loop. The process may die anywhere; only the certificate files
  outlive it.

### What is hard here

`PROJECT.json` lists the hazards line by line, with the properties that would catch
them and a note on what these leave out. In short:

1. Objects shared by threads that are destroyed while others hold references
   (tasks in the dispatcher's maps).
2. Condition variables notified without the mutex their waiter holds: wakeups
   can be lost. One window of that kind is closed by the dispatcher's mutex, two
   others (a task's queue, `stop()`) are open.
3. Joins with a mutex held (`disconnect`, `~MqttTask`).
4. Record and broker can drift apart: subscriptions recorded after they are
   sent, and removed before they are withdrawn, around losses of the connection.
5. A signal handler that deletes files and changes flags between any two
   steps of the interrupted loop; file times in whole seconds.
6. Process death between two dependent files.
7. Boundaries of the loops that compare levels of topics.
8. A flag and a counter that are each atomic and not so together
   (`global_init`, `global_cleanup`).
9. Objects kept alive by shared pointers across their replacement, and a context
   whose end waits for every socket; messages of two parts, whose parts are sent
   and received one by one through shared sockets.

### What makes each component correct

* Dispatcher and tasks: no reference to a freed task is ever reachable; the two
  registries name the same tasks; each task sees the messages it asked for in
  order, once, without gaps, and handles them; arrived messages are dispatched;
  `stop` returns.
* Session and device: the subscription a successful call made lasts as long as
  its connection; whoever can be sent messages has a task; the key and the
  certificate in use are one pair.
* Matching: the messages a filter gets are those the MQTT standard assigns to it,
  up to exceptions that are stated.
* Bus: the broker holds no subscription that is not recorded, and what is recorded is
  subscribed, up to what a `subscribe` in progress misses; it is subscribed again
  after a loss; a handle removes exactly its own handler; at most one
  reconnection sleeps.
* Library: whoever calls it finds it initialized (in a program whose first bus is
  made alone); the last one cleans it up.
* ZeroMQ bus: a call in progress has its client; nothing waits for a socket that
  is never closed; a frame received is one message.
* Log: messages are recorded once and in order, and one is lost only with a call
  that fails or a server that ends; files are given up oldest first and never
  while written; the number of files is bounded; an alarm is followed by a file
  opened after it, except in one window.

## 2. Modules

| Module | Models | Proofs |
|---|---|---|
| `OrderedDelivery` | abstract: what the callback of one task is called with | |
| `MqttDispatch` | dispatcher, tasks, manager | `MqttDispatchProofs` (types, lifetimes), `MqttOrderProofs` (order, refinement) |
| `MessageBus` | the bus, its network thread, its reconnections, the broker | `MessageBusProofs` |
| `BusGlobal` | the Mosquitto library under several buses | `BusGlobalProofs` |
| `ZmqBus` | the ZeroMQ bus, its clients, contexts and sockets | `ZmqBusProofs` |
| `RetainedLog` | abstract: a log that records once, in order, and forgets | |
| `LogServer` | log server, its handler, log clients, FIFO, directory | `LogServerProofs` |
| `AliyunSession` | the session's calls as operators | through `DeviceApp` |
| `DeviceApp` | the device application, EXTENDS `AliyunSession` | `DeviceAppProofs` |
| `TopicMatch` | both ways of matching a topic with a filter | `TopicMatchProofs` |
| `MC…` | constants of the instances TLC checks | |

A definition marked `mutant:` in a comment is a plausible wrong version of the
definition that follows it. None is used by a specification; each is there to
show that the property named with it in `PROJECT.json` fails when the code has
that mistake.

### MqttDispatch

A message is the position at which it arrived; `arrived` keeps its topic. `inbox`
is the dispatcher's `_message_queue`, `registry` and `notifier` its two maps,
`queue[t]`, `handlers[t]`, `running[t]` the members of task object `t`, `tasks`
the manager's map. A task object is constructed at most once, so that a use of a
freed one is visible; `object[t]` says whether it is alive. Two objects of one
name are a task and its replacement.

Steps are cut where another thread can come between. `condition_variable::wait`
is two steps, the look at the predicate with the mutex held (`"checked"`) and the
parking with the mutex released (`"parked"`); a notification moves a parked
thread on and is lost on any other; spurious wakeups are allowed. The
dispatcher's mutex is held exactly in its states `checked`, `push` and `notify`,
because every other critical section on it is one step. Which code does what:

* `Arrive`, `ArriveNotify`: `add_message` up to and after the unlock.
* `DispatchTop` … `DispatchNotify`: `dispatch_loop` and
  `dispatch_to_task_queues`; `Addressees` is the search over the map, and `dtodo`
  is served in the map's order. `dispatch_to_topic_callbacks` is disabled at
  `MqttClient.cpp:265`.
* `TaskStep`: `MqttTask::run` and `process_message`. The test on the topic at
  `MqttClient.cpp:396` is disabled, so each handler gets each message.
* Manager: `RegisterTaskQueue`, `RegisterNotifier`, `StartThread`, `AddHandler`,
  `StoreTask` are the constructor and `register_task`; `StopFlag`, `StopNotify`,
  `StopJoin`, `UnregisterTaskQueue`, `UnregisterNotifier` are `~MqttTask`;
  `DispatcherStop…`, `DispatcherJoin` are `~MqttMessageDispatcher`.

### MessageBus

`link`, `broker` and `cancelled` stand for Mosquitto's connection, the
subscriptions the broker has for it and a forced stop of its thread; `loop` is
where the network thread is; `connected`, `scheduled`, `subs`, `nextId` are the
members of the object; `apc`/`arg` say where each application thread is, `held`
which handles it has. `destroying`, `destroyed`, `sleepers` and `callers` follow
the destructor and the detached threads. Mosquitto is external, modelled
from how `messagebus.cpp` uses it and what its header says: `mosquitto_connect`
connects or fails, `on_connect` comes later, the library reconnects by itself if
`auto_reconnect` is set, the broker forgets the subscriptions of a lost
connection (clean session).

`ensure_connected` reads `_connected` without the mutex: `EnsureConnected` is its
first look, `Reconnect` the call of `connect`, `Look` the second look, after which
a call gives up. `subscribe` goes on in three steps: `SubscribeSend` asks the
broker, `SubscribeDraw` draws the id, both without the mutex, and
`SubscribeRecord` records under it. Between the first and the last a topic is
*in the gap* (`InTheGap`): a connection lost there, or another thread's
`unsubscribe`, takes it from the broker before it is on record, and nobody
subscribes it again. The history variable `missed` has the topics to which that
happened, until the broker has them again. `unsubscribe` is one critical section,
entered (`Unsubscribe`) before the erase (`UnsubscribeRemove`). Critical sections are
one step, except the one that waits: `disconnect` (also called by the destructor)
holds the mutex while it joins the network thread, in the state `"joining"`. A
message has the topic of a subscription; wildcards are the subject of
`TopicMatch`.

### BusGlobal

One bus of `MessageBus` is a number here: `buses` counts those that are
constructed and whose destructor has not begun. `initialized` is
`g_initialized`, `count` is `g_instance_count`, `ready` is the library:
`mosquitto_lib_init` has run and `mosquitto_lib_cleanup` has not since. Each
access to flag or counter and each library call is a step of its own:
`GlobalInit`, `LibInit`, `Count`, `New` for the constructor, `Destroy`,
`Uncount`, `GlobalCleanup`, `LibCleanup` for the destructor. `New` may throw; the destructor does not run then, and the count
stays (`failed`).

`exposed` is a history variable: it becomes TRUE when a constructor runs beside
another thread's constructor or destructor while no bus outside them exists. Mosquitto's header
calls `mosquitto_lib_init` not thread safe
(`prebuilt/include/mosquitto/mosquitto.h:259-261`), so a program is to make its first bus
alone. `LibraryReady` and `CleanedUp` are stated for behaviours that are not exposed.
Without that premise the library is used before it is initialized: `bus_race`
shows it for `InitializedFirst`, which has no premise (section 3).

### ZmqBus

A *generation* is what one `mb_ipc_init` makes. `global[k]` and `gcontext` say
which generation `g_publisher`, `g_subscriber`, `g_puller`, `g_pusher` and
`g_context` point to, `client[k][g]` whether that client exists and has a socket,
`uses` and `contextUses` are the use counts of the shared pointers. `Drop` is
the end of a share: the last one runs the destructor, which closes the socket
and drops the context.

* `InitBegin`, `Reset`, `NewContext`, `FetchUrls`, `Make`, `Skip`: `mb_ipc_init`, pointer
  by pointer; a client made may be left without a socket or without a connection.
* `Call`, then `PublishTopic` and `PublishContent`, `Push`, `PullEnter` and `Pull`,
  `Subscribe`, `ReceiveEnter`, `ReceivePart`, `ReceiveReturn`: the calls, one step
  for each ZeroMQ call. `MayEnter` is the optional lock: a client that is thread safe is
  inside one call at a time.
* `Interrupt`: `zmq_msg_recv` fails in the middle of a call. `Fail`: the first
  ZeroMQ function of a call fails, as each does without a socket.

Assumed of callers, because the code looks at its globals without any lock: no call
begins during `mb_ipc_init`, only `mb_recv` (which copies the pointer) may be in
progress when it begins, and a client that is not thread safe is used by one call
at a time. The receive thread is left out: the flag that would start it is false
from the constructor on. Messages that linger after
`zmq_close` are not modelled (section 5). The directory is disabled in `CMakeLists.txt`; the
component is modelled because its lifetimes are the most intricate of the repository.

### LogServer

Time is a number of seconds. A file is named after the second it was made in, so
a second `fopen` in that second empties it; `dir` is the set of files, `data`
and `mtime` their content and modification time. `pc` is the main thread's
place in `main`, `switch_file` and `write_data`, and `Alarm`, the whole signal
handler, may come between any two of them. `due` is the next alarm. `pipe`,
`Writers` and the clients' places (`cpc`) are the FIFO: an open blocks until both sides are
there, data is lost when the last reader leaves before it is read (`Abandoned`).
`Restart` starts a server again on the files and the FIFO its predecessor left.
`Prompt` is a constant: TRUE restricts time to pass only while the server waits
in `read` or `open`, the schedule of an unloaded device; only `log_oldest` uses it, to
show that no load is needed.

Calls fail, each failure counted by `failures`. What is printed goes through
the buffer of the stream: `data` is what has been printed to a file, `unwritten`
how many messages at its end still wait in the stream. `write_data` ignores the
results of `fprintf` and `fflush`: when they fail (`Write`), the message is dropped,
or stays in the buffer, whole or in part, and is written by a later flush or
by `fclose`, which may fail as well (`Fclose`, `Lost`). A message of which only a part
is in the file does not count as written. `fopen` and the timer may fail;
in the handler a `remove` may, and `get_files`, in which case nothing is deleted
(`ManageFiles`). When its `opendir` fails the array is freed twice
(`log_server.cpp:112, 182`), which is undefined: `Alarm` lets the process end or go on.

### AliyunSession and DeviceApp

`AliyunSession` has one operator for each call, which takes the result it
returns; `link` and `granted` are paho and the broker. The code sets no callback
for a lost connection, so `LoseSession` leaves `connected` TRUE. `DeviceApp` makes
the calls in the order of `main`. A certificate file is `Absent`, `Torn` (opened
for writing and not complete) or the number of its pair, so that halves of two
pairs can be told apart. `mishaps` counts what the code cannot notice: a write
whose result nobody reads, a death with the second file open. The request for
the registration is one step with the three answers later steps tell apart. A
misshapen answer throws out of `main`; an empty one is reported and ignored, and
the application goes on to a connection that cannot succeed.

### TopicMatch

A string is the sequence of its levels. `Split` keeps what `getline` does: no
token follows a last delimiter. The loop of `is_topic_match` is one action per
iteration, its early returns are `Start` and `Decide`, the comparison of lengths
is `End`. `BusMatch` is the comparison of `on_message`, which looks for the first
`+` only. The reference is `MqttMatch`, section 4.7.1 of the MQTT standard,
stated without a loop. `MqttDispatch` takes the relation as its constant
`Matches`, and its results hold for any.

## 3. Runs

| Run | Instance | States | Properties |
|---|---|---|---|
| `mqtt_replace` | a task and its replacement, 2 messages, 1 topic, fairness | 183 k | `TypeOK`, `NoDangling`, `RegistryAgrees`, `NoLostWakeup`, `RegisteredTaskHandles`, `DispatchProgress`, `NotifiedTaskDrains`, `StopCompletes` |
| `mqtt_two_tasks` | two names, 2 topics, 2 messages | 1.1 M | `DeliversInOrder` |
| `bus_threads` | 2 threads, 2 topics, 3 subscriptions, 2 failures | 2.0 M | `TypeOK`, `NoOrphan`, `HeldIsRecorded`, `ConnectedHasLoop`, `OneSleeper`, `RecordedIsSubscribed`, `DisconnectWaits` |
| `bus_restore` | 1 thread, 2 topics, 3 subscriptions, 2 failures, fairness | 174 k | `RestoredAfterLoss` |
| `bus_disconnect` | 1 thread, 1 subscription, fairness | violation | `DisconnectReturns` |
| `bus_global` | 3 threads, 5 constructors | 18 k | `TypeOK`, `LibraryReady`, `CleanedUp` |
| `bus_race` | 3 threads, 2 constructors | violation | `InitializedFirst` |
| `log_any` | 2 clients, 2 messages, 4 seconds, 1 restart, 2 failures, fairness | 686 k | `TypeOK`, `ReadHasFile`, `CurrentKept`, `FilesBounded`, `FilesInOrder`, `KeepsLog`, `FilesOnlyGrow`, `AlarmSwitches` |
| `log_oldest` | 1 client, 2 messages, 8 seconds | violation | `OldestGoFirst` |
| `device_app` | 4 starts of the process | 3.2 k | `TypeOK`, `CertificatesMatch`, `PairKept`, `SubscribedHasTask`, `SubscriptionLasts` |
| `topic_match` | all filters and topics of 4 levels or fewer | 193 k | `TypeOK`, `MatchesExactly`, `BusNeverMisses` |
| `zmq_bus` | 3 threads, 2 initializations, 2 messages, 1 push | 2.7 M | `TypeOK`, `Lifetimes`, `FramesWhole`, `SubscribeStarves` |

Every property has a comment beside its definition with what it says and the
lines it is about; what follows is what needs more room.

* `DeliversInOrder` is refinement: `MqttDispatch` implements `OrderedDelivery`
  with `delivered` mapped to `handled`, the messages for which the callback ran.
  It says nothing of when a task's first message comes, or that a next one does.
* `NoLostWakeup` is the safety part of progress. The dispatcher's predicate is
  tested and its thread parked under the mutex `add_message` pushes under, so it
  can sleep on a message only until the notification that follows. And the two
  entries a task has under its name are set and cleared one after the other: a
  task whose thread runs must be notified wherever it is pushed to. A
  `register_notifier` that keeps an entry it finds breaks that.
* `RegistryAgrees` compares the manager's map with the dispatcher's two between the
  manager's calls, and allows a name to have lost its entries in both. That
  happens: `register_task` with a name in use constructs the new task before it
  destroys the old one, and the old one's destructor removes the new one's
  entries. The replacement stays in the manager's map and gets no messages.
  `mqtt_replace` contains this case; nothing in the repository says what should happen.
* `RegisteredTaskHandles` is about a task in the manager's map: what its thread
  takes off the queue reaches the handlers of all its topics. The thread starts
  before the handlers are added, so a message that comes while `register_task` is
  still at work is dropped or reaches some of them only; the property says
  that this window closes with `register_task`.
* `NotifiedTaskDrains` starts from a push that finds the task parked. If it falls
  between the look at the queue and the parking, the wakeup is lost and the
  message waits for the next; the code does not promise more, and the property
  excludes just that.
* `StopCompletes` excludes likewise a `stop()` whose flag and notification both
  fall in that window: `join` then waits for ever, unless a spurious wakeup
  comes.
* `DisconnectWaits` says how far the first disagreement below reaches: a
  `disconnect` waits only for a thread it has cancelled itself, never for one that
  was started meanwhile, and a network thread caught in a callback behind the
  mutex does not move, nor does `disconnect`.
* `RecordedIsSubscribed` says that a recorded topic is subscribed once `on_connect`
  is over, for several threads, reconnections and failures, with one exception:
  topics the broker lost between the sending and the recording of a subscription
  (`missed`). A reconnection there, or another thread's `unsubscribe` of the last
  handle, leaves such a topic on record and not subscribed until the next connection.
  The property says that nothing else does.
* `HeldIsRecorded` has also the ids: two threads draw them without the mutex, and no
  two subscriptions that are on record or about to be recorded have the same one,
  so that `unsubscribe` finds its own.
* `CleanedUp`: a constructor that threw has counted itself for ever, and from
  then on no destructor cleans up. The property says exactly that.
* `Lifetimes` says of shared pointers what use counts alone do not: a client
  is there exactly while a global or a receive shares it, and a context exactly
  while it is the global one or one of its clients is left, so that
  `zmq_ctx_term` finds no open socket.
* `FramesWhole` excludes messages whose content could not be sent: their topic stays in
  the socket and is taken for the first part of the next message, a frame of
  topic and topic. An empty part ends the loop of `mb_recv` and leaves the rest of its
  message to the next call; the property counts parts on that account.
* `SubscribeStarves` is about a bus whose clients take locks. `mb_recv` waits for a
  message with the lock held that `mb_sub` needs, so a first subscription made
  meanwhile waits for a message that cannot come without it. No step of any
  thread changes that, except a signal that ends the receive.
* `KeepsLog` is refinement: `LogServer` implements `RetainedLog` with `log` mapped to
  the files joined from the oldest to the newest, `next` to the number of
  the first message not yet printed, and `accidents` to the failed calls and
  restarts. A message may be left out only in a step in which a call fails or
  the process ends, or while no server runs; an alarm, a rotation or a deletion
  never costs a message that is not yet printed.
* `FilesBounded`: in the steady state the directory holds `MAX_FILES + 1` files,
  because the handler deletes before the new file is made. A restart makes a
  file without an alarm, and a failed `remove` or listing leaves one.
* `FilesOnlyGrow` names the one case in which a file loses what it held: two
  openings within one second give one name, and `"w"` empties it. The property says
  that this happens only to a file made and last written in that very second,
  however late the server is and whoever is restarted.
* `AlarmSwitches` starts from an alarm at any step, those of `switch_file`
  included, and ends at a file opened after it, or with the server. The
  one window it names is after `fopen` (`pc = "resume"`): the assignment of
  `keep_running` at `log_server.cpp:357` takes back an alarm that came since 349, and
  no new file follows before the next alarm.
* `CertificatesMatch` excludes mishaps. After one, the torn or mixed pair is
  accepted by every later start, because only the existence of the files is
  looked at.
* `MatchesExactly` names the two exceptions of the code: an empty last level
  does not count (`a/` is taken for `a`, and `a/+` does not get `a/`), and `a/#`
  does not get `a`.
* `BusNeverMisses`: after the first `+` the bus looks at nothing, so it calls more
  handlers than the standard would; it never treats `#`, and the property
  excludes filters that end in it.

### Disagreements found

* `InitializedFirst`: `mosquitto_lib_init` "must be called before any other mosquitto
  functions" (`prebuilt/include/mosquitto/mosquitto.h:259`). `global_init` sets the
  flag before it calls it (`messagebus.cpp:56-60`): of two threads that construct
  the first two buses, one finds the flag set and is in `mosquitto_new` before
  the other has initialized the library. The programs of this repository make
  one bus.
* `DisconnectReturns`: `disconnect()` joins the network thread with `_mutex` held
  (`messagebus.cpp:101`); that thread may be waiting for `_mutex` in `on_connect`
  or `on_message`. The header of Mosquitto says the forced stop it asks for ends
  the thread (`prebuilt/include/mosquitto/mosquitto.h:1281-1283`); a thread that
  waits for a mutex is at no cancellation point.
* `OldestGoFirst`: files are compared by whole seconds, so a file can be deleted
  while an older one with an equal time stays (`log_server.cpp:85`, against the
  comments at 80 and 145). `OldestGoFirstUnlessTied`, proved, bounds it: only
  neighbours change places, both last written in the second the newer was made.

### Bounds, and why they are enough

* Mqtt: two messages let one be handled while the other is queued at the task or
  at the dispatcher during a replacement. A gap between two handled messages
  shows only with three; `DeliversInOrder` and `RegisteredTaskHandles` are
  therefore proved for any number, and the instance with three (708 k states, without fairness)
  agrees. The order under a replacement is left to the proof. Two objects of a name are
  what a replacement needs, and two names what the dispatcher's loop needs. Task
  objects are constructed at most once each: a third replacement repeats the
  second. A second topic in `mqtt_two_tasks` makes the tasks' wishes differ.
* Bus: three subscriptions give two of one topic and one of another; two failures
  give a lost connection and a failed reconnection. The two threads are enough for
  every pair of calls to overlap.
* Library: three threads and five constructors let the library be initialized,
  cleaned up and initialized again while a third thread is between its steps.
* ZeroMQ: two generations are what a replacement under a blocked receive needs; three
  threads share a socket, two inside or waiting while the third initializes; two
  messages let the parts of one follow those of the other. Publisher and
  subscriber, or puller and pusher, are made at a time. The threads are
  symmetric, and all properties are about states and steps.
* Log: a period of one second and four seconds give three alarms and files for each
  second, more than `MaxFiles`, so deletions happen; a restart and two failures fall at each
  possible step, so a flush can fail before the `fclose` that also fails.
* Device: four starts are one that dies before the first file is complete, one
  between the files, one that completes them and one that uses them.
* Topics: four levels give a wildcard with levels on both sides and one level of
  difference in length.
* Deadlock checking is off where behaviours end: `MaxArrivals` used up and the
  manager destroyed, or a `stop()` that waits for ever; a destroyed bus, or a
  `disconnect()` that hangs; a server that has exited or that waits when time is
  used up; the last start of the process used up; the comparison at its end; all
  constructors used up; a receive without a message to come.

### Fairness

* `mqtt_replace`: weak fairness of the receive thread's second half, of the dispatcher
  and of each task's thread, whose steps stay enabled until taken once the thread
  is runnable; strong fairness of the manager's thread, which needs a mutex that is
  taken and released by others again and again. Nothing forces a message to
  arrive, a spurious wakeup or a call of the manager to begin.
* `bus_restore`, `bus_disconnect`: strong fairness of the steps of application,
  network and reconnection threads inside a call, as all wait for one mutex
  that is free again and again; weak fairness of the library's own reconnection;
  strong fairness of `Accepted`, a broker that can be reached does not refuse
  for ever. Failures are bounded.
* `log_any`: weak fairness of the server's main thread and of clients inside a call.
  The clock is not fair: `AlarmSwitches` starts from an alarm that has come.

## 4. Proofs

`tlapm` checks every step of the eight proof modules. They assume only what the
modules' named `ASSUME`s say about their constants, each of which TLC evaluates
on the instances above.

| Theorem | Says |
|---|---|
| `MqttDispatchProofs!TypeOKHolds` | types, for any tasks, names, filters and messages |
| `MqttDispatchProofs!NoDanglingHolds` | whatever the dispatcher can reach is alive |
| `MqttDispatchProofs!RegistryAgreesHolds` | the two registries name the same tasks |
| `MqttDispatchProofs!NoLostWakeupHolds` | no wakeup of the dispatcher, or of a task by its name, goes astray |
| `MqttOrderProofs!DeliversInOrderHolds` | the dispatcher, the tasks and the manager implement `OrderedDelivery` |
| `MqttOrderProofs!RegisteredTaskHandlesHolds` | a registered task handles what its thread takes |
| `MessageBusProofs!TypeOKHolds` | types, for any threads, topics and failures |
| `MessageBusProofs!NoOrphanHolds` | no subscription at the broker without a record |
| `MessageBusProofs!HeldIsRecordedHolds` | every handle an application holds is on record |
| `MessageBusProofs!OneSleeperHolds` | at most one reconnection is waiting |
| `MessageBusProofs!ConnectedHasLoopHolds` | a connected bus has a network thread whenever `disconnect` may run |
| `MessageBusProofs!RecordedIsSubscribedHolds` | what is recorded is subscribed, except what a `subscribe` in progress missed, for any threads and failures |
| `MessageBusProofs!BusInvariant` | the inductive invariant: ids and records, who may hold the mutex in `disconnect`, when there is a network thread |
| `MessageBusProofs!JoinInvariant`, `DisconnectWaitsHolds` | one `disconnect` at a time waits, for a thread it has cancelled |
| `MessageBusProofs!CaughtForGood` | once `disconnect` has caught the network thread in a callback, both wait for ever |
| `BusGlobalProofs!CountHolds` | the counter is the number of buses, of constructors and destructors under way and of constructors that threw, also in a race for the library |
| `BusGlobalProofs!TypeOKHolds`, `CleanedUpHolds` | types; the last one cleans up, for any threads and constructors |
| `ZmqBusProofs!TypeOKHolds`, `LifetimesHolds`, `FramesWholeHolds`, `SubscribeStarvesHolds` | all properties of `zmq_bus`, for any threads, texts, initializations and messages |
| `LogServerProofs!TypeOKHolds`, `ReadHasFileHolds` | types; reads and writes find an open file |
| `LogServerProofs!FilesBoundedHolds` | the bound on files, for every limit and period |
| `LogServerProofs!CurrentKeptHolds` | for `MaxFiles >= 2`, the open file is never deleted |
| `LogServerProofs!FilesInOrderHolds` | files hold messages in the order of sending, for every limit, restart and failure |
| `LogServerProofs!FilesOnlyGrowHolds` | for `MaxFiles >= 2`, what has been written stays, up to reopening within one second, whatever fails or is restarted |
| `LogServerProofs!KeepsLogHolds` | for `MaxFiles >= 2`, the server implements `RetainedLog`, whatever fails or is restarted |
| `LogServerProofs!OldestGoFirstUnlessTiedHolds` | for `MaxFiles >= 2`, files are deleted oldest first up to neighbours of equal times |
| `DeviceAppProofs!TypeOKHolds`, `CertificatesMatchHolds`, `PairKeptHolds`, `SubscribedHasTaskHolds`, `SubscriptionLastsHolds` | all properties of `device_app`, for any number of starts |
| `TopicMatchProofs!TypeOKHolds`, `MatchesExactlyHolds`, `BusNeverMissesHolds` | all properties of `topic_match`, for filters and topics of any length |

The arguments:

* **MqttDispatch.** `TypeInv` adds to `TypeOK` that a manager inside a call works on a
  task object. `LifeInv` strengthens `NoDangling`: the object under
  construction or destruction is alive and not in the manager's map, and what it
  still has in the dispatcher's maps follows from the manager's place
  (`ManagerInv`); every map entry is under the name its task was constructed with
  (`KeyInv`); and the maps agree on all names but the one being worked on
  (`AgreeInv`). Without `KeyInv`
  an erase by name could leave an entry of the dying task behind.
* **MqttDispatch, wakeups.** Two invariants make `NoLostWakeup`.
  `DispatcherWoken`, its first part, needs that the receive thread pushes only
  when the dispatcher is not between test and parking. `OwnNotifier`: a task in
  the queue map is also under that name in the notifier map, except a task under
  construction between its two registrations, whose thread has not started
  (`Unstarted`).
* **MqttDispatch, order.** The messages of a task wait in a line: the last one
  handled, the one its thread holds, its queue. `RangeInv` says that all are
  messages the task wants and the dispatcher has taken; `ChainInv` that between
  neighbours there is no message the task wants; `ReachInv` that, as long as the
  task is registered, there is none between the end of the line and the first
  message on which the dispatcher has not decided for this task (`Ahead`).
  `InboxInv` says the dispatcher's queue is the rest of what arrived. The
  refinement follows: handling the message the thread holds is one
  `OrderedDelivery` step, every other step a stutter. `Equipped` (a task in the
  manager's map has the handlers of all its topics) gives
  `RegisteredTaskHandles`.
* **MessageBus.** The inductive invariant `BusInv` has three parts. `CoreInv` is
  `TypeOK`, `OneSleeper` and `RecordInv`: identifiers on record or about to be are
  below `nextId` and distinct, and a handle being removed is held no longer
  (`IdInv`, `HeldIsRecorded`), a link that is down has no
  subscriptions (`LinkInv`), and every topic the broker has is recorded or
  carried by a thread in the gap (`NoOrphan`). The last is inductive
  only because `unsubscribe` erases and withdraws under one lock. `LoopInv`
  strengthens `ConnectedHasLoop`: a thread is cancelled only while someone waits
  for it with the mutex held, and whoever frees the bus is alone and has
  disconnected. `JoinInv` says that one thread at a time waits for the network thread,
  and that while the mutex is held that thread is gone or cancelled: whoever could
  start a new one needs the mutex. `GapInv` gives `RecordedIsSubscribed`: what is
  in the gap is at the broker or has been missed, and so is what is on record unless the
  connection is new or `on_connect` under way; whatever takes a topic from
  the broker (`BrokerHas`) adds to `missed` what is in the gap. `CaughtStays` goes through every step and finds
  none that moves either side; `CaughtForGood` follows, a temporal theorem without any
  fairness. Handlers are not modelled, so it is about waits the bus itself makes.
* **BusGlobal.** `CountInv`: the counter is the number of buses, of threads in
  `mosquitto_new` or in the destructor before its decrement, and of constructors
  that threw. `AgreeInv`: as long as nobody was exposed, flag and library agree
  with the counter being zero or not, except on the way from one to the other,
  which one thread goes while nobody is counted.
* **ZmqBus.** `ShareInv` says the use counts count what they should: the global
  and the receives of a client, the global and the clients of a context.
  `CallInv` and `InitInv` tie calls and `mb_ipc_init` together: calls other than
  `mb_recv` use a global, and nothing refers to the generation under way
  before it is made. From these follows `Lifetimes`. For `FramesWhole`,
  `Exclusive` says that of two calls on a socket one at most is inside its
  critical section; `SendInv` that a publisher holds topics only, all of messages
  whose content failed but for the last; `ReceiveInv` that every message under
  way is a `Frame` (such topics, then topic and content of one message, from some
  part on), and that a receive goes on with the frame it began. For
  `SubscribeStarves`, a call in progress keeps `mb_ipc_init` away (`CallInv`), the
  receiver's place keeps everybody out of the lock, hence out of `Subscribe`
  (`NobodyEnters`), and without subscriptions no publication reaches the inbox.
* **LogServer.** `ControlOK` ties `pc` to the open file, the name stamped and the
  message read. `CountInv` bounds the directory separately before and after an
  alarm; it uses cardinalities of set differences (`CardinalityOfRest`).
  `TimesInv` says that no file was written after the second its successor is named
  by, and that the open file is the last one. When files are deleted, at least
  two others stay if `MaxFiles >= 2`; the older of the two was last written before
  the open file was made, so the open one is not among the oldest
  (`CurrentNotOldest`). With one file kept, times may tie and the open file may be
  deleted, which is why the theorem has that premise. `FlowInv` says that the
  files from the oldest to the newest, the message read and the FIFO hold one
  increasing sequence, and that the open file is the newest (`NewestInv`, which
  holds for one file too). For `FilesOnlyGrow`, `Held` is how much of a file waits in its
  stream: each step leaves a file what it has written as a beginning
  (`SameBegins`, `WriteBegins`), and `fopen` empties a file only if it was the newest and
  `TimesInv` puts its last write in this second (`FopenBegins`).
* **LogServer, refinement.** `RecordInv` says where the messages are that are in no
  file: the last ones sent, in the FIFO and the buffer, one after the other, and
  no file that is not in the directory holds any. Each step leaves the join
  alone, appends the next message at its end (a write goes to the newest file,
  `NewestInv`), or shortens files, which leaves a subsequence (`Part`); `next` moves without
  an append only in a step that counts a failure or a restart, or without a
  server (`Lose`). The join is
  a recursive function; what it is at each second is shown by induction over a
  set of seconds, closed under the successor, that is found to be all of them
  (`UpTo`, from the well-foundedness of the natural numbers). `CurrentKept` is
  needed, hence `MaxFiles >= 2`: a write to a file that was deleted would be lost.
* **LogServer, deletion.** A deleted file is not newer by its time than one that stays
  (the sort), and `TimesInv` puts the last write of each file before or at the
  second its successor is named by; so a file that goes before an older one is
  its successor, and the times are equal (`DeletedTied`). Only the theorem
  states this; no run checks it.
* **DeviceApp.** `FilesInv` says what the two files can be at each place of
  `ensure_certificates_exist`; `PairInv` that without mishaps the second file
  appears last and completes the pair; `OrderInv` which calls have been made, and
  what the session is, at each place of `main`.
* **TopicMatch.** `LoopInv` says the `i` levels compared agree and none is `#`.
  The lemmas on `Split` give the lengths; `BusNeverMisses` needs the first `+`
  of a filter, the smallest element of a set of positions (`SmallestOf`, from
  the well-foundedness of the natural numbers).

Only model-checked: all liveness (`DispatchProgress`, `NotifiedTaskDrains`,
`StopCompletes`, `RestoredAfterLoss`, `AlarmSwitches`), which is out of the
prover's reach. `NoLostWakeup` is the safety argument behind the first two.
`LibraryReady` is model-checked and no theorem of its own (`AgreeInv`, under the same
premise, is in the inductive invariant of `BusGlobalProofs`). Every
other property of a passing run is the statement of a theorem.

## 5. Not modelled, and assumed

* `std::queue` of a task is pushed under the dispatcher's mutex and popped under
  the task's, and `_handlers` is read while it is written: data races. Push, pop
  and insert are atomic steps here.
* A second `init()` of the manager; a message after `MQTTClient_disconnect` has
  returned; a `connect` of the session repeated after one that failed.
* Handlers that call the bus from the network thread, the bus's error and
  connection handlers. Behaviours in which a detached thread uses a bus that has
  been destroyed are cut: the model claims nothing about them.
* Buses constructed at the same time while none exists are in `BusGlobal`, and only
  `InitializedFirst` and `CountHolds` speak of them. How
  one bus uses the library (`MessageBus`) and how several share it are separate
  models; the only tie is that a bus is used between its constructor and
  destructor.
* Of the log server: `load_config` and its failures; a message split across reads
  or files; the alarm's expiry and its handler are one step; a call of the
  C library in the main thread is not interrupted by the handler, which itself calls
  functions that are not safe in a signal handler (`malloc`, `opendir`, `printf`); a `stat` that
  fails for one file (`log_server.cpp:126`), which the handler then does not
  see; more files than the array of `get_files` has room for (`MAX_FILES` + 10: by
  `FilesBounded` the server itself leaves that many only after ten restarts
  or failures); the clock is not set back; files of other programs in the
  directory; the upload request the handler publishes, which changes no
  state of the server. That a failed flush keeps the unwritten text in the
  stream is how the C library of the device does it; one that drops it is an
  outcome of `Write` too.
* Power loss (`main` never syncs): a process that dies keeps what it wrote.
* OpenSSL, JWT, HMAC, base64, curl and JSON: an outcome or an input.
* Of the ZeroMQ bus: callers that break the rules named under `ZmqBus`, its
  receive thread (never started), the socket `GetConnectionUrl` opens and closes
  for itself, the proxy process at the other end (a message reaches any of the
  subscribers it matches, or none), high-water marks. `ZMQ_LINGER` is never set, so what a socket
  has sent and nobody has taken stays after `zmq_close`, without limit of time, and
  `zmq_ctx_term` (`mb_context.cpp:13`) waits for it too: with the process at the other end away,
  the last share of a context, in `mb_ipc_init` or `mb_recv`, may be given up
  only when it returns. The model ends a context at once. `Lifetimes` says only that no
  socket is open then.
* The restful client (a wrapper of libcurl, an input of `DeviceApp`), the log
  test programs, the MQTT adapter and the empty bootstrap keep no state of their
  own.
* Nearly all of the repository's 64 k lines are headers of third-party libraries
  under `prebuilt/` (OpenSSL, Mosquitto, paho, curl, ZeroMQ). They declare and do
  nothing, and no definition stands for them.

## 6. Plan

In the order of importance to the device:

1. `MqttDispatch`, `OrderedDelivery`, type correctness and lifetimes proved: done.
2. `MessageBus`, record and broker proved: done.
3. `LogServer`, `RetainedLog`, bound and current file proved: done.
4. `AliyunSession`, `DeviceApp`, all properties proved: done.
5. `TopicMatch`, both comparisons proved for any length: done.
6. `BusGlobal`, all properties proved: done.
7. `ZmqBus`, lifetimes and frames proved: done.
8. `DeliversInOrder`, `RegisteredTaskHandles`, `ConnectedHasLoop`,
   `RecordedIsSubscribed`, `FilesInOrder`, `FilesOnlyGrow` proved: done.
   `KeepsLog`, `NoLostWakeup`, `DisconnectWaits`, `SubscribeStarves` stated and
   proved, two of the disagreements bounded by theorems: done. Failing writes of the log
   server, the steps of `subscribe` outside the mutex and the race for the library: done.
9. `DeviceApp` composed with `MqttDispatch`: the session's deliveries as the
   dispatcher's arrivals, and the destructor's order of disconnection, dispatcher
   and tasks. Left: each part is checked on its own.
10. Handlers that call the bus from the network thread. Left: no program of the
    repository has one.
