# FerlyCSR: TLA+ models, model checking and proofs

FerlyCSR is the control software of a service robot: a dispatch server for Windows
(`src/RobotDispathServer`) to which client programs connect over TCP, and a set of module
libraries (speech, face, navigation, card readers, IoT boxes, ...) that the server loads and
between which it passes JSON and binary messages. This directory holds TLA+ models of it, the
TLC configurations that check them and TLAPS proofs about them. `PROJECT.json` says for every
definition which lines of the source it models, and for every property which hazard it is about.

## 1. Inventory

### 1.1 The dispatch server

| Part | Thread | State it keeps | Operations |
|---|---|---|---|
| `ServerInterface` | its own | `m_socket_list` (guid -> socket), under `m_mapml` | accept, receive, `remove_one`, message 10 (disconnect), `send_data` (called by the handler thread) |
| `robot_message_dispatch` | its own | `m_cache_netdata` (guid -> bytes received) | take bytes, cut a frame, answer it itself or route it, message "remove" |
| `robot_client_manager` | none, called by three threads | `m_clientlist` (appid -> guids), `m_guid_appid`, under `m_ml` | `add_client`, `remove_client`, `get_appid`, `get_ntf_list`; tells client monitors |
| `robot_message_handler` | its own | none | send a reply to one guid, broadcast to every application but the expression one |
| `robot_module_manager`, `robot_module_wrap` | main thread, then all | `module_interface`, `messageType_toModule`, `module_thread`, `module_messagetype_list` | `AppendModule`, `Init`, `Start`, `Stop`, `CallModuleProcess`, `ModulePostMessage`, `AppendMessageTypeModule` |
| `robot_module_thread` | one per module | `m_run`, its queue | pass a message to the module, requests of the module to the service |
| `robot_mcs_monitor` | none, called by all | `map_list`, `module_map_type`, under `m_maplist_l`; the set of client monitors | register, unregister, offline, "who is told of this message" |
| `robot_main_app`, `robot_input_thread` | main, console input, console handler | `order_c`, the event, `close_flag` | wait for an order, `close_service`, `main_close` |

A frame travels `ServerInterface` -> queue of dispatch -> queue of a module -> queue of the
handler -> `send_data`, on four threads. The registry is written from three of them. A disconnect
is noticed by the server thread (the peer closed) or by the handler thread (nothing could be
sent, or the guid is unknown), and must be told to the registry, to the monitors and to
dispatch, while frames and replies of the same client are still in the queues. That, the
teardown of all threads while they still talk to each other, and the directories that are two maps
each are the hard behaviours. What makes the server correct: the input of a client is
neither lost nor doubled and is released when it goes; the maps of a directory agree; a reply goes to
the client it is for; who watches an event is told of it in order; a shutdown ends.

### 1.2 The modules

| Part | What it keeps and does | Hard behaviour | Modelled in |
|---|---|---|---|
| `iotServer`: `iotServerManager`, `iotServerForWifi50315` | boxes connect over Wifi; three lists of requests per box, under one lock | reconnection, expiry, a late or wrong answer, a short write, limits | `IotWifi` |
| `iotServer`: `iotServerForLoRa`, `iotServerForLoRaSerial` | a scheduler with two lists, and a thread that owns the serial line and scans for boxes | two tasks under way, priority, completions among requests, thread start | `LoRa` |
| `cloudplatform` | a thread that takes messages from a broker, one that watches the connection, offline tasks, remote requests | acknowledgement before hand-over, broken connections, a crash | `Cloud` |
| `PsycheClient` | a session of remote assistance: websocket, channel, camera | answers that name no request; both sides give up at any moment | `Psyche` |
| `camerasteam`, `audiosteam` | shared devices and who reads them | reference counts, lending, a thread that reopens its device | `Streams` |
| `speechmodule`: recognition | microphones with a shared login, a recognition thread, a ring of sound | answers that name no start, a writer that laps the reader | `Recognition`, `MediaRing` |
| `speechmodule`: synthesis; `soundplayer` | channels that speak in turn; a player thread before the audio device | cancellation against the synthesis thread, callbacks | `Tts`, `SoundPlayer` |
| `facemodule` | a service per camera with its thread; the known faces and the threads that register them | start and stop against late answers of the camera, stale copies | `FaceDetect`, `FaceTemplate` |
| `expressionmodule` | tasks waiting for several controllers | disconnect, ten-second expiry | `Expression` |
| `ICcardmodule`, `IDcardmodule`, `IDcardYSmodule` | a reader thread with one task | cancel, timeout and card at the same time | `IcReader`, `IdReader` |
| `footmodule` | initialisation on a map, moves and rotations, dance, HTTP pool | one task cancels another; notices lost; pool slots | `RobotController`, `FootMotion`, `HttpPool` |
| `MagneticNavigation` with `MagneticTrack_ctrol`, `robot_controller_mems` | docking along a magnetic strip | a sensor that falls silent, a stop in the middle, two threads and a line | `Docking` |
| `Headcontrolmodule` | the motors of head and arms on a USB controller | a controller that is pulled out; stale angles | `HeadMotion` |
| `SlamWareRobotControlModule`, `printmodule`, `include_serial` | device access | see 6 | not modelled |

Correctness of a module means the same everywhere: each request is answered once, or is dropped only
where the code decides so; limits of lists hold; a task that is cancelled, expires or loses its
device frees what it held; what two threads keep twice agrees.

`PROJECT.json` lists all components with their status, and the hazards, line by line.

## 2. Modules of this project

| Module | Models | State and actions |
|---|---|---|
| `Dispatch` | server thread, dispatch thread, registry, handler thread and one module thread | variables are grouped by thread; the queues are `srvq`, `dq`, `mq`, `hq`. An action is one handler, except `send_data`, which is two steps (`send_data_lookup` under the lock, `send_data_raw` after it), and the broadcast, which reads the registry application by application |
| `ClientSession` | what a connection may expect: new, open, draining, gone | abstract specification that `Dispatch` implements (`SessionSpec`) |
| `MainApp` | order, event, `close_service` of two closers, quitting of every thread in order, and the messages still under way | reading, testing and resetting `order_c` are steps of their own; so are testing and setting `close_flag`, and posting and joining in `quit` |
| `ModuleBus` | loading, both routing tables, every destination of a message, the module thread's loop | `phase` and `pos` are the main thread's program counter; a message is followed from `unsent` to its fate |
| `NameMonitor`, `MonitorSet` | `robot_mcs_monitor`'s directory of name monitors; the set of watches it stands for | each call is a step (it holds the lock); `MonitorSet` is the abstract specification (`AbstractSpec`) |
| `IotWifi` | `iotServerForWifi50315` with `iotServerManager::SetProcessData` | `dev` is `m_socket_map`; a visit of `timeout` to one device is a step, since it touches no other |
| `LoRa` | `iotServerForLoRa` and `iotServerForLoRaSerial` | one round of each thread's loop is a step; the start of each thread, which cleans its queue, is one too. The answer to an opening goes to who asked, the refusal of anything else to all clients: `overheard` records who takes it for an answer to a request of their own |
| `Cloud` | R keeps the connection and the timeouts, Q takes messages, H hears the modules | the messages at the broker are two sequences (queued, taken and not acknowledged); Q's program counter separates taking, acknowledging and handing over |
| `Psyche`, `Streams` | the session of assistance; the cameras and the microphone it may read | `Psyche` extends `Streams` and calls `START_STREAMNAME` and `STOP_STREAMNAME` through a queue each way, as the modules do |
| `Recognition`, `MediaRing` | service, login and thread of a recognition; the ring of sound | H's waits are states of `h_waits`; the thread of a microphone is a record |
| `Tts`, `SoundPlayer` | the channels of the synthesis; the player of one channel down to the device's callback | a text's fate says whether it waits, speaks, ended or was dropped |
| `FaceDetect`, `FaceTemplate` | the face service of one camera; the known faces with the threads that copy them | answers of the cameras come in any order with the requests of clients |
| `Expression` | tasks of the expression module | the list of tasks with the controllers each waits for |
| `IcReader`, `IdReader` | card readers | one turn of the loop is one step |
| `RobotController` | the current map: initialisation, the watch over the map, the thread that judges moves | H, C and K with their program counters and queues |
| `FootMotion` | rotations, moves, dance and the flag `g_navi_state` | one wait thread per kind of motion; notices of the websocket are a queue |
| `HttpPool` | the pool made on first use and its slots | the unlocked test and the locked one in `getSingle` are two steps |
| `Docking` | the docking thread, `NavigationImp`, the serial thread | a round of the docking thread is a step, but for opening the line (`open_com_begin` clears `isFinish` under the lock, `open_com` tests the line after it) and waiting for a rotation. The thread of the line sets `isFinish` in one step and is gone in the next |
| `HeadMotion` | the thread of head and arms, the controller of the motors | an order is one step; failures and unplugging are choices of the controller |
| `MCDispatch`, `MCMainApp`, `MCIotWifi`, `MCLoRa`, `MCNameMonitor`, `MCModuleBus`, `MCModules`, `MCNavigation` | | the instances TLC checks; the last four put several parts side by side |
| `...Proofs` | | theorems and proofs, see 4 |

`ModuleBus` and `Dispatch` meet at the queue of a module thread (`mq` here, `queue` there), and
`MainApp` shows the same threads once more with nothing but the messages that keep them alive.
`NameMonitor` is the directory that `ModuleBus` abstracts to the set `watch`; that this is
right is what `DirectoryImplementsSet` proves.

**Parts side by side.** The modules on the bus share no memory; they only exchange messages, and
each model lets its environment send any message at any time. A composed specification
(`MCModuleBus`, `MCModules`, `MCNameMonitor`, `MCNavigation`) has a variable `part`, chosen once:
the variables of that part change by its next-state relation, those of all others do not. So each
behaviour is one of a single part, and the state space is the sum, not the product, of the parts.
What is proved of such a specification is proved of each part on its own first.

Operators whose comment begins with "Mutant:" are deliberately wrong variants of the definition
that follows. No specification uses them; each is the evidence that one property would notice that
mistake.

### Abstractions

* A frame is `FrameParts` pieces, and TCP delivers any number of pieces at a time. Bytes that do not
  begin a frame are left out (`robot_message_dispatch.cpp:75-97`).
* Guids are never reused, handles are: the operating system may give a new connection the handle of
  one that was just closed.
* Time is left to chance. A Wifi request may be overdue at any visit of the module thread, a device
  idle for any time, the two minutes between LoRa scans may pass at any point, and so may
  the ten seconds of an expression or the two minutes of an initialisation.
* Replies of devices and of libraries are chosen freely, as are failures of writes, of `Init` and of
  `Start`; so is what a microphone hears, a camera sees, a strip sensor reads.
* A look-up in a `std::map` is atomic, also where the code takes no lock. Such a data race has no
  outcomes one could list; where a lock is released between two uses (as in `send_data`) the
  model has two steps.
* Where the code has undefined behaviour (the expression loop that runs off its list, a wait freed
  under the synthesis thread), the model sets a flag and stops or excepts what follows by name.

## 3. What is checked

| Run | Instance | Properties and what they show |
|---|---|---|
| `dispatch` | 2 connections, 2 handles, 2 appids of which one is the expression application, 2 pieces per frame and per client, 1 broadcast | `CacheFreed`: input of a closed connection is held only while its removal is queued. `PartsConserved`: no piece is lost, doubled or charged to another client. `RegistryInv`: an appid stored for a guid lists the guid, and a monitor that has worked off its queue never holds a dropped client online. `TypeOK` |
| `dispatch_live` | one handle that both connections use in turn, 3 pieces (a frame and a half), fairness | `SessionSpec` (refinement of `ClientSession`), `InputReleased`, `DeadPeerClosed` |
| `dispatch_handle` | 2 connections, 2 handles | **violated** `HandleStillOwned`, see 5 |
| `mainapp` | 2 modules, any key of three, 1 frame, 2 shutdown requests, the console may be closed, fairness | `TeardownInv`: with one closer no reply is stranded and every thread has stopped before the exit. `ShutdownHonouredUntouched`, `TeardownEnds` |
| `mainapp_lost` | 1 shutdown request, 1 other key, fairness | **violated** `ShutdownHonoured`, see 5 |
| `modulebus` | the bus: 4 libraries in a list of 5 (one twice, one whose type is taken, one whose name is taken), 2 text types, 1 binary type, 2 messages; the cloud client: 3 messages, 1 fault; a session: 2 applications, 1 call, 1 break, 1 camera with another reader; 2 readers of the microphone; recognition: 2 microphones, 1 client, 1 error, 2 switches, 2 rounds; a ring of 3 pieces, 6 recorded; fairness | `TablesInv`, `DeliveryInv`, `CloudInv`, `MediaInv`, `RecognitionInv`: see 4. `QueuedIsTaken`, `WaitsEnd` (the waits for the platform, for the camera and for the end of a recognition) |
| `namemonitor` | the directory: 2 modules, 2 names and the empty one, all modes; faces: 2 cameras, 2 persons, 2 registrations, 1 removal; expressions: 2 controllers, 2 clients, 3 requests, 2 that leave | `DirectoryInv`, `ToldWhatIsWatched`, `AbstractSpec` (refinement of `MonitorSet`), `FollowersInv` |
| `modules` | card readers with 2 clients and 4 requests; the face service with 2 requests of 2 clients; 3 texts on 2 channels with a cancellation and a stop; a player with 2 texts of 2 pieces, a cancellation and a pause; fairness | `ReadersInv`, `SpeechInv`, `ReadersEnd`, `SpeechEnds` |
| `navigation` | 2 clients and 2 maps, 1 try, 1 fault; 2 movers, a dance, a closed websocket; 4 callers, 3 connections; 2 orders for 3 motors (one missing), 1 failing call, 1 unplugging; 2 dockings, 3 distances, 1 silence; fairness | `ControlInv` (controller and docking), `MotionInv`, `PoolInv`, `HeadInv`: see 4. `RefusedWhenBusy`; `MovesEnd` (motions, initialisations, dockings and the search for zero come to an end that is told) |
| `iotwifi` | 2 connections, 2 addresses, 2 names, 2 requests of any kind | `AnsweredOnce`, `DroppedOnlyCloseDoor`, `EntriesInv` |
| `iotwifi_live` | 2 connections of 1 box, a queue for 1 request, 2 requests, fairness | `QueueBounded`, `Answered` |
| `lora` | 3 requests of any kind, two about one box and one about another, lists that refuse when they hold one, 2 stations, 2 boxes, a second scan, fairness | `ScheduleInv` (the counter counts the tasks, who waits is woken, an opening waits for one), `AnsweredOnce` (one answer each; what a client takes for its own besides is a refusal of the same question of somebody else, and the only answer to that), `PublishedIsFresh`, `EveryoneAnswered` |

### Bounds, and why they are enough

* `Dispatch`: everything interesting happens between two connections: one that goes and one that comes
  and takes its handle. Two appids are needed since `remove_client` stops at the first application
  it empties; the expression application is the one a broadcast skips. `MaxParts` = 3 with
  two pieces per frame leaves half a frame behind at the disconnect.
* `MainApp`: two modules are the least for which the order of quitting matters, and one key is enough to
  overwrite the order of a module. `TeardownInv` excepts two closers: when the console handler tears
  down at the same time, the closer that comes second finds `close_flag` set and ends the process.
  No text of the repository promises otherwise.
* `ModuleBus`: two messages suffice for a registration and its use, two rival registrations, and a
  watch and what is watched. The same model with three messages (677,000 states) was also checked.
* `IotWifi`: with two connections and one or two names every case of `onAccept`, `read_name` and `shifttask`
  occurs. The code queues three requests per device; `QueueLimit` is 1 in `iotwifi_live`, so that two
  requests reach the limit, and 3 in `iotwifi`, where the limit must not hide anything.
* `LoRa`: `Limit` is 20 in the code; with 0, the third request is refused. The safety properties were
  also checked with five requests and one station before thread starts were added.
  Two requests about one box are one that is refused and one whose client hears that; the third tells
  that nothing is heard of other boxes. `MaxScans` = 1 allows a scan that is broken off, or one that finds
  other boxes than the first.
* `Cloud`: three messages are one of each kind, or three offline tasks, the least for which the order
  can go wrong after the mark at the second (5); one fault is a broken connection or a crash.
  The inductive invariant was checked with two faults (387,833 states).
* `Psyche`: two applications cross with one call of the service and one break; the inductive
  invariant was checked with two of each (347,265 states).
* `MediaRing`: three pieces of room and six recorded let the writer lap the reader once and stand
  on the reader's piece again.
* `Recognition`: one of two microphones is the main one, to which answers go by mistake.
* `Docking`: one distance in each of the three ranges `NavigationImp` tells apart; two dockings let
  the second find what the first left. It was checked alone with two silences too (224,645 states).
* `FootMotion`: one client may hold the rotation and another the move; its inductive invariant was
  checked with three (1,211,048 states). `RobotController`: two clients replace each other; its
  inductive invariant has 186,000 states.
* `HttpPool`: four callers and three connections, of which one is lost: a caller finds none.
* `HeadMotion`: orders name two motors there are and one there is not (5); two turns of 50 degrees
  go past the limits.
* The other bounds count what can cross: one more request than can be under way at a time.
* Most specifications may stop once their bounds are used up, hence `CHECK_DEADLOCK FALSE`; `IotWifi`
  never stops and is checked for deadlock. Waits that must end are liveness properties instead.

### Fairness

Every thread of the program is a loop around a queue read or a sleep and is scheduled by the
operating system; so a thread that has something to do does it (`WF` of its steps: `module_process`,
`R_next`, `Q_next`, `mtc_run`, `controller`, `checkmove`, `dancing`, `ic_turns`, `T_next`, `P_next`,
`recogniser`, `head_run`, ...). Nothing is assumed of clients, the operator or modules that post.
Further assumptions:

* The main thread of `ModuleBus` gets on with its list (`Init` and `Start` of modules return). In
  `Dispatch` the server thread is only assumed to take its disconnect messages.
* A request that stays is found overdue at some visit (`timeout_of` in `IotWifi`, `all_overdue` in
  `Cloud`, `wait_poll(TRUE)` in `RobotController`): the threads come round every few moments and each
  request has a timeout. The last two are `SF`, since a visit may be impossible for moments (the
  thread is elsewhere) but time passes all the while.
* The video module takes the session's messages though others' come all the time
  (`SF` of `video_module`, the face handler's `SF` likewise): its queue is first in, first out, and in the
  model messages of others have no queue.
* The engine of the synthesis ends a text (`SF` of `engine_ends`), the audio device reports the end
  of a buffer, the chassis ends a motion it began and sends the notice, the motors find their
  zero: devices that do what they were asked to; that they fail instead is among the choices.

### Exceptions written into properties

* `Answered` excepts requests that are held no more without an answer; `DroppedOnlyCloseDoor` shows
  that only CLOSEDOOR is dropped so.
* `EveryoneAnswered` excepts CLOSEDOOR, which the serial thread does not know; a request posted before the
  scheduler cleans its queue; and everything once the serial thread has cleaned away a task at
  its start, since the scheduler counts that task for ever (`iotServerForLoRaSerial.cpp:64`).
* `PublishedIsFresh` allows boxes of scans that were broken off since the last publication: `temp` is not
  cleared then.
* Variables that the program does not have record the point from which a promise is off, and
  each is a weakness of section 5: `given_up` and `called_over` (`Psyche`: an answer of the camera nobody
  awaited, a call while in a channel), `login_failed`, `mixed`, `late`, `forsaken` (`Recognition`), `skewed`
  (`MediaRing`), `lost` (`FootMotion`: a notice missed), `crossed` (`Docking`: an older thread of the line ended between
  the halves of `open_com`), `overheard` (`LoRa`: a refusal sent to all), `unannounced` (`RobotController`), `careless`,
  `blind` and `Stray` (`HeadMotion`), `undefined` (`Tts`), `off_list` (`Expression`),
  `face_misled`, `camera_overlap` and `camera_left` (`FaceDetect`: an answer to somebody else, a start while
  another is not answered, a thread that ended or could not start).

## 4. What is proved

For all values of the constants that satisfy the modules' `ASSUME`s. Those say what sets of names
and numbers must be to make sense: a reader is no connection, the empty name is no client's, "none"
stands for no client, a request is not the number of a completion, bounds are natural numbers, and
a device's queue takes at least one request. No bound is assumed to be small. Each proof finds an
inductive invariant (with TLC on small instances), shows that it holds at the start and that every
action keeps it, and draws the property from it.

| Module | Theorem | Statement | Argument |
|---|---|---|---|
| `DispatchProofs` | `TypeCorrect` | `Spec => []TypeOK` | inductive as it stands; one step per action |
| | `CacheIsFreed` | `Spec => []CacheFreed` | `CacheInv`: queued data of a closed connection has its removal *behind* it in the queue, so has the connection being parsed, and a connection is removed once. `CacheFreed` alone is not inductive: data taken after the removal would create the entry again, and only the order of the queue excludes it |
| | `RegistryFollowed` | `Spec => []RegistryInv` | both maps change in one step under `m_ml`; a module that has not registered knows nothing, and the *last* queued notification about a client says what the registry says |
| | `PartsKept` | `Spec => []PartsConserved` | `PartsInv`: nothing is known of a connection that was not given out. The queued parts of a connection are a set with one element for each part of each of its messages: appending a message adds its parts, taking one removes them, and a connection is removed only with nothing queued behind (`CacheInv`) |
| | `SessionImplemented` | `Spec => SessionSpec` | every action maps to one step of `ClientSession` or to a stutter, under `CacheInv`: the phase "draining" is "a removal is queued", and it can be left only once |
| `NameMonitorProofs` | `DirectoryConsistent` | `Spec => []DirectoryInv` | inductive; one lemma per operation |
| | `QueryExact` | `ToldWhatIsWatched` | candidates come from one map, the decision from the other, and they agree |
| | `DirectoryImplementsSet` | `AbstractSpec` | each operation is the operation of the same name on the set of watches, or a stutter |
| | `FollowersKept` | `MCSpec => []FollowersInv` | faces (`FacesIInv`): whoever knows a face knows the same of it; a thread's copy lacks a face of the database only if it is stale there, and keeps a removed one only if that is noted; a number no face of the copy has exists since the copy is finite. Expressions (`ExprIInv`): tasks are in the order of their requests; whom a task waits for has the request before it, and of everybody else it was passed to, the task knows that it answered, left, or lost the request with an older one |
| `MainAppProofs` | `TeardownKept` | `Spec => []TeardownInv` | `ClosersInv`, for any number of closers: the threads a closer has quit are gone. `AloneInv`, for one closer: it quits the handler's thread last, no thread is left then that could post a reply, and nothing is behind the order to exit |
| `IotWifiProofs` | `EntriesKept` | `Spec => []EntriesInv` | a step writes one entry and may remove another; the written one shares its name or address with none that stays |
| | `QueueKept` | `Spec => []QueueBounded` | the limit is kept by each of the device's operations (`Passes`) |
| | `OnceKept` | `Spec => []AnsweredOnce` | `OnceInv`: a request is once with the module thread, in the lists of one device, or answered. Counted as numbers of positions in lists, what a step answers and what it leaves in the written entry are together no more than what the entry and the removed one held. A map of positions shows this for expiry, which takes any requests out of the middle of a list |
| | `DroppedKept` | `Spec => DroppedOnlyCloseDoor` | what an entry held before a step it still holds, or a list of answers names (`Covers`), operation by operation. `Nameless` is needed besides: `shifttask` throws the queue of the entry that names itself away, and that entry had no name, so its queue holds no client's request |
| `LoRaProofs` | `ScheduleKept` | `Spec => []ScheduleInv` | `IInv`: the counter is the tasks at the serial thread, its finished ones and those that were cleaned away; each state of the scheduler goes with lists that are empty or not (`Shape`); in the state "high" an opening is under way |
| | `AnswersKept` | `Spec => []AnsweredOnce` | a request is in one of the queues or answered, once (`OnePlace`); what was overheard was answered to a request of the same kind about the same box (`Overhears`), which therefore is in no queue |
| | `PublishedFresh` | `Spec => PublishedIsFresh` | what has been collected was found since the last publication (`Fresh`) |
| `ModulesProofs` | `ReadersKept` | `MCSpec => []ReadersInv` | the invariants of the card readers are inductive as they stand. The face service (`FaceIInv`): at any time the orders and answers under way are those of the last start (`RoundOf`: how many were given, how many handled), so that the counter of results says which cameras are held; outside the cases in section 3 a held camera has a service, or an answer to come after which it is given back |
| | `SpeechKept` | `MCSpec => []SpeechInv` | the synthesis (`TtsIInv`): every text is in one of the lists, in the hands of a thread, or has its fate; texts in the lists are in order, all different. The player (`PlayerIInv`): the texts in its queue and in its hands are numbered in order, and the state says which one is in hand |
| `ModuleBusProofs` | `TablesKept` | `Spec => []TablesInv` | `BusIInv`: what waits in a queue is due there, and a grant that was told is in the table |
| | `NeverMisroutedKept` | no module is given what it did not list | the owner of a type does not change, so that a message is still due when it is taken |
| | `DeliveryKept` | `Spec => []DeliveryInv` | `DeliveryIInv`: a message that is queued is at one place of one queue, whose module has a thread; a message has been shown to a watcher not at all before it is posted, at most once while it waits, at most twice afterwards |
| | `CloudKept` | `CloudSpec => []CloudInv` | `CloudIInv`: what is at the broker was published, is there once and in order; the message in Q's hands is older than all of those, or the oldest; R closes the connection only when Q has told its end; the offline tasks are in the order of publication, with what was delivered again, and those passed on are a first part |
| | `MediaKept` | `MCSpec => []MediaInv` | for the cameras, also while the handler waits: what runs on is read, and what is read runs on or is lent. For the session (`SessionIInv`): as long as no answer was given up, exactly one answer of the camera is to come to who waits for it and none to who does not; nothing follows the request in the queue, so that everything older is closed by then; in a channel nothing is under way and the camera is read |
| | `RecognitionKept` | `IsrSpec => []IsrInv` | `EngineInv` (the counter of logins is at least the number of users, and the users are who initialised until a login fails), `ThreadInv` (a thread that listens may still fail once and is not forsaken), `AskInv` (until answers are mixed up at most one is awaited) |
| | `SoundInOrder` | `RingSpec => []RingInv` | nothing in the ring is newer than what was recorded last; the pieces behind a held one are newer than it and in order, also when the ring is full; sound is lost in whole laps (by well-founded induction over the positions of the ring) |
| | `RecognitionComposed` | `MCSpec => []RecognitionInv` | the two above, for the composed specification |
| `NavigationProofs` | `PoolConserved`, `RefusalJustified` | `PoolInv`, `RefusedWhenBusy` | inductive as it stands; a refusal is justified by what the pool holds |
| | `HeadKept` | `HeadSpec => []HeadInv` | adds that a search for zero the thread asked for is known to it, and that a controller that is away has no open handle |
| | `DockingKept` | `DockSpec => []DockingInv` | a robot that follows the strip has seen it; no rotation of this task goes on unless one is awaited; success is told only while the task ends; the age of the last reading is below the limit while a task goes on; a line that is read or opened is deaf exactly if the end of an older thread fell between the halves of `open_com` (`CrossInv`) |
| | `ControllerKept` | `CtlSpec => []ControllerInv` | each client's request is in one place (the handler, C's queue, what C polls for, or told); K is told behind the message it works on |
| | `MotionKept` | `MotSpec => []MotionInv` | a client owns what it began; a wait thread that is asked to quit has not told; notices of the websocket come in an order that ends with the end |
| | `ControlKept` | `MCSpec => []ControlInv` | the controller and the docking, for the composed specification |

The composed theorems rest on two facts: the initial states of the composition are initial states of
the part, and each of its steps is a step of the part or leaves its variables alone.

What is not proved, and why:

* Liveness under fairness and `ENABLED` are beyond the prover: `InputReleased`, `DeadPeerClosed`, all
  properties named `...End` or `...Ends`, `QueuedIsTaken`, `Answered`, `EveryoneAnswered`,
  `ShutdownHonouredUntouched`.

Every safety invariant, action property and abstract specification that a run checks has its theorem.

`FollowersInv`, `ReadersInv`, `SpeechInv` and the other properties of a composed specification are
proved part by part and then lifted. Where the number of things in a list matters (the parts of a
connection, the places of a request, the tasks under way), it is the cardinality of a set of positions,
so that no proof needs induction over data.

## 5. Disagreements and weaknesses found

Two contradict what the repository says of itself and have a run that TLC finds violated:

* `send_data` (`ServerInterface.cpp:84`) takes the raw handle of the addressee under the lock and sends on it
  after releasing it. If the connection is removed in between and a new one gets the handle, the reply
  goes to another client than the guid named (`RobotModule_interface.h:26`). Run `dispatch_handle`.
* `wait` (`robot_main_app.cpp:155`) resets `order_c` at the end of each round and the input thread writes any
  key into it: the 'q' that a module's shutdown request stored, and was told about with "will
  close service", can be overwritten. Run `mainapp_lost`.

The others contradict no sentence of the repository; the models contain them, and the
properties say what holds besides.

*Server.* Sixty-four clients are accepted (`ServerInterface.cpp:187`) into an `fd_set` that holds 64 sockets
with the listening one among them; a send that fails half way leaves half a frame at the client (`:105`).

*IoT.* The LoRa scheduler counts a task for ever that the serial thread cleaned away at its start
(`iotServerForLoRaSerial.cpp:64`), and `temp` is not cleared when a scan is broken off.
The refusal of a query or of CLOSEDOOR is posted with no receiver (`iotServerForLoRa.cpp:123`), unlike
that of an opening (`:97`): it goes to every client but the expression application. A message names the
type and the box only (`iot.cpp:48`), so another client that waits for the same of the same box takes it
for its answer, and gets its own later; the expression application, if it asked, gets
none, and the model has no such client.

*Cloud.* The offline list is tested for being empty after the push (`cloudplatform_client.cpp:184`),
and `tasklink_handler` marks the first entry instead of the one it passes on (`:519`), so that only the
first two offline tasks are ever passed on. A message is acknowledged before it is handed over, and
lost if the process ends between the two. Thirty minutes without messages, or an error, unbind the
queue. The local server object of `MQmessage_handler` has an uninitialised `m_conn`. A response is
matched by type alone, to the oldest request.

*Psyche.* A late answer of the camera is taken for the wait of another application: that one is
answered 0, or the camera is closed while joined, or left on, or the state stays in a wait nobody
ends. A call of the service while in a channel that then fails to join closes the camera of the
running session. Abandoning followed by a disconnect leaves the application kept, and all later ones
are refused (90002). `onLeaveChannel` and `onError` reset `m_run` without the lock. A failing
`JoinChannel` leaves the thread of the camera reader running. `m_map_ml` is released and never created.
Remote requests of `command_msg` have no timeout.

*Streams.* CHANGE_USER is forgotten when nobody listens or the last reader leaves; a START of a lent
camera answers 0 though nothing runs; readers under a name are never removed on a disconnect;
`m_devicelist` is filled without a lock by two threads; `AudioManager` ignores disconnects, and readers
without a name share one entry; the test of `is_record_stopped` is inverted
(`audio_stream_capture.cpp:109`, harmless).

*Recognition.* A failed login is counted (`robot_global_singleton.cpp:31`), a later start succeeds without one
and nobody logs out. The answer to an AUDIO_START carries no microphone: answers for a second one
go to the main one, so that it never starts. A second start before the answer overwrites who asked; the first
client is never answered and the second twice. An answer after a stop starts the recognition
anyway. In a mode other than 0 and 1 nothing tells the recognition to end, and the module waits until
it does (`robot_voice_isr_ify.cpp:605`). After 50 errors a session stays open (`:1020`).
`m_notify_status` stays 1 over a stop, so the next listener is not told "ready". Stopping the service
of any microphone uninitialises the synthesis they share (`robot_voice_process.cpp:136`). In the ring the
writer laps the reader, and flushing it while a piece is held makes the reader go through old sound.
After 60 timeouts `m_media.init` leaves the memory open.

*Synthesis.* A channel is blocked after a cancellation before `work()`, after an empty text, after the service
stopped, and after queuing on a cancelled channel. `Cancel` walks `m_channel_list` without the lock
(`robot_voice_tts.cpp:165`). The text of the waiting list on a channel in use is never played. `discard` and
`onFinish` can wait for each other (`robot_sound_buffer_interface.h:166` and `:114`). An end announced
after the last buffer stalls the sound (`D3DSoundout.cpp:230`).

*Face.* A STOP before the cameras answered does nothing, and the service starts afterwards. The start at boot
(`robot_face_process.cpp:196`) overlaps that of a client; a left-over answer starts the service again
after a stop, without cameras. A thread that ends itself (`:476`) or cannot start keeps the camera on.
`face_register` overwrites a waiting task (`:1452`); a cancellation by anyone leaves the waiting client
untold; registrations that are queued at a stop are deleted unanswered (`:284`); a snapshot waits
without limit while no pictures come (`:793`). If the video module never answers, `m_message_wait` blocks all later
starts. Of several names one registration takes the first and answers 0
(`robot_face_features.cpp:179`); with two cameras the copies of the known faces are stale, and a removed face
comes back with a merge (`:255`); the identify cache keeps a removed guid, and `m_facedb[uid]`
inserts an empty entry (`:440`).

*Cards.* The IC reader: the handle of a closed device is kept; a second waiter is told that it waits and never
gets a result; anyone may cancel without the owner being told; a card stays held after a cancellation until
REMOVE; requests posted before `run` cleans its queue are dropped. The ID readers: `country == "I"`
compares an array with a literal (`FL_read_IDCardDNYS.cpp:647`), the text of an old error is sent
instead of "timeout" (`robot_idcardys_module.cpp:377`), and a foreigner's data are overwritten (`:330`).

*Navigation.* `robot_controller_moduel.cpp:919` has a case without `break`: a cancellation ends the
controller thread. `robot_controller_gaussian.cpp:533` and `:544` invert the result of `wait_init`. A load that
succeeds before an initialisation that is refused leaves K judging on the old map. The navigation
flag sticks after a closed websocket or a late HEADING, and STOP_DANCE then holds the module's
thread, INITIALIZE with it. Slot 0 of the pool is never released (`robot_http_pool.cpp:88`).

*Docking.* `open_com` clears `isFinish`, unlocks, and only then tests whether the line is open
(`robot_controller_mems.cpp:24-28`). The thread of an earlier docking that ends in between (`:230`, `:242`)
sets it again, and the docking opens a line whose readings are ignored: it fails after five seconds of
silence, unless that line breaks and is opened again. The last of three searches never leaves the spot. A task that is stopped is told as
failed (1005);
a refused rotation is retried without limit, and a stopped docking leaves its rotation to the
chassis, so that the next docking may succeed while it goes on. `close_com` sets `isFinish` only: thread
and port stay open. Two threads clear `m_serialbuffer` without a lock. The frame parser erases `begin`
to `begin + i` of what may be the next frame. `getSpeed` turns right by a tenth of what it turns left.
A docking and a client's own motion are not excluded from each other.

*Head.* (The run states 2 and 4 of a motor and negative ids are left out of `HeadMotion`; no property
depends on them.) ARM_ROTATE with id 0 turns the head without its limits, and so does an angle with a sign. A failed
GETANGLE stores 0; the limits are applied to the angle of the last poll. An order for a motor there is
not leaves an entry that makes every later poll fail. `timx` doubles without limit.
`init_action_armswing` rotates arm 1 twice; `wait_action_stopping` is content with one arm. The
HEAD_CONTROL, HEAD_LIGHT, SCREEN_LUMINANCE, AUTOMATIC_BACKLIGHT and HEAD_DEVSTATE requests are
registered and never answered.

*Expression.* The loop over the tasks runs off its list (lines 121 and 125).

*SlamWare and printer (read, not modelled).* An order while the message before it is queued has its
cancel mark reset by the older one, and an end is told twice or for the wrong navigation;
`check_init_finish` (`robot_controller_slamware.cpp:143`) turns an initialisation that failed, or has
not begun, into success; the test after a reconnection is inverted (`:1008`); `init` always loads the
first map; C's retries of `init` cancel a client's navigation; `delete_point` returns before it
saves; the type selection (`if`, `if`, `else`) builds a gaussian controller for "ferly", and
`NAVIGATE_RESUME_MOTOR` casts to one; `NavigationTo` answers 0 from `catch (...)` though nothing began
(`SlamWareRobotControlModule.cpp:128`). A printer that was pulled out stays a dead handle until CUT or
CLOSE; an open handle is forgotten when `YkInitPrinter` fails; STATUS answers 0 without paper.

## 6. Plan, and what is not modelled

Done: the message path, process control, the module bus, the monitor directory, both IoT servers, the cloud
client, assistance and streams, recognition and synthesis, faces, expressions, card readers,
navigation, docking and head; the theorems of section 4. Next:

1. *Abstract specifications*: "a request is posted, then answered once or dropped", which both
   IoT servers implement but for the exceptions of section 3, and which `OnceKept` and `DroppedKept`
   almost state; a slot allocator for `HttpPool`.
2. *Composition*: `NameMonitor` inside `ModuleBus` instead of the set `watch`.

Not modelled: device protocols and the vendored headers and SDKs that come with them
(`bitmap_image.hpp`, `ThLPrinterDLL.h`, JSON, camera and chassis SDKs, `SerialPort`), which are a
large share of the source; numerical code (face detection, geometry of the virtual walls, speeds);
the requests that the navigation module passes to the chassis over HTTP and answers with what
comes back (half of `robot_controller_gaussian.cpp`); the SlamWare chassis and the printer,
whose behaviour hangs on libraries that are not in the repository; the two other recognition
engines; audio and video capture; configuration and logging; and the library behind
`common_helper.h`: its queue is a FIFO per thread and its lock a mutex in every model.

## 7. Running

    tlc -workers 2 -config MCDispatch.cfg MCDispatch      # any MC module with one of its .cfg files
    tlapm ModuleBusProofs.tla                             # any module named ...Proofs

The longest runs take about four minutes with two workers, the longest proofs (`ModuleBusProofs`) about ten.
