------------------------------- MODULE Dispatch -------------------------------
(***************************************************************************)
(* The message path of the dispatch server (RobotDispathServer): the       *)
(* ServerInterface thread that owns the client sockets, the                *)
(* robot_message_dispatch thread that cuts the byte streams into frames,   *)
(* the client registry of robot_client_manager that three threads share,   *)
(* one module thread, and the robot_message_handler thread that sends      *)
(* replies and broadcasts.                                                 *)
(*                                                                         *)
(* A client connection is named by its guid, as in the code.  A frame is   *)
(* FrameParts parts of a byte stream; TCP delivers any number of parts at  *)
(* a time.  The appid in a frame's header is chosen when the header is     *)
(* read, which is the first time anything depends on it.                   *)
(***************************************************************************)
EXTENDS Naturals, Sequences, FiniteSets

CONSTANTS
  Guid,        \* connection names, one per accepted socket (common_get_guid)
  Handle,      \* socket handles, which the operating system reuses
  App,         \* appids, positive integers
  Expression,  \* ROBOT_EXPRESSION_APP
  NoGuid,      \* "no connection"
  NoHandle,    \* "no handle"
  MaxClients,  \* 64 in ServerInterface::new_connect
  FrameParts,  \* parts that make one frame
  MaxParts,    \* bound: parts one client sends in its life
  MaxCasts     \* bound: unsolicited broadcasts of the module

ASSUME DispatchAssumption ==
  /\ App \subseteq Nat \ {0}
  /\ NoGuid \notin Guid
  /\ NoHandle \notin Handle
  /\ FrameParts \in Nat \ {0}
  /\ MaxClients \in Nat

VARIABLES
  used,     \* guids given out so far
  sock,     \* ServerInterface: keys of m_socket_list
  hnd,      \* ServerInterface: handle of each connection
  srvq,     \* ServerInterface: queue of guids to disconnect (message 10)
  parts,    \* parts received from each connection
  dq,       \* dispatch: message queue
  cached,   \* dispatch: keys of m_cache_netdata
  buf,      \* dispatch: parts buffered in m_cache_netdata[g]
  frames,   \* dispatch: frames cut from each connection's stream
  dcur,     \* dispatch: connection whose data is being parsed
  dframe,   \* dispatch: a parsed frame waits to be routed
  clients,  \* registry: m_clientlist[a].socket_list, {} when a has no entry
  guidApp,  \* registry: m_guid_appid, 0 when the guid has no entry
  mon,      \* the module has registered as client monitor
  mq,       \* module: message queue
  view,     \* module: clients it believes to be online
  hq,       \* handler: message queue
  hpc,      \* handler: program counter
  happs,    \* handler: applications get_ntf_list has still to visit
  todo,     \* handler: <<appid, guid>> pairs still to send to
  hto,      \* handler: guid of the send in progress
  hhnd,     \* handler: raw handle taken for that send
  casts     \* broadcasts posted so far

serverVars   == <<used, sock, hnd, parts>>
dispatchVars == <<cached, buf, frames, dcur, dframe>>
registryVars == <<clients, guidApp>>
moduleVars   == <<mon, view, casts>>
handlerVars  == <<hpc, happs, todo, hto, hhnd>>
vars == <<serverVars, srvq, dq, dispatchVars, registryVars, moduleVars, mq,
          hq, handlerVars>>

NoApp == 0  \* robot_client_manager::get_appid of an unknown guid

DispatchMsg == [k : {"data", "remove"}, g : Guid, n : Nat]
ModuleMsg   == [k : {"request", "online", "offline"}, g : Guid]
HandlerMsg  == [k : {"reply"}, g : Guid] \cup [k : {"all"}, g : {NoGuid}]

ServerType ==
  /\ used \in SUBSET Guid
  /\ sock \in SUBSET used
  /\ hnd \in [Guid -> Handle \cup {NoHandle}]
  /\ parts \in [Guid -> Nat]

DispatchType ==
  /\ cached \in SUBSET Guid
  /\ buf \in [Guid -> Nat]
  /\ frames \in [Guid -> Nat]
  /\ dcur \in Guid \cup {NoGuid}
  /\ dframe \in BOOLEAN
  /\ dframe => dcur \in Guid

RegistryType ==
  /\ clients \in [App -> SUBSET Guid]
  /\ guidApp \in [Guid -> App \cup {NoApp}]

ModuleType ==
  /\ mon \in BOOLEAN
  /\ view \in SUBSET Guid
  /\ casts \in Nat

QueueType ==
  /\ srvq \in Seq(Guid)
  /\ dq \in Seq(DispatchMsg)
  /\ mq \in Seq(ModuleMsg)
  /\ hq \in Seq(HandlerMsg)

HandlerType ==
  /\ hpc \in {"idle", "collect", "send", "raw"}
  /\ happs \in SUBSET App
  /\ todo \in SUBSET ((App \cup {NoApp}) \X Guid)
  /\ hto \in Guid \cup {NoGuid}
  /\ hhnd \in Handle \cup {NoHandle}
  /\ hpc = "raw" => hto \in Guid

TypeOK ==
  /\ ServerType
  /\ DispatchType
  /\ RegistryType
  /\ ModuleType
  /\ QueueType
  /\ HandlerType

Init ==
  /\ used = {}
  /\ sock = {}
  /\ hnd = [g \in Guid |-> NoHandle]
  /\ srvq = <<>>
  /\ parts = [g \in Guid |-> 0]
  /\ dq = <<>>
  /\ cached = {}
  /\ buf = [g \in Guid |-> 0]
  /\ frames = [g \in Guid |-> 0]
  /\ dcur = NoGuid
  /\ dframe = FALSE
  /\ clients = [a \in App |-> {}]
  /\ guidApp = [g \in Guid |-> NoApp]
  /\ mon = FALSE
  /\ mq = <<>>
  /\ view = {}
  /\ hq = <<>>
  /\ hpc = "idle"
  /\ happs = {}
  /\ todo = {}
  /\ hto = NoGuid
  /\ hhnd = NoHandle
  /\ casts = 0

-------------------------------------------------------------------------------
(* The client registry, robot_client_manager.  Its operations run under    *)
(* m_ml and push the notifications of the client monitors before they      *)
(* release it.                                                             *)

\* Mutant: the notification overtakes those already queued.
Notify_pushed_in_front(kind, g) ==
  mq' = IF mon THEN <<[k |-> kind, g |-> g]>> \o mq ELSE mq

\* What a notification pushes to the queue of the monitoring module.
Notify(kind, g) ==
  mq' = IF mon THEN Append(mq, [k |-> kind, g |-> g]) ELSE mq

add_client(g, a) ==
  IF g \in clients[a]
  THEN UNCHANGED <<registryVars, mq>>
  ELSE /\ clients' = [clients EXCEPT ![a] = @ \cup {g}]
       /\ guidApp' = [guidApp EXCEPT ![g] = a]
       /\ Notify("online", g)

\* The loop visits the appids in ascending order and stops at the first one
\* whose list it empties: later applications keep the guid.
remove_client(g) ==
  /\ clients' = [a \in App |->
                   IF \E b \in App : b < a /\ clients[b] = {g}
                   THEN clients[a]
                   ELSE clients[a] \ {g}]
  /\ guidApp' = [guidApp EXCEPT ![g] = NoApp]
  /\ Notify("offline", g)

-------------------------------------------------------------------------------
(* The ServerInterface thread.                                             *)

new_connect(g, h) ==
  /\ g \notin used
  /\ Cardinality(sock) < MaxClients
  /\ \A x \in sock : hnd[x] # h
  /\ used' = used \cup {g}
  /\ sock' = sock \cup {g}
  /\ hnd' = [hnd EXCEPT ![g] = h]
  /\ UNCHANGED <<srvq, parts, dq, dispatchVars, registryVars, moduleVars, mq,
                 hq, handlerVars>>

\* server_recvice_data, for one readable socket: the bytes go to dispatch.
server_recvice_data(g, n) ==
  /\ g \in sock
  /\ parts[g] + n <= MaxParts
  /\ parts' = [parts EXCEPT ![g] = @ + n]
  /\ dq' = Append(dq, [k |-> "data", g |-> g, n |-> n])
  /\ UNCHANGED <<used, sock, hnd, srvq, dispatchVars, registryVars,
                 moduleVars, mq, hq, handlerVars>>

\* Mutant: dispatch is told only when it holds input of the connection now.
remove_one_if_cached(g) ==
  /\ remove_client(g)
  /\ dq' = IF g \in cached THEN Append(dq, [k |-> "remove", g |-> g, n |-> 0])
                           ELSE dq
  /\ sock' = sock \ {g}
  /\ UNCHANGED <<used, hnd, parts>>

\* Under m_mapml; the push to dispatch comes before the erase, and both come
\* before this thread can push anything else.
remove_one(g) ==
  /\ remove_client(g)
  /\ dq' = Append(dq, [k |-> "remove", g |-> g, n |-> 0])
  /\ sock' = sock \ {g}
  /\ UNCHANGED <<used, hnd, parts>>

\* xrecv reports SOCKET_DISCONNECT or an error: remove_socket.
remove_socket(g) ==
  /\ g \in sock
  /\ remove_one(g)
  /\ UNCHANGED <<srvq, dispatchVars, moduleVars, hq, handlerVars>>

\* Mutant: the connection is removed again when it has gone already.
server_message_unchecked ==
  /\ srvq # <<>>
  /\ srvq' = Tail(srvq)
  /\ remove_one(Head(srvq))
  /\ UNCHANGED <<dispatchVars, moduleVars, hq, handlerVars>>

\* Mutant: a connection with input still queued is spared.
server_message_spares_busy ==
  /\ srvq # <<>>
  /\ srvq' = Tail(srvq)
  /\ IF Head(srvq) \in sock /\ \A i \in 1..Len(dq) : dq[i].g # Head(srvq)
     THEN remove_one(Head(srvq))
     ELSE UNCHANGED <<serverVars, dq, registryVars, mq>>
  /\ UNCHANGED <<dispatchVars, moduleVars, hq, handlerVars>>

\* The loop of ServerInterface::run takes a message 10 that send_data pushed.
server_message ==
  /\ srvq # <<>>
  /\ srvq' = Tail(srvq)
  /\ IF Head(srvq) \in sock
     THEN remove_one(Head(srvq))
     ELSE UNCHANGED <<serverVars, dq, registryVars, mq>>
  /\ UNCHANGED <<dispatchVars, moduleVars, hq, handlerVars>>

-------------------------------------------------------------------------------
(* The robot_message_dispatch thread.                                      *)

\* Mutant: new bytes replace an unfinished frame.
net_data_in_handler_replaces ==
  /\ dcur = NoGuid
  /\ dq # <<>>
  /\ Head(dq).k = "data"
  /\ dq' = Tail(dq)
  /\ dcur' = Head(dq).g
  /\ cached' = cached \cup {Head(dq).g}
  /\ buf' = [buf EXCEPT ![Head(dq).g] = Head(dq).n]
  /\ UNCHANGED <<serverVars, srvq, frames, dframe, registryVars, moduleVars,
                 mq, hq, handlerVars>>

\* net_data_in_handler appends the bytes to the cache of the connection.
net_data_in_handler ==
  /\ dcur = NoGuid
  /\ dq # <<>>
  /\ Head(dq).k = "data"
  /\ dq' = Tail(dq)
  /\ dcur' = Head(dq).g
  /\ cached' = cached \cup {Head(dq).g}
  /\ buf' = [buf EXCEPT ![Head(dq).g] = @ + Head(dq).n]
  /\ UNCHANGED <<serverVars, srvq, frames, dframe, registryVars, moduleVars,
                 mq, hq, handlerVars>>

\* Mutant: an unfinished frame keeps the cache entry.
erase_cache_if_empty ==
  /\ dcur = NoGuid
  /\ dq # <<>>
  /\ Head(dq).k = "remove"
  /\ dq' = Tail(dq)
  /\ cached' = IF buf[Head(dq).g] = 0 THEN cached \ {Head(dq).g} ELSE cached
  /\ UNCHANGED <<serverVars, srvq, buf, frames, dcur, dframe, registryVars,
                 moduleVars, mq, hq, handlerVars>>

\* case 10 of robot_message_dispatch::run.
erase_cache ==
  /\ dcur = NoGuid
  /\ dq # <<>>
  /\ Head(dq).k = "remove"
  /\ dq' = Tail(dq)
  /\ cached' = cached \ {Head(dq).g}
  /\ buf' = [buf EXCEPT ![Head(dq).g] = 0]
  /\ UNCHANGED <<serverVars, srvq, frames, dcur, dframe, registryVars,
                 moduleVars, mq, hq, handlerVars>>

\* Mutant: a frame is cut one part early.
take_frame_early(a) ==
  /\ dcur # NoGuid
  /\ ~dframe
  /\ buf[dcur] >= FrameParts - 1
  /\ buf' = [buf EXCEPT ![dcur] = @ - FrameParts]
  /\ frames' = [frames EXCEPT ![dcur] = @ + 1]
  /\ dframe' = TRUE
  /\ add_client(dcur, a)
  /\ UNCHANGED <<serverVars, srvq, dq, cached, dcur, moduleVars, hq,
                 handlerVars>>

\* check_and_get_package_info returns 0: a frame is cut off the buffer and
\* its sender is registered under the appid of the header.
take_frame(a) ==
  /\ dcur # NoGuid
  /\ ~dframe
  /\ buf[dcur] >= FrameParts
  /\ buf' = [buf EXCEPT ![dcur] = @ - FrameParts]
  /\ frames' = [frames EXCEPT ![dcur] = @ + 1]
  /\ dframe' = TRUE
  /\ add_client(dcur, a)
  /\ UNCHANGED <<serverVars, srvq, dq, cached, dcur, moduleVars, hq,
                 handlerVars>>

\* check_and_get_package_info returns 1: the loop of net_data_in_handler ends.
wait_data ==
  /\ dcur # NoGuid
  /\ ~dframe
  /\ buf[dcur] < FrameParts
  /\ dcur' = NoGuid
  /\ UNCHANGED <<serverVars, srvq, dq, cached, buf, frames, dframe,
                 registryVars, moduleVars, mq, hq, handlerVars>>

\* local_msg_handler: the frame goes to the module that handles its type
\* (CallModuleProcess), is answered by the server itself (version, serial
\* number, unknown type: SelfPostResult), or is dropped (other node, binary
\* type nobody registered, no msg_type).
local_msg_handler ==
  /\ dframe
  /\ dframe' = FALSE
  /\ \/ /\ mq' = Append(mq, [k |-> "request", g |-> dcur])
        /\ UNCHANGED hq
     \/ /\ hq' = Append(hq, [k |-> "reply", g |-> dcur])
        /\ UNCHANGED mq
     \/ UNCHANGED <<mq, hq>>
  /\ UNCHANGED <<serverVars, srvq, dq, cached, buf, frames, dcur,
                 registryVars, moduleVars, handlerVars>>

-------------------------------------------------------------------------------
(* A module: what it does with a message is its own; the server sees what  *)
(* it posts (robot_module_manager::ModulePostMessage).                     *)

\* selfhandler takes a DISPATCH_REGISTER_MESSAGE_MONITOR_REQUEST for
\* client_service: append_client_monitor.
register_client_monitor ==
  /\ ~mon
  /\ mon' = TRUE
  /\ UNCHANGED <<serverVars, srvq, dq, dispatchVars, registryVars, view, mq,
                 hq, casts, handlerVars>>

\* The module thread processes one message; a request may be answered to the
\* client it came from.
module_process ==
  /\ mq # <<>>
  /\ mq' = Tail(mq)
  /\ \/ /\ Head(mq).k = "request"
        /\ \/ hq' = Append(hq, [k |-> "reply", g |-> Head(mq).g])
           \/ UNCHANGED hq
        /\ UNCHANGED view
     \/ /\ Head(mq).k = "online"
        /\ view' = view \cup {Head(mq).g}
        /\ UNCHANGED hq
     \/ /\ Head(mq).k = "offline"
        /\ view' = view \ {Head(mq).g}
        /\ UNCHANGED hq
  /\ UNCHANGED <<serverVars, srvq, dq, dispatchVars, registryVars, mon, casts,
                 handlerVars>>

\* ModulePostMessage with desModuleName NULL: a notification to every client.
module_broadcast ==
  /\ casts < MaxCasts
  /\ casts' = casts + 1
  /\ hq' = Append(hq, [k |-> "all", g |-> NoGuid])
  /\ UNCHANGED <<serverVars, srvq, dq, dispatchVars, registryVars, mon, view,
                 mq, handlerVars>>

-------------------------------------------------------------------------------
(* The robot_message_handler thread.                                       *)

message_convert_result ==
  /\ hpc = "idle"
  /\ hq # <<>>
  /\ Head(hq).k = "reply"
  /\ hq' = Tail(hq)
  /\ todo' = {<<NoApp, Head(hq).g>>}
  /\ hpc' = "send"
  /\ UNCHANGED <<serverVars, srvq, dq, dispatchVars, registryVars, moduleVars,
                 mq, happs, hto, hhnd>>

message_convert_result_all ==
  /\ hpc = "idle"
  /\ hq # <<>>
  /\ Head(hq).k = "all"
  /\ hq' = Tail(hq)
  /\ happs' = App
  /\ hpc' = "collect"
  /\ UNCHANGED <<serverVars, srvq, dq, dispatchVars, registryVars, moduleVars,
                 mq, todo, hto, hhnd>>

\* get_ntf_list walks m_clientlist without m_ml, so the registry may change
\* between two applications.  voice_ntf is true unless the application is the
\* expression one: add_client clears the flag whenever it lists a guid there.
get_ntf_list ==
  /\ hpc = "collect"
  /\ \E a \in happs :
     /\ \A b \in happs : a <= b
     /\ happs' = happs \ {a}
     /\ todo' = IF a = Expression THEN todo ELSE todo \cup ({a} \X clients[a])
  /\ UNCHANGED <<serverVars, srvq, dq, dispatchVars, registryVars, moduleVars,
                 mq, hq, hpc, hto, hhnd>>

broadcast_listed ==
  /\ hpc = "collect"
  /\ happs = {}
  /\ hpc' = IF todo = {} THEN "idle" ELSE "send"
  /\ UNCHANGED <<serverVars, srvq, dq, dispatchVars, registryVars, moduleVars,
                 mq, hq, happs, todo, hto, hhnd>>

\* The part of send_data under m_mapml: an unknown guid is taken out of the
\* registry, a known one gives up its raw handle.
send_data_lookup(p) ==
  /\ hpc = "send"
  /\ p \in todo
  /\ \A q \in todo : p[1] <= q[1]
  /\ todo' = todo \ {p}
  /\ IF p[2] \in sock
     THEN /\ hpc' = "raw"
          /\ hto' = p[2]
          /\ hhnd' = hnd[p[2]]
          /\ UNCHANGED <<registryVars, mq>>
     ELSE /\ remove_client(p[2])
          /\ hpc' = IF todo' = {} THEN "idle" ELSE "send"
          /\ UNCHANGED <<hto, hhnd>>
  /\ UNCHANGED <<serverVars, srvq, dq, dispatchVars, moduleVars, hq, happs>>

\* The part of send_data after m_mapml is released.  Bytes go to whoever owns
\* the handle now; when none could be sent the connection is to be removed.
send_data_raw(sent) ==
  /\ hpc = "raw"
  /\ sent => \E x \in sock : hnd[x] = hhnd
  /\ srvq' = IF sent THEN srvq ELSE Append(srvq, hto)
  /\ hpc' = IF todo = {} THEN "idle" ELSE "send"
  /\ hto' = NoGuid
  /\ hhnd' = NoHandle
  /\ UNCHANGED <<serverVars, dq, dispatchVars, registryVars, moduleVars, mq,
                 hq, happs, todo>>

-------------------------------------------------------------------------------

ServerNext ==
  \/ \E g \in Guid, h \in Handle : new_connect(g, h)
  \/ \E g \in Guid, n \in 1..MaxParts : server_recvice_data(g, n)
  \/ \E g \in Guid : remove_socket(g)
  \/ server_message

DispatchNext ==
  \/ net_data_in_handler
  \/ erase_cache
  \/ \E a \in App : take_frame(a)
  \/ wait_data
  \/ local_msg_handler

HandlerNext ==
  \/ message_convert_result
  \/ message_convert_result_all
  \/ get_ntf_list
  \/ broadcast_listed
  \/ \E p \in todo : send_data_lookup(p)
  \/ \E sent \in BOOLEAN : send_data_raw(sent)

ModuleNext ==
  \/ register_client_monitor
  \/ module_process
  \/ module_broadcast

Next == ServerNext \/ DispatchNext \/ ModuleNext \/ HandlerNext

Spec == Init /\ [][Next]_vars

\* Every thread is a loop around a blocking queue read and is scheduled by the
\* operating system: none of them stops while it has work.
Fairness ==
  /\ WF_vars(server_message)
  /\ WF_vars(DispatchNext)
  /\ WF_vars(HandlerNext)
  /\ WF_vars(module_process)

FairSpec == Spec /\ Fairness

-------------------------------------------------------------------------------
(* Properties.                                                             *)

\* A message of kind k about connection g waits in dispatch's queue.
Queued(k, g) == \E i \in 1..Len(dq) : dq[i].k = k /\ dq[i].g = g

\* Input of a connection is held only while the connection is open or its
\* removal is on the way to the thread that will free it: bytes that arrive
\* before a disconnect and are parsed after it leave no cache entry behind
\* (ServerInterface::remove_one against net_data_in_handler).
CacheFreed == \A g \in cached : g \in sock \/ Queued("remove", g)

\* The strengthening that makes CacheFreed inductive: queued data of a closed
\* connection has the removal behind it, so has the connection being parsed,
\* and a connection is removed once, after it was closed.
RemovedBehind(g, i) ==
  \E j \in (i + 1)..Len(dq) : dq[j].k = "remove" /\ dq[j].g = g

DataCovered ==
  \A i \in 1..Len(dq) :
    dq[i].k = "data" => dq[i].g \in sock \/ RemovedBehind(dq[i].g, i)

CurrentCovered == dcur \in Guid => dcur \in sock \/ Queued("remove", dcur)

RemovedOnce ==
  /\ \A i \in 1..Len(dq) : dq[i].k = "remove" => dq[i].g \in used \ sock
  /\ \A i, j \in 1..Len(dq) :
       dq[i].k = "remove" /\ dq[j].k = "remove" /\ dq[i].g = dq[j].g => i = j

CacheInv == DataCovered /\ CurrentCovered /\ CacheFreed /\ RemovedOnce

\* The appid that a reply to a client will carry is one under which the client
\* is listed, whatever order headers, disconnects and failed sends come in
\* (add_client and remove_client keep m_guid_appid and m_clientlist together).
RegistryAgrees ==
  \A g \in Guid : guidApp[g] # NoApp => g \in clients[guidApp[g]]

\* Notifications about connection g that the module has not processed yet.
NotesAbout(g) == {i \in 1..Len(mq) : mq[i].g = g /\ mq[i].k # "request"}

\* A client monitor that has worked through its notifications about a client
\* never believes it online when the registry has dropped it: add_client and
\* remove_client push under m_ml, so notifications are queued in the order of
\* the changes even though three threads make them.
MonitorNotAhead ==
  \A g \in Guid :
    /\ NotesAbout(g) = {} /\ g \in view => guidApp[g] # NoApp
    /\ \A i \in NotesAbout(g) :
         mq[i].k = "online" /\ (\A j \in NotesAbout(g) : j <= i)
           => guidApp[g] # NoApp

\* The registry as it is seen from both sides, the reply's and the monitor's.
RegistryInv == RegistryAgrees /\ MonitorNotAhead

\* MonitorNotAhead with what makes it inductive: a module that has not
\* registered knows nothing.
MonitorInv ==
  /\ MonitorNotAhead
  /\ ~mon => view = {} /\ \A i \in 1..Len(mq) : mq[i].k = "request"

\* The parts of connection g in a queue of dispatch: which part of which message.
PartsIn(queue, g) ==
  UNION {{i} \X (1..queue[i].n) : i \in {j \in 1..Len(queue) : queue[j].g = g}}

\* Parts of connection g that wait in dispatch's queue.
QueuedParts(g) == Cardinality(PartsIn(dq, g))

\* While a connection is open, every part received from it is in a frame that
\* was cut, in the cache, or queued, exactly once: no byte is lost, handled
\* twice, or charged to another connection (server_recvice_data,
\* net_data_in_handler and check_and_get_package_info together).
PartsConserved ==
  \A g \in sock : parts[g] = frames[g] * FrameParts + buf[g] + QueuedParts(g)

\* What send_data needs when it sends on the raw handle it took before it
\* released m_mapml: nobody but the addressee owns that handle.
HandleStillOwned ==
  hpc = "raw" => \A x \in sock : hnd[x] = hhnd => x = hto

\* The input of a closed connection is released for good: dispatch works off
\* its queue and nothing recreates the cache entry after message 10.
InputReleased == \A g \in Guid : (g \in used \ sock) ~> [](g \notin cached)

\* A connection on which send_data could send nothing is closed: the message
\* 10 it posts to the ServerInterface thread reaches remove_one.
DeadPeerClosed ==
  \A g \in Guid : (\E i \in 1..Len(srvq) : srvq[i] = g) ~> (g \notin sock)

\* The life of a connection as its client could see it.
Phase(g) ==
  IF g \in sock THEN "open"
  ELSE IF Queued("remove", g) THEN "draining"
  ELSE IF g \in used THEN "gone" ELSE "new"

Session == INSTANCE ClientSession WITH
  phase <- [g \in Guid |-> Phase(g)],
  handled <- frames

\* The server implements ClientSession: each connection opens once, its frames
\* are handled only until its input is released, which happens once, after
\* the close.
SessionSpec == Session!Spec
===============================================================================
