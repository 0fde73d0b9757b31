-------------------------------- MODULE MainApp --------------------------------
(***************************************************************************)
(* The life of the server process (robot_main_app): the main thread that   *)
(* waits for an order and then tears the threads down, the console input   *)
(* thread and the module threads that give the order through the shared    *)
(* character order_c and an auto-reset event, the console control handler  *)
(* that tears down on its own, and the worker threads that are being torn  *)
(* down while they still pass messages to each other.                      *)
(***************************************************************************)
EXTENDS Naturals, Sequences, SequencesExt

CONSTANTS
  ModuleOrder,   \* module_config_namelist: the modules in their config order
  Key,           \* characters the operator may type
  Newline,       \* the one of them that is not an order
  MaxKeys,       \* bound: characters typed
  MaxFrames,     \* bound: frames received from clients
  MaxRequests,   \* bound: shutdown requests of modules
  ConsoleClose   \* whether the console window may be closed

Module  == {ModuleOrder[i] : i \in DOMAIN ModuleOrder}
Worker  == {"server", "dispatch", "handler"} \cup Module
Closer  == {"main", "console"}

ASSUME MainAppAssumption ==
  /\ ModuleOrder \in Seq(Module)
  /\ Module \cap {"server", "dispatch", "handler"} = {}
  /\ \A i, j \in DOMAIN ModuleOrder : ModuleOrder[i] = ModuleOrder[j] => i = j
  /\ {MaxKeys, MaxFrames, MaxRequests} \subseteq Nat
  /\ ConsoleClose \in BOOLEAN

VARIABLES
  order,      \* robot_input_thread::order_c
  event,      \* m_event_wait is signalled
  ipc,        \* input thread: "get" or "signal"
  apc,        \* main thread: "wait", "check", "clear" or "close"
  modpc,      \* module thread: "loop" or "signal" (inside main_close)
  q,          \* message queue of each worker thread
  live,       \* worker threads that have not ended
  close_flag, \* robot_main_app::close_flag
  cpc,        \* close_service as run by each closer
  stage,      \* workers this closer has quit so far
  exited,     \* the process is gone
  keys, received, requests  \* how much of each bound is used

vars == <<order, event, ipc, apc, modpc, q, live, close_flag, cpc, stage,
          exited, keys, received, requests>>
mainVars   == <<order, event, apc>>
closeVars  == <<close_flag, cpc, stage>>
boundVars  == <<keys, received, requests>>

NoOrder == "none"
Msg == {"frame", "request", "reply", "shutdown", "exit"}

TypeOK ==
  /\ order \in (Key \ {Newline}) \cup {NoOrder, "q"}
  /\ event \in BOOLEAN
  /\ ipc \in {"get", "signal"}
  /\ apc \in {"wait", "check", "clear", "close"}
  /\ modpc \in [Module -> {"loop", "signal"}]
  /\ q \in [Worker -> Seq(Msg)]
  /\ live \in SUBSET Worker
  /\ close_flag \in BOOLEAN
  /\ cpc \in [Closer -> {"idle", "test", "set", "notify", "post", "join", "done"}]
  /\ stage \in [Closer -> 0..Len(ModuleOrder) + 3]
  /\ exited \in BOOLEAN
  /\ keys \in 0..MaxKeys /\ received \in 0..MaxFrames
  /\ requests \in 0..MaxRequests

\* robot_main_app::run up to wait: every thread runs, or the port could not be
\* bound: then the server thread is not started and wait returns at once.
Init ==
  /\ order = NoOrder
  /\ event = FALSE
  /\ ipc = "get"
  /\ modpc = [m \in Module |-> "loop"]
  /\ q = [w \in Worker |-> <<>>]
  /\ close_flag = FALSE
  /\ stage = [c \in Closer |-> 0]
  /\ exited = FALSE
  /\ keys = 0 /\ received = 0 /\ requests = 0
  /\ \/ /\ live = Worker
        /\ apc = "wait"
        /\ cpc = [c \in Closer |-> "idle"]
     \/ /\ live = Worker \ {"server"}
        /\ apc = "close"
        /\ cpc = [c \in Closer |-> IF c = "main" THEN "test" ELSE "idle"]

-------------------------------------------------------------------------------
(* Giving the order.                                                       *)

\* getchar returns: robot_input_thread::run stores the character.
type_key(k) ==
  /\ ~exited
  /\ ipc = "get"
  /\ keys < MaxKeys
  /\ keys' = keys + 1
  /\ order' = IF k = Newline THEN order ELSE k
  /\ ipc' = "signal"
  /\ UNCHANGED <<event, apc, modpc, q, live, closeVars, exited, received, requests>>

key_signal ==
  /\ ~exited
  /\ ipc = "signal"
  /\ ipc' = "get"
  /\ event' = TRUE
  /\ UNCHANGED <<order, apc, modpc, q, live, closeVars, exited, boundVars>>

\* A module posts DISPATCH_SHUTDOWN_REQUEST to its own thread.
post_shutdown(m) ==
  /\ ~exited
  /\ m \in live
  /\ requests < MaxRequests
  /\ requests' = requests + 1
  /\ q' = [q EXCEPT ![m] = Append(@, "shutdown")]
  /\ UNCHANGED <<mainVars, ipc, modpc, live, closeVars, exited, keys, received>>

\* selfhandler calls main_close, which stores 'q' ...
main_close(m) ==
  /\ ~exited
  /\ m \in live
  /\ modpc[m] = "loop"
  /\ q[m] # <<>> /\ Head(q[m]) = "shutdown"
  /\ q' = [q EXCEPT ![m] = Tail(@)]
  /\ order' = "q"
  /\ modpc' = [modpc EXCEPT ![m] = "signal"]
  /\ UNCHANGED <<event, apc, ipc, live, closeVars, exited, boundVars>>

\* ... and raises the event.
main_close_signal(m) ==
  /\ ~exited
  /\ modpc[m] = "signal"
  /\ modpc' = [modpc EXCEPT ![m] = "loop"]
  /\ event' = TRUE
  /\ UNCHANGED <<order, apc, ipc, q, live, closeVars, exited, boundVars>>

-------------------------------------------------------------------------------
(* robot_main_app::wait.                                                   *)

\* Mutant: the order is reset before it is read instead of after.
wait_resets ==
  /\ ~exited
  /\ apc = "wait"
  /\ event
  /\ event' = FALSE
  /\ order' = NoOrder
  /\ apc' = "check"
  /\ UNCHANGED <<ipc, modpc, q, live, closeVars, exited, boundVars>>

wait ==
  /\ ~exited
  /\ apc = "wait"
  /\ event
  /\ event' = FALSE
  /\ apc' = "check"
  /\ UNCHANGED <<order, ipc, modpc, q, live, closeVars, exited, boundVars>>

check_order ==
  /\ ~exited
  /\ apc = "check"
  /\ IF order = "q"
     THEN /\ apc' = "close"
          /\ cpc' = [cpc EXCEPT !["main"] = "test"]
     ELSE /\ apc' = "clear"
          /\ UNCHANGED cpc
  /\ UNCHANGED <<order, event, ipc, modpc, q, live, close_flag, stage, exited, boundVars>>

\* m_input.order_c = 0, after 'm' and 'v' have been looked for.
clear_order ==
  /\ ~exited
  /\ apc = "clear"
  /\ order' = NoOrder
  /\ apc' = "wait"
  /\ UNCHANGED <<event, ipc, modpc, q, live, closeVars, exited, boundVars>>

-------------------------------------------------------------------------------
(* close_service, run by the main thread or by the console handler.        *)

\* consolehandler gets CTRL_CLOSE_EVENT or CTRL_SHUTDOWN_EVENT.
consolehandler ==
  /\ ~exited
  /\ ConsoleClose
  /\ cpc["console"] = "idle"
  /\ cpc' = [cpc EXCEPT !["console"] = "test"]
  /\ UNCHANGED <<mainVars, ipc, modpc, q, live, close_flag, stage, exited, boundVars>>

close_test(c) ==
  /\ ~exited
  /\ cpc[c] = "test"
  /\ cpc' = [cpc EXCEPT ![c] = IF close_flag THEN "done" ELSE "set"]
  /\ UNCHANGED <<mainVars, ipc, modpc, q, live, close_flag, stage, exited, boundVars>>

close_set(c) ==
  /\ ~exited
  /\ cpc[c] = "set"
  /\ close_flag' = TRUE
  /\ cpc' = [cpc EXCEPT ![c] = "notify"]
  /\ UNCHANGED <<mainVars, ipc, modpc, q, live, stage, exited, boundVars>>

\* ShutDownNotify.
close_notify(c) ==
  /\ ~exited
  /\ cpc[c] = "notify"
  /\ q' = [q EXCEPT !["handler"] = Append(@, "reply")]
  /\ cpc' = [cpc EXCEPT ![c] = "post"]
  /\ UNCHANGED <<mainVars, ipc, modpc, live, close_flag, stage, exited, boundVars>>

\* Mutant: the handler is quit before the modules it serves.
QuitOrder_handler_first ==
  <<"server", "handler">> \o Reverse(ModuleOrder) \o <<"dispatch">>

\* The order in which close_service calls quit.
QuitOrder ==
  <<"server">> \o Reverse(ModuleOrder) \o <<"dispatch", "handler">>

\* quit posts _EXIT_THREAD_ ...
quit_post(c) ==
  /\ ~exited
  /\ cpc[c] = "post"
  /\ q' = [q EXCEPT ![QuitOrder[stage[c] + 1]] = Append(@, "exit")]
  /\ cpc' = [cpc EXCEPT ![c] = "join"]
  /\ UNCHANGED <<mainVars, ipc, modpc, live, close_flag, stage, exited, boundVars>>

\* ... and waits for the thread to end.
quit_join(c) ==
  /\ ~exited
  /\ cpc[c] = "join"
  /\ QuitOrder[stage[c] + 1] \notin live
  /\ stage' = [stage EXCEPT ![c] = @ + 1]
  /\ cpc' = [cpc EXCEPT ![c] = IF stage[c] + 1 = Len(QuitOrder) THEN "done" ELSE "post"]
  /\ UNCHANGED <<mainVars, ipc, modpc, q, live, close_flag, exited, boundVars>>

\* main returns, or the console handler does and Windows ends the process.
process_exit(c) ==
  /\ ~exited
  /\ cpc[c] = "done"
  /\ exited' = TRUE
  /\ UNCHANGED <<mainVars, ipc, modpc, q, live, closeVars, boundVars>>

-------------------------------------------------------------------------------
(* The worker threads, as far as they keep messages moving.                *)

\* Mutant: _EXIT_THREAD_ is ignored when work has arrived behind it.
worker_exit_if_idle(w) ==
  /\ ~exited
  /\ w \in live
  /\ w \in Module => modpc[w] = "loop"
  /\ q[w] # <<>> /\ Head(q[w]) = "exit"
  /\ q' = [q EXCEPT ![w] = Tail(@)]
  /\ live' = IF Len(q[w]) = 1 THEN live \ {w} ELSE live
  /\ UNCHANGED <<mainVars, ipc, modpc, closeVars, exited, boundVars>>

\* A worker takes _EXIT_THREAD_ and its run function returns.
worker_exit(w) ==
  /\ ~exited
  /\ w \in live
  /\ w \in Module => modpc[w] = "loop"
  /\ q[w] # <<>> /\ Head(q[w]) = "exit"
  /\ q' = [q EXCEPT ![w] = Tail(@)]
  /\ live' = live \ {w}
  /\ UNCHANGED <<mainVars, ipc, modpc, closeVars, exited, boundVars>>

\* ServerInterface::run receives a frame and pushes it to dispatch.
server_receive ==
  /\ ~exited
  /\ "server" \in live
  /\ received < MaxFrames
  /\ received' = received + 1
  /\ q' = [q EXCEPT !["dispatch"] = Append(@, "frame")]
  /\ UNCHANGED <<mainVars, ipc, modpc, live, closeVars, exited, keys, requests>>

\* Dispatch answers a frame itself or passes it to a module.
dispatch_frame ==
  /\ ~exited
  /\ "dispatch" \in live
  /\ q["dispatch"] # <<>> /\ Head(q["dispatch"]) = "frame"
  /\ \/ q' = [q EXCEPT !["dispatch"] = Tail(@), !["handler"] = Append(@, "reply")]
     \/ \E m \in Module :
          q' = [q EXCEPT !["dispatch"] = Tail(@), ![m] = Append(@, "request")]
  /\ UNCHANGED <<mainVars, ipc, modpc, live, closeVars, exited, boundVars>>

\* A module thread answers a request.
module_request(m) ==
  /\ ~exited
  /\ m \in live
  /\ modpc[m] = "loop"
  /\ q[m] # <<>> /\ Head(q[m]) = "request"
  /\ q' = [q EXCEPT ![m] = Tail(@), !["handler"] = Append(@, "reply")]
  /\ UNCHANGED <<mainVars, ipc, modpc, live, closeVars, exited, boundVars>>

\* robot_message_handler sends a reply.
handler_reply ==
  /\ ~exited
  /\ "handler" \in live
  /\ q["handler"] # <<>> /\ Head(q["handler"]) = "reply"
  /\ q' = [q EXCEPT !["handler"] = Tail(@)]
  /\ UNCHANGED <<mainVars, ipc, modpc, live, closeVars, exited, boundVars>>

MainNext == wait \/ check_order \/ clear_order

CloseNext(c) ==
  \/ close_test(c) \/ close_set(c) \/ close_notify(c)
  \/ quit_post(c) \/ quit_join(c) \/ process_exit(c)

ModuleNext(m) ==
  main_close(m) \/ main_close_signal(m) \/ module_request(m) \/ worker_exit(m)

DispatchNext == dispatch_frame \/ worker_exit("dispatch")
HandlerNext == handler_reply \/ worker_exit("handler")

Next ==
  \/ \E k \in Key : type_key(k)
  \/ key_signal
  \/ \E m \in Module : post_shutdown(m)
  \/ MainNext
  \/ consolehandler
  \/ \E c \in Closer : CloseNext(c)
  \/ \E m \in Module : ModuleNext(m)
  \/ DispatchNext
  \/ HandlerNext
  \/ server_receive \/ worker_exit("server")

Spec == Init /\ [][Next]_vars

\* Every thread is scheduled; the operator, the clients and the modules need
\* not do anything.
Fairness ==
  /\ WF_vars(MainNext)
  /\ WF_vars(key_signal)
  /\ \A c \in Closer : WF_vars(CloseNext(c))
  /\ \A m \in Module : WF_vars(ModuleNext(m))
  /\ WF_vars(DispatchNext)
  /\ WF_vars(HandlerNext)
  /\ WF_vars(worker_exit("server"))

FairSpec == Spec /\ Fairness

-------------------------------------------------------------------------------
(* Properties.                                                             *)

\* No reply is stranded by the teardown: when the handler thread ends, every
\* reply that dispatch or a module has posted was sent, and nobody is left who
\* could post another (close_service quits the producers before the handler).
NoReplyStranded ==
  "handler" \notin live =>
    /\ \A i \in DOMAIN q["handler"] : q["handler"][i] # "reply"
    /\ live = {}

\* The process does not end before every module's Stop has returned and every
\* thread is gone (quit waits for each thread).
StoppedBeforeExit == exited => live = {}

\* One of the main thread and the console handler closes, or neither.  When both
\* do, the second either leaves at once or notifies the clients too late.
SoleCloser == \E c \in Closer : cpc[c] = "idle"

\* What a teardown by one closer keeps, whichever it is and whatever is in
\* flight: no reply stranded, no thread left behind.
TeardownInv == TypeOK /\ (SoleCloser => NoReplyStranded /\ StoppedBeforeExit)

\* A module that asks for a shutdown gets it: main_close stores 'q' for the
\* main thread to find ("%s will close service", robot_module_thread.cpp:204).
ShutdownHonoured == \A m \in Module : (modpc[m] = "signal") ~> exited

\* It gets it at any rate when the operator types nothing: no other event makes
\* the main thread reset the order before it has looked at it.
ShutdownHonouredUntouched == [](keys = 0) => ShutdownHonoured

\* Whoever begins to close the service finishes: no thread that close_service
\* waits for waits for it in turn.
TeardownEnds == close_flag ~> exited
===============================================================================
