---------------------------- MODULE RobotController ----------------------------
(***************************************************************************)
(* The controller of the navigation module, robot_controller_moduel, as    *)
(* far as the current map is concerned: clients initialise the robot on a  *)
(* map, the controller thread follows the initialisation and answers, and  *)
(* the thread that judges moves (move_check_thread) keeps a picture of     *)
(* the map with its virtual walls.  H is the thread of the module, C the   *)
(* controller thread, K the thread that judges moves.                      *)
(***************************************************************************)
EXTENDS Integers, Sequences, FiniteSets

CONSTANTS
  Client,     \* guids; each sends one request
  Map,        \* names of maps on the chassis
  MaxTries,   \* how often the controller initialises by itself (10 in the code)
  MaxTrouble  \* bound: cancellations, and losses of the position by the chassis

\* Guids of clients and names of maps are not empty, and the chassis holds a map.
ASSUME ControllerAssumption ==
  /\ {MaxTries, MaxTrouble} \subseteq Nat
  /\ "nobody" \notin Client
  /\ Map # {}

VARIABLES
  m_ml,       \* who holds the lock: "H" or "none" (C takes and releases it in a step)
  init_req,   \* client whose map H has loaded, in initialize_robot
  m_init_ok,
  cq, cpc,    \* queue and place of C
  waiting,    \* start_wait_init
  fromer,     \* fromer_guid
  tries,      \* init_count
  kq, kpc,    \* queue and place of K
  fetching,   \* name of the map K asks for
  m_finish_update,
  datamap,    \* map K judges moves on
  map, located,   \* chassis: map in use, "none", "running" or "done"
  sent,       \* clients that have sent their request
  told,       \* answers each client got
  unannounced,    \* a map was loaded and its initialisation was refused
  troubles    \* how much of that bound is used

hVars == <<m_ml, init_req>>
cVars == <<m_init_ok, cpc, waiting, fromer, tries>>
kVars == <<kpc, fetching, m_finish_update, datamap>>
chassis == <<map, located>>
ctlVars == <<m_ml, init_req, m_init_ok, cq, cpc, waiting, fromer, tries, kq, kpc,
             fetching, m_finish_update, datamap, map, located, sent, told,
             unannounced, troubles>>

\* The map of the configuration file.
HomeMap == CHOOSE m \in Map : TRUE
Nobody == "nobody"
NoMap == "nomap"
Guid == Client \cup {Nobody}

CtlTypeOK ==
  /\ m_ml \in {"none", "H"} /\ init_req \in Guid
  /\ m_init_ok \in BOOLEAN /\ waiting \in BOOLEAN
  /\ m_finish_update \in BOOLEAN /\ unannounced \in BOOLEAN
  /\ cq \in Seq([t : {2, 3}, guid : Guid]) /\ kq \in Seq([t : {1, 2, 3}, guid : Guid])
  /\ cpc \in {"getq", "poll", "self_wait", "set_ok", "set_ok_reply", "set_lost", "ended"}
  /\ kpc \in {"getq", "fetch"}
  /\ fromer \in Guid /\ tries \in 0..MaxTries
  /\ fetching \in Map \cup {NoMap} /\ datamap \in Map \cup {NoMap} /\ map \in Map \cup {NoMap}
  /\ located \in {"none", "running", "done"}
  /\ sent \subseteq Client /\ told \in [Client -> Nat]

\* init and start: the controller has told K that nothing is known.  The chassis
\* uses the map of the configuration.
CtlInit ==
  /\ m_ml = "none" /\ init_req = Nobody
  /\ m_init_ok = FALSE
  /\ cq = <<>> /\ cpc = "getq"
  /\ waiting = FALSE /\ fromer = Nobody /\ tries = 0
  /\ kq = <<[t |-> 3, guid |-> Nobody]>> /\ kpc = "getq"
  /\ fetching = NoMap /\ m_finish_update = FALSE /\ datamap = NoMap
  /\ map = HomeMap
  /\ located \in {"none", "done"}
  /\ sent = {} /\ told = [c \in Client |-> 0]
  /\ unannounced = FALSE
  /\ troubles = 0

\* The message an operation puts in a queue, and a reply to a client.
Pushq(q, type, c) == Append(q, [t |-> type, guid |-> c])
Reply(c) == IF c = Nobody THEN told ELSE [told EXCEPT ![c] = @ + 1]

-------------------------------------------------------------------------------
(* The thread of the module: message_handler.                              *)

Send(c) ==
  /\ c \notin sent
  /\ sent' = sent \cup {c}

\* NAVIGATE_INITIALIZE_REQUEST under m_ml: load_map, the first half of
\* initialize_robot.  A refusal, or a request without a map, is answered at once; a
\* position that the load makes invalid is lost like any other (chassis_lost).
initialize_load(c, m) ==
  /\ Send(c)
  /\ m_ml = "none"
  /\ \/ /\ told' = Reply(c)
        /\ UNCHANGED <<hVars, chassis>>
     \/ /\ map' = m /\ UNCHANGED located
        /\ m_ml' = "H" /\ init_req' = c
        /\ UNCHANGED told
  /\ UNCHANGED <<cVars, cq, kVars, kq, unannounced, troubles>>

\* The second half: the chassis begins to find its position, and C will answer.
initialize_robot ==
  /\ m_ml = "H"
  /\ m_ml' = "none" /\ init_req' = Nobody
  /\ \/ /\ located' = "running"
        /\ cq' = Pushq(cq, 3, init_req)
        /\ UNCHANGED <<told, unannounced>>
     \/ /\ told' = Reply(init_req)
        /\ unannounced' = TRUE
        /\ UNCHANGED <<located, cq>>
  /\ UNCHANGED <<cVars, kVars, kq, map, sent, troubles>>

\* NAVIGATE_CANCEL_INITIALIZE_REQUEST, which takes no lock.
cancel_initialize ==
  /\ m_ml = "none"
  /\ troubles < MaxTrouble
  /\ troubles' = troubles + 1
  /\ located' \in IF located = "running" THEN {"running", "none"} ELSE {located}
  /\ cq' = Pushq(cq, 2, Nobody)
  /\ UNCHANGED <<hVars, cVars, kVars, kq, map, sent, told, unannounced>>

\* NAVIGATE_MOVE_CHECK_RANGE_REQUEST (1) and NAVIGATE_UPDATE_MOVE_WALL_REQUEST (2)
\* are handed to K.
to_checkmove(c, type) ==
  /\ m_ml = "none"
  /\ Send(c)
  /\ kq' = Pushq(kq, type, c)
  /\ UNCHANGED <<hVars, cVars, cq, kVars, chassis, told, unannounced, troubles>>

-------------------------------------------------------------------------------
(* The controller thread: run.                                             *)

\* Mutant: a new initialisation takes the place of the old one silently.
run_init_silent ==
  /\ cpc = "getq" /\ cq # <<>> /\ Head(cq).t = 3
  /\ m_ml = "none"
  /\ cq' = Tail(cq)
  /\ waiting' = TRUE /\ fromer' = Head(cq).guid
  /\ m_init_ok' = FALSE
  /\ kq' = Pushq(kq, 3, Nobody)
  /\ cpc' = "poll"
  /\ UNCHANGED <<hVars, tries, kVars, chassis, sent, told, unannounced, troubles>>

\* Mutant: K is not told that the map is about to change.
run_init_unannounced ==
  /\ cpc = "getq" /\ cq # <<>> /\ Head(cq).t = 3
  /\ m_ml = "none"
  /\ cq' = Tail(cq)
  /\ told' = IF waiting THEN Reply(fromer) ELSE told
  /\ waiting' = TRUE /\ fromer' = Head(cq).guid
  /\ m_init_ok' = FALSE
  /\ cpc' = "poll"
  /\ UNCHANGED <<hVars, tries, kVars, kq, chassis, sent, unannounced, troubles>>

\* Message 3: an initialisation has begun.  The client that waits for an older
\* one is told that it was replaced.
run_init ==
  /\ cpc = "getq" /\ cq # <<>> /\ Head(cq).t = 3
  /\ m_ml = "none"
  /\ cq' = Tail(cq)
  /\ told' = IF waiting THEN Reply(fromer) ELSE told
  /\ waiting' = TRUE /\ fromer' = Head(cq).guid
  /\ m_init_ok' = FALSE
  /\ kq' = Pushq(kq, 3, Nobody)
  /\ cpc' = "poll"
  /\ UNCHANGED <<hVars, tries, kVars, chassis, sent, unannounced, troubles>>

\* Message 2: the case has no break and falls into _EXIT_THREAD_; the thread ends.
run_cancel ==
  /\ cpc = "getq" /\ cq # <<>> /\ Head(cq).t = 2
  /\ cq' = Tail(cq)
  /\ told' = IF waiting THEN Reply(fromer) ELSE told
  /\ waiting' = FALSE
  /\ cpc' = "ended"
  /\ UNCHANGED <<hVars, m_init_ok, fromer, tries, kVars, kq, chassis, sent,
                 unannounced, troubles>>

\* A round of the loop without a message, or the rest of one with message 3.
Polling == cpc = "poll" \/ (cpc = "getq" /\ cq = <<>>)

\* check_init_finish for the client that waits: 0, 1 (not yet), 2 or -1 (no
\* connection, refused); after two minutes the client is told of the timeout.
Rt == IF located = "done" THEN {0, 2} ELSE {1, 2}

wait_poll(reached) ==
  /\ Polling /\ waiting
  /\ \E rt \in Rt :
       /\ cpc' = IF rt = 0 THEN "set_ok_reply" ELSE "getq"
       /\ IF rt = 2 \/ (rt = 1 /\ reached)
          THEN told' = Reply(fromer) /\ waiting' = FALSE
          ELSE UNCHANGED <<told, waiting>>
  /\ UNCHANGED <<hVars, m_init_ok, fromer, tries, cq, kVars, kq, chassis, sent,
                 unannounced, troubles>>

\* The robot is initialised: under m_ml, which H holds while it loads a map.
set_ok ==
  /\ cpc \in {"set_ok", "set_ok_reply"}
  /\ m_ml = "none"
  /\ m_init_ok' = TRUE
  /\ kq' = Pushq(kq, 2, Nobody)
  /\ cpc' = "getq"
  /\ IF cpc = "set_ok_reply"
     THEN told' = Reply(fromer) /\ waiting' = FALSE /\ UNCHANGED tries
     ELSE tries' = MaxTries /\ UNCHANGED <<told, waiting>>
  /\ UNCHANGED <<hVars, fromer, cq, kVars, chassis, sent, unannounced, troubles>>

\* init of the chassis: nothing reachable; located already; or try_initself, which
\* gives up (for good, when it has no map), or loads the map of the configuration,
\* or the one in use, and is refused, or waits for the chassis.  It takes no lock.
self_init ==
  /\ Polling /\ ~waiting /\ ~m_init_ok /\ tries < MaxTries
  /\ \/ /\ cpc' = "getq"
        /\ UNCHANGED <<tries, chassis, unannounced>>
     \/ /\ located = "done"
        /\ cpc' = "set_ok"
        /\ UNCHANGED <<tries, chassis, unannounced>>
     \/ /\ tries' \in {tries + 1, MaxTries}
        /\ cpc' = "getq"
        /\ UNCHANGED <<chassis, unannounced>>
     \/ /\ map' \in {HomeMap, map} /\ UNCHANGED located
        /\ tries' = tries + 1
        /\ cpc' = "getq"
        /\ unannounced' = TRUE
     \/ /\ map' \in {HomeMap, map} /\ located' = "running"
        /\ cpc' = "self_wait"
        /\ UNCHANGED <<tries, unannounced>>
  /\ UNCHANGED <<hVars, m_init_ok, waiting, fromer, cq, kVars, kq, sent, told, troubles>>

\* wait_init: up to two minutes, deaf to the queue.  try_initself turns its result
\* round (wait_init() ? 0 : 1): a position that was found counts as a failure, so
\* that C looks again, and a failure or a timeout as a success.
wait_init ==
  /\ cpc = "self_wait"
  /\ \/ /\ located = "done"
        /\ cpc' = "getq"
        /\ tries' = tries + 1
        /\ unannounced' = TRUE
     \/ /\ cpc' = "set_ok"
        /\ UNCHANGED <<tries, unannounced>>
  /\ UNCHANGED <<hVars, m_init_ok, waiting, fromer, cq, kVars, kq, chassis, sent,
                 told, troubles>>

\* get_current_map_name, every few seconds: nothing reachable, or no news; the
\* chassis names no map any more (which it does when it is located); or it names
\* one although C believes otherwise.
watch_map ==
  /\ Polling /\ ~waiting /\ (m_init_ok \/ tries = MaxTries)
  /\ \/ cpc' = "getq"
     \/ m_init_ok /\ located # "done" /\ cpc' = "set_lost"
     \/ ~m_init_ok /\ located = "done" /\ cpc' = "set_ok"
  /\ UNCHANGED <<hVars, m_init_ok, waiting, fromer, tries, cq, kVars, kq, chassis,
                 sent, told, unannounced, troubles>>

set_lost ==
  /\ cpc = "set_lost"
  /\ m_ml = "none"
  /\ m_init_ok' = FALSE
  /\ kq' = Pushq(kq, 3, Nobody)
  /\ cpc' = "getq"
  /\ UNCHANGED <<hVars, waiting, fromer, tries, cq, kVars, chassis, sent, told,
                 unannounced, troubles>>

-------------------------------------------------------------------------------
(* move_check_thread::run.                                                 *)

\* Message 1: the move is judged on datamap if the map is up to date, made or
\* refused, and answered either way.
check_move ==
  /\ kpc = "getq" /\ kq # <<>> /\ Head(kq).t = 1
  /\ kq' = Tail(kq)
  /\ told' = Reply(Head(kq).guid)
  /\ UNCHANGED <<hVars, cVars, cq, kVars, chassis, sent, unannounced, troubles>>

\* Message 2, updateVirualMap: the position must be known; the name of the map is
\* read first, its picture and its walls after it.
update_begin ==
  /\ kpc = "getq" /\ kq # <<>> /\ Head(kq).t = 2
  /\ m_finish_update' = FALSE
  /\ \/ /\ located = "done"
        /\ fetching' = map
        /\ kpc' = "fetch"
        /\ UNCHANGED <<kq, told>>
     \/ /\ kq' = Tail(kq)
        /\ told' = Reply(Head(kq).guid)
        /\ UNCHANGED <<fetching, kpc>>
  /\ unannounced' = FALSE
  /\ UNCHANGED <<hVars, cVars, cq, datamap, chassis, sent, troubles>>

\* The picture and the walls came, or one of them did not.
update_end ==
  /\ kpc = "fetch"
  /\ kpc' = "getq" /\ fetching' = NoMap
  /\ kq' = Tail(kq)
  /\ told' = Reply(Head(kq).guid)
  /\ \/ datamap' = fetching /\ m_finish_update' = TRUE
     \/ UNCHANGED <<datamap, m_finish_update>>
  /\ UNCHANGED <<hVars, cVars, cq, chassis, sent, unannounced, troubles>>

\* Message 3: the map may have changed.
forget_map ==
  /\ kpc = "getq" /\ kq # <<>> /\ Head(kq).t = 3
  /\ kq' = Tail(kq)
  /\ m_finish_update' = FALSE
  /\ unannounced' = FALSE
  /\ UNCHANGED <<hVars, cVars, cq, kpc, fetching, datamap, chassis, sent, told, troubles>>

-------------------------------------------------------------------------------
(* The chassis, as its answers show it.                                    *)

chassis_located ==
  /\ located = "running"
  /\ located' \in {"done", "none"}
  /\ UNCHANGED <<hVars, cVars, cq, kVars, kq, map, sent, told, unannounced, troubles>>

chassis_lost ==
  /\ located = "done" /\ troubles < MaxTrouble
  /\ troubles' = troubles + 1
  /\ located' = "none"
  /\ UNCHANGED <<hVars, cVars, cq, kVars, kq, map, sent, told, unannounced>>

controller ==
  \/ run_init \/ run_cancel
  \/ \E reached \in BOOLEAN : wait_poll(reached)
  \/ set_ok \/ self_init \/ wait_init \/ watch_map \/ set_lost

checkmove == check_move \/ update_begin \/ update_end \/ forget_map

CtlNext ==
  \/ \E c \in Client, m \in Map : initialize_load(c, m)
  \/ initialize_robot
  \/ cancel_initialize
  \/ \E c \in Client, type \in {1, 2} : to_checkmove(c, type)
  \/ controller
  \/ checkmove
  \/ chassis_located \/ chassis_lost

\* The three threads run, and the two minutes of a waiting client pass.
CtlFairness ==
  /\ WF_ctlVars(initialize_robot)
  /\ WF_ctlVars(controller)
  /\ SF_ctlVars(wait_poll(TRUE))
  /\ WF_ctlVars(checkmove)

CtlSpec == CtlInit /\ [][CtlNext]_ctlVars

-------------------------------------------------------------------------------
(* Properties.                                                             *)

\* Moves are judged on the map the robot uses; when they are not, somebody is about
\* to tell K (a message for it, an initialisation C has not looked at, a thread
\* in the middle of one), or the initialisation was refused after the map had
\* been loaded, which the code announces to nobody.
StaleMapIsKnown ==
  m_finish_update /\ datamap # map =>
    \/ unannounced
    \/ \E i \in DOMAIN kq : kq[i].t \in {2, 3}
    \/ \E i \in DOMAIN cq : cq[i].t = 3
    \/ m_ml = "H"
    \/ cpc \in {"self_wait", "set_ok", "set_ok_reply"}

\* The client C waits for has not been answered, nor have those behind it.
InitPending ==
  /\ waiting => fromer # Nobody /\ told[fromer] = 0
  /\ \A i \in DOMAIN cq : cq[i].t = 3 => cq[i].guid # fromer /\ told[cq[i].guid] = 0
  /\ \A c \in Client : told[c] <= 1

\* What the three threads keep between them about the map and the clients.
ControllerInv == CtlTypeOK /\ StaleMapIsKnown /\ InitPending

\* Every request is answered, whether the chassis answers, refuses, is replaced by
\* another initialisation or cancelled, until a cancellation ends the thread.
RequestAnswered ==
  []<>(\A c \in sent : told[c] = 1 \/ cpc = "ended")

\* A stale map is not judged on for ever, unless nobody was told of the new one.
StaleMapDropped ==
  (m_finish_update /\ datamap # map)
    ~> (~m_finish_update \/ datamap = map \/ unannounced \/ cpc = "ended")

\* What clients may rely on: an answer, and no judgement on an old map for ever.
ControllerEnds == RequestAnswered /\ StaleMapDropped
===============================================================================
