------------------------------ MODULE FootMotion ------------------------------
(***************************************************************************)
(* Motions of the robot: rotations and straight moves, each with a thread  *)
(* that waits for their end and tells the client (wait_thread), the dance  *)
(* (dance_thread), which must find its way home before it ends, and the    *)
(* flag g_navi_state, kept by the notices the chassis sends over a         *)
(* websocket.  H is the thread of the module, which runs message_handler.  *)
(***************************************************************************)
EXTENDS Integers, Sequences, FiniteSets

CONSTANTS
  Mover,      \* guids of clients; each sends one request
  MaxDances,  \* bound: how often the dance is started
  MaxSteps,   \* bound: navigations the dance starts before its end
  MaxCloses   \* bound: how often the websocket is closed

\* Guids are not empty.
ASSUME MotionAssumption ==
  {MaxDances, MaxSteps, MaxCloses} \subseteq Nat /\ "none" \notin Mover

Motion == {"rotate", "moveto"}

VARIABLES
  order,      \* what H works on: [kind, from, pc]
  wait_on,    \* the wait thread of each motion runs
  clinet,     \* whom it will tell
  wait_exit,  \* _EXIT_THREAD_ is in its queue
  moving,     \* chassis: whose rotation or move is under way
  dance,      \* dance thread: "off", "dance", "home" or "last"
  dance_exit, \* _EXIT_THREAD_ is in its queue
  navi_state, \* its local copy of the flag
  g_navi_state,
  heading,    \* chassis: it navigates
  notices,    \* notices on the websocket
  asked, owned, finished, dropped,  \* clients: sent, accepted, told of the end,
                                    \* accepted and not waited for any more
  lost,       \* the flag may have missed a notice
  dances, steps, closes             \* how much of each bound is used

waitVars == <<wait_on, clinet, wait_exit, moving>>
danceVars == <<dance, dance_exit, navi_state>>
naviVars == <<g_navi_state, heading, notices, lost>>
clientVars == <<asked, owned, finished, dropped>>
motBounds == <<dances, steps, closes>>
motVars == <<order, wait_on, clinet, wait_exit, moving, dance, dance_exit, navi_state,
             g_navi_state, heading, notices, asked, owned, finished, dropped, lost,
             dances, steps, closes>>

None == "none"
Kind == Motion \cup {"stop", "goto", "stop_dance"}
Idle == [kind |-> None, from |-> None, m |-> None, pc |-> "idle"]

MotTypeOK ==
  /\ order \in [kind : Kind \cup {None}, from : Mover \cup {None},
                m : Motion \cup {None}, pc : {"idle", "dance", "wait", "command"}]
  /\ wait_on \in [Motion -> BOOLEAN] /\ wait_exit \in [Motion -> BOOLEAN]
  /\ clinet \in [Motion -> Mover \cup {None}] /\ moving \in [Motion -> Mover \cup {None}]
  /\ dance \in {"off", "dance", "home", "last"}
  /\ dance_exit \in BOOLEAN /\ navi_state \in BOOLEAN
  /\ g_navi_state \in BOOLEAN /\ heading \in BOOLEAN /\ lost \in BOOLEAN
  /\ notices \in Seq({"HEADING", "END"})
  /\ asked \in SUBSET Mover /\ owned \in SUBSET Mover /\ dropped \in SUBSET Mover
  /\ finished \in [Mover -> Nat]

MotInit ==
  /\ order = Idle
  /\ wait_on = [m \in Motion |-> FALSE] /\ wait_exit = [m \in Motion |-> FALSE]
  /\ clinet = [m \in Motion |-> None] /\ moving = [m \in Motion |-> None]
  /\ dance = "off" /\ dance_exit = FALSE /\ navi_state = FALSE
  /\ g_navi_state = FALSE /\ heading = FALSE /\ notices = <<>> /\ lost = FALSE
  /\ asked = {} /\ owned = {} /\ dropped = {} /\ finished = [c \in Mover |-> 0]
  /\ dances = 0 /\ steps = 0 /\ closes = 0

\* The chassis accepts a destination: it announces that it is on its way.
Accept ==
  /\ heading' = TRUE
  /\ notices' = Append(notices, "HEADING")
  /\ UNCHANGED <<g_navi_state, lost>>

\* navigate_cancel clears the flag before it asks the chassis, which stops and may
\* say so; a HEADING that is still on its way sets the flag once more.
Cancel ==
  /\ g_navi_state' = FALSE
  /\ heading' = FALSE
  /\ \/ notices' = Append(notices, "END") /\ UNCHANGED lost
     \/ UNCHANGED notices /\ lost' = TRUE

-------------------------------------------------------------------------------
(* message_handler, one request after the other.                           *)

\* A request for a rotation or a move, for its end, for a destination, or to stop
\* dancing arrives; all of them but the second end a dance that runs.
receive(c, kind, m) ==
  /\ order = Idle
  /\ c \notin asked
  /\ asked' = asked \cup {c}
  /\ kind \in Motion => m = kind
  /\ order' = [kind |-> kind, from |-> c, m |-> m,
               pc |-> IF kind # "stop" /\ dance # "off" THEN "dance"
                      ELSE IF kind \in Motion \cup {"stop"} THEN "wait" ELSE "command"]
  /\ dance_exit' = (dance_exit \/ (kind # "stop" /\ dance # "off"))
  /\ UNCHANGED <<waitVars, dance, navi_state, naviVars, owned, finished, dropped, motBounds>>

\* NAVIGATE_START_DANCE, once the robot is initialised; start does nothing when the
\* thread runs, and leaves what is in its queue.
start_dance ==
  /\ order = Idle
  /\ dances < MaxDances
  /\ dances' = dances + 1
  /\ dance' = IF dance = "off" THEN "dance" ELSE dance
  /\ navi_state' = IF dance = "off" THEN FALSE ELSE navi_state
  /\ UNCHANGED <<order, waitVars, dance_exit, naviVars, clientVars, steps, closes>>

\* m_dance_thread.quit returns: the thread has ended.
quit_dance ==
  /\ order.pc = "dance"
  /\ dance = "off"
  /\ order' = IF order.kind = "stop_dance" THEN Idle
              ELSE [order EXCEPT !.pc = IF order.kind \in Motion THEN "wait" ELSE "command"]
  /\ UNCHANGED <<waitVars, danceVars, naviVars, clientVars, motBounds>>

\* m_wait_th[m].quit: the exit message, and the wait for the thread.
quit_wait_post ==
  /\ order.pc = "wait" /\ wait_on[order.m] /\ ~wait_exit[order.m]
  /\ wait_exit' = [wait_exit EXCEPT ![order.m] = TRUE]
  /\ UNCHANGED <<order, wait_on, clinet, moving, danceVars, naviVars, clientVars, motBounds>>

quit_wait ==
  /\ order.pc = "wait" /\ ~wait_on[order.m]
  /\ order' = [order EXCEPT !.pc = "command"]
  /\ UNCHANGED <<waitVars, danceVars, naviVars, clientVars, motBounds>>

\* rotate or moveto: the chassis refuses, or begins the motion in place of the old
\* one, and a thread with an empty queue waits for it.
command_motion ==
  /\ order.pc = "command" /\ order.kind \in Motion
  /\ order' = Idle
  /\ \/ UNCHANGED <<waitVars, owned>>
     \/ /\ moving' = [moving EXCEPT ![order.m] = order.from]
        /\ clinet' = [clinet EXCEPT ![order.m] = order.from]
        /\ wait_on' = [wait_on EXCEPT ![order.m] = TRUE]
        /\ wait_exit' = [wait_exit EXCEPT ![order.m] = FALSE]
        /\ owned' = owned \cup {order.from}
  /\ UNCHANGED <<danceVars, naviVars, asked, finished, dropped, motBounds>>

\* stop_rotate or stop_moveto.
command_stop ==
  /\ order.pc = "command" /\ order.kind = "stop"
  /\ order' = Idle
  /\ \/ UNCHANGED moving
     \/ moving' = [moving EXCEPT ![order.m] = None]
  /\ UNCHANGED <<wait_on, clinet, wait_exit, danceVars, naviVars, clientVars, motBounds>>

\* NAVIGATE_TO_SPECIALPOINT_REQUEST: navigate_to by name.
command_goto ==
  /\ order.pc = "command" /\ order.kind \in {"goto", "stop_dance"}
  /\ order' = Idle
  /\ \/ UNCHANGED naviVars
     \/ order.kind = "goto" /\ Accept
  /\ UNCHANGED <<waitVars, danceVars, clientVars, motBounds>>

-------------------------------------------------------------------------------
(* wait_thread::run for one motion.                                        *)

\* The motion has ended, or two minutes have passed for a rotation: the client is
\* told and the thread ends.  Each check may also fail for want of a connection.
wait_end(m) ==
  /\ wait_on[m]
  /\ moving[m] = None \/ m = "rotate"
  /\ wait_on' = [wait_on EXCEPT ![m] = FALSE]
  /\ finished' = [finished EXCEPT ![clinet[m]] = @ + 1]
  /\ UNCHANGED <<order, clinet, wait_exit, moving, danceVars, naviVars, asked, owned,
                 dropped, motBounds>>

\* Mutant: the end of the thread is reported like the end of the motion.
wait_quit_reports(m) ==
  /\ wait_on[m] /\ wait_exit[m]
  /\ wait_on' = [wait_on EXCEPT ![m] = FALSE]
  /\ wait_exit' = [wait_exit EXCEPT ![m] = FALSE]
  /\ finished' = [finished EXCEPT ![clinet[m]] = @ + 1]
  /\ UNCHANGED <<order, clinet, moving, danceVars, naviVars, asked, owned, dropped, motBounds>>

\* _EXIT_THREAD_: nobody is told.
wait_quit(m) ==
  /\ wait_on[m] /\ wait_exit[m]
  /\ wait_on' = [wait_on EXCEPT ![m] = FALSE]
  /\ wait_exit' = [wait_exit EXCEPT ![m] = FALSE]
  /\ dropped' = dropped \cup {clinet[m]}
  /\ UNCHANGED <<order, clinet, moving, danceVars, naviVars, asked, owned, finished, motBounds>>

-------------------------------------------------------------------------------
(* dance_thread::run.                                                      *)

\* The position cannot be read at the start: the thread ends at once.
dance_fails ==
  /\ dance = "dance" /\ steps = 0
  /\ dance' = "off"
  /\ UNCHANGED <<order, waitVars, dance_exit, navi_state, naviVars, clientVars, motBounds>>

\* A round: the exit message is taken; too far away the robot is sent home, near
\* home that is called off; then the flag is copied.
dance_round ==
  /\ dance = "dance"
  /\ dance' = IF dance_exit THEN "home" ELSE "dance"
  /\ dance_exit' = FALSE
  /\ \/ UNCHANGED <<naviVars, navi_state, steps>>
     \/ /\ UNCHANGED <<naviVars, steps>>
        /\ navi_state' = g_navi_state
     \/ /\ ~navi_state /\ steps < MaxSteps
        /\ steps' = steps + 1
        /\ Accept
        /\ navi_state' = g_navi_state
     \/ /\ navi_state
        /\ Cancel
        /\ navi_state' = FALSE
        /\ UNCHANGED steps
  /\ UNCHANGED <<order, waitVars, clientVars, dances, closes>>

\* After the loop the robot is sent home unless it is on its way already.
dance_home ==
  /\ dance = "home"
  /\ dance' = "last"
  /\ \/ UNCHANGED naviVars
     \/ ~navi_state /\ Accept
  /\ UNCHANGED <<order, waitVars, dance_exit, navi_state, clientVars, motBounds>>

\* The thread ends when it finds that the robot does not navigate.
dance_end ==
  /\ dance = "last" /\ ~g_navi_state
  /\ dance' = "off"
  /\ UNCHANGED <<order, waitVars, dance_exit, navi_state, naviVars, clientVars, motBounds>>

-------------------------------------------------------------------------------
(* The chassis and its websocket.                                          *)

chassis_stops(m) ==
  /\ moving[m] # None
  /\ moving' = [moving EXCEPT ![m] = None]
  /\ UNCHANGED <<order, wait_on, clinet, wait_exit, danceVars, naviVars, clientVars, motBounds>>

chassis_arrives ==
  /\ heading
  /\ heading' = FALSE
  /\ notices' = Append(notices, "END")
  /\ UNCHANGED <<order, waitVars, danceVars, g_navi_state, lost, clientVars, motBounds>>

\* Mutant: a notice that the destination cannot be reached does not count as an end.
ifnavigation_infomation_reached ==
  /\ notices # <<>>
  /\ notices' = Tail(notices)
  /\ g_navi_state' = (g_navi_state \/ Head(notices) = "HEADING")
  /\ UNCHANGED <<order, waitVars, danceVars, heading, lost, clientVars, motBounds>>

\* ifnavigation_infomation and ifgreeter_infomation: HEADING sets the flag; REACHED,
\* UNREACHED, UNREACHABLE, LOCALIZATION_FAILED and status 1006 clear it.
ifnavigation_infomation ==
  /\ notices # <<>>
  /\ notices' = Tail(notices)
  /\ g_navi_state' = (Head(notices) = "HEADING")
  /\ UNCHANGED <<order, waitVars, danceVars, heading, lost, clientVars, motBounds>>

\* The websocket closes: its notices are gone, and the flag stays as it is.
websocket_closed ==
  /\ closes < MaxCloses
  /\ closes' = closes + 1
  /\ notices' = <<>>
  /\ lost' = TRUE
  /\ UNCHANGED <<order, waitVars, danceVars, g_navi_state, heading, clientVars, dances, steps>>

handler ==
  \/ quit_dance \/ quit_wait_post \/ quit_wait
  \/ command_motion \/ command_stop \/ command_goto

dancing == dance_fails \/ dance_round \/ dance_home \/ dance_end

MotNext ==
  \/ \E c \in Mover, kind \in Kind, m \in Motion : receive(c, kind, m)
  \/ start_dance
  \/ handler
  \/ \E m \in Motion : wait_end(m) \/ wait_quit(m) \/ chassis_stops(m)
  \/ dancing
  \/ chassis_arrives \/ ifnavigation_infomation \/ websocket_closed

\* The threads run, and the chassis ends what it began.
waiting_thread(m) == wait_end(m) \/ wait_quit(m)

MotFairness ==
  /\ WF_motVars(handler) /\ WF_motVars(dancing)
  /\ WF_motVars(chassis_arrives) /\ WF_motVars(ifnavigation_infomation)
  /\ \A m \in Motion : WF_motVars(waiting_thread(m)) /\ WF_motVars(chassis_stops(m))

MotSpec == MotInit /\ [][MotNext]_motVars

-------------------------------------------------------------------------------
(* Properties.                                                             *)

\* The flag that keeps the dance, and with it the handler, waiting is set only while
\* the robot navigates or its last notice is on its way, unless a notice was lost
\* with the websocket or the navigation was called off without one.
FlagFollowsChassis ==
  g_navi_state \/ "HEADING" \in {notices[i] : i \in DOMAIN notices} =>
    \/ heading \/ lost
    \/ notices # <<>> /\ notices[Len(notices)] = "END"

\* The end of a motion is told once, to a client whose motion was accepted and is
\* still waited for, and of a move only when the chassis has ended it; a wait
\* thread is gone before the next motion begins.
EndToldOnce ==
  /\ \A c \in Mover : /\ finished[c] <= 1 /\ (finished[c] = 1 => c \in owned \ dropped)
                      /\ finished[c] = 1 => moving["moveto"] # c
  /\ \A m \in Motion : wait_on[m] => clinet[m] \in owned /\ finished[clinet[m]] = 0
  /\ order.pc = "command" /\ order.kind \in Motion \cup {"stop"} => ~wait_on[order.m]

MotionInv == MotTypeOK /\ FlagFollowsChassis /\ EndToldOnce

\* A client whose rotation or move was accepted is told of its end, unless another
\* request stopped the wait; and no request keeps the module's thread for ever
\* unless the flag has missed a notice.
MotionEnds ==
  /\ []<>(\A c \in owned : finished[c] = 1 \/ c \in dropped)
  /\ (order # Idle) ~> (order = Idle \/ lost)
===============================================================================
