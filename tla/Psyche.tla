--------------------------------- MODULE Psyche ---------------------------------
(***************************************************************************)
(* The client of the remote assistance service, with the camera it reads   *)
(* (Streams).  Clients apply for assistance: the service is called over a  *)
(* websocket, it names a channel, the camera is started with a message to  *)
(* the video module, and when that answers the channel is joined.  The     *)
(* service may call, too.  Both sides may give up at any moment; the       *)
(* websocket closes and the channel fails when they like.                  *)
(*                                                                         *)
(* HandleMessage, the messages of the websocket and onDisconnect run under *)
(* m_state_ml and are single steps; callbacks of the channel's engine that *)
(* only reset its flag do not take it.  An answer of the camera names no   *)
(* request: what it is taken for depends on psyche_state alone.            *)
(***************************************************************************)
EXTENDS Streams, Sequences

CONSTANTS
  psychesystem,   \* the reader of the camera
  psyche_stream,  \* the camera it reads
  MaxApplies,     \* bound: applications that were passed to the service
  MaxWebCalls,    \* bound: calls by the service
  MaxBreaks       \* bound: websockets that close, and errors of the channel

ASSUME PsycheAssumption ==
  /\ psychesystem \in Reader \ Client /\ psyche_stream \in Stream
  /\ MaxApplies \in Nat

VARIABLES
  psyche_state,    \* "ide", "wait_ws", "wait_camera", "by_remote"
  m_map_remote_apply, \* the application that is not answered, or 0
  answers,         \* application -> answers to it
  applies, web_calls, breaks,
  websocket,       \* "off", "opening", "open" (link), "closing" (onDisconnect is to come)
  calls,           \* the service: calls it has to respond to
  m_run_rtc,       \* Status() of the channel's engine
  in_channel,      \* the engine is in a channel
  leave_callbacks, \* onLeaveChannel is still to come, this often
  to_camera,       \* messages for the video module: "start", "stop"
  from_camera,     \* errors of its answers to "start"
  given_up,        \* an answer of the camera was awaited by nobody any more
  called_over      \* the camera was started for a call while in a channel

own == <<psyche_state, m_map_remote_apply, answers, applies>>
rtc == <<m_run_rtc, in_channel, leave_callbacks>>
mail == <<to_camera, from_camera>>
slips == <<given_up, called_over>>
psycheVars == <<psyche_state, m_map_remote_apply, answers, applies, web_calls, breaks, websocket,
                calls, m_run_rtc, in_channel, leave_callbacks, to_camera, from_camera, given_up,
                called_over>>
sessionVars == <<psycheVars, cameraVars>>

PsycheTypeOK ==
  /\ psyche_state \in {"ide", "wait_ws", "wait_camera", "by_remote"}
  /\ m_map_remote_apply \in 0..MaxApplies /\ answers \in [1..MaxApplies -> Nat]
  /\ websocket \in {"off", "opening", "open", "closing"}
  /\ applies \in 0..MaxApplies /\ web_calls \in Nat /\ breaks \in Nat
  /\ calls \in Nat /\ leave_callbacks \in Nat
  /\ m_run_rtc \in BOOLEAN /\ in_channel \in BOOLEAN
  /\ given_up \in BOOLEAN /\ called_over \in BOOLEAN
  /\ to_camera \in Seq({"start", "stop"}) /\ from_camera \in Seq({0, 1})

PsycheInit ==
  /\ psyche_state = "ide" /\ m_map_remote_apply = 0
  /\ answers = [i \in 1..MaxApplies |-> 0] /\ applies = 0 /\ web_calls = 0 /\ breaks = 0
  /\ websocket = "off" /\ calls = 0
  /\ m_run_rtc = FALSE /\ in_channel = FALSE /\ leave_callbacks = 0
  /\ to_camera = <<>> /\ from_camera = <<>>
  /\ given_up = FALSE /\ called_over = FALSE

CameraWaits == {"wait_camera", "by_remote"}
\* An answer of the camera is to come.
StartPending == from_camera # <<>> \/ \E i \in DOMAIN to_camera : to_camera[i] = "start"

-------------------------------------------------------------------------------
(* Parts of the handlers.                                                  *)

\* The application kept is answered, if there is one, and forgotten.
Reply ==
  /\ m_map_remote_apply' = 0
  /\ answers' = IF m_map_remote_apply = 0 THEN answers
                ELSE [answers EXCEPT ![m_map_remote_apply] = @ + 1]
Keep == UNCHANGED <<m_map_remote_apply, answers>>

open_camera == to_camera' = Append(to_camera, "start") /\ called_over' = (called_over \/ in_channel)
close_camera == to_camera' = Append(to_camera, "stop")

\* Join and Call: JoinChannel succeeds or not, also when there is a channel.
Join(ok) ==
  /\ m_run_rtc' = (m_run_rtc \/ ok) /\ in_channel' = (in_channel \/ ok)
  /\ UNCHANGED leave_callbacks

\* Leave, and the engine will call back.
Leave ==
  /\ m_run_rtc' = FALSE /\ in_channel' = FALSE
  /\ leave_callbacks' = leave_callbacks + (IF in_channel THEN 1 ELSE 0)

\* A session is left and its camera closed; without one nothing is done.
LeaveSession ==
  IF m_run_rtc THEN Leave /\ close_camera ELSE UNCHANGED <<rtc, to_camera>>

GiveUp == given_up' = (given_up \/ psyche_state \in CameraWaits)

-------------------------------------------------------------------------------
(* HandleMessage: requests of clients.                                     *)

\* APPLYFOR_INTERVENTION: refused, or passed to the service and kept.
APPLYFOR_INTERVENTION ==
  /\ applies < MaxApplies
  /\ psyche_state = "ide" /\ m_map_remote_apply = 0 /\ ~m_run_rtc /\ websocket = "open"
  /\ psyche_state' = "wait_ws"
  /\ m_map_remote_apply' = applies + 1 /\ applies' = applies + 1
  /\ calls' = calls + 1
  /\ UNCHANGED <<answers, web_calls, breaks, websocket, rtc, mail, slips, cameraVars>>

\* ABANDON_INTERVENTION: an application that is kept is not answered here.
ABANDON_INTERVENTION ==
  /\ psyche_state' = "ide"
  /\ LeaveSession
  /\ GiveUp
  /\ Keep
  /\ UNCHANGED <<applies, web_calls, breaks, websocket, calls, from_camera, called_over, cameraVars>>

-------------------------------------------------------------------------------
(* onTextJsonSingal: the service.                                          *)

\* build_call: the response to a call.  An error, or no channel, answers the client.
build_call ==
  /\ websocket = "open" /\ calls > 0
  /\ calls' = calls - 1
  /\ \/ /\ m_map_remote_apply = 0
        /\ UNCHANGED <<psyche_state, to_camera, called_over>> /\ Keep
     \/ /\ m_map_remote_apply # 0
        /\ Reply
        /\ psyche_state' = IF psyche_state = "wait_ws" THEN "ide" ELSE psyche_state
        /\ UNCHANGED <<to_camera, called_over>>
     \/ /\ m_map_remote_apply # 0 /\ psyche_state = "wait_ws"
        /\ psyche_state' = "wait_camera"
        /\ open_camera
        /\ Keep
  /\ UNCHANGED <<applies, web_calls, breaks, websocket, rtc, from_camera, given_up, cameraVars>>

\* join_monitor and live_join: the service calls, with a channel.
join_monitor ==
  /\ websocket = "open" /\ web_calls < MaxWebCalls
  /\ psyche_state = "ide"
  /\ web_calls' = web_calls + 1
  /\ psyche_state' = "by_remote"
  /\ open_camera
  /\ Keep
  /\ UNCHANGED <<applies, breaks, websocket, calls, rtc, from_camera, given_up, cameraVars>>

\* web_leave: the service leaves.
web_leave ==
  /\ websocket = "open"
  /\ psyche_state' = "ide"
  /\ LeaveSession
  /\ GiveUp
  /\ Keep
  /\ UNCHANGED <<applies, web_calls, breaks, websocket, calls, from_camera, called_over, cameraVars>>

-------------------------------------------------------------------------------
(* The websocket (PsycheWebsocket, started again by PsycheManager::run).   *)

psyche_run ==
  /\ websocket = "off"
  /\ websocket' = "opening"
  /\ UNCHANGED <<own, web_calls, breaks, calls, rtc, mail, slips, cameraVars>>

onOpen ==
  /\ websocket = "opening"
  /\ websocket' = "open"
  /\ UNCHANGED <<own, web_calls, breaks, calls, rtc, mail, slips, cameraVars>>

\* onFailed and onClose reset link before they take the lock in onDisconnect.
link_lost ==
  /\ websocket \in {"opening", "open"} /\ breaks < MaxBreaks
  /\ websocket' = "closing" /\ breaks' = breaks + 1
  /\ calls' = 0
  /\ UNCHANGED <<own, web_calls, rtc, mail, slips, cameraVars>>

\* onDisconnect: a client that waits for the service is answered.
onDisconnect ==
  /\ websocket = "closing"
  /\ websocket' = "off"
  /\ LeaveSession
  /\ IF psyche_state = "wait_ws" /\ m_map_remote_apply # 0
     THEN Reply /\ psyche_state' = "ide"
     ELSE Keep /\ UNCHANGED psyche_state
  /\ UNCHANGED <<applies, web_calls, breaks, calls, from_camera, slips, cameraVars>>

-------------------------------------------------------------------------------
(* The engine of the channel.                                              *)

\* onConnectionLost, and onError with a code: the session is left.
onRtcError ==
  /\ in_channel /\ breaks < MaxBreaks
  /\ breaks' = breaks + 1
  /\ LeaveSession
  /\ UNCHANGED <<own, web_calls, websocket, calls, from_camera, slips, cameraVars>>

\* onLeaveChannel, and the end of onError: the flag is reset without the lock, which may
\* be that of a session begun since.
onLeaveChannel ==
  /\ leave_callbacks > 0
  /\ leave_callbacks' = leave_callbacks - 1
  /\ m_run_rtc' = FALSE
  /\ UNCHANGED <<own, web_calls, breaks, websocket, calls, in_channel, mail, slips, cameraVars>>

-------------------------------------------------------------------------------
(* The camera.                                                             *)

\* The video module takes a message of the session.
camera_start ==
  /\ to_camera # <<>> /\ Head(to_camera) = "start"
  /\ to_camera' = Tail(to_camera)
  /\ \E error \in {0, 1} :
       /\ START_STREAMNAME(psyche_stream, psychesystem, error)
       /\ from_camera' = Append(from_camera, error)
  /\ UNCHANGED <<own, web_calls, breaks, websocket, calls, rtc, slips>>

camera_stop ==
  /\ to_camera # <<>> /\ Head(to_camera) = "stop"
  /\ to_camera' = Tail(to_camera)
  /\ STOP_STREAMNAME(psyche_stream, psychesystem)
  /\ UNCHANGED <<own, web_calls, breaks, websocket, calls, rtc, from_camera, slips>>

\* What the camera does for others.
camera_others ==
  /\ \/ update_device
     \/ \E s \in Stream :
          \/ \E r \in Reader \ {psychesystem} :
               STOP_STREAMNAME(s, r) \/ \E error \in {0, 1} : START_STREAMNAME(s, r, error)
          \/ CHANGE_USER(s) \/ RESUME_USER(s) \/ frame_fails(s)
     \/ \E c \in Client : CLIENT_DISCONNECT(c)
  /\ UNCHANGED psycheVars

camera_opens == (\E s \in Stream : opens_again(s)) /\ UNCHANGED psycheVars
camera_quits == (\E s \in Stream : stream_quits(s)) /\ UNCHANGED psycheVars

\* Mutant: the camera is not closed when the channel cannot be joined.
handle_camera_response_keeps ==
  /\ from_camera # <<>>
  /\ from_camera' = Tail(from_camera)
  /\ psyche_state' = IF psyche_state \in CameraWaits THEN "ide" ELSE psyche_state
  /\ CASE psyche_state \in CameraWaits ->
            \E ok \in BOOLEAN :
              /\ ok => Head(from_camera) = 0
              /\ Join(ok)
              /\ UNCHANGED to_camera
       [] psyche_state = "ide" -> close_camera /\ UNCHANGED rtc
       [] psyche_state = "wait_ws" -> UNCHANGED <<rtc, to_camera>>
  /\ IF psyche_state = "by_remote" THEN Keep ELSE Reply
  /\ UNCHANGED <<applies, web_calls, breaks, websocket, calls, slips, cameraVars>>

\* handle_camera_response: the channel is joined, or the camera closed; a client that
\* waits is answered unless the service has called, whatever it waits for.
handle_camera_response ==
  /\ from_camera # <<>>
  /\ from_camera' = Tail(from_camera)
  /\ psyche_state' = IF psyche_state \in CameraWaits THEN "ide" ELSE psyche_state
  /\ CASE psyche_state \in CameraWaits ->
            \E ok \in BOOLEAN :
              /\ ok => Head(from_camera) = 0
              /\ Join(ok)
              /\ IF ok THEN UNCHANGED to_camera ELSE close_camera
       [] psyche_state = "ide" -> close_camera /\ UNCHANGED rtc
       [] psyche_state = "wait_ws" -> UNCHANGED <<rtc, to_camera>>
  /\ IF psyche_state = "by_remote" THEN Keep ELSE Reply
  /\ UNCHANGED <<applies, web_calls, breaks, websocket, calls, slips, cameraVars>>

SessionInit == CameraInit /\ PsycheInit

SessionNext ==
  \/ APPLYFOR_INTERVENTION \/ ABANDON_INTERVENTION
  \/ build_call \/ join_monitor \/ web_leave
  \/ psyche_run \/ onOpen \/ link_lost \/ onDisconnect
  \/ onRtcError \/ onLeaveChannel
  \/ camera_start \/ camera_stop \/ camera_others \/ camera_opens \/ camera_quits
  \/ handle_camera_response

-------------------------------------------------------------------------------
(* Properties.                                                             *)

\* An application that was passed on is answered once, by whichever of the handlers
\* comes to it, and not before it is forgotten.
AppliesAnsweredOnce ==
  \A i \in 1..applies : answers[i] = IF i = m_map_remote_apply THEN 0 ELSE 1

\* Who waits for the camera has an answer of it to come.  As long as no answer of the
\* camera came to a request that had been given up, who waits at all waits for a client or
\* for the service's own call, and the service's response, or the end of the websocket, is
\* to come.
WaitsServed ==
  /\ psyche_state \in CameraWaits => StartPending
  /\ psyche_state \in {"wait_ws", "wait_camera"} /\ ~given_up => m_map_remote_apply # 0
  /\ psyche_state = "wait_ws" /\ ~given_up => calls > 0 \/ websocket = "closing"

\* When no message is on the way and nobody waits, the camera is read for the session if
\* and only if there is one: it is not left on after the last way out of a session, and
\* not taken from one.  The code loses this after an answer nobody awaited any more, and
\* after a call that came while it was in a channel.
CameraFollowsSession ==
  /\ m_run_rtc => in_channel
  /\ from_camera = <<>> /\ to_camera = <<>> /\ ~given_up /\ ~called_over =>
       (psychesystem \in m_listenlist[psyche_stream]) = in_channel

SessionInv ==
  PsycheTypeOK /\ CameraInv /\ AppliesAnsweredOnce /\ WaitsServed /\ CameraFollowsSession

\* The video module takes its messages in the order in which they come, so that those of
\* others cannot keep it from the session's for ever; the threads run.
video_module == camera_start \/ camera_stop

SessionFairness ==
  /\ SF_sessionVars(video_module)
  /\ WF_sessionVars(handle_camera_response) /\ WF_sessionVars(camera_quits)

\* Nobody waits for the camera for ever.
CameraWaitEnds == psyche_state \in CameraWaits ~> psyche_state \notin CameraWaits
===============================================================================
