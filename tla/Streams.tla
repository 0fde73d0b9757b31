-------------------------------- MODULE Streams --------------------------------
(***************************************************************************)
(* The streams that clients share: the cameras (VideoManager, one thread   *)
(* for each camera that runs) and the microphone (AudioManager).  A reader *)
(* says when it starts and stops reading, and a stream runs while somebody *)
(* reads it.  The thread of a camera opens its device again when no frame  *)
(* comes; the handler of a message that stops a camera waits for the end   *)
(* of its thread, with m_ml locked.  A camera may be lent to another       *)
(* program (CHANGE_USER) until RESUME.                                     *)
(*                                                                         *)
(* The pictures and the sound, and the parameters of a camera, stay out.   *)
(***************************************************************************)
EXTENDS Naturals

CONSTANTS
  Stream,   \* names of cameras in the configuration
  Reader,   \* names under which cameras are read
  Client,   \* those of them that are connections: their end is notified
  Listener  \* names under which the microphone is read

ASSUME StreamsAssumption == Client \subseteq Reader

VARIABLES
  m_stream_name_id,  \* cameras found so far
  m_listenlist,      \* camera -> its readers ({}: no entry)
  streaming,           \* cameras whose thread runs
  opened,            \* cameras whose device is open
  stopping,          \* cameras whose threads the handler waits for
  lent               \* cameras lent while they were read, and not resumed

cameraVars == <<m_stream_name_id, m_listenlist, streaming, opened, stopping, lent>>

CameraTypeOK ==
  /\ m_stream_name_id \subseteq Stream /\ streaming \subseteq Stream
  /\ opened \subseteq Stream /\ stopping \subseteq Stream /\ lent \subseteq Stream
  /\ m_listenlist \in [Stream -> SUBSET Reader]

CameraInit ==
  /\ m_stream_name_id = {} /\ m_listenlist = [s \in Stream |-> {}]
  /\ streaming = {} /\ opened = {} /\ stopping = {} /\ lent = {}

Listened(s) == m_listenlist[s] # {}

\* update_device: a camera that is found gets a stream, which it keeps.
update_device ==
  /\ stopping = {}
  /\ \E found \in SUBSET Stream :
       /\ ~ found \subseteq m_stream_name_id
       /\ m_stream_name_id' = m_stream_name_id \cup found
  /\ UNCHANGED <<m_listenlist, streaming, opened, stopping, lent>>

\* video_start: nothing to do, or the device opens and the thread starts; ok says whether
\* the camera runs.
video_start(s, ok) ==
  \/ /\ s \in streaming /\ ok
     /\ UNCHANGED <<streaming, opened>>
  \/ /\ s \notin streaming /\ ok
     /\ streaming' = streaming \cup {s} /\ opened' = opened \cup {s}
  \/ /\ s \notin streaming /\ ~ok
     /\ UNCHANGED <<streaming, opened>>

\* CAMERA_START: who comes first starts the camera; error 0 says that r is a reader.
START_STREAMNAME(s, r, error) ==
  /\ stopping = {}
  /\ \/ s \notin m_stream_name_id /\ error = 1 /\ UNCHANGED <<streaming, opened>>
     \/ s \in m_stream_name_id /\ Listened(s) /\ error = 0 /\ UNCHANGED <<streaming, opened>>
     \/ s \in m_stream_name_id /\ ~Listened(s) /\ video_start(s, error = 0)
  /\ m_listenlist' = IF error = 0 THEN [m_listenlist EXCEPT ![s] = @ \cup {r}] ELSE m_listenlist
  /\ UNCHANGED <<m_stream_name_id, stopping, lent>>

\* The cameras in S are not read any more: their threads are told to quit.
Unread(S) == stopping' = streaming \cap S /\ lent' = lent \ S

\* CAMERA_STOP: who leaves last stops the camera.
STOP_STREAMNAME(s, r) ==
  /\ stopping = {}
  /\ IF r \in m_listenlist[s]
     THEN /\ m_listenlist' = [m_listenlist EXCEPT ![s] = @ \ {r}]
          /\ Unread(IF m_listenlist[s] = {r} THEN {s} ELSE {})
     ELSE UNCHANGED <<m_listenlist, stopping, lent>>
  /\ UNCHANGED <<m_stream_name_id, streaming, opened>>

\* CAMERA_CHANGE_USER: the camera is stopped and its readers stay.
CHANGE_USER(s) ==
  /\ stopping = {}
  /\ Listened(s)
  /\ stopping' = streaming \cap {s}
  /\ lent' = lent \cup {s}
  /\ UNCHANGED <<m_stream_name_id, m_listenlist, streaming, opened>>

\* CAMERA_RESUME_USER.
RESUME_USER(s) ==
  /\ stopping = {}
  /\ Listened(s)
  /\ \E ok \in BOOLEAN :
       /\ video_start(s, ok)
       /\ lent' = IF ok THEN lent \ {s} ELSE lent
  /\ UNCHANGED <<m_stream_name_id, m_listenlist, stopping>>

\* DISPATCH_CLIENT_DISCONNECT_NOTIFY.
CLIENT_DISCONNECT(c) ==
  /\ stopping = {}
  /\ m_listenlist' = [s \in Stream |-> m_listenlist[s] \ {c}]
  /\ Unread({s \in Stream : m_listenlist[s] = {c}})
  /\ UNCHANGED <<m_stream_name_id, streaming, opened>>

\* The thread of s: no frame comes, and it closes the device; it opens it again.
frame_fails(s) ==
  /\ s \in streaming \cap opened
  /\ opened' = opened \ {s}
  /\ UNCHANGED <<m_stream_name_id, m_listenlist, streaming, stopping, lent>>
opens_again(s) ==
  /\ s \in streaming \ opened
  /\ opened' = opened \cup {s}
  /\ UNCHANGED <<m_stream_name_id, m_listenlist, streaming, stopping, lent>>

\* It ends, and the handler goes on with the next camera it has to stop.
stream_quits(s) ==
  /\ s \in stopping
  /\ stopping' = stopping \ {s}
  /\ streaming' = streaming \ {s} /\ opened' = opened \ {s}
  /\ UNCHANGED <<m_stream_name_id, m_listenlist, lent>>

CameraNext ==
  \/ update_device
  \/ \E s \in Stream :
       \/ \E r \in Reader, error \in {0, 1} : START_STREAMNAME(s, r, error)
       \/ \E r \in Reader : STOP_STREAMNAME(s, r)
       \/ CHANGE_USER(s) \/ RESUME_USER(s)
       \/ frame_fails(s) \/ opens_again(s) \/ stream_quits(s)
  \/ \E c \in Client : CLIENT_DISCONNECT(c)

\* Between two messages a camera runs if and only if somebody reads it, but for one that
\* was lent (VideoManager::message_handler); and the device of a camera that does not run
\* is not held, so that who borrowed it can open it (VideoStream::run reopens it at will).
CameraFollowsReaders ==
  stopping = {} => \A s \in Stream :
    /\ s \in streaming => Listened(s)
    /\ Listened(s) => s \in streaming \cup lent
    /\ s \in opened => s \in streaming

CameraInv == CameraTypeOK /\ CameraFollowsReaders

-------------------------------------------------------------------------------
(* The microphone: one stream, and the recorder of winrec.c.               *)

VARIABLES
  audio_listenlist,  \* its readers
  m_run,             \* the stream takes itself to be recording
  recorder           \* "created" or "recording": its state between two messages

audioVars == <<audio_listenlist, m_run, recorder>>

AudioInit == audio_listenlist = {} /\ m_run = FALSE /\ recorder = "created"

\* audio_stream_capture::start: opening or starting the recorder may fail, and it is
\* closed then.
capture_start(ok) ==
  \/ m_run /\ ok /\ UNCHANGED <<m_run, recorder>>
  \/ ~m_run /\ ok /\ m_run' = TRUE /\ recorder' = "recording"
  \/ ~m_run /\ ~ok /\ recorder' = "created" /\ UNCHANGED m_run

AUDIO_START(r) ==
  \/ /\ audio_listenlist # {}
     /\ audio_listenlist' = audio_listenlist \cup {r}
     /\ UNCHANGED <<m_run, recorder>>
  \/ /\ audio_listenlist = {}
     /\ \E ok \in BOOLEAN :
          /\ capture_start(ok)
          /\ audio_listenlist' = IF ok THEN {r} ELSE {}

\* close_recorder: one that records is stopped first, which may fail.
close_recorder == recorder' = "created"

\* audio_stream_capture::stop.
capture_stop == m_run' = FALSE /\ close_recorder

AUDIO_STOP(r) ==
  /\ audio_listenlist # {}
  /\ audio_listenlist' = audio_listenlist \ {r}
  /\ IF audio_listenlist \ {r} = {} THEN capture_stop ELSE UNCHANGED <<m_run, recorder>>

AudioNext == \E r \in Listener : AUDIO_START(r) \/ AUDIO_STOP(r)

\* The microphone records exactly while somebody reads it: nobody is recorded unasked,
\* also when the device failed in the middle of a start or a stop.
AudioInv ==
  /\ audio_listenlist \subseteq Listener
  /\ (recorder = "recording") = (audio_listenlist # {})
  /\ m_run = (audio_listenlist # {})
===============================================================================
