------------------------------ MODULE FaceDetect ------------------------------
(***************************************************************************)
(* The face detection of one camera (robot_face_process): the service that *)
(* clients start and stop, its thread, and the requests that the thread    *)
(* answers from the pictures.                                              *)
(*                                                                         *)
(* The handler of messages runs on the thread of the server's module.  To  *)
(* start the service it asks the video module for the camera, or for two   *)
(* where faces are checked to be alive, and starts the thread when the     *)
(* answers are there; to stop it, it waits for the end of the thread.      *)
(*                                                                         *)
(* What is seen in a picture is a choice; the notices of persons that come *)
(* and go, and the debug windows, stay out.                                *)
(***************************************************************************)
EXTENDS Integers, Sequences, FiniteSets

CONSTANTS
  FaceClient,   \* clients
  MaxFaceMsg,   \* bound: requests to the thread
  MaxStarts     \* bound: starts by clients

ASSUME FaceAssumption == {MaxFaceMsg, MaxStarts} \subseteq Nat /\ "none" \notin FaceClient

VARIABLES
  face_status,     \* the service is to run, as the file of the module says
  face_thread,     \* "ended", "begins": no picture yet, "runs"
  face_quitting,   \* the handler waits for the end of the thread
  face_queue,      \* messages to the thread
  face_task,       \* m_wait_face_image: whose snapshot waits (of), who will be answered (to)
  livetask,        \* the client of CAMERA_SNAPSHOT that run keeps
  face_open,       \* kind, client -> requests neither answered nor dropped
  face_misled,     \* an answer went to a client that did not wait for it
  message_wait,    \* m_message_wait.fromguid
  cameras,         \* what the service reads: "vis", and "nis" if m_live
  camera_orders,   \* messages to the video module
  camera_answers,  \* its answers to starts
  camera_results,  \* m_resultvis, m_resultnis: the cameras that failed
  m_resultcount,
  camera_reader,   \* cameras that have the service for a reader
  camera_overlap,  \* a start was sent while one was not answered
  camera_left,     \* the thread ended, or did not start, by itself
  face_sent, face_starts

startVars == <<face_status, message_wait, camera_orders, camera_answers, camera_results,
               m_resultcount, camera_reader, camera_overlap, camera_left, face_starts>>
threadVars == <<face_thread, face_queue, face_task, livetask, face_open, face_misled>>
faceVars == <<startVars, threadVars, face_quitting, cameras, face_sent>>

FaceKind == {"face", "live", "register"}
FaceMessage == [kind : FaceKind \cup {"cancel"}, from : FaceClient]
NoSnapshot == [to |-> "none", of |-> "none"]
CameraMessage == [start : BOOLEAN, camera : cameras]
CameraAnswer == [camera : cameras, ok : BOOLEAN]

FaceTypeOK ==
  /\ cameras \in {{"vis"}, {"vis", "nis"}}
  /\ face_status \in BOOLEAN /\ face_quitting \in BOOLEAN
  /\ face_thread \in {"ended", "begins", "runs"}
  /\ face_queue \in Seq(FaceMessage)
  /\ face_task \in [to : FaceClient, of : FaceClient] \cup {NoSnapshot}
  /\ livetask \in FaceClient \cup {"none"} /\ message_wait \in FaceClient \cup {"none"}
  /\ face_open \in [FaceKind -> [FaceClient -> Int]] /\ face_misled \in BOOLEAN
  /\ camera_orders \in Seq(CameraMessage) /\ camera_answers \in Seq(CameraAnswer)
  /\ camera_results \subseteq cameras /\ camera_reader \subseteq cameras
  /\ m_resultcount \in 0..3 /\ camera_overlap \in BOOLEAN /\ camera_left \in BOOLEAN

\* open_camera and close_camera: a message for each of the cameras.
Orders(start) ==
  <<[start |-> start, camera |-> "vis"]>> \o
  IF "nis" \in cameras THEN <<[start |-> start, camera |-> "nis"]>> ELSE <<>>

\* check_status: a service that was on is started again, for nobody.
FaceInit ==
  /\ cameras \in {{"vis"}, {"vis", "nis"}}
  /\ face_status \in BOOLEAN
  /\ camera_orders = IF face_status THEN Orders(TRUE) ELSE <<>>
  /\ camera_answers = <<>> /\ camera_results = {} /\ m_resultcount = 0
  /\ camera_reader = {} /\ camera_overlap = FALSE /\ camera_left = FALSE
  /\ message_wait = "none" /\ face_starts = 0
  /\ face_thread = "ended" /\ face_quitting = FALSE /\ face_queue = <<>>
  /\ face_task = NoSnapshot /\ livetask = "none" /\ face_misled = FALSE
  /\ face_open = [k \in FaceKind |-> [c \in FaceClient |-> 0]] /\ face_sent = 0

\* Thread_helper::state
FaceState == face_thread # "ended"

Unanswered == camera_answers # <<>> \/ \E i \in DOMAIN camera_orders : camera_orders[i].start

(***************************************************************************)
(* The handler                                                             *)
(***************************************************************************)
\* START_FACE_DETECT_SERVICE, if the service does not run and nobody waits for it (else
\* c is answered at once).  The start of check_status has no name and is not seen.
start_detect_task(c) ==
  /\ ~face_quitting /\ face_starts < MaxStarts
  /\ ~FaceState /\ message_wait = "none"
  /\ message_wait' = c /\ camera_results' = {} /\ m_resultcount' = 0
  /\ camera_orders' = camera_orders \o Orders(TRUE)
  /\ camera_overlap' = (camera_overlap \/ Unanswered)
  /\ face_task' = NoSnapshot
  /\ face_starts' = face_starts + 1
  /\ UNCHANGED <<face_status, camera_answers, camera_reader, camera_left, face_thread,
                 face_queue, livetask, face_open, face_misled, face_quitting, cameras, face_sent>>

Queued(k, c) ==
  Cardinality({i \in DOMAIN face_queue : face_queue[i] = [kind |-> k, from |-> c]})

\* clean_message: what an earlier thread has not taken is answered or, a registration,
\* thrown away.
clean_message ==
  /\ face_queue' = <<>>
  /\ face_open' = [k \in FaceKind |-> [c \in FaceClient |-> face_open[k][c] - Queued(k, c)]]

\* readly_start: the memory of the pictures may be missing (ok), and then the thread is not
\* started and the cameras are not given back.
readly_start(ok) ==
  IF ok THEN /\ clean_message /\ face_thread' = "begins" /\ camera_left' = FALSE
             /\ face_status' = TRUE
        ELSE /\ camera_left' = TRUE /\ UNCHANGED <<face_queue, face_open, face_thread, face_status>>

\* What the last answer that was waited for leads to.  A service that runs is left alone;
\* with two cameras a failure gives both back.
cameras_answered(failed, ok) ==
  IF FaceState
  THEN /\ face_status' = TRUE
       /\ UNCHANGED <<face_queue, face_open, face_thread, camera_orders, camera_left>>
  ELSE IF failed = {}
       THEN readly_start(ok) /\ UNCHANGED camera_orders
       ELSE /\ camera_orders' = camera_orders \o IF "nis" \in cameras THEN Orders(FALSE) ELSE <<>>
            /\ UNCHANGED <<face_queue, face_open, face_thread, face_status, camera_left>>

\* CAMERA_START_STREAMNAME_RESPONSE: with two cameras the second answer counts.
camera_message(ok) ==
  /\ ~face_quitting /\ camera_answers # <<>>
  /\ camera_answers' = Tail(camera_answers)
  /\ LET a == Head(camera_answers)
         failed == IF a.ok THEN camera_results \ {a.camera} ELSE camera_results \cup {a.camera}
     IN /\ camera_results' = failed
        /\ m_resultcount' = IF m_resultcount > 2 THEN m_resultcount ELSE m_resultcount + 1
        /\ IF "nis" \notin cameras \/ m_resultcount = 1
           THEN message_wait' = "none" /\ cameras_answered(failed, ok)
           ELSE UNCHANGED <<message_wait, face_queue, face_open, face_thread, camera_orders,
                            face_status, camera_left>>
  /\ UNCHANGED <<camera_reader, camera_overlap, face_starts, face_task, livetask,
                 face_misled, face_quitting, cameras, face_sent>>

\* STOP_FACE_DETECT_SERVICE.  Before the cameras have answered there is nothing to stop:
\* the service starts afterwards.
stop_nothing ==
  /\ ~face_quitting /\ ~FaceState
  /\ face_status' = FALSE
  /\ UNCHANGED <<message_wait, camera_orders, camera_answers, camera_results, m_resultcount,
                 camera_reader, camera_overlap, camera_left, face_starts, threadVars,
                 face_quitting, cameras, face_sent>>

\* stop_detect tells the thread to quit ...
stop_detect ==
  /\ ~face_quitting /\ FaceState
  /\ face_quitting' = TRUE
  /\ UNCHANGED <<startVars, threadVars, cameras, face_sent>>

\* ... and gives the cameras back when it has ended.
stop_returns ==
  /\ face_quitting /\ ~FaceState
  /\ face_quitting' = FALSE /\ face_status' = FALSE
  /\ camera_orders' = camera_orders \o Orders(FALSE)
  /\ UNCHANGED <<message_wait, camera_answers, camera_results, m_resultcount, camera_reader,
                 camera_overlap, camera_left, face_starts, threadVars, cameras, face_sent>>

\* FACE_SNAPSHOT, CAMERA_SNAPSHOT, FACE_REGISTER and FACE_SNAPSHOT_CANCEL go to the thread;
\* without one they are answered at once, but the last, which is posted in any case.
face_request(k, c) ==
  /\ ~face_quitting /\ face_sent < MaxFaceMsg
  /\ FaceState \/ k = "cancel"
  /\ face_sent' = face_sent + 1
  /\ face_queue' = Append(face_queue, [kind |-> k, from |-> c])
  /\ face_open' = IF k = "cancel" THEN face_open ELSE [face_open EXCEPT ![k][c] = @ + 1]
  /\ UNCHANGED <<startVars, face_thread, face_task, livetask, face_misled, face_quitting, cameras>>

(***************************************************************************)
(* The thread                                                              *)
(***************************************************************************)
\* malloc_buffer: the first picture, or a minute without one; nobody hears of that.
run_begins(ok) ==
  /\ face_thread = "begins"
  /\ face_thread' = IF ok THEN "runs" ELSE "ended"
  /\ camera_left' = (~ok /\ ~face_quitting)
  /\ UNCHANGED <<face_status, message_wait, camera_orders, camera_answers, camera_results,
                 m_resultcount, camera_reader, camera_overlap, face_starts, face_queue,
                 face_task, livetask, face_open, face_misled, face_quitting, cameras, face_sent>>

\* Where a turn of the loop stands: the task, the snapshot of the camera, what is open, and
\* whether an answer went astray.
Now == [task |-> face_task, live |-> livetask, open |-> face_open, misled |-> face_misled]

Done(open, k, c) == [open EXCEPT ![k][c] = @ - 1]

\* Error 99 tells a second client that a first one waits.
take_snapshot(t, c) ==
  IF t.task # NoSnapshot THEN [t EXCEPT !.open = Done(@, "face", c)]
  ELSE [t EXCEPT !.task = [to |-> c, of |-> c]]

\* FACE_CANCELSNAPSHOT, no matter whose: the client that waits is not told.
take_cancel(t) ==
  IF t.task # NoSnapshot
  THEN [t EXCEPT !.task = NoSnapshot, !.open = Done(@, "face", t.task.of)] ELSE t

\* face_register answers or passes the task on; it puts its client where that of a waiting
\* snapshot was.
take_register(t, c) ==
  [t EXCEPT !.task = IF @ = NoSnapshot THEN @ ELSE [@ EXCEPT !.to = c],
            !.open = Done(@, "register", c)]

take_camera_snapshot(t, c) ==
  IF t.live # "none" THEN [t EXCEPT !.open = Done(@, "live", c)] ELSE [t EXCEPT !.live = c]

face_take(t, m) ==
  CASE m.kind = "face"     -> take_snapshot(t, m.from)
    [] m.kind = "cancel"   -> take_cancel(t)
    [] m.kind = "register" -> take_register(t, m.from)
    [] m.kind = "live"     -> take_camera_snapshot(t, m.from)

\* A snapshot ends with a face or with error 101; its answer goes to task.to.
Answered(t) ==
  IF t.task # NoSnapshot
  THEN [t EXCEPT !.task = NoSnapshot, !.open = Done(@, "face", t.task.to),
                 !.misled = @ \/ t.task.to # t.task.of]
  ELSE t

\* save_temp_live_image
Photographed(t) ==
  IF t.live # "none" THEN [t EXCEPT !.live = "none", !.open = Done(@, "live", t.live)] ELSE t

\* A turn without a new picture, or with one: there is a face or the time is up (ends), or
\* neither.  Without pictures a snapshot has no end.
Pictured(t, fresh, ends) ==
  IF ~fresh THEN t ELSE IF ends THEN Answered(Photographed(t)) ELSE Photographed(t)

TurnOf(t) ==
  face_task' = t.task /\ livetask' = t.live /\ face_open' = t.open /\ face_misled' = t.misled

face_turn(fresh, ends) ==
  /\ face_thread = "runs"
  /\ IF face_queue = <<>> THEN TurnOf(Pictured(Now, fresh, ends)) /\ UNCHANGED face_queue
     ELSE /\ TurnOf(Pictured(face_take(Now, Head(face_queue)), fresh, ends))
          /\ face_queue' = Tail(face_queue)
  /\ UNCHANGED <<startVars, face_thread, face_quitting, cameras, face_sent>>

\* Mutant: the client whose snapshot waits is forgotten.
Exited_silent(t) ==
  [t EXCEPT !.task = NoSnapshot, !.live = "none",
            !.open = IF t.live = "none" THEN @ ELSE Done(@, "live", t.live)]

\* The end of run: a snapshot that waits is answered, one of the camera is not.
Exited(t) ==
  LET a == Answered(t)
  IN [a EXCEPT !.live = "none",
               !.open = IF a.live = "none" THEN @ ELSE Done(@, "live", a.live)]

\* _EXIT_THREAD_, which quit may put before other messages, ends the loop with this turn.
face_exits(fresh, ends) ==
  /\ face_thread = "runs" /\ face_quitting
  /\ face_thread' = "ended"
  /\ TurnOf(Exited(Pictured(Now, fresh, ends)))
  /\ UNCHANGED <<startVars, face_queue, face_quitting, cameras, face_sent>>

(***************************************************************************)
(* VideoManager takes an order; whether a stream can be started is its    *)
(* choice here, see Streams.                                               *)
(***************************************************************************)
order_taken(ok) ==
  /\ camera_orders # <<>>
  /\ camera_orders' = Tail(camera_orders)
  /\ LET o == Head(camera_orders)
     IN IF o.start
        THEN /\ camera_answers' = Append(camera_answers, [camera |-> o.camera, ok |-> ok])
             /\ camera_reader' = IF ok THEN camera_reader \cup {o.camera} ELSE camera_reader
        ELSE camera_reader' = camera_reader \ {o.camera} /\ UNCHANGED camera_answers
  /\ UNCHANGED <<face_status, message_wait, camera_results, m_resultcount, camera_overlap,
                 camera_left, face_starts, threadVars, face_quitting, cameras, face_sent>>

face_handler ==
  \/ \E c \in FaceClient : start_detect_task(c)
  \/ \E ok \in BOOLEAN : camera_message(ok)
  \/ stop_nothing \/ stop_detect \/ stop_returns
  \/ \E k \in FaceKind \cup {"cancel"}, c \in FaceClient : face_request(k, c)

face_run ==
  \/ \E ok \in BOOLEAN : run_begins(ok)
  \/ \E fresh, ends \in BOOLEAN : face_turn(fresh, ends) \/ face_exits(fresh, ends)

FaceNext == face_handler \/ face_run \/ \E ok \in BOOLEAN : order_taken(ok)

\* A request is open exactly while it is queued or the thread works for it: each is answered
\* once, dropped by a cancellation or by clean_message, or, a snapshot of the camera, lost
\* at the end of the thread.  The requests meet the thread that ends and the next start.
\* Once an answer went to the client of a registration the counts of two clients are wrong.
RequestsAccounted ==
  ~face_misled => \A k \in FaceKind, c \in FaceClient :
    face_open[k][c] =
      Queued(k, c) + (IF k = "face" /\ face_task.of = c THEN 1 ELSE 0)
                   + (IF k = "live" /\ livetask = c THEN 1 ELSE 0)

\* The service reads its cameras while it runs, unless a client's start met the one of
\* check_status: the answer that is left over starts the service again after a stop.
ServiceHasCameras ==
  FaceState /\ ~camera_overlap => camera_reader = cameras /\ ~Unanswered

\* It does not keep a camera when it has stopped, unless its thread ended by itself or did
\* not start: a later stop has nothing to do then.
CamerasGivenBack ==
  ~FaceState /\ ~face_quitting /\ ~camera_left /\ camera_orders = <<>> /\ ~Unanswered
    => camera_reader = {}

\* A client that waits for the service waits for an answer that comes; a service that runs
\* is one that runs again after a crash.
StartsEnd == (message_wait # "none" => Unanswered) /\ (FaceState => face_status)

FaceDetectInv ==
  FaceTypeOK /\ RequestsAccounted /\ ServiceHasCameras /\ CamerasGivenBack /\ StartsEnd

\* The video module works off its messages.  The handler goes on with its answers, and when
\* the thread has ended.  The thread gets a first picture or gives up, and takes a message
\* that tells it to quit.  Pictures come, in one of which there is a face or after which
\* the time is up.
face_handler_goes_on == stop_returns \/ \E ok \in BOOLEAN : camera_message(ok)
face_run_changes ==
  \/ \E ok \in BOOLEAN : run_begins(ok)
  \/ \E fresh, ends \in BOOLEAN : face_exits(fresh, ends)

FaceFairness ==
  /\ WF_faceVars(\E ok \in BOOLEAN : order_taken(ok)) /\ SF_faceVars(face_handler_goes_on)
  /\ WF_faceVars(face_run_changes) /\ WF_faceVars(face_turn(TRUE, TRUE))

FaceSpec == FaceInit /\ [][FaceNext]_faceVars /\ FaceFairness

\* A client that starts the service is answered, so is one that waits for a face, and the
\* handler of a stop is not held up for ever.
FaceEnds ==
  /\ message_wait # "none" ~> message_wait = "none"
  /\ face_task # NoSnapshot ~> face_task = NoSnapshot
  /\ face_quitting ~> ~face_quitting
===============================================================================
