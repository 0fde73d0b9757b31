----------------------------- MODULE MCModuleBus -----------------------------
(***************************************************************************)
(* The bus of the modules, and some of the modules on it.  They share no   *)
(* state in the models: each behaviour is one of a single part, the bus,   *)
(* the client of the cloud platform, a session of the assistance service   *)
(* with the camera, the microphone, the recognition of speech, or the ring *)
(* through which it gets the sound.                                        *)
(***************************************************************************)
EXTENDS ModuleBus, Cloud, Psyche, Recognition, MediaRing

CONSTANTS L1, L2, L3, L4, N1, N2, T1, T2

VARIABLE part

\* The second library claims a type of the first, which is listed once more, and
\* is refused whole; the third has the name of the first; the fourth takes the
\* name and the type that the second did not get.
MCConfig == <<L1, L2, L1, L3, L4>>
MCNameOf == [l \in {L1, L2, L3, L4} |-> IF l \in {L1, L3} THEN N1 ELSE N2]
MCHandles ==
  [l \in {L1, L2, L3, L4} |->
     CASE l = L1 -> {T1} [] l = L2 -> {T1, T2} [] l \in {L3, L4} -> {T2}]

MCInit ==
  /\ Init /\ CloudInit /\ SessionInit /\ AudioInit /\ IsrInit /\ RingInit
  /\ part \in {"isr"} \cup
             IF ability THEN {} ELSE {"bus", "cloud", "session", "audio", "ring"}

\* The variables of a part that moves change, those of the others do not.
Only(p, next, v) == IF part = p THEN next ELSE UNCHANGED v

MCNext ==
  /\ UNCHANGED part
  /\ Only("bus", Next, vars)
  /\ Only("cloud", CloudNext, cloudVars)
  /\ Only("session", SessionNext, sessionVars)
  /\ Only("audio", AudioNext, audioVars)
  /\ Only("isr", IsrNext, isrVars)
  /\ Only("ring", RingNext, ringVars)

\* The fairness of FairSpec, CloudFairness, SessionFairness and IsrFairness, each where its
\* part moves.
MCFairness ==
  /\ WF_vars(part = "bus" /\ main)
  /\ \A n \in Name :
       /\ WF_vars(part = "bus" /\ \E ok \in BOOLEAN : Start_call(n, ok))
       /\ WF_vars(part = "bus" /\ take(n))
  /\ WF_cloudVars(part = "cloud" /\ R_next) /\ WF_cloudVars(part = "cloud" /\ Q_next)
  /\ SF_cloudVars(part = "cloud" /\ all_overdue)
  /\ SF_sessionVars(part = "session" /\ video_module)
  /\ WF_sessionVars(part = "session" /\ handle_camera_response)
  /\ WF_sessionVars(part = "session" /\ camera_quits)
  /\ WF_isrVars(part = "isr" /\ isr_quit)
  /\ \A m \in Mic : WF_isrVars(part = "isr" /\ recogniser(m))

MCSpec ==
  /\ MCInit
  /\ [][MCNext]_<<part, vars, cloudVars, sessionVars, audioVars, isrVars, ringVars>>
  /\ MCFairness

\* Streams run for their readers only, and a session of the assistance service has the
\* camera exactly while it lasts (SessionInv, AudioInv).
MediaInv == SessionInv /\ AudioInv

\* A recognition is started and stopped as its clients ask, and takes the sound in the order in
\* which it was recorded (IsrInv, RingInv).
RecognitionInv == IsrInv /\ RingInv

\* A response of the platform is waited for, the camera is waited for, and the end of a
\* recognition is waited for, and not for ever (CloudEnds, CameraWaitEnds, IsrEnds).
WaitsEnd == CloudEnds /\ CameraWaitEnds /\ IsrEnds
===============================================================================
