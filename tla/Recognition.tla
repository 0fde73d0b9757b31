------------------------------ MODULE Recognition ------------------------------
(***************************************************************************)
(* Speech recognition (robot_voice_manager, robot_voice_process and        *)
(* robot_voice_isr_ify).  The thread of the module (H) starts and stops    *)
(* the service of a microphone and its recognition.  To start one it asks  *)
(* the audio module for the microphone's stream and goes on; the answer    *)
(* starts the thread of the recognition (R), which passes sound to a       *)
(* session of the engine until a text is found.  To stop one, H waits for  *)
(* the end of R.  All users of the engine share one login.                 *)
(*                                                                         *)
(* The sound comes from MediaRing; what is heard in it is a choice.        *)
(***************************************************************************)
EXTENDS Integers, Sequences, FiniteSets

CONSTANTS
  Mic,          \* microphones
  MainMic,      \* m_mainmic
  Speaker,      \* guids of clients
  nobody,       \* the empty guid
  MaxErrors,    \* R gives up after so many errors (50 in the code)
  MaxSwitches,  \* bound: services started or stopped
  MaxListens    \* bound: recognitions started or stopped

ASSUME RecognitionAssumption ==
  /\ MainMic \in Mic /\ nobody \notin Speaker /\ "ability" \notin Mic
  /\ {MaxErrors, MaxSwitches, MaxListens} \subseteq Nat

VARIABLES
  ability,       \* isInit of the engine's synthesis, which the microphones share
  tts_init,      \* microphones whose synthesis is initialised
  isr_init,      \* microphones whose recognition is initialised
  m_register,    \* who is registered with the login
  register_cnt,  \* and the counter kept with them
  logged_in,
  media,         \* microphones whose m_media reads
  isr,           \* the recognition of each microphone
  audioq,        \* streams the audio module was asked for and has not answered for
  h_waits,       \* what H does when R has ended, if it waits for that
  switches, listens,
  \* what clients may rely on
  owed,             \* starts of each client that were not answered
  login_failed,     \* a login failed
  mixed,            \* an answer of the audio module was not for the last start
  unwanted, late,   \* recognitions that were stopped; those started since by a late answer
  forsaken          \* recognitions that were given up with their session open

engineVars == <<ability, tts_init, isr_init, m_register, register_cnt, logged_in, login_failed>>
askVars == <<owed, mixed, unwanted, late>>
isrVars == <<engineVars, media, isr, audioq, h_waits, switches, listens, askVars, forsaken>>

Mode == 0..2   \* any number but 0 and 1 is neither: 2 stands for those

Idle == [for |-> "nothing", mic |-> MainMic]

IsrTypeOK ==
  /\ {ability, logged_in, login_failed, mixed} \subseteq BOOLEAN
  /\ tts_init \subseteq Mic /\ isr_init \subseteq Mic /\ media \subseteq Mic
  /\ m_register \subseteq Mic \cup {"ability"} /\ register_cnt \in Nat
  /\ isr \in [Mic -> [at : {"off", "top", "handle", "tail", "tail2"},
                      message : Speaker \cup {nobody}, loop : BOOLEAN, mode : Mode,
                      ctrol : 0..2, notify : 0..2, session : BOOLEAN,
                      heard : {"nothing", "something", "text"}, errors : 0..MaxErrors]]
  /\ audioq \in Seq(Mic)
  /\ h_waits \in [for : {"nothing", "stop", "service"}, mic : Mic]
  /\ owed \in [Speaker -> Int]
  /\ unwanted \subseteq Mic /\ late \subseteq Mic /\ forsaken \subseteq Mic

\* check_status: the service of a microphone that was on, and its recognition, are started
\* again, for nobody.
IsrInit ==
  \E resumed \in BOOLEAN :
    /\ ability = resumed /\ logged_in = resumed
    /\ tts_init = IF resumed THEN {MainMic} ELSE {}
    /\ isr_init = tts_init
    /\ m_register = IF resumed THEN {"ability", MainMic} ELSE {}
    /\ register_cnt = IF resumed THEN 2 ELSE 0
    /\ audioq = IF resumed THEN <<MainMic>> ELSE <<>>
    /\ isr = [m \in Mic |->
                [at |-> "off", message |-> nobody, loop |-> resumed, mode |-> 0, ctrol |-> 0,
                 notify |-> 0, session |-> FALSE, heard |-> "nothing", errors |-> 0]]
    /\ media = {} /\ h_waits = Idle /\ switches = 0 /\ listens = 0
    /\ owed = [c \in Speaker |-> 0]
    /\ login_failed = FALSE /\ mixed = FALSE /\ unwanted = {} /\ late = {} /\ forsaken = {}

\* Thread_helper::state of the recognition.
Runs(m) == isr[m].at # "off"

(***************************************************************************)
(* The service of a microphone                                             *)
(***************************************************************************)
\* Register_Init for those of who that are not initialised: the first one logs in.  One
\* that fails is counted all the same.
Register_Init(who) ==
  /\ m_register' = m_register \cup who
  /\ register_cnt' = register_cnt + Cardinality(who)

\* start_voice_service: the engine of the synthesis logs in, if it is the first.  Where the
\* login fails, nothing else is begun.
start_voice_service(m) ==
  /\ h_waits = Idle /\ switches < MaxSwitches
  /\ switches' = switches + 1
  /\ \/ /\ Register_Init((IF ability THEN {} ELSE {"ability"}) \cup ({m} \ isr_init))
        /\ ability' = TRUE
        /\ tts_init' = tts_init \cup {m} /\ isr_init' = isr_init \cup {m}
        /\ logged_in' = (logged_in \/ register_cnt = 0)
        /\ UNCHANGED login_failed
     \/ /\ ~ability /\ register_cnt = 0
        /\ Register_Init({"ability"})
        /\ login_failed' = TRUE
        /\ UNCHANGED <<ability, tts_init, isr_init, logged_in>>
  /\ UNCHANGED <<media, isr, audioq, h_waits, listens, askVars, forsaken>>

\* UnRegister_Uninit: the last one logs out.
UnRegister_Uninit(who) ==
  LET gone == who \cap m_register
      left == register_cnt - Cardinality(gone)
  IN  /\ m_register' = m_register \ who
      /\ register_cnt' = left
      /\ logged_in' = (logged_in /\ (gone = {} \/ left # 0))

\* UnInit of the recognition, when R has ended, and of the synthesis, whose engine is given
\* up for all microphones.
UnInit(m) ==
  /\ UnRegister_Uninit(({m} \cap isr_init) \cup (IF ability THEN {"ability"} ELSE {}))
  /\ isr_init' = isr_init \ {m} /\ tts_init' = tts_init \ {m} /\ ability' = FALSE
  /\ media' = IF m \in isr_init THEN media \ {m} ELSE media
  /\ h_waits' = Idle
  /\ UNCHANGED login_failed

\* Mutant: only one of the two modes is thought of.
CancelISR_mode0(m) == isr' = [isr EXCEPT ![m].ctrol = IF isr[m].mode = 0 THEN 1 ELSE @]

\* CancelISR, until it waits: only modes 0 and 1 tell R to end.
CancelISR(m) ==
  isr' = [isr EXCEPT ![m].ctrol = IF isr[m].mode = 0 THEN 1 ELSE IF isr[m].mode = 1 THEN 2 ELSE @]

\* Mutant: the engine is given up while R still runs.
stop_voice_service_at_once(m) ==
  /\ h_waits = Idle /\ switches < MaxSwitches
  /\ switches' = switches + 1
  /\ UnInit(m)
  /\ UNCHANGED <<isr, audioq, listens, askVars, forsaken>>

stop_voice_service(m) ==
  /\ h_waits = Idle /\ switches < MaxSwitches
  /\ switches' = switches + 1
  /\ IF m \in isr_init /\ Runs(m)
     THEN /\ CancelISR(m) /\ h_waits' = [for |-> "service", mic |-> m]
          /\ UNCHANGED <<engineVars, media>>
     ELSE UnInit(m) /\ UNCHANGED isr
  /\ UNCHANGED <<audioq, listens, askVars, forsaken>>

(***************************************************************************)
(* The recognition of a microphone                                         *)
(***************************************************************************)
\* StartISR: refused, or R runs already, or the stream is asked for, and the client is
\* answered with what the audio module says.
start_isr(m, c, loop, mode) ==
  /\ h_waits = Idle /\ listens < MaxListens
  /\ listens' = listens + 1
  /\ IF m \notin isr_init \/ Runs(m)
     THEN UNCHANGED <<isr, audioq, askVars>>
     ELSE /\ isr' = [isr EXCEPT ![m].message = c, ![m].mode = mode,
                                ![m].loop = loop /\ mode # 1]
          /\ audioq' = Append(audioq, m)
          /\ mixed' = (mixed \/ audioq # <<>> \/ m # MainMic)
          /\ unwanted' = unwanted \ {m} /\ late' = late \ {m}
          /\ owed' = [owed EXCEPT ![c] = @ + 1]
  /\ UNCHANGED <<engineVars, media, h_waits, switches, forsaken>>

\* stop_isr
stop_isr(m) ==
  /\ h_waits = Idle /\ listens < MaxListens
  /\ listens' = listens + 1
  /\ unwanted' = unwanted \cup {m} /\ late' = late \ {m}
  /\ IF m \in isr_init /\ Runs(m)
     THEN CancelISR(m) /\ h_waits' = [for |-> "stop", mic |-> m]
     ELSE UNCHANGED <<isr, h_waits>>
  /\ UNCHANGED <<engineVars, media, audioq, switches, owed, mixed, forsaken>>

\* quit returns.
isr_quit ==
  /\ h_waits # Idle /\ ~Runs(h_waits.mic)
  /\ IF h_waits.for = "service" THEN UnInit(h_waits.mic)
                                ELSE h_waits' = Idle /\ UNCHANGED <<engineVars, media>>
  /\ UNCHANGED <<isr, audioq, switches, listens, askVars, forsaken>>

\* AUDIO_START_STREAMNAME_RESPONSE names a stream and no microphone: whichever stream it
\* names, it is taken for an answer to the last start of the main one (StartISR_Rec).  The
\* stream is read if it is there (ok) and its memory is (read), and R starts.
start_isr_write_status(ok, read) ==
  LET m == MainMic
      starts == ok /\ m \in isr_init /\ ~Runs(m) /\ (m \in media \/ read)
  IN  /\ h_waits = Idle /\ audioq # <<>>
      /\ audioq' = Tail(audioq)
      /\ IF starts
         THEN /\ isr' = [isr EXCEPT ![m].at = "top", ![m].ctrol = 0, ![m].errors = 0]
              /\ media' = media \cup {m}
              /\ late' = late \cup ({m} \cap unwanted)
         ELSE UNCHANGED <<isr, media, late>>
      /\ owed' = IF isr[m].message = nobody THEN owed
                 ELSE [owed EXCEPT ![isr[m].message] = @ - 1]
      /\ UNCHANGED <<engineVars, h_waits, switches, listens, mixed, unwanted, forsaken>>

(***************************************************************************)
(* R                                                                       *)
(***************************************************************************)
\* The top of the loop of run: isr_restart closes a session that is open and begins one,
\* which may fail (ok).  After too many errors R ends, with the new session open.
isr_restart(m, ok) ==
  LET r == isr[m] IN
  /\ r.at = "top"
  /\ IF r.ctrol # 0
     THEN isr' = [isr EXCEPT ![m].at = "off"] /\ UNCHANGED forsaken
     ELSE IF r.errors >= MaxErrors
     THEN /\ isr' = [isr EXCEPT ![m].at = "off", ![m].session = ok]
          /\ forsaken' = IF ok THEN forsaken \cup {m} ELSE forsaken \ {m}
     ELSE /\ isr' = [isr EXCEPT ![m] =
                       IF ok THEN [r EXCEPT !.at = "handle", !.session = TRUE,
                                            !.heard = "nothing", !.notify = 1]
                             ELSE [r EXCEPT !.session = FALSE, !.errors = @ + 1]]
          /\ forsaken' = forsaken \ {m}

\* What run does when msg_handler returns: 0 "found", 1 "failed", -1 "ended".
Round(r, ret) ==
  LET told == ret = "found" /\ r.heard = "text"
  IN  [r EXCEPT !.session = FALSE, !.heard = "nothing",
                !.notify = IF told THEN 0 ELSE @,
                !.errors = IF ret = "failed" THEN @ + 1
                           ELSE IF ret = "found" /\ r.heard # "nothing" THEN 0 ELSE @,
                !.at = IF ret = "ended" \/ (told /\ ~r.loop) THEN "off" ELSE "top"]

Result(r) == IF r.heard = "nothing" THEN "failed" ELSE "found"

\* r after the engine has given nothing, something, or some of the text.
Heard(r) ==
  {r, [r EXCEPT !.heard = "text"], [r EXCEPT !.heard = IF @ = "text" THEN @ ELSE "something"]}

\* One turn of msg_handler: sound is passed on, and then the clock and m_ctrol are looked at.
msg_handler(m) ==
  /\ isr[m].at = "handle"
  /\ \E h \in Heard(isr[m]) :
       \/ \* the engine fails or does not hear a voice in time
          isr' = [isr EXCEPT ![m] = Round(h, "failed")]
       \/ \* the end of what was said
          isr' = [isr EXCEPT ![m] = [h EXCEPT !.at = "tail"]]
       \/ \* no sound for two seconds
          /\ h = isr[m]
          /\ isr' = [isr EXCEPT ![m] = Round(h, Result(h))]
       \/ /\ h.ctrol = 0 /\ isr' = [isr EXCEPT ![m] = h]
       \/ /\ h.ctrol = 1 /\ isr' = [isr EXCEPT ![m] = Round(h, "ended")]
       \/ \* the last of the sound
          /\ h.ctrol = 2 /\ isr' = [isr EXCEPT ![m] = [h EXCEPT !.at = "tail"]]
  /\ UNCHANGED forsaken

\* A round of get_tail_result; all but the first are one round here.
get_tail_result(m) ==
  /\ isr[m].at \in {"tail", "tail2"}
  /\ \/ \* the engine has no more
        isr' = [isr EXCEPT ![m] = Round(isr[m], "found")]
     \/ \E h \in Heard(isr[m]) :
          \/ /\ h.ctrol = 1 /\ isr' = [isr EXCEPT ![m] = Round(h, "ended")]
          \/ /\ h.ctrol # 1 /\ h.at = "tail"
             /\ isr' = [isr EXCEPT ![m] = [h EXCEPT !.at = "tail2",
                                                    !.notify = IF @ = 1 THEN 2 ELSE @]]
          \/ \* a hundred rounds
             /\ h.ctrol # 1 /\ h.at = "tail2"
             /\ isr' = [isr EXCEPT ![m] = Round(h, Result(h))]
  /\ UNCHANGED forsaken

recogniser(m) ==
  /\ (\E ok \in BOOLEAN : isr_restart(m, ok)) \/ msg_handler(m) \/ get_tail_result(m)
  /\ UNCHANGED <<engineVars, media, audioq, h_waits, switches, listens, askVars>>

-------------------------------------------------------------------------------
IsrNext ==
  \/ \E m \in Mic :
       \/ start_voice_service(m) \/ stop_voice_service(m)
       \/ \E c \in Speaker, loop \in BOOLEAN, mode \in Mode : start_isr(m, c, loop, mode)
       \/ stop_isr(m) \/ recogniser(m)
  \/ isr_quit
  \/ \E ok, read \in BOOLEAN : start_isr_write_status(ok, read)

\* The threads go on; nobody has to answer or to speak.
IsrFairness == WF_isrVars(isr_quit) /\ \A m \in Mic : WF_isrVars(recogniser(m))

IsrSpec == IsrInit /\ [][IsrNext]_isrVars /\ IsrFairness

-------------------------------------------------------------------------------
(***************************************************************************)
(* Properties                                                              *)
(***************************************************************************)
\* Until a login fails, the engine is logged in exactly while somebody is registered; and
\* whoever is initialised is registered (robot_global_singleton).
LoginInv ==
  /\ ~login_failed => /\ register_cnt = Cardinality(m_register)
                      /\ logged_in <=> m_register # {}
  /\ isr_init \subseteq m_register /\ (ability => "ability" \in m_register)

\* R runs only for a service that is started, with its sound, and a session is open only
\* while R uses it, unless R gave up.
RunInv ==
  \A m \in Mic :
    /\ Runs(m) => m \in isr_init /\ m \in media
    /\ isr[m].session <=> isr[m].at \in {"handle", "tail", "tail2"} \/ m \in forsaken
    /\ media \subseteq isr_init

\* A recognition that was stopped runs only if the audio module answered an earlier start
\* since.
StoppedInv ==
  \A m \in unwanted : Runs(m) => m \in late \/ (h_waits # Idle /\ h_waits.mic = m)

\* Unless a recognition is started before the one before it was answered for, or for another
\* microphone than the main one, each start is answered once.
StartsInv ==
  ~mixed => \A c \in Speaker :
              owed[c] = IF audioq # <<>> /\ isr[MainMic].message = c THEN 1 ELSE 0

IsrInv == IsrTypeOK /\ LoginInv /\ RunInv /\ StoppedInv /\ StartsInv

\* Stopping a recognition or its service ends, but for a mode that is neither 0 nor 1.
IsrEnds == (h_waits # Idle /\ isr[h_waits.mic].mode # 2) ~> h_waits = Idle
===============================================================================
