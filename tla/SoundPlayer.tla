------------------------------ MODULE SoundPlayer ------------------------------
(***************************************************************************)
(* The player of one channel: player_warp, which speech synthesis uses, and*)
(* D3DSoundout, a thread of its own in front of the audio device.          *)
(*   H  the thread of the module: starts and cancels texts, and pauses     *)
(*   T  the thread of the synthesis: passes the sound of a text on         *)
(*   P  the thread of the player: one message of its queue after the other *)
(*   X  the audio device: reports the end of every buffer                  *)
(* H waits inside stop, with buffer_ml locked, and inside pause and resume *)
(* until P has handled the message; the sections that T and P lock are     *)
(* single steps, as are those of m_statelock.                              *)
(***************************************************************************)
EXTENDS Naturals, Sequences, SequencesExt

CONSTANTS
  MAX_BUFFER_COUNT,  \* buffers of the device; 8 in the code
  MaxSpoken,         \* bound: texts
  MaxPieces,         \* bound: pieces of sound of a text
  MaxCancelled,      \* bound: cancellations
  MaxPauses          \* bound: calls of pause and resume

ASSUME PlayerAssumption ==
  MAX_BUFFER_COUNT \in Nat \ {0} /\ {MaxSpoken, MaxPieces, MaxCancelled, MaxPauses} \subseteq Nat

VARIABLES
  isstop,          \* status of player_warp
  text_,           \* _text: the text, or 0
  isAlreadyReset,
  m_cur_state,     \* of the player
  m_all_finish,
  late_end,        \* all sound had been played when P learnt that it was all
  m_media_cache,   \* pieces not passed to the device
  BuffersQueued,   \* pieces in the device
  pq,              \* the queue of P
  p_at,            \* P: "getq", "ends" (isendsound), "notifies" (onFinsih)
  p_stop,          \* the end that P is about came from stop
  h_doing,         \* H: "free", "stopping", "stopped", "pausing"
  h_starts,        \* H: clear and a new text follow stop
  t_text,          \* the text T passes on, or 0
  t_pieces,        \* its pieces so far
  next_text,       \* the text started for T to take, or 0
  texts,           \* texts started
  synthesised,     \* texts whose end T has announced with done
  discarded,       \* texts that were cut short
  told,            \* texts the client was told to be read over
  cancels, pauses

playerVars == <<isstop, text_, isAlreadyReset, m_cur_state, m_all_finish, late_end,
                m_media_cache, BuffersQueued, pq, p_at, p_stop, h_doing, h_starts, t_text, t_pieces, next_text,
                texts, synthesised, discarded, told, cancels, pauses>>

warp == <<isstop, text_, isAlreadyReset>>
sound == <<m_cur_state, m_all_finish, late_end, m_media_cache, BuffersQueued>>
P_ == <<p_at, p_stop>>
H_ == <<h_doing, h_starts>>
T_ == <<t_text, t_pieces>>
ghosts == <<synthesised, discarded, told>>
bounds == <<texts, cancels, pauses>>

TextNo == 0..MaxSpoken
PlayerTypeOK ==
  /\ isstop \in {"reset", "stop", "wait_data", "wait_finish"}
  /\ text_ \in TextNo /\ t_text \in TextNo /\ next_text \in TextNo /\ texts \in TextNo
  /\ isAlreadyReset \in BOOLEAN /\ m_all_finish \in BOOLEAN /\ late_end \in BOOLEAN
  /\ p_stop \in BOOLEAN /\ h_starts \in BOOLEAN
  /\ m_cur_state \in {"ide", "ready", "playing", "pause"}
  /\ m_media_cache \in Nat /\ BuffersQueued \in 0..(MAX_BUFFER_COUNT - 1)
  /\ pq \in Seq({"data", "over", "data_over", "stop", "pause", "resume"})
  /\ p_at \in {"getq", "ends", "notifies"}
  /\ h_doing \in {"free", "stopping", "stopped", "pausing"}
  /\ synthesised \subseteq TextNo \ {0} /\ discarded \subseteq TextNo \ {0}
  /\ told \subseteq TextNo \ {0}

PlayerInit ==
  /\ isstop = "reset" /\ text_ = 0 /\ isAlreadyReset = FALSE
  /\ m_cur_state = "ide" /\ m_all_finish = FALSE /\ late_end = FALSE
  /\ m_media_cache = 0 /\ BuffersQueued = 0
  /\ pq = <<>> /\ p_at = "getq" /\ p_stop = FALSE
  /\ h_doing = "free" /\ h_starts = FALSE
  /\ t_text = 0 /\ t_pieces = 0 /\ next_text = 0 /\ texts = 0
  /\ synthesised = {} /\ discarded = {} /\ told = {}
  /\ cancels = 0 /\ pauses = 0

buffer_ml_free == h_doing # "stopping"

---------------------------------------------------------------------------------
\* discard, with isfinsh, up to the wait in stop.
discard(starts) ==
  /\ h_starts' = starts
  /\ IF isstop = "stop"
     THEN h_doing' = "stopped" /\ UNCHANGED <<warp, pq, discarded>>
     ELSE /\ isstop' = "stop" /\ isAlreadyReset' = FALSE /\ UNCHANGED text_
          /\ discarded' = discarded \cup ({text_} \ (told \cup {0}))
          /\ IF m_cur_state = "ide" THEN h_doing' = "stopped" /\ UNCHANGED pq
             ELSE h_doing' = "stopping" /\ pq' = Append(pq, "stop")

\* StartTTS, when the channel is the active one or none is.
StartTTS_player ==
  /\ h_doing = "free" /\ texts < MaxSpoken
  /\ discard(TRUE)
  /\ UNCHANGED <<sound, P_, T_, next_text, synthesised, told, bounds>>

Cancel_player ==
  /\ h_doing = "free" /\ cancels < MaxCancelled /\ cancels' = cancels + 1
  /\ discard(FALSE)
  /\ UNCHANGED <<sound, P_, T_, next_text, synthesised, told, texts, pauses>>

\* After discard: Cancel returns; StartTTS goes on with clear and the text for T.
H_stopped ==
  /\ h_doing = "stopped" /\ h_doing' = "free" /\ h_starts' = FALSE
  /\ IF h_starts
     THEN /\ isstop' = "reset" /\ isAlreadyReset' = FALSE /\ text_' = 0
          /\ texts' = texts + 1 /\ next_text' = texts + 1
     ELSE UNCHANGED <<warp, texts, next_text>>
  /\ UNCHANGED <<sound, pq, P_, T_, ghosts, cancels, pauses>>

\* pause and resume wait for P without a lock.
H_pauses(m) ==
  /\ h_doing = "free" /\ pauses < MaxPauses /\ pauses' = pauses + 1
  /\ h_doing' = "pausing" /\ pq' = Append(pq, m)
  /\ UNCHANGED <<warp, sound, P_, h_starts, T_, next_text, ghosts, texts, cancels>>

---------------------------------------------------------------------------------
\* setText and work (not inside StartTTS, which locks m_currentchannels): of the text
\* that was started, or of one from the list of waiting texts, for which nothing is
\* cleared.
T_works(m) ==
  /\ buffer_ml_free /\ ~h_starts /\ text_' = m
  /\ IF isstop = "stop" THEN t_text' = 0 /\ UNCHANGED isstop
     ELSE isstop' = "wait_data" /\ t_text' = m
  /\ t_pieces' = 0
  /\ UNCHANGED <<isAlreadyReset, sound, pq, P_, H_, ghosts, cancels, pauses>>

T_takes_text ==
  /\ next_text # 0 /\ next_text' = 0 /\ UNCHANGED texts
  /\ T_works(next_text)

T_takes_waiting ==
  /\ next_text = 0 /\ t_text = 0 /\ texts < MaxSpoken
  /\ texts' = texts + 1 /\ UNCHANGED next_text
  /\ T_works(texts + 1)

\* push_data: refused unless the player waits for it.
push_data ==
  /\ t_text # 0 /\ buffer_ml_free /\ t_pieces < MaxPieces
  /\ IF isstop # "wait_data" THEN t_text' = 0 /\ UNCHANGED <<warp, sound, pq, t_pieces>>
     ELSE /\ m_cur_state' = IF ~isAlreadyReset /\ m_cur_state = "ide" THEN "ready" ELSE m_cur_state
          /\ isAlreadyReset' = TRUE
          /\ m_media_cache' = m_media_cache + 1 /\ pq' = Append(pq, "data")
          /\ t_pieces' = t_pieces + 1
          /\ UNCHANGED <<isstop, text_, m_all_finish, late_end, BuffersQueued, t_text>>
  /\ UNCHANGED <<P_, H_, next_text, ghosts, bounds>>

done ==
  /\ t_text # 0 /\ buffer_ml_free
  /\ t_text' = 0
  /\ IF isstop = "stop" THEN UNCHANGED <<isstop, pq, synthesised>>
     ELSE /\ isstop' = "wait_finish" /\ pq' = Append(pq, "data_over")
          /\ synthesised' = IF isstop = "wait_data" THEN synthesised \cup {t_text} ELSE synthesised
  /\ UNCHANGED <<text_, isAlreadyReset, sound, P_, H_, t_pieces, next_text, discarded, told, bounds>>

---------------------------------------------------------------------------------
Full == MAX_BUFFER_COUNT - 1

\* TrySubmitAudioData: until the device is full (-2) or nothing is left (0).
Submitted == LET room == Full - BuffersQueued IN IF m_media_cache < room THEN m_media_cache ELSE room
TrySubmitAudioData ==
  /\ m_media_cache' = m_media_cache - Submitted
  /\ BuffersQueued' = BuffersQueued + Submitted

Silent == BuffersQueued = 0 /\ m_media_cache = 0

P_takes(m) == p_at = "getq" /\ pq # <<>> /\ Head(pq) = m /\ pq' = Tail(pq)

P_data ==
  /\ P_takes("data")
  /\ m_cur_state' = IF m_cur_state = "ready" THEN "playing" ELSE m_cur_state
  /\ m_all_finish' = IF m_cur_state = "ready" THEN FALSE ELSE m_all_finish
  /\ IF m_cur_state = "ide" THEN UNCHANGED <<m_media_cache, BuffersQueued>> ELSE TrySubmitAudioData
  /\ UNCHANGED <<warp, late_end, P_, H_, T_, next_text, ghosts, bounds>>

\* The end is recognised here only.
P_over ==
  /\ P_takes("over")
  /\ IF m_cur_state = "ide" THEN UNCHANGED <<m_media_cache, BuffersQueued, p_at>>
     ELSE /\ TrySubmitAudioData
          /\ p_at' = IF m_all_finish /\ BuffersQueued' = 0 THEN "ends" ELSE "getq"
  /\ p_stop' = FALSE
  /\ UNCHANGED <<warp, m_cur_state, m_all_finish, late_end, H_, T_, next_text, ghosts, bounds>>

P_data_over ==
  /\ P_takes("data_over") /\ m_all_finish' = TRUE
  /\ late_end' = (Silent /\ \A i \in DOMAIN pq : pq[i] # "over")
  /\ UNCHANGED <<warp, m_cur_state, m_media_cache, BuffersQueued, P_, H_, T_, next_text, ghosts, bounds>>

P_stop ==
  /\ P_takes("stop") /\ p_at' = "ends" /\ p_stop' = TRUE
  /\ UNCHANGED <<warp, sound, H_, T_, next_text, ghosts, bounds>>

P_pause ==
  /\ \/ P_takes("pause") /\ m_cur_state' = IF m_cur_state = "playing" THEN "pause" ELSE m_cur_state
     \/ P_takes("resume") /\ m_cur_state' = IF m_cur_state = "pause" THEN "playing" ELSE m_cur_state
  /\ h_doing' = "free"
  /\ UNCHANGED <<warp, m_all_finish, late_end, m_media_cache, BuffersQueued, P_, h_starts, T_, next_text,
                 ghosts, bounds>>

\* The end: the buffers are flushed (their ends may still be reported), and H or the
\* client is told.
P_ends ==
  /\ p_at = "ends"
  /\ m_cur_state' = "ide" /\ m_media_cache' = 0 /\ m_all_finish' = FALSE /\ late_end' = FALSE
  /\ BuffersQueued' = 0
  /\ \E late \in 0..BuffersQueued : pq' = pq \o [i \in 1..late |-> "over"]
  /\ IF p_stop THEN h_doing' = "stopped" /\ p_at' = "getq"
     ELSE p_at' = "notifies" /\ UNCHANGED h_doing
  /\ UNCHANGED <<warp, p_stop, h_starts, T_, next_text, ghosts, bounds>>

\* Mutant: the client is told whatever became of the text since.
onFinsih_unchecked ==
  /\ p_at = "notifies" /\ buffer_ml_free /\ p_at' = "getq"
  /\ told' = IF text_ # 0 THEN told \cup {text_} ELSE told
  /\ UNCHANGED <<warp, sound, pq, p_stop, H_, T_, next_text, synthesised, discarded, bounds>>

onFinsih ==
  /\ p_at = "notifies" /\ buffer_ml_free /\ p_at' = "getq"
  /\ told' = IF isstop = "wait_finish" /\ text_ # 0 THEN told \cup {text_} ELSE told
  /\ UNCHANGED <<warp, sound, pq, p_stop, H_, T_, next_text, synthesised, discarded, bounds>>

OnBufferEnd ==
  /\ m_cur_state = "playing" /\ BuffersQueued > 0
  /\ BuffersQueued' = BuffersQueued - 1 /\ pq' = Append(pq, "over")
  /\ UNCHANGED <<warp, m_cur_state, m_all_finish, late_end, m_media_cache, P_, H_, T_, next_text,
                 ghosts, bounds>>

P_next == P_data \/ P_over \/ P_data_over \/ P_stop \/ P_pause \/ P_ends \/ onFinsih

PlayerNext ==
  \/ StartTTS_player \/ Cancel_player \/ H_stopped \/ H_pauses("pause") \/ H_pauses("resume")
  \/ T_takes_text \/ T_takes_waiting \/ push_data \/ done
  \/ P_next \/ OnBufferEnd

PlayerSpec == PlayerInit /\ [][PlayerNext]_playerVars

\* A client is told that a text was read over only if all its sound had been handed to
\* the player, and never of a text that was cut short before (player_warp::onFinsih
\* runs after the end was recognised, with other texts begun and cancelled since).
ReadOverIsTrue ==
  told \subseteq synthesised /\ told \cap discarded = {}

\* H and P wait for each other: H for the end of stop with buffer_ml locked, P for
\* buffer_ml to tell the client of an end it recognised just before.
Deadlocked == h_doing = "stopping" /\ p_at = "notifies"

\* The last buffer ended before it was announced that all sound had come.
Stalled ==
  m_cur_state = "playing" /\ m_all_finish /\ late_end /\ Silent

PlayerInv == PlayerTypeOK /\ ReadOverIsTrue

\* P runs on, and the device plays what it has.
PlayerFairness == WF_playerVars(P_next) /\ WF_playerVars(OnBufferEnd)

\* H returns from stop, and a sound that is played ends, unless it is paused or stalls,
\* or H and P wait for each other.
PlayerEnds ==
  /\ h_doing = "stopping" ~> h_doing # "stopping" \/ Deadlocked
  /\ m_cur_state = "playing" /\ isstop = "wait_finish" ~>
       m_cur_state # "playing" \/ isstop # "wait_finish" \/ Stalled \/ Deadlocked
===============================================================================
