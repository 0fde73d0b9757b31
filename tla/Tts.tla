---------------------------------- MODULE Tts ----------------------------------
(***************************************************************************)
(* Speech synthesis (robot_voice_tts): requests of the clients arrive on   *)
(* the thread of the module (H), and a thread of its own (T) has them      *)
(* synthesised and passes the sound to the player of their channel.  One   *)
(* channel speaks at a time; requests on the others wait in a list.        *)
(*                                                                         *)
(* Of a player only the status matters here (SoundPlayer has the rest).    *)
(* The text that T works on is its task; m_tts_context is empty or not.    *)
(***************************************************************************)
EXTENDS Integers, Sequences, FiniteSets

CONSTANTS
  Channel,     \* channels; 0 has a player from the start
  MaxSpeak,    \* bound: texts
  MaxSilence,  \* bound: cancellations
  MaxService   \* bound: times the service is stopped

ASSUME TtsAssumption ==
  Channel \subseteq Nat /\ 0 \in Channel /\ {MaxSpeak, MaxSilence, MaxService} \subseteq Nat

NoChannel == -1

VARIABLES
  m_player,          \* channel -> status of its player, "none" before the first text
  m_newmessage,      \* the text T is to take, in a sequence of at most one
  m_channel_list,    \* texts of the other channels
  m_active_channel,
  m_init,            \* the service was started
  h_at,              \* H: "free", or inside Cancel ("discarded", "cleaning") or UnInit ("quits")
  h_channel,         \* the channel of that Cancel
  t_at,              \* T: "ended", or where it is in its loop
  task,              \* the text T has taken
  m_tts_context,     \* TRUE: not empty
  request_state,     \* the engine has accepted the text
  fate,              \* of each text
  undefined,         \* m_channel_list was changed by two threads at once
  silences, stops

ttsVars == <<m_player, m_newmessage, m_channel_list, m_active_channel, m_init, h_at, h_channel,
             t_at, task, m_tts_context, request_state, fate, undefined, silences, stops>>

TextId == 1..MaxSpeak
Text == [id : TextId, channels : Channel, empty : BOOLEAN]
NoTask == [id |-> 0, channels |-> NoChannel, empty |-> TRUE]

Fate == {"waits", "taken", "spoken", "cut", "replaced", "failed"}

TtsTypeOK ==
  /\ m_player \in [Channel -> {"none", "reset", "stop", "wait_data", "wait_finish"}]
  /\ m_newmessage \in Seq(Text) /\ m_channel_list \in Seq(Text)
  /\ m_active_channel \in Channel \cup {NoChannel}
  /\ m_init \in BOOLEAN /\ m_tts_context \in BOOLEAN
  /\ request_state \in BOOLEAN /\ undefined \in BOOLEAN
  /\ h_at \in {"free", "discarded", "cleaning", "quits"} /\ h_channel \in Channel \cup {NoChannel}
  /\ t_at \in {"ended", "wait", "check", "request", "check_again", "data", "done", "remain"}
  /\ task \in Text \cup {NoTask}
  /\ fate \in Seq(Fate) /\ Len(fate) <= MaxSpeak

TtsInit ==
  /\ m_player = [c \in Channel |-> IF c = 0 THEN "reset" ELSE "none"]
  /\ m_newmessage = <<>> /\ m_channel_list = <<>> /\ m_active_channel = NoChannel
  /\ m_init = FALSE /\ h_at = "free" /\ h_channel = NoChannel
  /\ t_at = "ended" /\ task = NoTask /\ m_tts_context = FALSE /\ request_state = FALSE
  /\ fate = <<>> /\ undefined = FALSE /\ silences = 0 /\ stops = 0

H == h_at = "free" /\ ~undefined

\* start_voice_service, when the engine starts (otherwise nothing changes).
Init_service ==
  /\ H /\ ~m_init /\ m_init' = TRUE
  /\ UNCHANGED <<m_player, m_newmessage, m_channel_list, m_active_channel, h_at, h_channel, t_at,
                 task, m_tts_context, request_state, fate, undefined, silences, stops>>

Fates(ids, f) == [i \in DOMAIN fate |-> IF i \in ids THEN f ELSE fate[i]]
IdsOf(texts) == {texts[i].id : i \in DOMAIN texts}

\* clean_old_ttsmessage: the one sequence of the other channels' texts in their order.
Without(list, c) ==
  LET kept == {i \in DOMAIN list : list[i].channels # c}
  IN {[k \in DOMAIN f |-> list[f[k]]] : f \in {g \in [1..Cardinality(kept) -> kept] :
                                              \A k, l \in DOMAIN g : k < l => g[k] < g[l]}}
OfChannel(c) == {m_channel_list[i].id : i \in {j \in DOMAIN m_channel_list : m_channel_list[j].channels = c}}

\* T is started by the first text and lives until UnInit.
started_T ==
  IF t_at = "ended" THEN t_at' = "wait" /\ task' = NoTask /\ request_state' = FALSE
  ELSE UNCHANGED <<t_at, task, request_state>>

\* StartTTS on the active channel, or when there is none: what is spoken is cut short,
\* and what T has not taken is replaced.
StartTTS_now(m) ==
  /\ m_active_channel \in {m.channels, NoChannel}
  /\ m_player' = [m_player EXCEPT ![m.channels] = "reset"]
  /\ m_active_channel' = m.channels
  /\ m_newmessage' = <<m>>
  /\ fate' = Append(Fates(IdsOf(m_newmessage), "replaced"), "waits")
  /\ UNCHANGED m_channel_list

\* Otherwise it waits, in the place of an older text of its channel.
StartTTS_waits(m) ==
  /\ m_active_channel \notin {m.channels, NoChannel}
  /\ m_player' = [m_player EXCEPT ![m.channels] = IF @ = "none" THEN "reset" ELSE @]
  /\ \E rest \in Without(m_channel_list, m.channels) : m_channel_list' = Append(rest, m)
  /\ fate' = Append(Fates(OfChannel(m.channels), "replaced"), "waits")
  /\ UNCHANGED <<m_newmessage, m_active_channel>>

StartTTS(c, empty) ==
  /\ H /\ m_init /\ Len(fate) < MaxSpeak
  /\ LET m == [id |-> Len(fate) + 1, channels |-> c, empty |-> empty]
     IN StartTTS_now(m) \/ StartTTS_waits(m)
  /\ started_T
  /\ UNCHANGED <<m_init, h_at, h_channel, m_tts_context, undefined, silences, stops>>

\* Cancel discards what the player has (the player may be T's at that moment) ...
Cancel_discards(c) ==
  /\ H /\ m_player[c] # "none" /\ silences < MaxSilence
  /\ m_player' = [m_player EXCEPT ![c] = "stop"]
  /\ h_at' = "discarded" /\ h_channel' = c /\ silences' = silences + 1
  /\ UNCHANGED <<m_newmessage, m_channel_list, m_active_channel, m_init, t_at, task,
                 m_tts_context, request_state, fate, undefined, stops>>

\* ... and goes through the list, without the lock.
Cancel_begins ==
  /\ h_at = "discarded" /\ ~undefined
  /\ h_at' = "cleaning"
  /\ UNCHANGED <<m_player, m_newmessage, m_channel_list, m_active_channel, m_init, h_channel, t_at,
                 task, m_tts_context, request_state, fate, undefined, silences, stops>>

Cancel_cleans ==
  /\ h_at = "cleaning" /\ ~undefined
  /\ m_channel_list' \in Without(m_channel_list, h_channel)
  /\ fate' = Fates(OfChannel(h_channel), "cut")
  /\ h_at' = "free" /\ h_channel' = NoChannel
  /\ UNCHANGED <<m_player, m_newmessage, m_active_channel, m_init, t_at, task, m_tts_context,
                 request_state, undefined, silences, stops>>

\* stop_voice_service.  UnInit waits for T; the list, the new message and the active
\* channel stay as they are.
UnInit_quits ==
  /\ H /\ m_init /\ stops < MaxService
  /\ stops' = stops + 1
  /\ h_at' = "quits"
  /\ UNCHANGED <<m_player, m_newmessage, m_channel_list, m_active_channel, m_init, h_channel, t_at,
                 task, m_tts_context, request_state, fate, undefined, silences>>

UnInit_returns ==
  /\ h_at = "quits" /\ t_at = "ended"
  /\ h_at' = "free" /\ m_init' = FALSE
  /\ UNCHANGED <<m_player, m_newmessage, m_channel_list, m_active_channel, h_channel, t_at, task,
                 m_tts_context, request_state, fate, undefined, silences, stops>>

---------------------------------------------------------------------------------
At(p) == t_at = p /\ ~undefined
T_leaves == <<m_channel_list, m_active_channel, m_init, h_at, h_channel, undefined, silences, stops>>

\* _EXIT_THREAD_: the text is dropped and every player discarded.
T_exit ==
  /\ At("wait") /\ h_at = "quits"
  /\ t_at' = "ended" /\ m_tts_context' = FALSE
  /\ m_player' = [c \in Channel |-> IF m_player[c] = "none" THEN "none" ELSE "stop"]
  /\ fate' = IF m_tts_context THEN Fates({task.id}, "cut") ELSE fate
  /\ UNCHANGED <<m_newmessage, task, request_state>> /\ UNCHANGED T_leaves

\* A new message ends the work on the old one.  work() fails on a player that was
\* discarded since: the text is dropped, and its channel stays the active one.
T_takes ==
  /\ At("wait") /\ m_newmessage # <<>>
  /\ LET m == m_newmessage[1]
         canwork == m_player[m.channels] # "stop"
     IN /\ task' = m
        /\ m_newmessage' = <<>>
        /\ m_tts_context' = (canwork /\ ~m.empty)
        /\ IF canwork
           THEN /\ m_player' = [m_player EXCEPT ![m.channels] = "wait_data"]
                /\ request_state' = FALSE
           ELSE UNCHANGED <<m_player, request_state>>
        /\ t_at' = IF m_tts_context' THEN "check" ELSE "wait"
        /\ fate' = [Fates(IF m_tts_context THEN {task.id} ELSE {}, "cut")
                      EXCEPT ![m.id] = IF m_tts_context' THEN "taken" ELSE "cut"]
  /\ UNCHANGED T_leaves

T_waited ==
  /\ At("wait") /\ m_newmessage = <<>> /\ m_tts_context
  /\ t_at' = "check"
  /\ UNCHANGED <<m_player, m_newmessage, task, m_tts_context, request_state, fate>>
  /\ UNCHANGED T_leaves

isStop == m_player[task.channels] \in {"stop", "reset"}

Ends(f) ==
  /\ m_tts_context' = FALSE /\ request_state' = FALSE
  /\ fate' = Fates({task.id}, f) /\ t_at' = "remain"

\* check_stop, before the request and after it.
T_check_stop(p, next) ==
  /\ At(p)
  /\ IF isStop THEN Ends("cut")
     ELSE t_at' = next /\ UNCHANGED <<m_tts_context, request_state, fate>>
  /\ UNCHANGED <<m_player, m_newmessage, task>> /\ UNCHANGED T_leaves

\* RequestTTS: an error is tried again for a second.
T_request ==
  /\ At("request")
  /\ \/ request_state' = TRUE /\ t_at' = "check_again" /\ UNCHANGED <<m_tts_context, fate>>
     \/ ~request_state /\ t_at' = "check_again" /\ UNCHANGED <<m_tts_context, request_state, fate>>
     \/ ~request_state /\ Ends("failed")
  /\ UNCHANGED <<m_player, m_newmessage, task>> /\ UNCHANGED T_leaves

\* GetVoiceData: nothing yet, an error, or sound that push_data takes or refuses
\* because the player was discarded; the last piece may be empty.
T_data ==
  /\ At("data")
  /\ \/ t_at' = "wait" /\ UNCHANGED <<m_tts_context, request_state, fate>>
     \/ request_state /\ Ends("failed")
     \/ request_state /\ m_player[task.channels] # "wait_data" /\ Ends("cut")
     \/ /\ request_state
        /\ t_at' = "done" /\ UNCHANGED <<m_tts_context, request_state, fate>>
  /\ UNCHANGED <<m_player, m_newmessage, task>> /\ UNCHANGED T_leaves

\* done and end_request: a player that was discarded stays so.
T_done ==
  /\ At("done")
  /\ m_player' = [m_player EXCEPT ![task.channels] = IF @ = "stop" THEN @ ELSE "wait_finish"]
  /\ Ends(IF m_player[task.channels] = "wait_data" THEN "spoken" ELSE "cut")
  /\ UNCHANGED <<m_newmessage, task>> /\ UNCHANGED T_leaves

\* Mutant: the active channel is given up although texts wait.
handle_remain_task_frees ==
  /\ At("remain")
  /\ t_at' = "wait"
  /\ IF m_newmessage # <<>> THEN UNCHANGED m_active_channel ELSE m_active_channel' = NoChannel
  /\ UNCHANGED <<m_newmessage, m_channel_list, undefined, m_player, m_init, h_at, h_channel, task,
                 m_tts_context, request_state, fate, silences, stops>>

\* handle_remain_task: the first text of the list is next.  Erasing it while Cancel
\* goes through the list is a data race.
handle_remain_task ==
  /\ At("remain")
  /\ t_at' = "wait"
  /\ IF m_newmessage # <<>> THEN UNCHANGED <<m_newmessage, m_channel_list, m_active_channel, undefined>>
     ELSE IF m_channel_list = <<>>
     THEN m_active_channel' = NoChannel /\ UNCHANGED <<m_newmessage, m_channel_list, undefined>>
     ELSE /\ m_active_channel' = Head(m_channel_list).channels
          /\ m_newmessage' = <<Head(m_channel_list)>>
          /\ m_channel_list' = Tail(m_channel_list)
          /\ undefined' = (h_at = "cleaning")
  /\ UNCHANGED <<m_player, m_init, h_at, h_channel, task, m_tts_context, request_state, fate,
                 silences, stops>>

T_next ==
  \/ T_exit \/ T_takes \/ T_waited
  \/ T_check_stop("check", "request") \/ T_request \/ T_check_stop("check_again", "data")
  \/ T_data \/ T_done \/ handle_remain_task

H_goes_on == Cancel_begins \/ Cancel_cleans \/ UnInit_returns

TtsNext ==
  \/ Init_service \/ UnInit_quits \/ H_goes_on \/ T_next
  \/ \E c \in Channel, empty \in BOOLEAN : StartTTS(c, empty)
  \/ \E c \in Channel : Cancel_discards(c)

TtsSpec == TtsInit /\ [][TtsNext]_ttsVars

\* One text waits per channel, and none of the active one; without an active channel
\* nobody waits and T has nothing to do.
OneTextPerChannel ==
  /\ \A i, j \in DOMAIN m_channel_list :
       m_channel_list[i].channels = m_channel_list[j].channels => i = j
  /\ \A i \in DOMAIN m_channel_list : m_channel_list[i].channels # m_active_channel
  /\ m_active_channel = NoChannel => m_channel_list = <<>> /\ m_newmessage = <<>> /\ ~m_tts_context

\* T speaks on the active channel only.
SpeaksOnActive ==
  /\ m_tts_context => task.channels = m_active_channel
  /\ m_newmessage # <<>> => m_newmessage[1].channels = m_active_channel

\* No text is lost: one that waits is the new message or in the list, one that was taken
\* is T's, and any other one has ended in one way or another.
EveryTextAccounted ==
  \A i \in DOMAIN fate :
    /\ fate[i] = "waits" <=> i \in IdsOf(m_newmessage) \cup IdsOf(m_channel_list)
    /\ fate[i] = "taken" <=> m_tts_context /\ task.id = i

\* The channel is taken although nothing is spoken: the others wait until it speaks again.
Blocked ==
  t_at \in {"wait", "ended"} /\ ~m_tts_context /\ m_newmessage = <<>> /\ m_active_channel # NoChannel

\* That happens after a cancellation, after a text without words, or when the service
\* was stopped while a text was spoken, and in no other way.
BlockedForReason ==
  Blocked => m_player[m_active_channel] = "stop" \/ (task.channels = m_active_channel /\ task.empty)

TtsInv ==
  TtsTypeOK
  /\ (~undefined => OneTextPerChannel /\ SpeaksOnActive /\ EveryTextAccounted /\ BlockedForReason)

\* T runs on, and the engine, asked again and again, comes to the end of a text or to
\* an error.
engine_ends == (T_request \/ T_data) /\ t_at' \in {"done", "remain"}

TtsFairness == WF_ttsVars(T_next) /\ SF_ttsVars(engine_ends)

\* A text that waits is spoken, cut, replaced or given up, unless its turn never comes
\* because the active channel is blocked or T has been stopped.
NoneWaits == \A i \in DOMAIN fate : fate[i] # "waits"

TextEnds == []<>(NoneWaits \/ Blocked \/ undefined \/ t_at = "ended")
===============================================================================
