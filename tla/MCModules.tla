------------------------------ MODULE MCModules ------------------------------
(***************************************************************************)
(* The modules of the service that share no state in the models: each      *)
(* behaviour of this specification is one of a single module; part says of *)
(* which.                                                                  *)
(***************************************************************************)
EXTENDS IcReader, IdReader, FaceDetect, Tts, SoundPlayer

VARIABLE part

MCInit ==
  /\ part \in {"ic", "id", "face", "tts", "player"}
  /\ IcInit /\ IdInit /\ FaceInit /\ TtsInit /\ PlayerInit
  /\ part # "id" => reader = "id"
  /\ part # "face" => cameras = {"vis"} /\ ~face_status

\* The variables of a part that moves change, those of the others do not.
Only(p, next, vars) == IF part = p THEN next ELSE UNCHANGED vars

MCNext ==
  /\ UNCHANGED part
  /\ Only("ic", IcNext, icVars)
  /\ Only("id", IdNext, idVars)
  /\ Only("face", FaceNext, faceVars)
  /\ Only("tts", TtsNext, ttsVars)
  /\ Only("player", PlayerNext, playerVars)

\* IcFairness, FaceFairness, TtsFairness and PlayerFairness, each where its part moves.
MCFairness ==
  /\ WF_icVars(part = "ic" /\ ic_turns)
  /\ WF_faceVars(part = "face" /\ \E ok \in BOOLEAN : order_taken(ok))
  /\ SF_faceVars(part = "face" /\ face_handler_goes_on)
  /\ WF_faceVars(part = "face" /\ face_run_changes)
  /\ WF_faceVars(part = "face" /\ face_turn(TRUE, TRUE))
  /\ WF_ttsVars(part = "tts" /\ T_next) /\ SF_ttsVars(part = "tts" /\ engine_ends)
  /\ WF_playerVars(part = "player" /\ P_next) /\ WF_playerVars(part = "player" /\ OnBufferEnd)

MCSpec ==
  /\ MCInit
  /\ [][MCNext]_<<part, icVars, idVars, faceVars, ttsVars, playerVars>>
  /\ MCFairness

\* The readers of bank cards and of identity cards and the detection of faces answer each
\* request once, and hold their device or their cameras exactly where the code takes them
\* to (CardReaderInv, IdReaderInv, FaceDetectInv).
ReadersInv == CardReaderInv /\ IdReaderInv /\ FaceDetectInv

\* A text is on one channel or waits for one, and a client is told only of sounds that
\* were played to their end (TtsInv, PlayerInv).
SpeechInv == TtsInv /\ PlayerInv

\* A card that is not kept is given back, and a client of the face detection is answered
\* (CardReturned, FaceEnds).
ReadersEnd == CardReturned /\ FaceEnds

\* A text begun ends, and a sound stopped or played out is reported (TextEnds, PlayerEnds).
SpeechEnds == TextEnds /\ PlayerEnds
===============================================================================
