------------------------------- MODULE MediaRing -------------------------------
(***************************************************************************)
(* The sound on its way to the recognition (robot_voice_isr_interface): a  *)
(* ring of pieces, written by the thread that reads the stream of the      *)
(* microphone (robot_media_publish) and read by the thread of the          *)
(* recognition.  The first goes on while the second comes and goes.  A     *)
(* piece is its number.  The writer looks neither for room nor for the     *)
(* reader.                                                                 *)
(***************************************************************************)
EXTENDS Integers

CONSTANTS
  CacheSize,  \* pieces in the ring (50 in the code)
  MaxMedia    \* bound: pieces recorded

ASSUME RingAssumption == CacheSize \in Nat \ {0, 1} /\ MaxMedia \in Nat

VARIABLES
  m_media_cache, m_media_inindex, m_media_outindex,
  publisher,  \* the writer: "off", "begins" (its thread is started) or "on"
  listener,   \* the reader: "off", "waits" or "holds" a copy of the piece in front
  hand,       \* that piece
  stamp,      \* the last piece recorded
  last,       \* the last piece that was done
  unread,     \* pieces recorded and not done since the ring was last emptied or read out
  skewed      \* the ring was emptied while the reader held a piece, and it still reads
              \* what was there before

ringVars == <<m_media_cache, m_media_inindex, m_media_outindex, publisher, listener, hand,
              stamp, last, unread, skewed>>

Index == 0 .. CacheSize - 1

RingTypeOK ==
  /\ m_media_cache \in [Index -> Nat]
  /\ m_media_inindex \in Index /\ m_media_outindex \in Index
  /\ publisher \in {"off", "begins", "on"} /\ listener \in {"off", "waits", "holds"}
  /\ hand \in Nat /\ stamp \in Nat /\ last \in Nat /\ unread \in Int /\ skewed \in BOOLEAN

RingInit ==
  /\ m_media_cache = [i \in Index |-> 0] /\ m_media_inindex = 0 /\ m_media_outindex = 0
  /\ publisher = "off" /\ listener = "off"
  /\ hand = 0 /\ stamp = 0 /\ last = 0 /\ unread = 0 /\ skewed = FALSE

\* The index after i.
After(i) == IF i + 1 >= CacheSize THEN 0 ELSE i + 1

\* StartISR_Rec: the writer is started if it does not run, and then the reader.
StartISR_Rec ==
  /\ listener = "off"
  /\ listener' = "waits"
  /\ publisher' = IF publisher = "off" THEN "begins" ELSE publisher
  /\ UNCHANGED <<m_media_cache, m_media_inindex, m_media_outindex, hand, stamp, last, unread,
                 skewed>>

\* The writer begins: inFlush.
inFlush ==
  /\ publisher = "begins"
  /\ publisher' = "on"
  /\ m_media_inindex' = 0 /\ m_media_outindex' = 0
  /\ unread' = 0
  /\ skewed' = (listener = "holds")
  /\ UNCHANGED <<m_media_cache, listener, hand, stamp, last>>

\* inData, for the next piece.
inData ==
  /\ publisher = "on" /\ stamp < MaxMedia
  /\ stamp' = stamp + 1
  /\ m_media_cache' = [m_media_cache EXCEPT ![m_media_inindex] = stamp + 1]
  /\ m_media_inindex' = After(m_media_inindex)
  /\ unread' = unread + 1
  /\ UNCHANGED <<m_media_outindex, publisher, listener, hand, last, skewed>>

\* getCacheMedia, if the ring does not look empty.
getHeadMedia ==
  /\ listener = "waits" /\ m_media_inindex # m_media_outindex
  /\ listener' = "holds"
  /\ hand' = m_media_cache[m_media_outindex]
  /\ UNCHANGED <<m_media_cache, m_media_inindex, m_media_outindex, publisher, stamp, last,
                 unread, skewed>>

\* The piece was passed to the engine, or is too old.
Mediadone ==
  /\ listener = "holds"
  /\ listener' = "waits"
  /\ last' = hand
  /\ m_media_outindex' = After(m_media_outindex)
  /\ skewed' = (skewed /\ m_media_outindex' # m_media_inindex)
  /\ unread' = IF skewed /\ ~skewed' THEN 0 ELSE unread - 1
  /\ UNCHANGED <<m_media_cache, m_media_inindex, publisher, hand, stamp>>

\* The engine did not take it: it stays in front.
not_written ==
  /\ listener = "holds"
  /\ listener' = "waits"
  /\ UNCHANGED <<m_media_cache, m_media_inindex, m_media_outindex, publisher, hand, stamp,
                 last, unread, skewed>>

\* The recognition ends; and, after it, the service of the microphone.
recognition_ends ==
  /\ listener = "waits" /\ listener' = "off"
  /\ UNCHANGED <<m_media_cache, m_media_inindex, m_media_outindex, publisher, hand, stamp,
                 last, unread, skewed>>

service_ends ==
  /\ listener = "off" /\ publisher = "on" /\ publisher' = "off"
  /\ UNCHANGED <<m_media_cache, m_media_inindex, m_media_outindex, listener, hand, stamp,
                 last, unread, skewed>>

RingNext ==
  \/ StartISR_Rec \/ inFlush \/ inData
  \/ getHeadMedia \/ Mediadone \/ not_written
  \/ recognition_ends \/ service_ends

RingSpec == RingInit /\ [][RingNext]_ringVars

-------------------------------------------------------------------------------
(***************************************************************************)
(* Properties                                                              *)
(***************************************************************************)
\* The pieces the reader will find, as long as nothing is recorded: how many there are, and
\* where the k-th is.
Found ==
  IF m_media_inindex >= m_media_outindex
  THEN m_media_inindex - m_media_outindex
  ELSE m_media_inindex - m_media_outindex + CacheSize
Place(k) ==
  IF m_media_outindex + k < CacheSize THEN m_media_outindex + k
                                      ELSE m_media_outindex + k - CacheSize

\* However often the writer laps the reader, the reader goes through the sound in the order
\* in which it was recorded, and takes no piece twice once the engine has it (msg_handler).
InOrder ==
  ~skewed =>
    /\ \A k \in 0 .. Found - 1 : m_media_cache[Place(k)] > last
    /\ \A j, k \in 0 .. Found - 1 : j < k => m_media_cache[Place(j)] < m_media_cache[Place(k)]
    /\ listener = "holds" => hand > last

\* What it misses are whole laps of the ring.
WholeLaps == ~skewed => (unread - Found) % CacheSize = 0 /\ unread >= Found

RingInv == RingTypeOK /\ InOrder /\ WholeLaps
===============================================================================
