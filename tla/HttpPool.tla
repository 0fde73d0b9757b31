-------------------------------- MODULE HttpPool --------------------------------
(***************************************************************************)
(* The pool of http connections (robot_http_pool): a single object made on *)
(* first use by whichever thread comes first, and MAX_POOL connections     *)
(* that getRequest and postRequest take for the time of one request.       *)
(***************************************************************************)
EXTENDS Integers, FiniteSets

CONSTANTS
  Caller,     \* threads; each makes requests one after the other
  MAX_POOL    \* 20 in the code

ASSUME PoolAssumption == MAX_POOL \in Nat \ {0}

VARIABLES
  m_msinglelocker,  \* the threads that hold the lock
  m_ins,            \* the single object is visible
  m_finish_map,     \* slots in use; << >> until init has run
  at,               \* place of each caller in its request
  requestIndex      \* its slot, or -1

poolVars == <<m_msinglelocker, m_ins, m_finish_map, at, requestIndex>>

Slot == 0..(MAX_POOL - 1)
Place == {"out", "single", "init", "alloc", "request", "refused"}

PoolTypeOK ==
  /\ m_msinglelocker \subseteq Caller
  /\ m_ins \in BOOLEAN
  /\ m_finish_map \in [Slot -> BOOLEAN] \cup [{} -> BOOLEAN]
  /\ at \in [Caller -> Place]
  /\ requestIndex \in [Caller -> Slot \cup {-1}]

PoolInit ==
  /\ m_msinglelocker = {}
  /\ m_ins = FALSE
  /\ m_finish_map = [i \in {} |-> FALSE]
  /\ at = [c \in Caller |-> "out"]
  /\ requestIndex = [c \in Caller |-> -1]

Go(c, place) == at' = [at EXCEPT ![c] = place]

\* getSingle, the look at m_ins that takes no lock.
getSingle(c) ==
  /\ at[c] = "out"
  /\ Go(c, IF m_ins THEN "alloc" ELSE "single")
  /\ UNCHANGED <<m_msinglelocker, m_ins, m_finish_map, requestIndex>>

\* The second look, under the lock; m_ins is set before init has run.
getSingle_locked(c) ==
  /\ at[c] = "single" /\ m_msinglelocker = {}
  /\ IF m_ins THEN Go(c, "alloc") /\ UNCHANGED <<m_msinglelocker, m_ins>>
              ELSE Go(c, "init") /\ m_msinglelocker' = {c} /\ m_ins' = TRUE
  /\ UNCHANGED <<m_finish_map, requestIndex>>

init(c) ==
  /\ at[c] = "init"
  /\ m_finish_map' = [i \in Slot |-> FALSE]
  /\ m_msinglelocker' = {}
  /\ Go(c, "alloc")
  /\ UNCHANGED <<m_ins, requestIndex>>

Vacant == {i \in DOMAIN m_finish_map : ~m_finish_map[i]}
First(S) == CHOOSE i \in S : \A j \in S : i <= j

\* Mutant: the slots are looked through without the lock.
AllocHttpIndex_unlocked(c) ==
  /\ at[c] = "alloc"
  /\ IF Vacant = {} THEN Go(c, "refused") /\ UNCHANGED <<m_finish_map, requestIndex>>
     ELSE /\ requestIndex' = [requestIndex EXCEPT ![c] = First(Vacant)]
          /\ m_finish_map' = [m_finish_map EXCEPT ![First(Vacant)] = TRUE]
          /\ Go(c, "request")
  /\ UNCHANGED <<m_msinglelocker, m_ins>>

\* The first slot that is not in use; without one the request fails.
AllocHttpIndex(c) ==
  /\ at[c] = "alloc" /\ m_msinglelocker = {}
  /\ IF Vacant = {} THEN Go(c, "refused") /\ UNCHANGED <<m_finish_map, requestIndex>>
     ELSE /\ requestIndex' = [requestIndex EXCEPT ![c] = First(Vacant)]
          /\ m_finish_map' = [m_finish_map EXCEPT ![First(Vacant)] = TRUE]
          /\ Go(c, "request")
  /\ UNCHANGED <<m_msinglelocker, m_ins>>

\* Mutant: the last slot is kept as well.
FreeHttpIndex_last(c) ==
  /\ at[c] = "request" /\ m_msinglelocker = {}
  /\ m_finish_map' = IF requestIndex[c] > 0 /\ requestIndex[c] < MAX_POOL - 1
                     THEN [m_finish_map EXCEPT ![requestIndex[c]] = FALSE] ELSE m_finish_map
  /\ requestIndex' = [requestIndex EXCEPT ![c] = -1]
  /\ Go(c, "out")
  /\ UNCHANGED <<m_msinglelocker, m_ins>>

\* The request has ended, one way or the other: its slot is given back, unless it
\* is slot 0 (i > 0).
FreeHttpIndex(c) ==
  /\ at[c] = "request" /\ m_msinglelocker = {}
  /\ m_finish_map' = IF requestIndex[c] > 0
                     THEN [m_finish_map EXCEPT ![requestIndex[c]] = FALSE] ELSE m_finish_map
  /\ requestIndex' = [requestIndex EXCEPT ![c] = -1]
  /\ Go(c, "out")
  /\ UNCHANGED <<m_msinglelocker, m_ins>>

\* getRequest and postRequest return false.
refused(c) ==
  /\ at[c] = "refused"
  /\ Go(c, "out")
  /\ UNCHANGED <<m_msinglelocker, m_ins, m_finish_map, requestIndex>>

Request(c) ==
  \/ getSingle(c) \/ getSingle_locked(c) \/ init(c)
  \/ AllocHttpIndex(c) \/ FreeHttpIndex(c) \/ refused(c)

PoolNext == \E c \in Caller : Request(c)

PoolSpec == PoolInit /\ [][PoolNext]_poolVars

-------------------------------------------------------------------------------
(* Properties.                                                             *)

Holder(i) == {c \in Caller : requestIndex[c] = i}

\* Every connection serves one request at a time, and what is marked as in use is
\* in use, but for connection 0.
SlotsConserved ==
  /\ \A c \in Caller : /\ (requestIndex[c] # -1) = (at[c] = "request")
                      /\ requestIndex[c] \in DOMAIN m_finish_map \cup {-1}
  /\ \A c, d \in Caller : requestIndex[c] = requestIndex[d] /\ requestIndex[c] # -1 => c = d
  /\ \A i \in DOMAIN m_finish_map :
       /\ Holder(i) # {} => m_finish_map[i]
       /\ i > 0 /\ m_finish_map[i] => Holder(i) # {}

\* The object is made once, and nobody finds it without its slots when it may look.
MadeOnce ==
  /\ \A c \in Caller : (at[c] = "init") = (c \in m_msinglelocker)
  /\ \A c, d \in m_msinglelocker : c = d
  /\ m_ins => m_msinglelocker # {} \/ DOMAIN m_finish_map = Slot
  /\ \A c \in Caller : at[c] \in {"init", "alloc", "request", "refused"} => m_ins
  /\ ~m_ins => DOMAIN m_finish_map = {}
  /\ m_msinglelocker # {} => DOMAIN m_finish_map = {}

PoolInv == PoolTypeOK /\ MadeOnce /\ SlotsConserved

\* A request is turned away only while each connection but the first is in the hands
\* of another request, on the first use of the pool as on every other.
RefusedWhenBusy ==
  [][\A c \in Caller : at[c] = "alloc" /\ at'[c] = "refused" =>
       \A i \in Slot \ {0} : Holder(i) # {}]_poolVars
===============================================================================
