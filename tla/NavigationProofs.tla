---------------------------- MODULE NavigationProofs ----------------------------
(***************************************************************************)
(* What moves the robot, for all values of the constants: the pool of      *)
(* connections, the head and the arms, docking, the controller and the     *)
(* motions, each for its own specification, and what they promise together *)
(* in MCNavigation.                                                        *)
(***************************************************************************)
EXTENDS MCNavigation, WellFoundedInduction, TLAPS

-----------------------------------------------------------------------------
(* The pool of connections: PoolInv is inductive as it stands, and a request that is
   turned away found every connection but the first in the hands of another request. *)

\* First returns a member of the set of slots it is given.
LEMMA FirstIsMember ==
  ASSUME NEW S \in SUBSET Nat, S # {}
  PROVE  First(S) \in S
<1>1. PICK x \in S : \A y \in S : ~(<<y, x>> \in OpToRel(<, Nat))
  BY NatLessThanWellFounded, WFMin
<1>2. \A y \in S : x <= y
  <2> SUFFICES ASSUME NEW y \in S PROVE x <= y OBVIOUS
  <2>1. <<y, x>> \in Nat \X Nat /\ <<y, x>>[1] = y /\ <<y, x>>[2] = x OBVIOUS
  <2>2. ~(y < x) BY <1>1, <2>1, Zenon DEF OpToRel
  <2> QED BY <2>2
<1> QED BY <1>2 DEF First

LEMMA GetSingleKeeps ==
  ASSUME PoolInv, NEW c \in Caller, getSingle(c)
  PROVE  PoolInv'
<1>1. PoolTypeOK' BY DEF PoolInv, PoolTypeOK, getSingle, Go, Place
<1>2. MadeOnce' BY DEF PoolInv, PoolTypeOK, MadeOnce, getSingle, Go
<1>3. SlotsConserved'
  BY DEF PoolInv, PoolTypeOK, SlotsConserved, Holder, getSingle, Go
<1> QED BY <1>1, <1>2, <1>3 DEF PoolInv

LEMMA LockedKeeps ==
  ASSUME PoolInv, NEW c \in Caller, getSingle_locked(c)
  PROVE  PoolInv'
<1>1. PoolTypeOK' BY DEF PoolInv, PoolTypeOK, getSingle_locked, Go, Place
<1>2. MadeOnce'
  <2>1. CASE m_ins BY <2>1 DEF PoolInv, PoolTypeOK, MadeOnce, getSingle_locked, Go
  <2>2. CASE ~m_ins BY <2>2 DEF PoolInv, PoolTypeOK, MadeOnce, getSingle_locked, Go
  <2> QED BY <2>1, <2>2
<1>3. SlotsConserved'
  BY DEF PoolInv, PoolTypeOK, SlotsConserved, Holder, getSingle_locked, Go
<1> QED BY <1>1, <1>2, <1>3 DEF PoolInv

LEMMA InitKeeps ==
  ASSUME PoolInv, NEW c \in Caller, init(c)
  PROVE  PoolInv'
<1>1. DOMAIN m_finish_map = {}
  BY DEF PoolInv, MadeOnce, init
<1>2. PoolTypeOK' BY DEF PoolInv, PoolTypeOK, init, Go, Place
<1>3. MadeOnce' BY DEF PoolInv, PoolTypeOK, MadeOnce, init, Go
<1>4. SlotsConserved'
  <2>1. \A d \in Caller : at[d] # "request"
    BY <1>1 DEF PoolInv, PoolTypeOK, SlotsConserved, Slot
  <2>2. \A d \in Caller : at'[d] # "request" /\ requestIndex'[d] = -1
    BY <2>1 DEF PoolInv, PoolTypeOK, SlotsConserved, init, Go
  <2>3. \A i \in Slot : m_finish_map'[i] = FALSE /\ Holder(i)' = {}
    BY <2>2 DEF init, Holder, Slot
  <2> QED BY <2>2, <2>3 DEF SlotsConserved, init
<1> QED BY <1>2, <1>3, <1>4 DEF PoolInv

LEMMA AllocKeeps ==
  ASSUME PoolInv, NEW c \in Caller, AllocHttpIndex(c)
  PROVE  PoolInv'
<1>1. CASE Vacant = {}
  <2>1. PoolTypeOK' BY <1>1 DEF PoolInv, PoolTypeOK, AllocHttpIndex, Go, Place
  <2>2. MadeOnce' BY <1>1 DEF PoolInv, PoolTypeOK, MadeOnce, AllocHttpIndex, Go
  <2>3. SlotsConserved'
    BY <1>1 DEF PoolInv, PoolTypeOK, SlotsConserved, Holder, AllocHttpIndex, Go
  <2> QED BY <2>1, <2>2, <2>3 DEF PoolInv
<1>2. CASE Vacant # {}
  <2>1. PICK i \in Vacant : i = First(Vacant)
    <3>1. Vacant \in SUBSET Nat BY DEF PoolInv, PoolTypeOK, Vacant, Slot
    <3> QED BY <1>2, <3>1, FirstIsMember
  <2>2. i \in DOMAIN m_finish_map /\ ~m_finish_map[i] /\ Holder(i) = {}
    BY <2>1 DEF Vacant, PoolInv, SlotsConserved
  <2>3. DOMAIN m_finish_map = Slot /\ i \in Slot /\ i # -1
    <3>1. m_finish_map \in [Slot -> BOOLEAN] \cup [{} -> BOOLEAN]
      BY DEF PoolInv, PoolTypeOK
    <3>2. CASE m_finish_map \in [Slot -> BOOLEAN] BY <2>2, <3>2 DEF Slot
    <3>3. CASE m_finish_map \in [{} -> BOOLEAN] BY <2>2, <3>3
    <3> QED BY <3>1, <3>2, <3>3
  <2>4. /\ m_finish_map' = [m_finish_map EXCEPT ![i] = TRUE]
        /\ requestIndex' = [requestIndex EXCEPT ![c] = i]
        /\ at' = [at EXCEPT ![c] = "request"]
        /\ at[c] = "alloc"
        /\ UNCHANGED <<m_msinglelocker, m_ins>>
    BY <1>2, <2>1 DEF AllocHttpIndex, Go
  <2>5. PoolTypeOK' BY <2>3, <2>4 DEF PoolInv, PoolTypeOK, Place
  <2>6. MadeOnce' BY <2>3, <2>4 DEF PoolInv, PoolTypeOK, MadeOnce
  <2>7. SlotsConserved'
    <3>1. \A d \in Caller : requestIndex[d] # i
      BY <2>2 DEF Holder
    <3>2. \A d \in Caller : /\ (requestIndex'[d] # -1) = (at'[d] = "request")
                            /\ requestIndex'[d] \in DOMAIN m_finish_map' \cup {-1}
      BY <2>2, <2>3, <2>4 DEF PoolInv, PoolTypeOK, SlotsConserved
    <3>3. \A d, e \in Caller :
            requestIndex'[d] = requestIndex'[e] /\ requestIndex'[d] # -1 => d = e
      BY <2>4, <3>1 DEF PoolInv, PoolTypeOK, SlotsConserved
    <3>4. \A j \in Slot \ {i} : Holder(j)' = Holder(j) /\ m_finish_map'[j] = m_finish_map[j]
      <4> SUFFICES ASSUME NEW j \in Slot \ {i}
                   PROVE  Holder(j)' = Holder(j) /\ m_finish_map'[j] = m_finish_map[j]
        OBVIOUS
      <4>1. requestIndex[c] = -1 /\ j # -1
        BY <2>4 DEF PoolInv, SlotsConserved, Slot
      <4> QED BY <2>3, <2>4, <4>1 DEF Holder, PoolInv, PoolTypeOK
    <3>5. m_finish_map'[i] /\ Holder(i)' # {}
      <4>1. requestIndex'[c] = i BY <2>4 DEF PoolInv, PoolTypeOK
      <4>2. c \in Holder(i)' BY <4>1 DEF Holder
      <4>3. m_finish_map \in [Slot -> BOOLEAN] BY <2>3 DEF PoolInv, PoolTypeOK
      <4> QED BY <2>3, <2>4, <4>2, <4>3
    <3>6. DOMAIN m_finish_map' = Slot
      BY <2>3, <2>4
    <3>7. \A j \in DOMAIN m_finish_map' :
            /\ Holder(j)' # {} => m_finish_map'[j]
            /\ j > 0 /\ m_finish_map'[j] => Holder(j)' # {}
      <4> TAKE j \in DOMAIN m_finish_map'
      <4>1. CASE j = i BY <3>5, <4>1
      <4>2. CASE j # i BY <2>3, <3>4, <3>6, <4>2 DEF PoolInv, SlotsConserved
      <4> QED BY <4>1, <4>2
    <3> QED BY <3>2, <3>3, <3>7 DEF SlotsConserved
  <2> QED BY <2>5, <2>6, <2>7 DEF PoolInv
<1> QED BY <1>1, <1>2

LEMMA FreeKeeps ==
  ASSUME PoolInv, NEW c \in Caller, FreeHttpIndex(c)
  PROVE  PoolInv'
<1>1. PICK i \in Slot : i = requestIndex[c] /\ DOMAIN m_finish_map = Slot
  BY DEF PoolInv, PoolTypeOK, SlotsConserved, FreeHttpIndex
<1>2. \A d \in Caller \ {c} : requestIndex[d] # i
  BY <1>1 DEF PoolInv, SlotsConserved, Slot
<1>3. /\ m_finish_map' = IF i > 0 THEN [m_finish_map EXCEPT ![i] = FALSE] ELSE m_finish_map
      /\ requestIndex' = [requestIndex EXCEPT ![c] = -1]
      /\ at' = [at EXCEPT ![c] = "out"]
      /\ at[c] = "request"
      /\ UNCHANGED <<m_msinglelocker, m_ins>>
  BY <1>1 DEF FreeHttpIndex, Go
<1>4. PoolTypeOK' BY <1>1, <1>3 DEF PoolInv, PoolTypeOK, Place
<1>5. MadeOnce' BY <1>1, <1>3 DEF PoolInv, PoolTypeOK, MadeOnce
<1>6. SlotsConserved'
  <2>1. \A d \in Caller : /\ (requestIndex'[d] # -1) = (at'[d] = "request")
                          /\ requestIndex'[d] \in DOMAIN m_finish_map' \cup {-1}
    BY <1>1, <1>3 DEF PoolInv, PoolTypeOK, SlotsConserved
  <2>2. \A d, e \in Caller :
          requestIndex'[d] = requestIndex'[e] /\ requestIndex'[d] # -1 => d = e
    BY <1>3 DEF PoolInv, PoolTypeOK, SlotsConserved
  <2>3. \A j \in Slot \ {i} : Holder(j)' = Holder(j) /\ m_finish_map'[j] = m_finish_map[j]
    <3> SUFFICES ASSUME NEW j \in Slot \ {i}
                 PROVE  Holder(j)' = Holder(j) /\ m_finish_map'[j] = m_finish_map[j]
      OBVIOUS
    <3>1. requestIndex[c] # j /\ j # -1 BY <1>1 DEF Slot
    <3> QED BY <1>1, <1>3, <3>1 DEF Holder, PoolInv, PoolTypeOK
  <2>4. Holder(i)' = {}
    <3>1. i # -1 BY <1>1 DEF Slot
    <3>2. \A d \in Caller : requestIndex'[d] # i
      BY <1>2, <1>3, <3>1 DEF PoolInv, PoolTypeOK
    <3> QED BY <3>2 DEF Holder
  <2>5. i > 0 => m_finish_map'[i] = FALSE
    BY <1>1, <1>3
  <2>6. DOMAIN m_finish_map' = Slot
    BY <1>1, <1>3
  <2>7. \A j \in DOMAIN m_finish_map' :
          /\ Holder(j)' # {} => m_finish_map'[j]
          /\ j > 0 /\ m_finish_map'[j] => Holder(j)' # {}
    <3> TAKE j \in DOMAIN m_finish_map'
    <3>1. CASE j = i BY <2>4, <2>5, <3>1
    <3>2. CASE j # i BY <1>1, <2>3, <2>6, <3>2 DEF PoolInv, SlotsConserved
    <3> QED BY <3>1, <3>2
  <2> QED BY <2>1, <2>2, <2>7 DEF SlotsConserved
<1> QED BY <1>4, <1>5, <1>6 DEF PoolInv

LEMMA RefusedKeeps ==
  ASSUME PoolInv, NEW c \in Caller, refused(c)
  PROVE  PoolInv'
<1>1. PoolTypeOK' BY DEF PoolInv, PoolTypeOK, refused, Go, Place
<1>2. MadeOnce' BY DEF PoolInv, PoolTypeOK, MadeOnce, refused, Go
<1>3. SlotsConserved'
  BY DEF PoolInv, PoolTypeOK, SlotsConserved, Holder, refused, Go
<1> QED BY <1>1, <1>2, <1>3 DEF PoolInv

LEMMA PoolInitOK == PoolInit => PoolInv
<1> SUFFICES ASSUME PoolInit PROVE PoolInv OBVIOUS
<1>1. DOMAIN m_finish_map = {} /\ m_finish_map \in [{} -> BOOLEAN]
  BY DEF PoolInit
<1>2. PoolTypeOK
  <2>1. m_finish_map \in [Slot -> BOOLEAN] \cup [{} -> BOOLEAN] BY <1>1
  <2> QED BY <2>1 DEF PoolInit, PoolTypeOK, Place
<1>3. MadeOnce BY <1>1 DEF PoolInit, MadeOnce
<1>4. SlotsConserved BY <1>1 DEF PoolInit, SlotsConserved
<1> QED BY <1>2, <1>3, <1>4 DEF PoolInv

LEMMA PoolStep == PoolInv /\ [PoolNext]_poolVars => PoolInv'
<1> SUFFICES ASSUME PoolInv, [PoolNext]_poolVars PROVE PoolInv' OBVIOUS
<1>1. CASE PoolNext
  <2> PICK c \in Caller : Request(c) BY <1>1 DEF PoolNext
  <2> QED BY GetSingleKeeps, LockedKeeps, InitKeeps, AllocKeeps, FreeKeeps, RefusedKeeps
             DEF Request
<1>2. CASE UNCHANGED poolVars
  BY <1>2 DEF poolVars, PoolInv, PoolTypeOK, MadeOnce, SlotsConserved, Holder
<1> QED BY <1>1, <1>2

\* robot_http_pool: the pool is made once, and every connection marked as in use,
\* but connection 0, serves exactly one request.
THEOREM PoolConserved == PoolSpec => []PoolInv
<1> QED BY PoolInitOK, PoolStep, PTL DEF PoolSpec

\* A look for a connection that fails has seen all slots in use.
LEMMA RefusedSawAll ==
  ASSUME PoolInv, PoolNext, NEW c \in Caller, at[c] = "alloc", at'[c] = "refused"
  PROVE  \A i \in Slot \ {0} : Holder(i) # {}
<1>1. AllocHttpIndex(c)
  BY DEF PoolNext, Request, getSingle, getSingle_locked, init, AllocHttpIndex,
         FreeHttpIndex, refused, Go, PoolInv, PoolTypeOK
<1>2. Vacant = {} /\ m_msinglelocker = {}
  BY <1>1 DEF AllocHttpIndex, Go, PoolInv, PoolTypeOK
<1>3. DOMAIN m_finish_map = Slot
  BY <1>2 DEF PoolInv, MadeOnce
<1>4. \A i \in Slot \ {0} : m_finish_map[i] /\ i > 0
  BY <1>2, <1>3 DEF Vacant, Slot
<1> QED BY <1>3, <1>4 DEF PoolInv, SlotsConserved

\* getRequest and postRequest fail for want of a connection only when every
\* connection but the first is in use.
THEOREM RefusalJustified == PoolSpec => RefusedWhenBusy
<1>1. PoolInv /\ [PoolNext]_poolVars =>
        [\A c \in Caller : at[c] = "alloc" /\ at'[c] = "refused" =>
           \A i \in Slot \ {0} : Holder(i) # {}]_poolVars
  BY RefusedSawAll
<1> QED BY <1>1, PoolConserved, PTL DEF PoolSpec, RefusedWhenBusy

-----------------------------------------------------------------------------
(* The head and the arms, for all angles, numbers of motors and bounds. *)

\* What makes the invariant inductive: the thread never looks at its start, or after an order
\* for a new zero, without believing that the motors find it; and a handle that a call has
\* used is of a device that is there, or known to be stale.
HeadIInv ==
  /\ HeadInv
  /\ head_pc = "reinit" => isIniting
  /\ device = "absent" => m_handle # "open"

\* What HEAD_ROTATE makes of an angle without a sign leaves the head within its limits, if
\* it is there.
LEMMA HeadTurnLimits ==
  ASSUME NEW current \in -60..60, NEW type \in {0, 1}, NEW angle \in Nat
  PROVE  current + HeadTurn(current, type, angle) \in -60..60
<1>1. CASE type = 0 /\ current + angle > 60
  <2>1. Magnitude(current + angle - 60) = current + angle - 60
    BY <1>1 DEF Magnitude
  <2>2. HeadTurn(current, type, angle) = angle - (current + angle - 60)
    BY <1>1, <2>1 DEF HeadTurn
  <2> QED BY <2>2
<1>2. CASE type = 0 /\ ~(current + angle > 60)
  BY <1>2 DEF HeadTurn
<1>3. CASE type = 1 /\ current - angle < -60
  <2>1. Magnitude(current - angle + 60) = -(current - angle + 60)
    BY <1>3 DEF Magnitude
  <2>2. HeadTurn(current, type, angle) = -angle - (current - angle + 60)
    BY <1>3, <2>1 DEF HeadTurn
  <2> QED BY <2>2
<1>4. CASE type = 1 /\ ~(current - angle < -60)
  BY <1>4 DEF HeadTurn
<1> QED BY <1>1, <1>2, <1>3, <1>4

LEMMA HeadTurnType ==
  ASSUME NEW current \in Int, NEW type \in {0, 1}, NEW angle \in Int
  PROVE  HeadTurn(current, type, angle) \in Int
<1>1. \A a \in Int : Magnitude(a) \in Int
  BY DEF Magnitude
<1> QED BY <1>1 DEF HeadTurn

LEMMA OrderType ==
  ASSUME HeadTypeOK, head_queue # <<>>
  PROVE  /\ Head(head_queue) \in HeadOrder
         /\ Tail(head_queue) \in Seq(HeadOrder)
BY DEF HeadTypeOK

LEMMA HeadInitially == HeadInit => HeadIInv
<1> SUFFICES ASSUME HeadInit PROVE HeadIInv
  OBVIOUS
<1>1. DOMAIN m_motor_state = {}
  BY DEF HeadInit
<1>2. HeadTypeOK
  <2>1. head_queue \in Seq(HeadOrder)
    BY DEF HeadInit
  <2>2. DOMAIN m_motor_state \subseteq MotorKnown \cup HeadId
        /\ \A m \in DOMAIN m_motor_state : m_motor_state[m] \in MotorState
    BY <1>1
  <2>3. {isIniting, zero_due, careless, blind} \subseteq BOOLEAN
    BY Zenon DEF HeadInit
  <2>4. {head_at, head_to} \subseteq Int /\ turning \subseteq MotorKnown
    BY DEF HeadInit
  <2>5. /\ head_pc \in {"get", "reinit", "sync"} /\ device \in {"ready", "zeroing", "absent"}
        /\ m_handle \in {"closed", "open", "stale"}
    BY DEF HeadInit
  <2> QED BY <2>1, <2>2, <2>3, <2>4, <2>5 DEF HeadTypeOK
<1> QED BY <1>1, <1>2 DEF HeadInit, HeadIInv, HeadInv, HeadLimits, ZeroingNoticed

\* Set to a state of a motor, the entries keep their type, and none goes.
LEMMA SetMotorType ==
  ASSUME HeadTypeOK, NEW m \in MotorKnown \cup HeadId, NEW s \in MotorState,
         SetMotor(m, s)
  PROVE  /\ DOMAIN m_motor_state' \subseteq MotorKnown \cup HeadId
         /\ \A x \in DOMAIN m_motor_state' : m_motor_state'[x] \in MotorState
         /\ DOMAIN m_motor_state \subseteq DOMAIN m_motor_state'
BY DEF SetMotor, HeadTypeOK

LEMMA MotorType ==
  ASSUME HeadTypeOK, NEW m
  PROVE  Motor(m) \in MotorState
BY DEF Motor, HeadTypeOK, NewMotor, MotorState

LEMMA HandlerKeeps ==
  ASSUME HeadIInv, NEW o \in HeadOrder, message_handler(o)
  PROVE  HeadIInv'
<1>1. HeadTypeOK'
  BY DEF HeadIInv, HeadInv, HeadTypeOK, message_handler, threadState, deviceVars
<1>2. HeadLimits'
  BY DEF HeadIInv, HeadInv, HeadTypeOK, HeadLimits, message_handler, threadState, deviceVars
<1>3. ZeroingNoticed'
  BY DEF HeadIInv, HeadInv, HeadTypeOK, ZeroingNoticed, message_handler, threadState, deviceVars
<1>4. (head_pc = "reinit" => isIniting)' /\ (device = "absent" => m_handle # "open")'
  BY DEF HeadIInv, HeadInv, HeadTypeOK, message_handler, threadState, deviceVars
<1> QED BY <1>1, <1>2, <1>3, <1>4 DEF HeadIInv, HeadInv

LEMMA ZeroesKeeps ==
  ASSUME HeadIInv, device_zeroes
  PROVE  HeadIInv'
<1>1. HeadTypeOK'
  BY DEF HeadIInv, HeadInv, HeadTypeOK, device_zeroes, threadState
<1>2. HeadLimits'
  BY DEF HeadIInv, HeadInv, HeadTypeOK, HeadLimits, device_zeroes, threadState
<1>3. ZeroingNoticed'
  BY DEF HeadIInv, HeadInv, HeadTypeOK, ZeroingNoticed, device_zeroes, threadState
<1>4. (head_pc = "reinit" => isIniting)' /\ (device = "absent" => m_handle # "open")'
  BY DEF HeadIInv, HeadInv, HeadTypeOK, device_zeroes, threadState
<1> QED BY <1>1, <1>2, <1>3, <1>4 DEF HeadIInv, HeadInv

LEMMA ZeroedKeeps ==
  ASSUME HeadIInv, device_zeroed
  PROVE  HeadIInv'
<1>1. HeadTypeOK'
  <2>1. careless' \in BOOLEAN
    BY Zenon DEF device_zeroed
  <2> QED BY <2>1 DEF HeadIInv, HeadInv, HeadTypeOK, device_zeroed, threadState
<1>2. HeadLimits'
  BY DEF HeadIInv, HeadInv, HeadTypeOK, HeadLimits, device_zeroed, threadState
<1>3. ZeroingNoticed'
  BY DEF HeadIInv, HeadInv, HeadTypeOK, ZeroingNoticed, device_zeroed, threadState
<1>4. (head_pc = "reinit" => isIniting)' /\ (device = "absent" => m_handle # "open")'
  BY DEF HeadIInv, HeadInv, HeadTypeOK, device_zeroed, threadState, MotorKnown
<1> QED BY <1>1, <1>2, <1>3, <1>4 DEF HeadIInv, HeadInv

LEMMA ArrivesKeeps ==
  ASSUME HeadIInv, NEW m \in MotorKnown, motor_arrives(m)
  PROVE  HeadIInv'
<1>1. HeadTypeOK'
  BY DEF HeadIInv, HeadInv, HeadTypeOK, motor_arrives, threadState
<1>2. HeadLimits'
  BY DEF HeadIInv, HeadInv, HeadTypeOK, HeadLimits, motor_arrives, threadState
<1>3. ZeroingNoticed'
  BY DEF HeadIInv, HeadInv, HeadTypeOK, ZeroingNoticed, motor_arrives, threadState
<1>4. (head_pc = "reinit" => isIniting)' /\ (device = "absent" => m_handle # "open")'
  BY DEF HeadIInv, HeadInv, HeadTypeOK, motor_arrives, threadState
<1> QED BY <1>1, <1>2, <1>3, <1>4 DEF HeadIInv, HeadInv

LEMMA UnpluggedKeeps ==
  ASSUME HeadIInv, unplugged
  PROVE  HeadIInv'
<1>1. HeadTypeOK'
  BY DEF HeadIInv, HeadInv, HeadTypeOK, unplugged, threadState
<1>2. HeadLimits'
  BY DEF HeadIInv, HeadInv, HeadTypeOK, HeadLimits, unplugged, threadState
<1>3. ZeroingNoticed'
  BY DEF HeadIInv, HeadInv, HeadTypeOK, ZeroingNoticed, unplugged, threadState
<1>4. (head_pc = "reinit" => isIniting)' /\ (device = "absent" => m_handle # "open")'
  BY DEF HeadIInv, HeadInv, HeadTypeOK, unplugged, threadState
<1> QED BY <1>1, <1>2, <1>3, <1>4 DEF HeadIInv, HeadInv

LEMMA PluggedInKeeps ==
  ASSUME HeadIInv, plugged_in
  PROVE  HeadIInv'
<1>1. HeadTypeOK'
  BY DEF HeadIInv, HeadInv, HeadTypeOK, plugged_in, threadState
<1>2. HeadLimits'
  BY DEF HeadIInv, HeadInv, HeadTypeOK, HeadLimits, plugged_in, threadState
<1>3. ZeroingNoticed'
  BY DEF HeadIInv, HeadInv, HeadTypeOK, ZeroingNoticed, plugged_in, threadState
<1>4. (head_pc = "reinit" => isIniting)' /\ (device = "absent" => m_handle # "open")'
  BY DEF HeadIInv, HeadInv, HeadTypeOK, plugged_in, threadState
<1> QED BY <1>1, <1>2, <1>3, <1>4 DEF HeadIInv, HeadInv

\* A call of the device in an order is noticed by the thread or marked as not: one through a
\* handle of a device that has gone fails, and sees nothing of the device that has come.
Called(m) == (CallOk(m) /\ UNCHANGED blind) \/ (CallFails(m) /\ Unseen)

LEMMA CallKeeps ==
  ASSUME HeadIInv, NEW m, Called(m), UNCHANGED <<device, isIniting>>
  PROVE  /\ blind' \in BOOLEAN /\ m_handle' \in {"closed", "open", "stale"}
         /\ (device = "zeroing" /\ ~isIniting => blind \/ m_handle = "stale")'
         /\ (device = "absent" => m_handle # "open")'
<1>1. CASE CallOk(m) /\ UNCHANGED blind
  BY <1>1 DEF HeadIInv, HeadInv, HeadTypeOK, ZeroingNoticed, CallOk, Reachable
<1>2. CASE CallFails(m) /\ Unseen
  <2>1. m_handle' \in {"closed", "open"} /\ (device = "absent" => m_handle' = "closed")
    BY <1>2 DEF CallFails, Reachable
  <2>2. blind' \in BOOLEAN
    BY <1>2, Zenon DEF Unseen, HeadIInv, HeadInv, HeadTypeOK
  <2>3. device = "zeroing" /\ ~isIniting => blind'
    BY <1>2 DEF Unseen, HeadIInv, HeadInv, ZeroingNoticed
  <2> QED BY <2>1, <2>2, <2>3
<1> QED BY <1>1, <1>2 DEF Called

LEMMA OtherKeeps ==
  ASSUME HeadIInv, NEW cmd, other_orders(cmd)
  PROVE  HeadIInv'
<1>1. head_queue' \in Seq(HeadOrder)
  BY OrderType DEF HeadIInv, HeadInv, other_orders, Order, Taken
<1>2. turning' \subseteq MotorKnown
  <2>1. turning \subseteq MotorKnown /\ Arms \subseteq MotorKnown
    BY DEF HeadIInv, HeadInv, HeadTypeOK, MotorKnown, Arms
  <2>2. turning' = turning \/ \E t \in SUBSET Arms : turning' = (turning \ Arms) \cup t
    BY DEF other_orders
  <2> QED BY <2>1, <2>2
<1>3. /\ blind' \in BOOLEAN /\ m_handle' \in {"closed", "open", "stale"}
      /\ (device = "zeroing" /\ ~isIniting => blind \/ m_handle = "stale")'
      /\ (device = "absent" => m_handle # "open")'
  <2>1. CASE UNCHANGED <<blind, m_handle>>
    BY <2>1 DEF HeadIInv, HeadInv, HeadTypeOK, ZeroingNoticed, other_orders
  <2>2. CASE Called(HEADLEVELMOTOR)
    BY <2>2, CallKeeps DEF other_orders
  <2> QED BY <2>1, <2>2 DEF other_orders, Called
<1>4. UNCHANGED <<head_pc, isIniting, careless, m_motor_state, device, zero_due, head_at, head_to>>
  BY DEF other_orders
<1> QED BY <1>1, <1>2, <1>3, <1>4 DEF HeadIInv, HeadInv, HeadTypeOK, HeadLimits, ZeroingNoticed

LEMMA ReinitKeeps ==
  ASSUME HeadIInv, ROBOT_REINIT
  PROVE  HeadIInv'
<1>1. HeadTypeOK'
  BY OrderType DEF HeadIInv, HeadInv, HeadTypeOK, ROBOT_REINIT, Order, Taken
<1>2. HeadLimits'
  BY DEF HeadIInv, HeadInv, HeadTypeOK, HeadLimits, ROBOT_REINIT, Order, Taken
<1>3. ZeroingNoticed'
  BY DEF HeadIInv, HeadInv, HeadTypeOK, ZeroingNoticed, ROBOT_REINIT, Order, Taken
<1>4. (head_pc = "reinit" => isIniting)' /\ (device = "absent" => m_handle # "open")'
  BY DEF HeadIInv, HeadInv, HeadTypeOK, ROBOT_REINIT, Order, Taken
<1> QED BY <1>1, <1>2, <1>3, <1>4 DEF HeadIInv, HeadInv

\* A conjunct of the invariant each, for the orders that follow.
CallsSeen ==
  /\ blind \in BOOLEAN /\ m_handle \in {"closed", "open", "stale"}
  /\ device = "zeroing" /\ ~isIniting => blind \/ m_handle = "stale"
  /\ device = "absent" => m_handle # "open"

EntriesTyped ==
  /\ DOMAIN m_motor_state \subseteq MotorKnown \cup HeadId
  /\ \A m \in DOMAIN m_motor_state : m_motor_state[m] \in MotorState

DeviceTyped ==
  /\ device \in {"ready", "zeroing", "absent"} /\ zero_due \in BOOLEAN
  /\ head_at \in Int /\ head_to \in Int /\ turning \subseteq MotorKnown

ThreadTyped ==
  /\ head_queue \in Seq(HeadOrder) /\ head_pc \in {"get", "reinit", "sync"}
  /\ isIniting \in BOOLEAN /\ careless \in BOOLEAN
  /\ head_pc = "reinit" => isIniting

AllParts ==
  /\ CallsSeen /\ EntriesTyped /\ DeviceTyped /\ ThreadTyped /\ HeadLimits
  /\ ~isIniting => MotorKnown \subseteq DOMAIN m_motor_state

LEMMA Parts == (HeadIInv <=> AllParts) /\ (HeadIInv' <=> AllParts')
BY DEF HeadIInv, HeadInv, HeadTypeOK, ZeroingNoticed, AllParts, CallsSeen, EntriesTyped,
       DeviceTyped, ThreadTyped

\* The order of the queue that the thread takes.
LEMMA OrderTaken ==
  ASSUME HeadIInv, NEW cmd, Order(cmd), Taken, UNCHANGED <<head_pc, isIniting>>,
         careless' \in BOOLEAN
  PROVE  /\ Head(head_queue) \in HeadOrder /\ Head(head_queue).cmd = cmd
         /\ ThreadTyped'
BY OrderType DEF HeadIInv, HeadInv, HeadTypeOK, Order, Taken, ThreadTyped

LEMMA ObeysKeeps ==
  ASSUME DeviceTyped, NEW m \in MotorKnown, NEW a \in Int, Obeys(m, a)
  PROVE  /\ DeviceTyped' /\ UNCHANGED <<device, head_at>>
         /\ head_to' = head_to \/ (m = HEADLEVELMOTOR /\ head_to' = head_at + a)
BY DEF Obeys, DeviceTyped, deviceVars

LEMMA TurnKeeps ==
  ASSUME HeadIInv, NEW m \in MotorKnown \cup HeadId, NEW a \in Int,
         NEW doubtful \in BOOLEAN, turn(m, a, doubtful), UNCHANGED isIniting, ThreadTyped',
         m = HEADLEVELMOTOR /\ ~doubtful /\ head_at \in -60..60 => head_at + a \in -60..60
  PROVE  HeadIInv'
<1>1. EntriesTyped' /\ DOMAIN m_motor_state \subseteq DOMAIN m_motor_state'
  <2>1. \/ UNCHANGED m_motor_state
        \/ \E s \in MotorState : SetMotor(m, s)
    <3>1. Motor(m) \in MotorState /\ [Motor(m) EXCEPT !.doaction = TRUE] \in MotorState
      BY MotorType DEF HeadIInv, HeadInv, MotorState
    <3> QED BY <3>1 DEF turn
  <2> QED BY <2>1, SetMotorType DEF HeadIInv, HeadInv, HeadTypeOK, EntriesTyped
<1>2. /\ DeviceTyped' /\ UNCHANGED <<device, head_at>>
      /\ head_to' = head_to \/ (m = HEADLEVELMOTOR /\ head_to' = head_at + a)
  <2>1. UNCHANGED deviceVars \/ (m \in MotorKnown /\ Obeys(m, a))
    BY DEF turn, CallOk
  <2> QED BY <2>1, ObeysKeeps, Parts DEF AllParts, deviceVars, DeviceTyped
<1>3. CallsSeen'
  <2>1. UNCHANGED <<m_handle, blind>> \/ Called(m)
    BY DEF turn, Called
  <2> QED BY <2>1, <1>2, CallKeeps, Parts DEF AllParts, CallsSeen
<1>4. HeadLimits'
  <2>1. careless' = careless \/ careless' = (careless \/ (m = HEADLEVELMOTOR /\ doubtful))
    BY DEF turn
  <2>2. UNCHANGED head_to \/ (m = HEADLEVELMOTOR /\ (doubtful => careless'))
    BY <1>2 DEF turn, deviceVars
  <2>3. careless => careless'
    BY <2>1
  <2> QED BY <1>2, <2>2, <2>3, Parts DEF AllParts, HeadLimits, DeviceTyped
<1> QED BY <1>1, <1>2, <1>3, <1>4, Parts DEF AllParts

LEMMA TurnCareless ==
  ASSUME HeadIInv, NEW m, NEW a, NEW doubtful, turn(m, a, doubtful)
  PROVE  careless' \in BOOLEAN
<1>1. careless' = careless \/ careless' = (careless \/ (m = HEADLEVELMOTOR /\ doubtful))
  BY DEF turn
<1>2. (careless \/ (m = HEADLEVELMOTOR /\ doubtful)) \in BOOLEAN
  BY Zenon
<1>3. careless \in BOOLEAN
  BY DEF HeadIInv, HeadInv, HeadTypeOK
<1> QED BY <1>1, <1>2, <1>3, Zenon

LEMMA RotateKeeps ==
  ASSUME HeadIInv, HEAD_ROTATE
  PROVE  HeadIInv'
<1> DEFINE o == Head(head_queue)
           current == Motor(HEADLEVELMOTOR).currentangle
           doubtful == current # head_at \/ HEADLEVELMOTOR \in turning \/ o.angle < 0
<1>1. turn(HEADLEVELMOTOR, HeadTurn(current, o.type, o.angle), doubtful)
  BY DEF HEAD_ROTATE
<1>2. o.type \in {0, 1} /\ o.angle \in Int
  <2>1. o \in HeadOrder /\ o.cmd = "HEAD_ROTATE"
    BY OrderType DEF HEAD_ROTATE, Order, HeadIInv, HeadInv
  <2>2. ASSUME NEW x \in HeadOrder, x.cmd = "HEAD_ROTATE"
        PROVE  x.type \in {0, 1} /\ x.angle \in Int
    <3> DEFINE Angles == TurnAngle \cup {-a : a \in TurnAngle}
    <3>1. Angles \subseteq Int
      <4>1. \A a \in TurnAngle : a \in Int /\ -a \in Int
        BY HeadAssumption DEF HeadAssumption
      <4> QED BY <4>1, Zenon
    <3>2. x \in [cmd : {"HEAD_ROTATE"}, type : {0, 1}, angle : Angles]
             \cup [cmd : {"ARM_ROTATE", "GETANGLE", "STOP"}, id : HeadId]
             \cup [cmd : {"ROBOT_DO_ACTION", "ROBOT_STOP_ACTION", "ROBOT_REINIT", "CHANGE_SPEED"}]
      BY <2>2, Zenon DEF HeadOrder
    <3> HIDE DEF Angles
    <3> QED BY <2>2, <3>1, <3>2
  <2> HIDE DEF o
  <2> QED BY <2>1, <2>2
<1>3. current \in Int
  BY MotorType DEF HeadIInv, HeadInv, MotorState
<1>4. HeadTurn(current, o.type, o.angle) \in Int
  BY <1>2, <1>3, HeadTurnType
<1>5. ~doubtful /\ head_at \in -60..60 =>
        head_at + HeadTurn(current, o.type, o.angle) \in -60..60
  <2> SUFFICES ASSUME ~doubtful, head_at \in -60..60
               PROVE  head_at + HeadTurn(current, o.type, o.angle) \in -60..60
    OBVIOUS
  <2>1. current = head_at /\ o.angle \in Nat
    BY <1>2
  <2> HIDE DEF o, current
  <2> QED BY <1>2, <2>1, HeadTurnLimits
<1>6. careless' \in BOOLEAN
  BY <1>1, TurnCareless
<1>7. ThreadTyped' /\ UNCHANGED isIniting
  BY <1>6, OrderTaken DEF HEAD_ROTATE
<1>8. doubtful \in BOOLEAN
  BY Zenon
<1> HIDE DEF o, current, doubtful
<1> QED BY <1>1, <1>4, <1>5, <1>7, <1>8, TurnKeeps DEF HEADLEVELMOTOR, MotorKnown

\* The motor that an order for one motor names.
LEMMA OrderId ==
  ASSUME HeadIInv, Order("ARM_ROTATE") \/ Order("GETANGLE") \/ Order("STOP")
  PROVE  Head(head_queue).id \in HeadId
<1>1. Head(head_queue) \in HeadOrder
      /\ Head(head_queue).cmd \in {"ARM_ROTATE", "GETANGLE", "STOP"}
  BY OrderType DEF Order, HeadIInv, HeadInv
<1>2. ASSUME NEW x \in HeadOrder, x.cmd \in {"ARM_ROTATE", "GETANGLE", "STOP"}
      PROVE  x.id \in HeadId
  <2> DEFINE Angles == TurnAngle \cup {-a : a \in TurnAngle}
  <2>1. x \in [cmd : {"HEAD_ROTATE"}, type : {0, 1}, angle : Angles]
           \cup [cmd : {"ARM_ROTATE", "GETANGLE", "STOP"}, id : HeadId]
           \cup [cmd : {"ROBOT_DO_ACTION", "ROBOT_STOP_ACTION", "ROBOT_REINIT", "CHANGE_SPEED"}]
    BY <1>2, Zenon DEF HeadOrder
  <2> HIDE DEF Angles
  <2> QED BY <1>2, <2>1
<1> QED BY <1>1, <1>2

LEMMA ArmKeeps ==
  ASSUME HeadIInv, ARM_ROTATE
  PROVE  HeadIInv'
<1>1. PICK a \in TurnAngle : turn(Head(head_queue).id, a, TRUE)
  BY DEF ARM_ROTATE
<1>2. Head(head_queue).id \in HeadId /\ a \in Int
  BY OrderId, HeadAssumption DEF ARM_ROTATE, HeadAssumption
<1>3. ThreadTyped' /\ UNCHANGED isIniting
  BY <1>1, TurnCareless, OrderTaken DEF ARM_ROTATE
<1> QED BY <1>1, <1>2, <1>3, TurnKeeps

LEMMA GetAngleKeeps ==
  ASSUME HeadIInv, GETANGLE
  PROVE  HeadIInv'
<1> DEFINE m == Head(head_queue).id
<1>1. m \in HeadId
  BY OrderId DEF GETANGLE
<1>2. ThreadTyped' /\ UNCHANGED <<isIniting, careless, deviceVars>>
  BY OrderTaken, Parts DEF GETANGLE, AllParts, ThreadTyped
<1>3. Called(m)
  BY DEF GETANGLE, Called
<1>4. \E a \in Int : SetMotor(m, [Motor(m) EXCEPT !.currentangle = a])
  <2>1. head_at \in Int
    BY Parts DEF AllParts, DeviceTyped
  <2> QED BY <2>1 DEF GETANGLE
<1>5. \A a \in Int : [Motor(m) EXCEPT !.currentangle = a] \in MotorState
  BY MotorType DEF MotorState, HeadIInv, HeadInv
<1> HIDE DEF m
<1>6. EntriesTyped' /\ DOMAIN m_motor_state \subseteq DOMAIN m_motor_state'
  BY <1>1, <1>4, <1>5, SetMotorType DEF HeadIInv, HeadInv, EntriesTyped
<1>7. CallsSeen'
  BY <1>2, <1>3, CallKeeps DEF deviceVars, CallsSeen
<1> QED BY <1>2, <1>6, <1>7, Parts DEF AllParts, DeviceTyped, HeadLimits, deviceVars

LEMMA StopKeeps ==
  ASSUME HeadIInv, STOP
  PROVE  HeadIInv'
<1> DEFINE m == Head(head_queue).id
<1>1. m \in HeadId
  BY OrderId DEF STOP
<1>2. ThreadTyped' /\ UNCHANGED <<isIniting, careless>>
  BY OrderTaken, Parts DEF STOP, AllParts, ThreadTyped
<1>3. UNCHANGED <<m_handle, blind>> \/ Called(m)
  BY DEF STOP, Called
<1>4. UNCHANGED m_motor_state \/ \E s \in MotorState : SetMotor(m, s)
  <2>1. Motor(m) \in MotorState /\ [Motor(m) EXCEPT !.doaction = FALSE] \in MotorState
    BY MotorType DEF HeadIInv, HeadInv, MotorState
  <2> QED BY <2>1 DEF STOP
<1>5. UNCHANGED deviceVars \/ (m \in MotorKnown /\ Stops(m))
  BY DEF STOP, CallOk
<1> HIDE DEF m
<1>6. EntriesTyped' /\ DOMAIN m_motor_state \subseteq DOMAIN m_motor_state'
  BY <1>1, <1>4, SetMotorType, Parts DEF HeadIInv, HeadInv, AllParts, EntriesTyped
<1>7. DeviceTyped' /\ UNCHANGED device /\ {head_at', head_to'} \subseteq {head_at, head_to}
  BY <1>5, Parts DEF AllParts, DeviceTyped, Stops, deviceVars
<1>8. CallsSeen'
  BY <1>2, <1>3, <1>7, CallKeeps, Parts DEF AllParts, CallsSeen
<1> QED BY <1>2, <1>6, <1>7, <1>8, Parts DEF AllParts, HeadLimits

\* Asked of the first n motors, the run states are entries of the right type.
LEMMA RunStatesType ==
  ASSUME HeadIInv, NEW n \in 0..3, m_motor_state' = RunStates(n)
  PROVE  /\ EntriesTyped' /\ DOMAIN m_motor_state \subseteq DOMAIN m_motor_state'
         /\ 0 .. n - 1 \subseteq DOMAIN m_motor_state'
<1>1. DOMAIN m_motor_state' = DOMAIN m_motor_state \cup 0 .. n - 1
  BY DEF RunStates
<1>2. 0 .. n - 1 \subseteq MotorKnown
  BY DEF MotorKnown
<1>3. ASSUME NEW m \in DOMAIN m_motor_state'
      PROVE  m_motor_state'[m] \in MotorState
  <2> DEFINE s == IF m \in DOMAIN m_motor_state THEN m_motor_state[m] ELSE NewMotor
             r == IF device = "zeroing" THEN 1 ELSE 3
  <2>1. s \in MotorState
    BY Parts DEF AllParts, EntriesTyped, NewMotor, MotorState
  <2>2. r \in {1, 3}
    OBVIOUS
  <2>3. m_motor_state'[m] = IF m \in 0 .. n - 1 THEN [s EXCEPT !.runstate = r] ELSE s
    BY <1>1, <1>3 DEF RunStates
  <2> HIDE DEF s, r
  <2> QED BY <2>1, <2>2, <2>3 DEF MotorState
<1> QED BY <1>1, <1>2, <1>3, Parts DEF AllParts, EntriesTyped

LEMMA UpdateKeeps ==
  ASSUME HeadIInv, update_initstate
  PROVE  HeadIInv'
<1>1. PICK n \in 0..3 : m_motor_state' = RunStates(n) /\ (~isIniting' => n = 3)
  <2>1. CASE m_motor_state' = RunStates(3)
    BY <2>1
  <2>2. CASE isIniting' = TRUE /\ \E n \in 0..2 : m_motor_state' = RunStates(n)
    BY <2>2
  <2>3. CASE isIniting' = TRUE /\ m_motor_state' = RunStates(0)
    BY <2>3
  <2> QED BY <2>1, <2>2, <2>3 DEF update_initstate
<1>2. EntriesTyped' /\ (~isIniting' => MotorKnown \subseteq DOMAIN m_motor_state')
  BY <1>1, RunStatesType DEF MotorKnown
<1>3. ThreadTyped'
  <2>1. isIniting' \in BOOLEAN
    <3>1. isIniting' = (device = "zeroing") \/ isIniting' = TRUE
      BY DEF update_initstate
    <3> QED BY <3>1, Zenon
  <2>2. UNCHANGED <<head_queue, careless>> /\ head_pc' \in {"get", "sync"}
    BY DEF update_initstate
  <2> QED BY <2>1, <2>2, Parts DEF AllParts, ThreadTyped
<1>4. UNCHANGED <<careless, deviceVars>>
  BY DEF update_initstate
<1>5. CallsSeen'
  <2>1. blind' \in BOOLEAN
    <3>1. blind' = FALSE BY DEF update_initstate
    <3> QED BY <3>1, Zenon
  <2>2. m_handle' \in {"open", "closed"} /\ (device = "absent" => m_handle' # "open")
    BY DEF update_initstate, CallOk, CallFails, Reachable
  <2>3. device = "zeroing" => isIniting'
    BY DEF update_initstate
  <2> QED BY <1>4, <2>1, <2>2, <2>3 DEF CallsSeen, deviceVars
<1> QED BY <1>2, <1>3, <1>4, <1>5, Parts DEF AllParts, DeviceTyped, HeadLimits, deviceVars

\* What synstatus makes of the entry of a motor.
LEMMA PolledType ==
  ASSUME HeadIInv, NEW m \in DOMAIN m_motor_state
  PROVE  {Reported(m), Polled(m)} \subseteq MotorState
<1>1. m_motor_state[m] \in MotorState /\ head_at \in Int
  BY Parts DEF AllParts, EntriesTyped, DeviceTyped
<1>2. Reported(m) \in MotorState
  <2>1. (m_motor_state[m].doaction /\ m \in turning) \in BOOLEAN
    BY Zenon
  <2> QED BY <1>1, <2>1 DEF Reported, MotorState
<1>3. Polled(m) \in MotorState
  BY <1>1, <1>2 DEF Polled, MotorState
<1> QED BY <1>2, <1>3

LEMMA SynstatusKeeps ==
  ASSUME HeadIInv, synstatus
  PROVE  HeadIInv'
<1>1. EntriesTyped' /\ DOMAIN m_motor_state' = DOMAIN m_motor_state
  <2>1. CASE synstatus_ok
    BY <2>1, PolledType, Parts DEF synstatus_ok, AllParts, EntriesTyped
  <2>2. ASSUME NEW f \in DOMAIN m_motor_state, synstatus_fails(f)
        PROVE  EntriesTyped' /\ DOMAIN m_motor_state' = DOMAIN m_motor_state
    <3>1. PICK s \in {m_motor_state[f], Reported(f)} :
            m_motor_state' = [m \in DOMAIN m_motor_state |->
                                IF m < f THEN Polled(m) ELSE IF m = f THEN s ELSE m_motor_state[m]]
      BY <2>2 DEF synstatus_fails
    <3>2. s \in MotorState
      BY PolledType, Parts DEF AllParts, EntriesTyped
    <3> QED BY <3>1, <3>2, PolledType, Parts DEF AllParts, EntriesTyped
  <2> QED BY <2>1, <2>2 DEF synstatus
<1>2. UNCHANGED <<careless, deviceVars, head_queue>> /\ head_pc' = "get"
  BY DEF synstatus
<1>3. isIniting' = isIniting \/ isIniting' = TRUE
  BY DEF synstatus, synstatus_ok, synstatus_fails
<1>4. ThreadTyped'
  <2>1. isIniting' \in BOOLEAN
    BY <1>3, Zenon, Parts DEF AllParts, ThreadTyped
  <2> QED BY <2>1, <1>2, Parts DEF AllParts, ThreadTyped
<1>5. CallsSeen'
  <2>1. CASE synstatus_ok
    BY <2>1, <1>2, Parts DEF synstatus_ok, AllParts, CallsSeen, CallOk, Reachable, deviceVars
  <2>2. ASSUME NEW f, synstatus_fails(f)
        PROVE  CallsSeen'
    <3>1. blind' \in BOOLEAN
      <4>1. blind' = FALSE BY <2>2 DEF synstatus_fails
      <4> QED BY <4>1, Zenon
    <3>2. m_handle' \in {"open", "closed"} /\ (device = "absent" => m_handle' # "open")
      BY <2>2 DEF synstatus_fails, CallFails, Reachable
    <3> QED BY <3>1, <3>2, <1>2, <2>2 DEF synstatus_fails, CallsSeen, deviceVars
  <2> QED BY <2>1, <2>2 DEF synstatus
<1> QED BY <1>1, <1>2, <1>3, <1>4, <1>5, Parts DEF AllParts, DeviceTyped, HeadLimits, deviceVars

LEMMA HeadStep == HeadIInv /\ [HeadNext]_headVars => HeadIInv'
<1> SUFFICES ASSUME HeadIInv, [HeadNext]_headVars PROVE HeadIInv'
  OBVIOUS
<1>1. CASE \E o \in HeadOrder : message_handler(o) BY <1>1, HandlerKeeps
<1>2. CASE head_run
  BY <1>2, UpdateKeeps, SynstatusKeeps, RotateKeeps, ArmKeeps, GetAngleKeeps, StopKeeps,
     ReinitKeeps, OtherKeeps DEF head_run
<1>3. CASE device_zeroes BY <1>3, ZeroesKeeps
<1>4. CASE device_zeroed BY <1>4, ZeroedKeeps
<1>5. CASE unplugged BY <1>5, UnpluggedKeeps
<1>6. CASE plugged_in BY <1>6, PluggedInKeeps
<1>7. CASE \E m \in MotorKnown : motor_arrives(m) BY <1>7, ArrivesKeeps
<1>8. CASE UNCHANGED headVars
  BY <1>8 DEF headVars, threadState, deviceVars, HeadIInv, HeadInv, HeadTypeOK, HeadLimits,
     ZeroingNoticed
<1> QED BY <1>1, <1>2, <1>3, <1>4, <1>5, <1>6, <1>7, <1>8 DEF HeadNext

\* Whatever angles and motors the orders name, however often the controller is pulled out
\* and calls fail: an entry of the map is of the right type, the head keeps within its limits
\* and the thread notices that the motors find their zero, but for the cases that HeadLimits
\* and ZeroingNoticed name.
THEOREM HeadKept == HeadSpec => []HeadInv
<1>1. HeadIInv => HeadInv BY DEF HeadIInv
<1> QED BY <1>1, HeadInitially, HeadStep, PTL DEF HeadSpec

-----------------------------------------------------------------------------
(* Docking, for all distances, times and bounds. *)

\* What a navigation keeps: off its search, it is in none of the steps of a search; and a search
\* that may not be repeated stays where it is.
NaviOK(n) ==
  /\ n \in Navigation
  /\ n.step # 0 => n.findmemsstep = 0
  /\ n.max_try_find_count = 0 => n.findmemsstep \in {0, 1, 5}

\* An outcome of one round: the robot follows the strip only if it did so before or sees it now,
\* and arrives only while it follows it.
Sound(o, n, d) ==
  /\ NaviOK(o.navi)
  /\ o.navi.step # 0 => n.step # 0 \/ d.f \/ d.b
  /\ o.result = 0 => o.navi.step # 0

SerialState == {"off", "opening", "reading", "closing", "leaving"}

\* From the reset on, readings are ignored exactly if a serial thread ended before the test, until
\* the thread of the open line ends in its turn; and the first task finds no thread.
CrossInv ==
  /\ mtc_pc = "test" \/ (mtc_pc = "loop" /\ cmems \in {"opening", "reading", "closing"}) =>
       (isFinish <=> crossed)
  /\ docks <= 1 => ~crossed
  /\ docks = 0 \/ (docks = 1 /\ mtc_pc \in {"open", "test"}) => cmems = "off"

\* What makes the invariant inductive: the robot that follows the strip saw it since its last
\* search; while no rotation is awaited none of this task goes on; only a task that ends is told
\* of a success; the navigation begins anew with every task; and one that goes on has not been
\* without data for too long.  For the line see CrossInv.
DockIInv ==
  /\ DockingTypeOK /\ DockingToldOnce /\ ArrivedOnStrip /\ SearchesBounded /\ CrossInv
  /\ NaviOK(navi)
  /\ navi.step # 0 => strip_seen
  /\ mtc_pc \in {"open", "test", "loop"} /\ navi.rotate_step = 0 => chassis_turns # docks
  /\ mtc_out = "success" => mtc_pc = "end"
  /\ mtc_pc \in {"off", "open", "test", "close"} => navi = NewNavigation
  /\ mtc_pc \in {"open", "test", "loop"} => stale < GiveUpAt

-----------------------------------------------------------------------------
\* The functions of NavigationImp, one after the other.

LEMMA NavigationFields ==
  ASSUME NEW n \in Navigation
  PROVE  /\ n.step \in {0, 1, 3, 8} /\ n.findmemsstep \in 0..5 /\ n.rotate_step \in 0..2
         /\ n.OriSpeed \in {0, 1}
         /\ n.maybe_end_try_count \in 0..3 /\ n.max_try_find_count \in 0..3
BY DEF Navigation

\* A search goes from step to step, and may turn the robot between two of them.
LEMMA TurnOK ==
  ASSUME NEW n, NaviOK(n)
  PROVE  NaviOK(Turn(n)) /\ Turn(n).step = n.step
BY DEF NaviOK, Navigation, Turn

LEMMA SearchStepOK ==
  ASSUME NEW n, NaviOK(n), n.step = 0,
         NEW f \in 0..5, n.max_try_find_count = 0 => f \in {0, 1, 5}
  PROVE  LET m == [n EXCEPT !.findmemsstep = f]
         IN /\ NaviOK(m) /\ m.step = 0
            /\ NaviOK(Turn(m)) /\ Turn(m).step = 0
<1> DEFINE m == [n EXCEPT !.findmemsstep = f]
<1>1. NaviOK(m) /\ m.step = 0
  BY DEF NaviOK, Navigation
<1>2. NaviOK(Turn(m)) /\ Turn(m).step = 0
  <2> HIDE DEF m
  <2> QED BY <1>1, TurnOK
<1> QED BY <1>1, <1>2

LEMMA NormalMoveSound ==
  ASSUME NEW n, NaviOK(n), n.step # 0, NEW d \in Reading, NEW ids \in Nat,
         n.maybe_end_try_count = 0 /\ n.step # 8 => d.f
  PROVE  LET o == NormalMove(n, d, ids)
         IN NaviOK(o.navi) /\ o.result # 0
<1> DEFINE ori == 1 - n.OriSpeed
           back == [n EXCEPT !.OriSpeed = ori, !.step = 1,
                     !.maybe_end_try_count = IF ori = 0 /\ ~d.f THEN @ - 1 ELSE @]
<1>1. n \in Navigation
  BY DEF NaviOK
<1>2. n.step # 8 => NaviOK(back)
  <2> SUFFICES ASSUME n.step # 8 PROVE NaviOK(back)
    OBVIOUS
  <2>1. back \in Navigation
    <3> DEFINE count == IF ori = 0 /\ ~d.f THEN n.maybe_end_try_count - 1
                        ELSE n.maybe_end_try_count
    <3>1. ori \in {0, 1} /\ count \in 0..3
      BY <1>1, NavigationFields
    <3>2. \A x \in {0, 1}, y \in 0..3 :
            [n EXCEPT !.OriSpeed = x, !.step = 1, !.maybe_end_try_count = y] \in Navigation
      BY <1>1 DEF Navigation
    <3> HIDE DEF ori, count
    <3>3. back = [n EXCEPT !.OriSpeed = ori, !.step = 1, !.maybe_end_try_count = count]
      BY DEF count
    <3> QED BY <3>1, <3>2, <3>3
  <2> QED BY <1>1, <2>1 DEF NaviOK, Navigation
<1>3. NaviOK([n EXCEPT !.step = 0])
  BY <1>1 DEF NaviOK, Navigation
<1> QED BY <1>2, <1>3 DEF NormalMove, Outcome

LEMMA LeaveStripSound ==
  ASSUME Spot \subseteq Nat, NEW n, NaviOK(n), n.step # 0, NEW d \in Reading,
         NEW o \in LeaveStrip(n, d)
  PROVE  NaviOK(o.navi) /\ o.result # 0
<1> DEFINE away == [n EXCEPT !.step = 8, !.OriSpeed = 0]
<1>1. NaviOK(away) /\ away.step = 8
  BY DEF NaviOK, Navigation
<1> HIDE DEF away
<1>2. \A ids \in Spot : LET p == NormalMove(away, d, ids) IN NaviOK(p.navi) /\ p.result # 0
  <2> TAKE ids \in Spot
  <2>1. ids \in Nat /\ ~(away.maybe_end_try_count = 0 /\ away.step # 8) /\ away.step # 0
    BY <1>1
  <2> QED BY <1>1, <2>1, NormalMoveSound, Zenon
<1>3. \/ o = Outcome(n, 101)
      \/ \E ids \in Spot : o = NormalMove(away, d, ids)
      \/ o = Outcome(away, 102)
  BY DEF LeaveStrip, away
<1> QED BY <1>1, <1>2, <1>3 DEF Outcome

LEMMA ApproachSound ==
  ASSUME Spot \subseteq Nat, NEW n, NaviOK(n), n.step # 0, NEW d \in Reading,
         NEW o \in Approach(n, d)
  PROVE  NaviOK(o.navi) /\ (o.result = 0 => o.navi.step # 0)
<1> DEFINE stands(ids) == ~d.f /\ ((n.OriSpeed = 1 /\ ids < 15) \/ n.maybe_end_try_count = 0)
           near == [n EXCEPT !.step = 3]
<1>1. NaviOK(near) /\ near.step = 3 /\ near.maybe_end_try_count = n.maybe_end_try_count
  BY DEF NaviOK, Navigation
<1>2. \/ o = Outcome(n, 101)
      \/ o = Outcome(near, 0)
      \/ \E ids \in {i \in Spot : ~stands(i)} : o = NormalMove(near, d, ids)
      \/ o \in LeaveStrip(near, d)
  BY DEF Approach
<1> HIDE DEF near
<1>3. \A ids \in {i \in Spot : ~stands(i)} :
        LET p == NormalMove(near, d, ids) IN NaviOK(p.navi) /\ p.result # 0
  <2> TAKE ids \in {i \in Spot : ~stands(i)}
  <2>1. /\ ids \in Nat /\ near.step # 0
        /\ near.maybe_end_try_count = 0 /\ near.step # 8 => d.f
    BY <1>1
  <2> QED BY <1>1, <2>1, NormalMoveSound, Zenon
<1>4. \A p \in LeaveStrip(near, d) : NaviOK(p.navi) /\ p.result # 0
  BY <1>1, LeaveStripSound
<1> QED BY <1>1, <1>2, <1>3, <1>4 DEF Outcome

LEMMA FollowStripSound ==
  ASSUME Spot \subseteq Nat, NEW n, NaviOK(n), n.step # 0, NEW d \in Reading,
         NEW o \in FollowStrip(n, d)
  PROVE  NaviOK(o.navi) /\ (o.result = 0 => o.navi.step # 0)
<1>1. CASE ~d.f /\ ~d.b
  <2>1. NaviOK([n EXCEPT !.step = 0])
    BY DEF NaviOK, Navigation
  <2> QED BY <1>1, <2>1 DEF FollowStrip, Outcome
<1>2. CASE ~(~d.f /\ ~d.b)
  <2> DEFINE then(ids, m) ==
               CASE ids < 30 /\ m.OriSpeed = 1 -> Approach(m, d)
                 [] ~(ids < 30 /\ m.OriSpeed = 1) /\ m.maybe_end_try_count = 0
                      -> LeaveStrip(m, d)
                 [] OTHER -> {NormalMove(m, d, ids)}
  <2>1. \/ o = Outcome(n, 101)
        \/ \E ids \in Spot, ok \in BOOLEAN : o \in then(ids, ChangeOri(n, ids, ok))
    BY <1>2 DEF FollowStrip
  <2>2. ASSUME NEW ids \in Spot, NEW ok \in BOOLEAN
        PROVE  LET m == ChangeOri(n, ids, ok) IN NaviOK(m) /\ m.step # 0
    <3>1. \A ori \in {0, 1} : /\ NaviOK([n EXCEPT !.OriSpeed = ori])
                              /\ [n EXCEPT !.OriSpeed = ori].step # 0
      BY DEF NaviOK, Navigation
    <3> QED BY <3>1 DEF ChangeOri
  <2>3. ASSUME NEW ids \in Spot, NEW m, NaviOK(m), m.step # 0, NEW p \in then(ids, m)
        PROVE  NaviOK(p.navi) /\ (p.result = 0 => p.navi.step # 0)
    <3>1. CASE ids < 30 /\ m.OriSpeed = 1
      BY <2>3, <3>1, ApproachSound
    <3>2. CASE ~(ids < 30 /\ m.OriSpeed = 1) /\ m.maybe_end_try_count = 0
      BY <2>3, <3>2, LeaveStripSound
    <3>3. CASE ~(ids < 30 /\ m.OriSpeed = 1) /\ m.maybe_end_try_count # 0
      <4>1. p = NormalMove(m, d, ids)
        BY <2>3, <3>3
      <4> QED BY <2>3, <3>3, <4>1, NormalMoveSound
    <3> QED BY <3>1, <3>2, <3>3
  <2> HIDE DEF then
  <2>4. o = Outcome(n, 101) => NaviOK(o.navi) /\ o.result # 0
    BY DEF Outcome
  <2> QED BY <2>1, <2>2, <2>3, <2>4
<1> QED BY <1>1, <1>2

LEMMA FindSound ==
  ASSUME NEW n, NaviOK(n), n.step = 0, NEW way \in Way
  PROVE  LET o == Find(n, way)
         IN NaviOK(o.navi) /\ o.navi.step = 0 /\ o.result # 0
<1> DEFINE Fine(o) == NaviOK(o.navi) /\ o.navi.step = 0 /\ o.result # 0
           At(x) == [n EXCEPT !.findmemsstep = x]
<1>1. n.findmemsstep \in {2, 3, 4} => n.max_try_find_count # 0
  BY DEF NaviOK
<1>2. ASSUME NEW m, NaviOK(m), m.step = 0
      PROVE  Fine(Outcome(m, 100)) /\ Fine(Outcome(m, 101)) /\ Fine(Outcome(m, 102))
  BY <1>2 DEF Outcome
<1>3. ASSUME NEW x \in 0..5, n.max_try_find_count = 0 => x \in {0, 1, 5}
      PROVE  /\ NaviOK(At(x)) /\ At(x).step = 0
             /\ NaviOK(Turn(At(x))) /\ Turn(At(x)).step = 0
  BY <1>3, SearchStepOK
<1>4. Find(n, way) =
        CASE way = "too far" -> Outcome(n, 101)
          [] way # "too far" /\ n.findmemsstep = 2 /\ way = "full" -> Outcome(Turn(At(3)), 100)
          [] n.findmemsstep = 3 /\ way = "short" -> Outcome(At(4), 100)
          [] n.findmemsstep = 4 /\ way = "full" -> Outcome(Turn(At(5)), 100)
          [] way # "too far" /\ n.findmemsstep = 5 -> Outcome(At(0), 102)
          [] OTHER -> Outcome(n, 100)
  BY Zenon DEF Find
<1> SUFFICES Fine(Find(n, way))
  OBVIOUS
<1> HIDE DEF Fine, At
<1>5. Find(n, way) \in {Outcome(n, 101), Outcome(n, 100), Outcome(At(0), 102)}
      \/ /\ n.max_try_find_count # 0
         /\ Find(n, way) \in {Outcome(Turn(At(3)), 100), Outcome(At(4), 100),
                              Outcome(Turn(At(5)), 100)}
  BY <1>1, <1>4
<1>6. Fine(Outcome(n, 101)) /\ Fine(Outcome(n, 100)) /\ Fine(Outcome(At(0), 102))
  BY <1>2, <1>3
<1>7. ASSUME n.max_try_find_count # 0
      PROVE  /\ Fine(Outcome(Turn(At(3)), 100)) /\ Fine(Outcome(At(4), 100))
             /\ Fine(Outcome(Turn(At(5)), 100))
  BY <1>2, <1>3, <1>7
<1> QED BY <1>5, <1>6, <1>7

LEMMA SelfFindModeSound ==
  ASSUME NEW n, NaviOK(n), n.step = 0, NEW d \in Reading, NEW o \in SelfFindMode(n, d)
  PROVE  Sound(o, n, d)
<1> DEFINE tried == IF n.max_try_find_count = 0 THEN [n EXCEPT !.findmemsstep = 5] ELSE n
           search == [tried EXCEPT !.findmemsstep = 1, !.max_try_find_count = @ - 1]
<1>1. n \in Navigation
  BY DEF NaviOK
<1>2. /\ NaviOK(tried) /\ tried.step = 0
      /\ n.max_try_find_count = 0 => tried.findmemsstep = 5
      /\ tried.max_try_find_count = n.max_try_find_count
  BY <1>1 DEF NaviOK, Navigation
<1>3. CASE d.f \/ d.b
  <2>1. n.findmemsstep = 0 => NaviOK([n EXCEPT !.maybe_end_try_count = 3, !.step = 1])
    <3>1. \A x \in 0..3 : LET m == [n EXCEPT !.maybe_end_try_count = x, !.step = 1]
                          IN /\ m \in Navigation /\ m.findmemsstep = n.findmemsstep
                             /\ m.max_try_find_count = n.max_try_find_count
      BY <1>1 DEF Navigation
    <3> QED BY <3>1 DEF NaviOK
  <2>2. /\ NaviOK(Turn([n EXCEPT !.findmemsstep = 0]))
        /\ Turn([n EXCEPT !.findmemsstep = 0]).step = 0
    <3>1. 0 \in 0..5 /\ 0 \in {0, 1, 5}
      OBVIOUS
    <3> QED BY <3>1, SearchStepOK, Zenon
  <2> QED BY <1>3, <2>1, <2>2 DEF SelfFindMode, Outcome, Sound
<1>4. CASE ~d.f /\ ~d.b
  <2>1. CASE tried.findmemsstep = 0
    <3>1. NaviOK(Turn(search)) /\ Turn(search).step = 0
      <4>1. tried \in Navigation /\ tried.max_try_find_count \in 1..3
        BY <1>2, <2>1, NavigationFields DEF NaviOK
      <4> HIDE DEF tried
      <4>2. \A x \in 0..3 :
              \A f \in 0..5 :
                LET m == [tried EXCEPT !.findmemsstep = f, !.max_try_find_count = x]
                IN m \in Navigation /\ m.step = tried.step /\ m.findmemsstep = f
        BY <4>1 DEF Navigation
      <4>3. tried.max_try_find_count - 1 \in 0..3 /\ 1 \in 0..5
        BY <4>1
      <4>4. search \in Navigation /\ search.step = 0 /\ search.findmemsstep = 1
        BY <1>2, <4>2, <4>3, Zenon
      <4>5. NaviOK(search)
        <5> HIDE DEF search
        <5> QED BY <4>4 DEF NaviOK
      <4> HIDE DEF search
      <4> QED BY <4>4, <4>5, TurnOK
    <3>2. o \in {Outcome(n, 101), Outcome(Turn(search), 100)}
      BY <1>4, <2>1 DEF SelfFindMode
    <3> QED BY <3>1, <3>2 DEF Outcome, Sound
  <2>2. CASE tried.findmemsstep = 1
    <3>1. /\ NaviOK(Turn([tried EXCEPT !.findmemsstep = 2]))
          /\ Turn([tried EXCEPT !.findmemsstep = 2]).step = 0
      <4>1. tried.max_try_find_count # 0 /\ 2 \in 0..5
        BY <1>2, <2>2
      <4> HIDE DEF tried
      <4> QED BY <1>2, <4>1, SearchStepOK, Zenon
    <3>2. o = Outcome(Turn([tried EXCEPT !.findmemsstep = 2]), 100)
      BY <1>4, <2>2 DEF SelfFindMode
    <3> QED BY <3>1, <3>2 DEF Outcome, Sound
  <2>3. CASE tried.findmemsstep # 0 /\ tried.findmemsstep # 1
    <3>1. PICK way \in Way : o = Find(tried, way)
      BY <1>4, <2>3 DEF SelfFindMode
    <3> HIDE DEF tried
    <3>2. NaviOK(o.navi) /\ o.navi.step = 0 /\ o.result # 0
      BY <1>2, <3>1, FindSound
    <3> QED BY <3>2 DEF Sound
  <2> QED BY <2>1, <2>2, <2>3
<1> QED BY <1>3, <1>4

\* One round, from any state of the navigation that keeps what it keeps.
LEMMA HandleSound ==
  ASSUME Spot \subseteq Nat, NaviOK(navi), NEW d \in Reading, NEW o \in Handle(d)
  PROVE  Sound(o, navi, d)
<1> DEFINE n == [navi EXCEPT !.rotate_step = 0]
<1>1. NaviOK(n) /\ n.step = navi.step /\ n.step \in {0, 1, 3, 8}
  BY DEF NaviOK, Navigation
<1>2. /\ n.step = 0 => o \in SelfFindMode(n, d)
      /\ n.step = 1 => o \in FollowStrip(n, d)
      /\ n.step = 3 => o \in Approach(n, d)
      /\ n.step = 8 => o \in LeaveStrip(n, d)
  BY DEF Handle
<1> HIDE DEF n
<1>3. CASE n.step = 0
  BY <1>1, <1>2, <1>3, SelfFindModeSound DEF Sound
<1>4. CASE n.step = 1
  BY <1>1, <1>2, <1>4, FollowStripSound DEF Sound
<1>5. CASE n.step = 3
  BY <1>1, <1>2, <1>5, ApproachSound DEF Sound
<1>6. CASE n.step = 8
  BY <1>1, <1>2, <1>6, LeaveStripSound DEF Sound
<1> QED BY <1>1, <1>3, <1>4, <1>5, <1>6

LEMMA NewNavigationOK == NaviOK(NewNavigation) /\ NewNavigation.step = 0
BY DEF NaviOK, Navigation, NewNavigation

-----------------------------------------------------------------------------
LEMMA DockInitially == DockInit => DockIInv
<1> SUFFICES ASSUME DockInit PROVE DockIInv
  OBVIOUS
<1> USE DEF DockInit
<1>1. DockingTypeOK
  <2>1. navi \in Navigation
    BY NewNavigationOK DEF NaviOK
  <2>2. mtc_exit \in BOOLEAN /\ nowinfo \in BOOLEAN /\ isFinish \in BOOLEAN /\ crossed \in BOOLEAN /\ strip_seen \in BOOLEAN
    BY Zenon
  <2>3. /\ stale \in 0..GiveUpAt /\ chassis_turns \in 0..docks
        /\ docks \in 0..MaxDocks /\ docks_told \in 0..docks /\ drops \in 0..MaxDrops
    BY DockingAssumption
  <2> QED BY <2>1, <2>2, <2>3 DEF DockingTypeOK
<1>2. DockingToldOnce /\ ArrivedOnStrip /\ CrossInv
  BY DEF DockingToldOnce, ArrivedOnStrip, CrossInv
<1>3. SearchesBounded
  BY DEF SearchesBounded, NewNavigation
<1> QED BY <1>1, <1>2, <1>3, NewNavigationOK DEF DockIInv

\* The counts as numbers, and what they say of the task.
LEMMA Counts ==
  ASSUME DockIInv
  PROVE  /\ {GiveUpAt, ReopenAt, MaxDocks, MaxDrops} \subseteq Nat /\ 0 < GiveUpAt
         /\ {docks, docks_told, drops, stale, chassis_turns} \subseteq Nat
         /\ docks <= MaxDocks /\ docks_told <= docks /\ drops <= MaxDrops
         /\ stale <= GiveUpAt /\ chassis_turns <= docks
         /\ mtc_pc \in {"open", "test", "loop", "end"} => docks = docks_told + 1
         /\ mtc_pc \in {"off", "close"} => docks = docks_told
         /\ mtc_pc \in {"open", "test", "loop"} => stale < GiveUpAt
<1>1. {GiveUpAt, ReopenAt, MaxDocks, MaxDrops} \subseteq Nat /\ 0 < ReopenAt /\ ReopenAt < GiveUpAt
  BY DockingAssumption
<1>2. /\ docks \in 0..MaxDocks /\ docks_told \in 0..docks /\ drops \in 0..MaxDrops
      /\ stale \in 0..GiveUpAt /\ chassis_turns \in 0..docks
  BY DEF DockIInv, DockingTypeOK
<1>3. /\ mtc_pc \in {"open", "test", "loop", "end"} => docks = docks_told + 1
      /\ mtc_pc \in {"off", "close"} => docks = docks_told
  BY <1>2 DEF DockIInv, DockingToldOnce
<1> QED BY <1>1, <1>2, <1>3 DEF DockIInv

\* A step that leaves the line alone and does not let the task begin or go on.
LEMMA LineStays ==
  ASSUME CrossInv, mtc_pc' # mtc_pc => mtc_pc' \notin {"open", "test", "loop"}, docks' = docks,
         cmems' = cmems, isFinish' = isFinish /\ crossed' = crossed
  PROVE  CrossInv'
BY DEF CrossInv

\* A task begins with a navigation that is new, and with a number no rotation has.
LEMMA StartKeeps ==
  ASSUME DockIInv, NAVIGATE_START_MASE
  PROVE  DockIInv'
<1>0. DockIInv /\ NAVIGATE_START_MASE
  OBVIOUS
<1> USE DEF NAVIGATE_START_MASE, mtcVars, lineVars, robotVars
<1>1. /\ (docks \in 0..MaxDocks /\ docks_told \in 0..docks /\ drops \in 0..MaxDrops)'
      /\ (stale \in 0..GiveUpAt /\ chassis_turns \in 0..docks)'
      /\ DockingToldOnce'
  BY <1>0, Counts DEF DockingToldOnce
<1> USE <1>0 DEF DockIInv
<1>2. NaviOK(navi)'
  BY NewNavigationOK
<1>3. DockingTypeOK'
  BY <1>1, <1>2 DEF DockingTypeOK, NaviOK
<1>4. (navi.step # 0 => strip_seen)'
  BY NewNavigationOK
<1>5. (mtc_pc \in {"open", "test", "loop"} /\ navi.rotate_step = 0 => chassis_turns # docks)'
  BY Counts
<1>6. /\ (mtc_out = "success" => mtc_pc = "end")'
      /\ (mtc_pc \in {"off", "open", "test", "close"} => navi = NewNavigation)'
      /\ (mtc_pc \in {"open", "test", "loop"} => stale < GiveUpAt)'
  BY Counts DEF DockingTypeOK
<1>7. ArrivedOnStrip' /\ CrossInv'
  <2>1. ArrivedOnStrip'
    BY DEF DockingTypeOK, ArrivedOnStrip
  <2>2. docks' = docks + 1 /\ docks \in Nat /\ mtc_pc' = "open" /\ cmems' = cmems
        /\ crossed' = crossed
    BY Counts
  <2> QED BY <2>1, <2>2 DEF CrossInv
<1> QED BY <1>1, <1>2, <1>3, <1>4, <1>5, <1>6, <1>7 DEF SearchesBounded, NaviOK

LEMMA DockStopKeeps ==
  ASSUME DockIInv, NAVIGATE_STOP_MASE
  PROVE  DockIInv'
<1>0. DockIInv /\ NAVIGATE_STOP_MASE
  OBVIOUS
<1> USE DEF NAVIGATE_STOP_MASE, mtcVars, lineVars, robotVars
<1>1. /\ (docks \in 0..MaxDocks /\ docks_told \in 0..docks /\ drops \in 0..MaxDrops)'
      /\ (stale \in 0..GiveUpAt /\ chassis_turns \in 0..docks)'
  BY <1>0, Counts
<1>8. DockingToldOnce'
  BY <1>0, Zenon DEF DockingToldOnce, DockIInv
<1> USE <1>0 DEF DockIInv
<1>2. NaviOK(navi)'
  BY NewNavigationOK
<1>3. DockingTypeOK'
  BY <1>1, <1>2 DEF DockingTypeOK, NaviOK
<1>4. (navi.step # 0 => strip_seen)'
  BY NewNavigationOK
<1>5. (mtc_pc \in {"open", "test", "loop"} /\ navi.rotate_step = 0 => chassis_turns # docks)'
  BY Counts
<1>6. /\ (mtc_out = "success" => mtc_pc = "end")'
      /\ (mtc_pc \in {"off", "open", "test", "close"} => navi = NewNavigation)'
      /\ (mtc_pc \in {"open", "test", "loop"} => stale < GiveUpAt)'
  BY Counts DEF DockingTypeOK
<1>7. ArrivedOnStrip' /\ CrossInv'
  <2>1. ArrivedOnStrip'
    BY DEF DockingTypeOK, ArrivedOnStrip
  <2>2. CrossInv /\ mtc_pc' = mtc_pc /\ cmems' = cmems /\ isFinish' = isFinish /\ crossed' = crossed
    OBVIOUS
  <2> QED BY <2>1, <2>2, LineStays
<1> QED BY <1>1, <1>2, <1>3, <1>4, <1>5, <1>6, <1>7, <1>8 DEF SearchesBounded, NaviOK

LEMMA NoLibraryKeeps ==
  ASSUME DockIInv, no_library
  PROVE  DockIInv'
<1>0. DockIInv /\ no_library
  OBVIOUS
<1> USE DEF no_library, mtcVars, lineVars, robotVars
<1>1. /\ (docks \in 0..MaxDocks /\ docks_told \in 0..docks /\ drops \in 0..MaxDrops)'
      /\ (stale \in 0..GiveUpAt /\ chassis_turns \in 0..docks)'
      /\ DockingToldOnce'
  BY <1>0, Counts DEF DockingToldOnce
<1> USE <1>0 DEF DockIInv
<1>2. NaviOK(navi)'
  BY NewNavigationOK
<1>3. DockingTypeOK'
  BY <1>1, <1>2 DEF DockingTypeOK, NaviOK
<1>4. (navi.step # 0 => strip_seen)'
  BY NewNavigationOK
<1>5. (mtc_pc \in {"open", "test", "loop"} /\ navi.rotate_step = 0 => chassis_turns # docks)'
  BY Counts
<1>6. /\ (mtc_out = "success" => mtc_pc = "end")'
      /\ (mtc_pc \in {"off", "open", "test", "close"} => navi = NewNavigation)'
      /\ (mtc_pc \in {"open", "test", "loop"} => stale < GiveUpAt)'
  BY Counts DEF DockingTypeOK
<1>7. ArrivedOnStrip' /\ CrossInv'
  <2>1. ArrivedOnStrip'
    BY DEF DockingTypeOK, ArrivedOnStrip
  <2>2. CrossInv /\ docks' = docks /\ cmems' = cmems /\ isFinish' = isFinish /\ crossed' = crossed
    OBVIOUS
  <2>3. mtc_pc' # mtc_pc => mtc_pc' \notin {"open", "test", "loop"}
    OBVIOUS
  <2> QED BY <2>1, <2>2, <2>3, LineStays
<1> QED BY <1>1, <1>2, <1>3, <1>4, <1>5, <1>6, <1>7 DEF SearchesBounded, NaviOK

LEMMA OpenBeginKeeps ==
  ASSUME DockIInv, open_com_begin
  PROVE  DockIInv'
<1>0. DockIInv /\ open_com_begin
  OBVIOUS
<1> USE DEF open_com_begin, clear_finish, mtcVars, lineVars, robotVars
<1>1. /\ (docks \in 0..MaxDocks /\ docks_told \in 0..docks /\ drops \in 0..MaxDrops)'
      /\ (stale \in 0..GiveUpAt /\ chassis_turns \in 0..docks)'
      /\ DockingToldOnce'
  BY <1>0, Counts DEF DockingToldOnce
<1> USE <1>0 DEF DockIInv
<1>2. NaviOK(navi)'
  BY NewNavigationOK
<1>3. DockingTypeOK'
  BY <1>1, <1>2 DEF DockingTypeOK, NaviOK
<1>4. (navi.step # 0 => strip_seen)'
  BY NewNavigationOK
<1>5. (mtc_pc \in {"open", "test", "loop"} /\ navi.rotate_step = 0 => chassis_turns # docks)'
  BY Counts
<1>6. /\ (mtc_out = "success" => mtc_pc = "end")'
      /\ (mtc_pc \in {"off", "open", "test", "close"} => navi = NewNavigation)'
      /\ (mtc_pc \in {"open", "test", "loop"} => stale < GiveUpAt)'
  BY Counts DEF DockingTypeOK
<1>7. ArrivedOnStrip'
  <2>1. mtc_out' # "success"
    BY DEF DockingTypeOK
  <2> QED BY <2>1 DEF ArrivedOnStrip
<1>8. CrossInv'
  <2>1. docks' = docks /\ mtc_pc = "open" /\ mtc_pc' = "test" /\ cmems' = cmems /\ ~isFinish' /\ ~crossed'
    BY Zenon
  <2> QED BY <2>1 DEF CrossInv
<1> QED BY <1>1, <1>2, <1>3, <1>4, <1>5, <1>6, <1>7, <1>8 DEF SearchesBounded, NaviOK

LEMMA OpenKeeps ==
  ASSUME DockIInv, open_com
  PROVE  DockIInv'
<1>0. DockIInv /\ open_com
  OBVIOUS
<1> USE DEF open_com, mtcVars, lineVars, robotVars
<1>1. /\ (docks \in 0..MaxDocks /\ docks_told \in 0..docks /\ drops \in 0..MaxDrops)'
      /\ (stale \in 0..GiveUpAt /\ chassis_turns \in 0..docks)'
      /\ DockingToldOnce'
  <2>1. drops' = drops \/ (drops < MaxDrops /\ drops' = drops + 1)
    BY <1>0
  <2>2. \/ mtc_pc' = "loop" /\ docks_told' = docks_told
        \/ mtc_pc' = "off" /\ docks_told' = docks_told + 1
    BY <1>0
  <2> QED BY <1>0, <2>1, <2>2, Counts DEF DockingToldOnce
<1> USE <1>0 DEF DockIInv
<1>2. NaviOK(navi)'
  BY NewNavigationOK
<1>3. DockingTypeOK'
  BY <1>1, <1>2 DEF DockingTypeOK, NaviOK
<1>4. (navi.step # 0 => strip_seen)'
  BY NewNavigationOK
<1>5. (mtc_pc \in {"open", "test", "loop"} /\ navi.rotate_step = 0 => chassis_turns # docks)'
  BY Counts
<1>6. /\ (mtc_out = "success" => mtc_pc = "end")'
      /\ (mtc_pc \in {"off", "open", "test", "close"} => navi = NewNavigation)'
      /\ (mtc_pc \in {"open", "test", "loop"} => stale < GiveUpAt)'
  BY Counts DEF DockingTypeOK
<1>7. ArrivedOnStrip'
  <2>1. mtc_out' # "success"
    BY DEF DockingTypeOK
  <2> QED BY <2>1 DEF ArrivedOnStrip
<1>8. CrossInv'
  <2>1. /\ docks' = docks /\ mtc_pc = "test" /\ mtc_pc' \in {"loop", "off"}
        /\ isFinish' = isFinish /\ crossed' = crossed
    OBVIOUS
  <2>2. docks \in Nat /\ docks # 0
    BY <2>1, Counts
  <2> QED BY <2>1, <2>2 DEF CrossInv
<1> QED BY <1>1, <1>2, <1>3, <1>4, <1>5, <1>6, <1>7, <1>8 DEF SearchesBounded, NaviOK

LEMMA ExitKeeps ==
  ASSUME DockIInv, take_exit
  PROVE  DockIInv'
<1>0. DockIInv /\ take_exit
  OBVIOUS
<1> USE DEF take_exit, mtcVars, lineVars, robotVars
<1>1. /\ (docks \in 0..MaxDocks /\ docks_told \in 0..docks /\ drops \in 0..MaxDrops)'
      /\ (stale \in 0..GiveUpAt /\ chassis_turns \in 0..docks)'
      /\ DockingToldOnce'
  BY <1>0, Counts DEF DockingToldOnce
<1> USE <1>0 DEF DockIInv
<1>2. NaviOK(navi)'
  BY NewNavigationOK
<1>3. DockingTypeOK'
  BY <1>1, <1>2 DEF DockingTypeOK, NaviOK
<1>4. (navi.step # 0 => strip_seen)'
  BY NewNavigationOK
<1>5. (mtc_pc \in {"open", "test", "loop"} /\ navi.rotate_step = 0 => chassis_turns # docks)'
  BY Counts
<1>6. /\ (mtc_out = "success" => mtc_pc = "end")'
      /\ (mtc_pc \in {"off", "open", "test", "close"} => navi = NewNavigation)'
      /\ (mtc_pc \in {"open", "test", "loop"} => stale < GiveUpAt)'
  BY Counts DEF DockingTypeOK
<1>7. ArrivedOnStrip' /\ CrossInv'
  <2>1. ArrivedOnStrip'
    BY DEF DockingTypeOK, ArrivedOnStrip
  <2>2. CrossInv /\ docks' = docks /\ cmems' = cmems /\ isFinish' = isFinish /\ crossed' = crossed
    OBVIOUS
  <2>3. mtc_pc' # mtc_pc => mtc_pc' \notin {"open", "test", "loop"}
    OBVIOUS
  <2> QED BY <2>1, <2>2, <2>3, LineStays
<1> QED BY <1>1, <1>2, <1>3, <1>4, <1>5, <1>6, <1>7 DEF SearchesBounded, NaviOK

LEMMA DockRotateKeeps ==
  ASSUME DockIInv, rotate_begin
  PROVE  DockIInv'
<1>0. DockIInv /\ rotate_begin
  OBVIOUS
<1> USE DEF rotate_begin, round, mtcVars, lineVars, robotVars
<1>1. /\ (docks \in 0..MaxDocks /\ docks_told \in 0..docks /\ drops \in 0..MaxDrops)'
      /\ (stale \in 0..GiveUpAt /\ chassis_turns \in 0..docks)'
      /\ DockingToldOnce'
  BY <1>0, Counts DEF DockingToldOnce
<1> USE <1>0 DEF DockIInv
<1>2. NaviOK(navi)' /\ navi'.step = navi.step /\ navi'.rotate_step # 0
  <2> DEFINE m == [navi EXCEPT !.rotate_step = 2]
  <2>1. NaviOK(m) /\ m.step = navi.step /\ m.rotate_step = 2
    <3>1. \A x \in 0..2 : LET k == [navi EXCEPT !.rotate_step = x]
                          IN NaviOK(k) /\ k.step = navi.step /\ k.rotate_step = x
      BY DEF NaviOK, Navigation
    <3>2. 2 \in 0..2
      OBVIOUS
    <3> QED BY <3>1, <3>2, Zenon
  <2>2. navi' = m \/ navi' = navi
    OBVIOUS
  <2>3. navi.rotate_step = 1
    OBVIOUS
  <2> HIDE DEF m
  <2> QED BY <2>1, <2>2, <2>3
<1>3. DockingTypeOK'
  BY <1>1, <1>2 DEF DockingTypeOK, NaviOK
<1>4. (navi.step # 0 => strip_seen)'
  BY <1>2
<1>5. (mtc_pc \in {"open", "test", "loop"} /\ navi.rotate_step = 0 => chassis_turns # docks)'
  BY <1>2
<1>6. /\ (mtc_out = "success" => mtc_pc = "end")'
      /\ (mtc_pc \in {"off", "open", "test", "close"} => navi = NewNavigation)'
      /\ (mtc_pc \in {"open", "test", "loop"} => stale < GiveUpAt)'
  BY Counts DEF DockingTypeOK
<1>7. ArrivedOnStrip'
  <2>1. mtc_out' # "success"
    BY DEF DockingTypeOK
  <2> QED BY <2>1 DEF ArrivedOnStrip
<1>8. CrossInv'
  <2>1. CrossInv /\ mtc_pc = "loop" /\ cmems' = cmems /\ isFinish' = isFinish /\ crossed' = crossed
    OBVIOUS
  <2> QED BY <2>1, LineStays
<1> QED BY <1>1, <1>2, <1>3, <1>4, <1>5, <1>6, <1>7, <1>8 DEF SearchesBounded, NaviOK

LEMMA WaitKeeps ==
  ASSUME DockIInv, rotate_wait
  PROVE  DockIInv'
<1>0. DockIInv /\ rotate_wait
  OBVIOUS
<1> USE DEF rotate_wait, round, mtcVars, lineVars, robotVars
<1>1. /\ (docks \in 0..MaxDocks /\ docks_told \in 0..docks /\ drops \in 0..MaxDrops)'
      /\ (stale \in 0..GiveUpAt /\ chassis_turns \in 0..docks)'
      /\ DockingToldOnce'
  BY <1>0, Counts DEF DockingToldOnce
<1> USE <1>0 DEF DockIInv
<1>2. NaviOK(navi)'
  BY NewNavigationOK
<1>3. DockingTypeOK'
  BY <1>1, <1>2 DEF DockingTypeOK, NaviOK
<1>4. (navi.step # 0 => strip_seen)'
  BY NewNavigationOK
<1>5. (mtc_pc \in {"open", "test", "loop"} /\ navi.rotate_step = 0 => chassis_turns # docks)'
  BY Counts
<1>6. /\ (mtc_out = "success" => mtc_pc = "end")'
      /\ (mtc_pc \in {"off", "open", "test", "close"} => navi = NewNavigation)'
      /\ (mtc_pc \in {"open", "test", "loop"} => stale < GiveUpAt)'
  BY Counts DEF DockingTypeOK
<1>7. ArrivedOnStrip'
  <2>1. mtc_out' # "success"
    BY DEF DockingTypeOK
  <2> QED BY <2>1 DEF ArrivedOnStrip
<1>8. CrossInv'
  <2>1. CrossInv /\ mtc_pc = "loop" /\ cmems' = cmems /\ isFinish' = isFinish /\ crossed' = crossed
    OBVIOUS
  <2> QED BY <2>1, LineStays
<1> QED BY <1>1, <1>2, <1>3, <1>4, <1>5, <1>6, <1>7, <1>8 DEF SearchesBounded, NaviOK

LEMMA NoDataKeeps ==
  ASSUME DockIInv, no_data
  PROVE  DockIInv'
<1>0. DockIInv /\ no_data
  OBVIOUS
<1> USE DEF no_data, autoopen_com, mtcVars, lineVars, robotVars
<1>1. /\ (docks \in 0..MaxDocks /\ docks_told \in 0..docks /\ drops \in 0..MaxDrops)'
      /\ (stale \in 0..GiveUpAt /\ chassis_turns \in 0..docks)'
      /\ DockingToldOnce'
  <2>1. mtc_pc = "loop" /\ mtc_pc' \in {"loop", "end"}
    BY <1>0
  <2>2. docks = docks_told + 1 /\ docks' = docks /\ docks_told' = docks_told
    BY <1>0, <2>1, Counts
  <2>3. DockingToldOnce'
    BY <2>1, <2>2, Counts DEF DockingToldOnce
  <2>4. stale' = stale + 1 /\ stale < GiveUpAt
    BY <1>0, <2>1, Counts
  <2> QED BY <1>0, <2>3, <2>4, Counts
<1> USE <1>0 DEF DockIInv
<1>2. NaviOK(navi)'
  BY NewNavigationOK
<1>3. DockingTypeOK'
  <2>1. isFinish \in BOOLEAN /\ crossed \in BOOLEAN /\ mtc_exit \in BOOLEAN /\ nowinfo \in BOOLEAN
        /\ strip_seen \in BOOLEAN
    BY Zenon DEF DockingTypeOK
  <2>2. isFinish' \in BOOLEAN /\ crossed' \in BOOLEAN /\ mtc_exit' \in BOOLEAN /\ nowinfo' \in BOOLEAN
        /\ strip_seen' \in BOOLEAN
    BY <2>1, Zenon DEF clear_finish
  <2>3. cmems' \in SerialState /\ mtc_pc' \in {"loop", "end"}
        /\ mtc_out' \in {"failed", "success", "need init"}
    BY DEF DockingTypeOK, SerialState
  <2> QED BY <1>1, <1>2, <2>2, <2>3 DEF DockingTypeOK, NaviOK, SerialState
<1>4. (navi.step # 0 => strip_seen)'
  BY NewNavigationOK
<1>5. (mtc_pc \in {"open", "test", "loop"} /\ navi.rotate_step = 0 => chassis_turns # docks)'
  BY Counts
<1>6. /\ (mtc_out = "success" => mtc_pc = "end")'
      /\ (mtc_pc \in {"off", "open", "test", "close"} => navi = NewNavigation)'
      /\ (mtc_pc \in {"open", "test", "loop"} => stale < GiveUpAt)'
  BY Counts DEF DockingTypeOK
<1>7. ArrivedOnStrip' /\ CrossInv'
  <2>1. ArrivedOnStrip'
    BY DEF DockingTypeOK, ArrivedOnStrip
  <2>2. CASE cmems' = cmems /\ isFinish' = isFinish /\ crossed' = crossed
    <3>1. docks' = docks /\ (mtc_pc' # mtc_pc => mtc_pc' \notin {"open", "test", "loop"})
      OBVIOUS
    <3> QED BY <2>1, <2>2, <3>1, LineStays
  <2>3. CASE ~isFinish' /\ ~crossed'
    <3>1. docks' = docks /\ mtc_pc = "loop" /\ mtc_pc' \in {"loop", "end"} /\ docks # 0
      BY Counts
    <3> QED BY <2>1, <2>3, <3>1 DEF CrossInv
  <2> QED BY <2>2, <2>3, Zenon DEF clear_finish
<1> QED BY <1>1, <1>2, <1>3, <1>4, <1>5, <1>6, <1>7 DEF SearchesBounded, NaviOK

LEMMA PostKeeps ==
  ASSUME DockIInv, post_out
  PROVE  DockIInv'
<1>0. DockIInv /\ post_out
  OBVIOUS
<1> USE DEF post_out, mtcVars, lineVars, robotVars
<1>1. /\ (docks \in 0..MaxDocks /\ docks_told \in 0..docks /\ drops \in 0..MaxDrops)'
      /\ (stale \in 0..GiveUpAt /\ chassis_turns \in 0..docks)'
      /\ DockingToldOnce'
  BY <1>0, Counts DEF DockingToldOnce
<1> USE <1>0 DEF DockIInv
<1>2. NaviOK(navi)'
  BY NewNavigationOK
<1>3. DockingTypeOK'
  BY <1>1, <1>2 DEF DockingTypeOK, NaviOK
<1>4. (navi.step # 0 => strip_seen)'
  BY NewNavigationOK
<1>5. (mtc_pc \in {"open", "test", "loop"} /\ navi.rotate_step = 0 => chassis_turns # docks)'
  BY Counts
<1>6. /\ (mtc_out = "success" => mtc_pc = "end")'
      /\ (mtc_pc \in {"off", "open", "test", "close"} => navi = NewNavigation)'
      /\ (mtc_pc \in {"open", "test", "loop"} => stale < GiveUpAt)'
  BY Counts DEF DockingTypeOK
<1>7. ArrivedOnStrip' /\ CrossInv'
  <2>1. ArrivedOnStrip'
    BY DEF DockingTypeOK, ArrivedOnStrip
  <2>2. CrossInv /\ docks' = docks /\ cmems' = cmems /\ isFinish' = isFinish /\ crossed' = crossed
    OBVIOUS
  <2>3. mtc_pc' # mtc_pc => mtc_pc' \notin {"open", "test", "loop"}
    OBVIOUS
  <2> QED BY <2>1, <2>2, <2>3, LineStays
<1> QED BY <1>1, <1>2, <1>3, <1>4, <1>5, <1>6, <1>7 DEF SearchesBounded, NaviOK

LEMMA CloseKeeps ==
  ASSUME DockIInv, close_com
  PROVE  DockIInv'
<1>0. DockIInv /\ close_com
  OBVIOUS
<1> USE DEF close_com, mtcVars, lineVars, robotVars
<1>1. /\ (docks \in 0..MaxDocks /\ docks_told \in 0..docks /\ drops \in 0..MaxDrops)'
      /\ (stale \in 0..GiveUpAt /\ chassis_turns \in 0..docks)'
      /\ DockingToldOnce'
  <2>1. mtc_pc = "close" /\ mtc_pc' = "off"
    BY <1>0
  <2>2. docks = docks_told /\ docks' = docks /\ docks_told' = docks_told
    BY <1>0, <2>1, Counts
  <2>3. DockingToldOnce'
    BY <2>1, <2>2, Counts DEF DockingToldOnce
  <2> QED BY <1>0, <2>3, Counts
<1> USE <1>0 DEF DockIInv
<1>2. NaviOK(navi)'
  BY NewNavigationOK
<1>3. DockingTypeOK'
  BY <1>1, <1>2 DEF DockingTypeOK, NaviOK
<1>4. (navi.step # 0 => strip_seen)'
  BY NewNavigationOK
<1>5. (mtc_pc \in {"open", "test", "loop"} /\ navi.rotate_step = 0 => chassis_turns # docks)'
  BY Counts
<1>6. /\ (mtc_out = "success" => mtc_pc = "end")'
      /\ (mtc_pc \in {"off", "open", "test", "close"} => navi = NewNavigation)'
      /\ (mtc_pc \in {"open", "test", "loop"} => stale < GiveUpAt)'
  BY Counts DEF DockingTypeOK
<1>7. ArrivedOnStrip' /\ CrossInv'
  <2>1. ArrivedOnStrip'
    BY DEF DockingTypeOK, ArrivedOnStrip
  <2>2. docks' = docks /\ mtc_pc' = "off" /\ cmems' = cmems /\ crossed' = crossed
    OBVIOUS
  <2> QED BY <2>1, <2>2 DEF CrossInv
<1> QED BY <1>1, <1>2, <1>3, <1>4, <1>5, <1>6, <1>7 DEF SearchesBounded, NaviOK

\* A round in which the navigation is asked: it is asked only when no rotation of this task goes
\* on, and what it answers is sound.
LEMMA NavigateKeeps ==
  ASSUME DockIInv, navigate
  PROVE  DockIInv'
<1>0. DockIInv /\ navigate
  OBVIOUS
<1>1. PICK d \in Reading :
        /\ round /\ rotated
        /\ \E o \in Handle(d) :
             /\ navi' = o.navi
             /\ mtc_pc' = IF o.result = 100 THEN "loop" ELSE "end"
             /\ mtc_out' = CASE o.result = 0 -> "success" [] o.result = 102 -> "need init"
                             [] OTHER -> mtc_out
             /\ strip_seen' = (d.f \/ d.b \/ (strip_seen /\ o.navi.findmemsstep # 1))
        /\ UNCHANGED <<mtc_exit, docks, docks_told, lineVars, chassis_turns>>
  BY <1>0, Zenon DEF navigate
<1>2. PICK o \in Handle(d) :
        /\ navi' = o.navi
        /\ mtc_pc' = IF o.result = 100 THEN "loop" ELSE "end"
        /\ mtc_out' = CASE o.result = 0 -> "success" [] o.result = 102 -> "need init"
                        [] OTHER -> mtc_out
        /\ strip_seen' = (d.f \/ d.b \/ (strip_seen /\ o.navi.findmemsstep # 1))
  BY <1>1, Zenon
<1>3. NaviOK(navi) /\ Spot \subseteq Nat
  BY <1>0, DockingAssumption DEF DockIInv
<1>4. Sound(o, navi, d)
  BY <1>3, HandleSound
<1>5. NaviOK(navi)' /\ (navi.step # 0 => navi.findmemsstep = 0)'
  BY <1>2, <1>4 DEF Sound, NaviOK
<1>6. mtc_pc = "loop" /\ stale' = 0 /\ mtc_pc' \in {"loop", "end"}
  BY <1>1, <1>2 DEF round
<1>7. /\ docks' = docks /\ docks_told' = docks_told /\ drops' = drops
      /\ chassis_turns' = chassis_turns /\ mtc_exit' = mtc_exit
      /\ nowinfo' = nowinfo /\ cmems' = cmems /\ isFinish' = isFinish /\ crossed' = crossed
  BY <1>1 DEF lineVars
<1>8. chassis_turns # docks
  BY <1>0, <1>1, <1>6, Zenon DEF rotated, DockIInv
<1>9. mtc_out # "success" /\ mtc_out \in {"failed", "success", "need init"}
  BY <1>0, <1>6 DEF DockIInv, DockingTypeOK
<1>10. /\ mtc_out' \in {"failed", "success", "need init"}
       /\ mtc_out' = "success" => o.result = 0
  BY <1>2, <1>9
<1>11. navi'.step # 0 => strip_seen'
  <2>1. navi'.step # 0 => navi'.findmemsstep # 1
    BY <1>5
  <2>2. navi'.step # 0 => navi.step # 0 \/ d.f \/ d.b
    BY <1>2, <1>4, Zenon DEF Sound
  <2>3. navi.step # 0 => strip_seen
    BY <1>0 DEF DockIInv
  <2> QED BY <1>2, <2>1, <2>2, <2>3, Zenon
<1>12. mtc_out' = "success" => strip_seen' /\ mtc_pc' = "end"
  <2> SUFFICES ASSUME mtc_out' = "success" PROVE strip_seen' /\ mtc_pc' = "end"
    OBVIOUS
  <2>1. o.result = 0
    BY <1>10
  <2>2. navi'.step # 0
    BY <1>2, <1>4, <2>1 DEF Sound
  <2> QED BY <1>2, <1>11, <2>1, <2>2
<1>13. /\ docks' \in 0..MaxDocks /\ docks_told' \in 0..docks' /\ drops' \in 0..MaxDrops
       /\ stale' \in 0..GiveUpAt /\ chassis_turns' \in 0..docks' /\ stale' < GiveUpAt
       /\ docks = docks_told + 1
  BY <1>0, <1>6, <1>7, Counts
<1>14. DockingToldOnce'
  BY <1>6, <1>7, <1>13 DEF DockingToldOnce
<1>15. DockingTypeOK'
  <2>1. mtc_exit \in BOOLEAN /\ nowinfo \in BOOLEAN /\ isFinish \in BOOLEAN /\ crossed \in BOOLEAN
        /\ cmems \in SerialState /\ strip_seen \in BOOLEAN
    BY <1>0, Zenon DEF DockIInv, DockingTypeOK, SerialState
  <2>2. strip_seen' \in BOOLEAN
    BY <1>2, Zenon
  <2>3. mtc_exit' \in BOOLEAN /\ nowinfo' \in BOOLEAN /\ isFinish' \in BOOLEAN /\ crossed' \in BOOLEAN
    BY <1>7, <2>1, Zenon
  <2>4. /\ mtc_pc' \in {"off", "open", "test", "loop", "end", "close"} /\ navi' \in Navigation
        /\ cmems' \in SerialState
    BY <1>5, <1>6, <1>7, <2>1 DEF NaviOK
  <2> QED BY <1>10, <1>13, <2>2, <2>3, <2>4, Zenon DEF DockingTypeOK, SerialState
<1>16. CrossInv'
  BY <1>0, <1>6, <1>7, LineStays DEF DockIInv
<1>17. ArrivedOnStrip' /\ SearchesBounded'
  BY <1>5, <1>7, <1>8, <1>12, Zenon DEF ArrivedOnStrip, SearchesBounded, NaviOK
<1> QED BY <1>5, <1>6, <1>7, <1>8, <1>11, <1>12, <1>13, <1>14, <1>15, <1>16, <1>17
        DEF DockIInv

\* A step outside the thread of the task.
LEMMA OutsideKeeps ==
  ASSUME DockIInv,
         mtc_pc' = mtc_pc, mtc_exit' = mtc_exit, mtc_out' = mtc_out, stale' = stale,
         docks' = docks, docks_told' = docks_told, navi' = navi, strip_seen' = strip_seen,
         nowinfo' \in BOOLEAN, isFinish' \in BOOLEAN /\ crossed' \in BOOLEAN, drops' \in 0..MaxDrops,
         cmems' \in SerialState,
         chassis_turns' \in {0, chassis_turns},
         CrossInv'
  PROVE  DockIInv'
<1>1. /\ chassis_turns' \in 0..docks'
      /\ mtc_pc \in {"open", "test", "loop", "end"} /\ chassis_turns # docks => chassis_turns' # docks
  BY Counts
<1>2. DockingTypeOK'
  <2>1. mtc_exit' \in BOOLEAN /\ strip_seen' \in BOOLEAN
    BY Zenon DEF DockIInv, DockingTypeOK
  <2> QED BY <1>1, <2>1 DEF DockIInv, DockingTypeOK, SerialState
<1>3. DockingToldOnce' /\ SearchesBounded'
  BY Zenon DEF DockIInv, DockingToldOnce, SearchesBounded
<1>4. ArrivedOnStrip'
  BY <1>1 DEF DockIInv, ArrivedOnStrip
<1>5. /\ (navi.step # 0 => strip_seen)' /\ NaviOK(navi)'
      /\ (mtc_pc \in {"open", "test", "loop"} /\ navi.rotate_step = 0 => chassis_turns # docks)'
      /\ (mtc_out = "success" => mtc_pc = "end")'
      /\ (mtc_pc \in {"off", "open", "test", "close"} => navi = NewNavigation)'
      /\ (mtc_pc \in {"open", "test", "loop"} => stale < GiveUpAt)'
  BY <1>1 DEF DockIInv
<1> QED BY <1>2, <1>3, <1>4, <1>5 DEF DockIInv

LEMMA SerialOpenedKeeps ==
  ASSUME DockIInv, serial_opened
  PROVE  DockIInv'
<1>0. DockIInv /\ serial_opened
  OBVIOUS
<1>1. /\ mtc_pc' = mtc_pc /\ mtc_exit' = mtc_exit /\ mtc_out' = mtc_out /\ stale' = stale
      /\ docks' = docks /\ docks_told' = docks_told
      /\ navi' = navi /\ strip_seen' = strip_seen
  BY <1>0 DEF serial_opened, mtcVars, robotVars
<1>2. nowinfo' \in BOOLEAN /\ isFinish' \in BOOLEAN /\ crossed' \in BOOLEAN
  BY <1>0, Zenon DEF DockIInv, DockingTypeOK, serial_opened, set_finish, lineVars
<1>3. /\ drops' \in 0..MaxDrops /\ chassis_turns' \in {0, chassis_turns}
      /\ cmems' \in SerialState
  <2>1. cmems \in SerialState
    BY <1>0 DEF DockIInv, DockingTypeOK, SerialState
  <2>2. drops \in Nat /\ MaxDrops \in Nat /\ drops <= MaxDrops
    BY <1>0, Counts
  <2> QED BY <1>0, <2>1, <2>2 DEF serial_opened, set_finish, robotVars, SerialState
<1>4. CrossInv'
  <2>1. CASE cmems' = "leaving" /\ isFinish' = TRUE /\ crossed' = (crossed \/ mtc_pc = "test")
    <3>1. docks # 0 /\ ~(docks = 1 /\ mtc_pc \in {"open", "test"})
      BY <1>0 DEF DockIInv, CrossInv, serial_opened
    <3>2. docks \in Nat /\ (docks <= 1 => docks = 0 \/ docks = 1)
      BY <1>0, Counts
    <3> QED BY <1>0, <1>1, <2>1, <3>1, <3>2 DEF DockIInv, CrossInv
  <2>2. CASE cmems' = "reading" /\ isFinish' = isFinish /\ crossed' = crossed
    BY <1>0, <1>1, <2>2 DEF DockIInv, CrossInv, serial_opened
  <2> QED BY <1>0, <2>1, <2>2, Zenon DEF serial_opened, set_finish
<1> QED BY <1>0, <1>1, <1>2, <1>3, <1>4, OutsideKeeps

LEMMA MemsInKeeps ==
  ASSUME DockIInv, mems_in
  PROVE  DockIInv'
<1>0. DockIInv /\ mems_in
  OBVIOUS
<1>1. /\ mtc_pc' = mtc_pc /\ mtc_exit' = mtc_exit /\ mtc_out' = mtc_out /\ stale' = stale
      /\ docks' = docks /\ docks_told' = docks_told
      /\ navi' = navi /\ strip_seen' = strip_seen
  BY <1>0 DEF mems_in, mtcVars, robotVars
<1>2. nowinfo' \in BOOLEAN /\ isFinish' \in BOOLEAN /\ crossed' \in BOOLEAN
  BY <1>0, Zenon DEF DockIInv, DockingTypeOK, mems_in, lineVars
<1>3. /\ drops' \in 0..MaxDrops /\ chassis_turns' \in {0, chassis_turns}
      /\ cmems' \in SerialState
  BY <1>0, Counts DEF DockIInv, DockingTypeOK, mems_in, lineVars, robotVars,
     SerialState
<1>4. CrossInv'
  <2>1. CrossInv
    BY <1>0 DEF DockIInv
  <2>2. cmems' = cmems /\ isFinish' = isFinish /\ crossed' = crossed
    BY <1>0 DEF mems_in, lineVars
  <2> QED BY <1>1, <2>1, <2>2, LineStays
<1> QED BY <1>0, <1>1, <1>2, <1>3, <1>4, OutsideKeeps

LEMMA SerialBrokenKeeps ==
  ASSUME DockIInv, serial_broken
  PROVE  DockIInv'
<1>0. DockIInv /\ serial_broken
  OBVIOUS
<1>1. /\ mtc_pc' = mtc_pc /\ mtc_exit' = mtc_exit /\ mtc_out' = mtc_out /\ stale' = stale
      /\ docks' = docks /\ docks_told' = docks_told
      /\ navi' = navi /\ strip_seen' = strip_seen
  BY <1>0 DEF serial_broken, mtcVars, robotVars
<1>2. nowinfo' \in BOOLEAN /\ isFinish' \in BOOLEAN /\ crossed' \in BOOLEAN
  BY <1>0, Zenon DEF DockIInv, DockingTypeOK, serial_broken, lineVars
<1>3. /\ drops' \in 0..MaxDrops /\ chassis_turns' \in {0, chassis_turns}
      /\ cmems' \in SerialState
  <2>1. cmems \in SerialState
    BY <1>0 DEF DockIInv, DockingTypeOK, SerialState
  <2>2. drops \in Nat /\ MaxDrops \in Nat /\ drops <= MaxDrops
    BY <1>0, Counts
  <2> QED BY <1>0, <2>1, <2>2 DEF serial_broken, robotVars, SerialState
<1>4. CrossInv'
  BY <1>0, <1>1 DEF DockIInv, CrossInv, serial_broken
<1> QED BY <1>0, <1>1, <1>2, <1>3, <1>4, OutsideKeeps

LEMMA SerialExitKeeps ==
  ASSUME DockIInv, serial_exit
  PROVE  DockIInv'
<1>0. DockIInv /\ serial_exit
  OBVIOUS
<1>1. /\ mtc_pc' = mtc_pc /\ mtc_exit' = mtc_exit /\ mtc_out' = mtc_out /\ stale' = stale
      /\ docks' = docks /\ docks_told' = docks_told
      /\ navi' = navi /\ strip_seen' = strip_seen
  BY <1>0 DEF serial_exit, mtcVars, robotVars
<1>2. nowinfo' \in BOOLEAN /\ isFinish' \in BOOLEAN /\ crossed' \in BOOLEAN
  BY <1>0, Zenon DEF DockIInv, DockingTypeOK, serial_exit, set_finish, lineVars
<1>3. /\ drops' \in 0..MaxDrops /\ chassis_turns' \in {0, chassis_turns}
      /\ cmems' \in SerialState
  BY <1>0, Counts DEF DockIInv, DockingTypeOK, serial_exit, set_finish, lineVars, robotVars,
     SerialState
<1>4. CrossInv'
  <2>1. CASE cmems' = "leaving" /\ isFinish' = TRUE /\ crossed' = (crossed \/ mtc_pc = "test")
    <3>1. docks # 0 /\ ~(docks = 1 /\ mtc_pc \in {"open", "test"})
      BY <1>0 DEF DockIInv, CrossInv, serial_exit
    <3>2. docks \in Nat /\ (docks <= 1 => docks = 0 \/ docks = 1)
      BY <1>0, Counts
    <3> QED BY <1>0, <1>1, <2>1, <3>1, <3>2 DEF DockIInv, CrossInv
  <2> QED BY <1>0, <2>1, Zenon DEF serial_exit, set_finish
<1> QED BY <1>0, <1>1, <1>2, <1>3, <1>4, OutsideKeeps

LEMMA SerialEndedKeeps ==
  ASSUME DockIInv, serial_ended
  PROVE  DockIInv'
<1>0. DockIInv /\ serial_ended
  OBVIOUS
<1>1. /\ mtc_pc' = mtc_pc /\ mtc_exit' = mtc_exit /\ mtc_out' = mtc_out /\ stale' = stale
      /\ docks' = docks /\ docks_told' = docks_told
      /\ navi' = navi /\ strip_seen' = strip_seen
  BY <1>0 DEF serial_ended, mtcVars, robotVars
<1>2. nowinfo' \in BOOLEAN /\ isFinish' \in BOOLEAN /\ crossed' \in BOOLEAN
  BY <1>0, Zenon DEF DockIInv, DockingTypeOK, serial_ended, lineVars
<1>3. /\ drops' \in 0..MaxDrops /\ chassis_turns' \in {0, chassis_turns}
      /\ cmems' \in SerialState
  BY <1>0, Counts DEF DockIInv, DockingTypeOK, serial_ended, lineVars, robotVars,
     SerialState
<1>4. CrossInv'
  BY <1>0, <1>1 DEF DockIInv, CrossInv, serial_ended
<1> QED BY <1>0, <1>1, <1>2, <1>3, <1>4, OutsideKeeps

LEMMA ReadingAgesKeeps ==
  ASSUME DockIInv, reading_ages
  PROVE  DockIInv'
<1>0. DockIInv /\ reading_ages
  OBVIOUS
<1>1. /\ mtc_pc' = mtc_pc /\ mtc_exit' = mtc_exit /\ mtc_out' = mtc_out /\ stale' = stale
      /\ docks' = docks /\ docks_told' = docks_told
      /\ navi' = navi /\ strip_seen' = strip_seen
  BY <1>0 DEF reading_ages, mtcVars, robotVars
<1>2. nowinfo' \in BOOLEAN /\ isFinish' \in BOOLEAN /\ crossed' \in BOOLEAN
  BY <1>0, Zenon DEF DockIInv, DockingTypeOK, reading_ages, lineVars
<1>3. /\ drops' \in 0..MaxDrops /\ chassis_turns' \in {0, chassis_turns}
      /\ cmems' \in SerialState
  BY <1>0, Counts DEF DockIInv, DockingTypeOK, reading_ages, lineVars, robotVars,
     SerialState
<1>4. CrossInv'
  <2>1. CrossInv
    BY <1>0 DEF DockIInv
  <2>2. cmems' = cmems /\ isFinish' = isFinish /\ crossed' = crossed
    BY <1>0 DEF reading_ages, lineVars
  <2> QED BY <1>1, <2>1, <2>2, LineStays
<1> QED BY <1>0, <1>1, <1>2, <1>3, <1>4, OutsideKeeps

LEMMA ChassisTurnedKeeps ==
  ASSUME DockIInv, chassis_turned
  PROVE  DockIInv'
<1>0. DockIInv /\ chassis_turned
  OBVIOUS
<1>1. /\ mtc_pc' = mtc_pc /\ mtc_exit' = mtc_exit /\ mtc_out' = mtc_out /\ stale' = stale
      /\ docks' = docks /\ docks_told' = docks_told
      /\ navi' = navi /\ strip_seen' = strip_seen
  BY <1>0 DEF chassis_turned, mtcVars, robotVars
<1>2. nowinfo' \in BOOLEAN /\ isFinish' \in BOOLEAN /\ crossed' \in BOOLEAN
  BY <1>0, Zenon DEF DockIInv, DockingTypeOK, chassis_turned, lineVars
<1>3. /\ drops' \in 0..MaxDrops /\ chassis_turns' \in {0, chassis_turns}
      /\ cmems' \in SerialState
  BY <1>0, Counts DEF DockIInv, DockingTypeOK, chassis_turned, lineVars, robotVars,
     SerialState
<1>4. CrossInv'
  <2>1. CrossInv
    BY <1>0 DEF DockIInv
  <2>2. cmems' = cmems /\ isFinish' = isFinish /\ crossed' = crossed
    BY <1>0 DEF chassis_turned, lineVars
  <2> QED BY <1>1, <2>1, <2>2, LineStays
<1> QED BY <1>0, <1>1, <1>2, <1>3, <1>4, OutsideKeeps

LEMMA DockStutters ==
  ASSUME DockIInv, UNCHANGED dockVars
  PROVE  DockIInv'
<1>1. /\ mtc_pc' = mtc_pc /\ mtc_exit' = mtc_exit /\ mtc_out' = mtc_out /\ stale' = stale
      /\ docks' = docks /\ docks_told' = docks_told /\ navi' = navi /\ strip_seen' = strip_seen
      /\ nowinfo' = nowinfo /\ isFinish' = isFinish /\ crossed' = crossed /\ drops' = drops /\ cmems' = cmems
      /\ chassis_turns' = chassis_turns
  BY DEF dockVars, mtcVars, lineVars, robotVars
<1>2. /\ nowinfo \in BOOLEAN /\ isFinish \in BOOLEAN /\ crossed \in BOOLEAN /\ drops \in 0..MaxDrops /\ CrossInv
      /\ cmems \in SerialState
  BY Zenon DEF DockIInv, DockingTypeOK, SerialState
<1>3. CrossInv'
  BY <1>1, <1>2, LineStays
<1>4. nowinfo' \in BOOLEAN /\ isFinish' \in BOOLEAN /\ crossed' \in BOOLEAN
  BY <1>1, <1>2, Zenon
<1> QED BY <1>1, <1>2, <1>3, <1>4, OutsideKeeps

LEMMA DockStep == DockIInv /\ [DockNext]_dockVars => DockIInv'
<1> SUFFICES ASSUME DockIInv, [DockNext]_dockVars PROVE DockIInv'
  OBVIOUS
<1>1. CASE NAVIGATE_START_MASE \/ NAVIGATE_STOP_MASE
  BY <1>1, StartKeeps, DockStopKeeps
<1>2. CASE mtc_run
  BY <1>2, NoLibraryKeeps, OpenBeginKeeps, OpenKeeps, ExitKeeps, DockRotateKeeps, WaitKeeps,
     NavigateKeeps,
     NoDataKeeps, PostKeeps, CloseKeeps DEF mtc_run
<1>3. CASE serial_opened \/ mems_in \/ serial_broken \/ serial_exit \/ serial_ended
  BY <1>3, SerialOpenedKeeps, MemsInKeeps, SerialBrokenKeeps, SerialExitKeeps, SerialEndedKeeps
<1>4. CASE reading_ages \/ chassis_turned
  BY <1>4, ReadingAgesKeeps, ChassisTurnedKeeps
<1>5. CASE UNCHANGED dockVars
  BY <1>5, DockStutters
<1> QED BY <1>1, <1>2, <1>3, <1>4, <1>5 DEF DockNext

LEMMA DockingFollows == DockIInv => DockingInv
<1> SUFFICES ASSUME DockIInv PROVE LineIsHeard
  BY DEF DockIInv, DockingInv
<1>1. docks \in Nat
  BY Counts
<1> QED BY <1>1 DEF DockIInv, CrossInv, LineIsHeard

\* However far the dock is and however long the sensor is silent: a task is told its end once, a
\* robot arrives only where it saw the strip since its last search and with no rotation of this
\* task going on, a third search ends where it begins, and the line of a task is deaf exactly when the
\* thread of an earlier one ended between the halves of open_com.
THEOREM DockingKept == DockSpec => []DockingInv
<1>1. DockInit => DockIInv
  BY DockInitially
<1>2. DockIInv /\ [DockNext]_dockVars => DockIInv'
  BY DockStep
<1>3. DockIInv => DockingInv
  BY DockingFollows
<1> QED BY <1>1, <1>2, <1>3, PTL DEF DockSpec

-----------------------------------------------------------------------------
(* The controller: each client's request is followed through the queues of the two threads, and the
   news of a map through the queue of the thread that judges moves. *)

\* The requests of client c that wait in the queues of C and of K.
AskedC(c, i) == i \in DOMAIN cq /\ cq[i].t = 3 /\ cq[i].guid = c
AskedK(c, i) == i \in DOMAIN kq /\ kq[i].guid = c

\* A client's request is in one place at a time: loaded by H, or waiting in one queue, or C waits for
\* its initialisation; and it is answered when it is in none.
OfClient(c) ==
  /\ told[c] \in {0, 1}
  /\ c \notin sent =>
       told[c] = 0 /\ init_req # c /\ fromer # c /\ \A i \in Nat : ~AskedC(c, i) /\ ~AskedK(c, i)
  /\ init_req = c => told[c] = 0 /\ fromer # c /\ \A i \in Nat : ~AskedC(c, i) /\ ~AskedK(c, i)
  /\ \A i \in Nat : AskedC(c, i) =>
       told[c] = 0 /\ fromer # c /\ \A j \in Nat : ~AskedK(c, j) /\ (AskedC(c, j) => i = j)
  /\ \A i \in Nat : AskedK(c, i) =>
       told[c] = 0 /\ fromer # c /\ \A j \in Nat : AskedK(c, j) => i = j
  /\ fromer = c => told[c] = IF waiting THEN 0 ELSE 1

\* Where the lock, the initialisations that wait and C stand.
Places ==
  /\ m_ml = "H" <=> init_req # Nobody
  /\ \A i \in DOMAIN cq : cq[i].t = 3 => cq[i].guid # Nobody
  /\ cpc = "set_ok_reply" => waiting
  /\ waiting => fromer # Nobody
  /\ cpc = "self_wait" => tries < MaxTries

\* K is told of a new map, by a message at or behind a place of its queue or by one to come.
ToldFrom(from) ==
  \/ unannounced
  \/ \E i \in DOMAIN kq : i >= from /\ kq[i].t \in {2, 3}
  \/ \E i \in DOMAIN cq : cq[i].t = 3
  \/ m_ml = "H"
  \/ cpc \in {"self_wait", "set_ok", "set_ok_reply"}

\* StaleMapIsKnown must hold again when K has fetched a map: what it fetches may be an old one
\* only if K is told behind the message it works on.
Fetching ==
  /\ kpc = "fetch" => kq # <<>> /\ Head(kq).t = 2 /\ ~m_finish_update
  /\ kpc = "fetch" /\ fetching # map => ToldFrom(2)
  /\ m_finish_update /\ datamap # map => ToldFrom(1)

CtlIInv == CtlTypeOK /\ Places /\ (\A c \in Client : OfClient(c)) /\ Fetching

\* Messages of the two queues.
CMsg == [t : {2, 3}, guid : Guid]
KMsg == [t : {1, 2, 3}, guid : Guid]

\* r is q with m at its end; r is q without its first element.
Behind(q, r, m) ==
  /\ DOMAIN q = 1 .. Len(q) /\ DOMAIN r = 1 .. Len(q) + 1 /\ Len(q) \in Nat /\ r # <<>>
  /\ \A i \in 1 .. Len(q) : r[i] = q[i]
  /\ r[Len(q) + 1] = m
  /\ q # <<>> => Head(r) = Head(q)
Without(q, r) ==
  /\ DOMAIN q = 1 .. Len(q) /\ DOMAIN r = 1 .. Len(q) - 1 /\ Len(q) \in Nat \ {0}
  /\ Head(q) = q[1]
  /\ \A i \in 1 .. Len(q) - 1 : r[i] = q[i + 1]

LEMMA Pushed ==
  ASSUME NEW S, NEW q \in Seq(S), NEW type, NEW c, [t |-> type, guid |-> c] \in S
  PROVE  /\ Pushq(q, type, c) \in Seq(S)
         /\ Behind(q, Pushq(q, type, c), [t |-> type, guid |-> c])
BY DEF Pushq, Behind

LEMMA TookFirst ==
  ASSUME NEW S, NEW q \in Seq(S), q # <<>>
  PROVE  Tail(q) \in Seq(S) /\ Head(q) \in S /\ Without(q, Tail(q))
BY DEF Without

LEMMA TriesBound == MaxTries \in Nat
BY ControllerAssumption

LEMMA CtlTypes ==
  ASSUME CtlIInv
  PROVE  CtlTypeOK /\ cq \in Seq(CMsg) /\ kq \in Seq(KMsg) /\ told \in [Client -> Nat]
BY DEF CtlIInv, CtlTypeOK, CMsg, KMsg

\* Who is told by a reply.
LEMMA Replied ==
  ASSUME told \in [Client -> Nat], NEW c \in Guid
  PROVE  /\ Reply(c) \in [Client -> Nat]
         /\ \A d \in Client : Reply(c)[d] = IF d = c THEN told[d] + 1 ELSE told[d]
BY ControllerAssumption DEF Reply, Guid, Nobody

\* A step that takes at most the first message from each queue and neither answers nor moves a client.
LEMMA ClientUntouched ==
  ASSUME NEW c \in Client, OfClient(c), NEW s \in {0, 1}, NEW k \in {0, 1},
         told'[c] = told[c], c \in sent' <=> c \in sent, init_req' = c => init_req = c,
         fromer' = c => fromer = c /\ waiting' = waiting,
         \A i \in Nat : AskedC(c, i)' => AskedC(c, i + s),
         \A i \in Nat : AskedK(c, i)' => AskedK(c, i + k)
  PROVE  OfClient(c)'
<1>1. (c \notin sent =>
       told[c] = 0 /\ init_req # c /\ fromer # c /\ \A i \in Nat : ~AskedC(c, i) /\ ~AskedK(c, i))'
  <2>1. ASSUME c \notin sent', NEW i \in Nat PROVE ~AskedC(c, i)' /\ ~AskedK(c, i)'
    <3>1. i + s \in Nat /\ i + k \in Nat OBVIOUS
    <3>2. \A j \in Nat : ~AskedC(c, j) /\ ~AskedK(c, j) BY <2>1 DEF OfClient
    <3> QED BY <3>1, <3>2
  <2> QED BY <2>1 DEF OfClient
<1>2. (init_req = c => told[c] = 0 /\ fromer # c /\ \A i \in Nat : ~AskedC(c, i) /\ ~AskedK(c, i))'
  <2>1. ASSUME init_req' = c, NEW i \in Nat PROVE ~AskedC(c, i)' /\ ~AskedK(c, i)'
    <3>1. i + s \in Nat /\ i + k \in Nat OBVIOUS
    <3>2. \A j \in Nat : ~AskedC(c, j) /\ ~AskedK(c, j) BY <2>1 DEF OfClient
    <3> QED BY <3>1, <3>2
  <2> QED BY <2>1 DEF OfClient
<1>3. ASSUME NEW i \in Nat, AskedC(c, i)'
      PROVE  told'[c] = 0 /\ fromer' # c /\ \A j \in Nat : ~AskedK(c, j)' /\ (AskedC(c, j)' => i = j)
  <2>1. AskedC(c, i + s) /\ i + s \in Nat BY <1>3
  <2>2. told[c] = 0 /\ fromer # c /\ \A j \in Nat : ~AskedK(c, j) /\ (AskedC(c, j) => i + s = j)
    BY <2>1 DEF OfClient
  <2>3. ASSUME NEW j \in Nat PROVE ~AskedK(c, j)' /\ (AskedC(c, j)' => i = j)
    <3>1. j + s \in Nat /\ j + k \in Nat OBVIOUS
    <3> QED BY <3>1, <2>2
  <2> QED BY <2>2, <2>3
<1>4. ASSUME NEW i \in Nat, AskedK(c, i)'
      PROVE  told'[c] = 0 /\ fromer' # c /\ \A j \in Nat : AskedK(c, j)' => i = j
  <2>1. AskedK(c, i + k) /\ i + k \in Nat BY <1>4
  <2>2. told[c] = 0 /\ fromer # c /\ \A j \in Nat : AskedK(c, j) => i + k = j
    BY <2>1 DEF OfClient
  <2>3. ASSUME NEW j \in Nat, AskedK(c, j)' PROVE i = j
    <3>1. j + k \in Nat OBVIOUS
    <3> QED BY <3>1, <2>2, <2>3
  <2> QED BY <2>2, <2>3
<1>5. told'[c] \in {0, 1} /\ (fromer' = c => told'[c] = IF waiting' THEN 0 ELSE 1)
  BY DEF OfClient
<1> HIDE DEF AskedC, AskedK
<1> QED BY <1>1, <1>2, <1>3, <1>4, <1>5 DEF OfClient

LEMMA LoadKeeps ==
  ASSUME CtlIInv, NEW c \in Client, NEW m \in Map, initialize_load(c, m)
  PROVE  CtlIInv'
<1> USE ControllerAssumption DEF Nobody
<1>1. CtlTypeOK' BY DEF CtlIInv, CtlTypeOK, initialize_load, Send, Reply, Guid, hVars, cVars,
                    kVars, chassis
<1>2. Places' BY DEF CtlIInv, CtlTypeOK, Places, initialize_load, Send, Reply, Guid, hVars,
                 cVars, kVars, chassis
<1>3. ASSUME NEW d \in Client PROVE OfClient(d)'
  BY DEF CtlIInv, CtlTypeOK, OfClient, AskedC, AskedK, Places, initialize_load, Send, Reply,
     Guid, hVars, cVars, kVars, chassis
<1>4. Fetching'
  BY DEF CtlIInv, CtlTypeOK, Fetching, ToldFrom, Places, initialize_load, Send, Reply, Guid,
     hVars, cVars, kVars, chassis
<1> QED BY <1>1, <1>2, <1>3, <1>4 DEF CtlIInv


LEMMA InitializeKeeps ==
  ASSUME CtlIInv, initialize_robot
  PROVE  CtlIInv'
<1> USE ControllerAssumption DEF Nobody
<1> DEFINE m == [t |-> 3, guid |-> init_req]
<1>t. CtlTypeOK /\ cq \in Seq(CMsg) /\ kq \in Seq(KMsg) /\ told \in [Client -> Nat]
  BY CtlTypes
<1>b. /\ m_ml = "H" /\ m_ml' = "none" /\ init_req' = Nobody /\ init_req \in Client
      /\ UNCHANGED <<m_init_ok, cpc, waiting, fromer, tries, kpc, fetching, m_finish_update, datamap>>
      /\ UNCHANGED <<kq, map, sent, troubles>>
  BY <1>t DEF initialize_robot, CtlIInv, CtlTypeOK, Places, Guid, cVars, kVars
<1>a. \/ /\ cq' \in Seq(CMsg) /\ Behind(cq, cq', m) /\ located' = "running"
         /\ UNCHANGED <<told, unannounced>>
      \/ UNCHANGED <<cq, located>> /\ told' = Reply(init_req) /\ unannounced' = TRUE
  <2>1. m \in CMsg BY <1>b DEF CMsg, Guid
  <2>2. Pushq(cq, 3, init_req) \in Seq(CMsg) /\ Behind(cq, Pushq(cq, 3, init_req), m)
    BY <2>1, <1>t, Pushed
  <2> QED BY <2>2 DEF initialize_robot
<1>w. /\ Reply(init_req) \in [Client -> Nat]
      /\ \A d \in Client : Reply(init_req)[d] = IF d = init_req THEN told[d] + 1 ELSE told[d]
  BY <1>t, <1>b, Replied DEF Guid
<1>1. CtlTypeOK'
  <2>1. cq' \in Seq(CMsg) /\ told' \in [Client -> Nat] BY <1>t, <1>a, <1>w
  <2>2. located' \in {"none", "running", "done"} /\ unannounced' \in BOOLEAN
    BY <1>a, <1>t DEF CtlTypeOK
  <2> QED BY <2>1, <2>2, <1>t, <1>b DEF CtlTypeOK, CMsg, Guid
<1>2. Places' BY <1>a, <1>b DEF CtlIInv, Places, Behind
<1>3. ASSUME NEW d \in Client PROVE OfClient(d)'
  <2>1. CASE d # init_req
    <3>1. \A i \in Nat : (AskedC(d, i)' => AskedC(d, i + 0)) /\ (AskedK(d, i)' => AskedK(d, i + 0))
      BY <2>1, <1>a, <1>b DEF AskedC, AskedK, Behind
    <3> QED BY <3>1, <2>1, <1>a, <1>b, <1>w, ClientUntouched DEF CtlIInv
  <2>2. CASE d = init_req
    <3>1. told[d] = 0 /\ fromer # d /\ \A i \in Nat : ~AskedC(d, i) /\ ~AskedK(d, i)
      BY <2>2, <1>b DEF CtlIInv, OfClient
    <3>2. told'[d] \in {0, 1} /\ d \in sent' /\ init_req' # d /\ fromer' # d
      BY <3>1, <2>2, <1>a, <1>b, <1>w DEF CtlIInv, OfClient
    <3>3. \A i \in Nat : ~AskedK(d, i)' BY <3>1, <1>b DEF AskedK
    <3>4. \A i \in Nat : AskedC(d, i)' => i = Len(cq) + 1 /\ told'[d] = 0
      BY <3>1, <1>a, <1>b DEF AskedC, Behind
    <3> QED BY <3>2, <3>3, <3>4 DEF OfClient
  <2> QED BY <2>1, <2>2
<1>4. Fetching'
  BY <1>a, <1>b DEF CtlIInv, Fetching, ToldFrom, Behind
<1> QED BY <1>1, <1>2, <1>3, <1>4 DEF CtlIInv

LEMMA CancelKeeps ==
  ASSUME CtlIInv, cancel_initialize
  PROVE  CtlIInv'
<1> USE ControllerAssumption DEF Nobody
<1>t. CtlTypeOK /\ cq \in Seq(CMsg) /\ kq \in Seq(KMsg) /\ told \in [Client -> Nat]
  BY CtlTypes
<1>a. cq' \in Seq(CMsg) /\ Behind(cq, cq', [t |-> 2, guid |-> Nobody])
  BY <1>t, Pushed DEF cancel_initialize, CMsg, Guid
<1>b. /\ UNCHANGED <<m_ml, init_req, m_init_ok, cpc, waiting, fromer, tries, kpc, fetching,
                     m_finish_update, datamap, kq, map, sent, told, unannounced>>
      /\ located' \in {"none", "running", "done"}
  BY <1>t DEF cancel_initialize, CtlTypeOK, hVars, cVars, kVars
<1>1. CtlTypeOK' BY <1>a, <1>b, <1>t DEF CtlTypeOK, CMsg
<1>2. Places' BY <1>a, <1>b DEF CtlIInv, Places, Behind
<1>3. ASSUME NEW d \in Client PROVE OfClient(d)'
  <2>1. \A i \in Nat : (AskedC(d, i)' => AskedC(d, i + 0)) /\ (AskedK(d, i)' => AskedK(d, i + 0))
    BY <1>a, <1>b DEF AskedC, AskedK, Behind
  <2> QED BY <2>1, <1>b, ClientUntouched DEF CtlIInv
<1>4. Fetching' BY <1>a, <1>b DEF CtlIInv, Fetching, ToldFrom, Behind
<1> QED BY <1>1, <1>2, <1>3, <1>4 DEF CtlIInv

LEMMA HandedToK ==
  ASSUME CtlIInv, NEW c \in Client, NEW type \in {1, 2}, to_checkmove(c, type)
  PROVE  CtlIInv'
<1> USE ControllerAssumption DEF Nobody
<1>t. CtlTypeOK /\ cq \in Seq(CMsg) /\ kq \in Seq(KMsg) /\ told \in [Client -> Nat]
  BY CtlTypes
<1>a. kq' \in Seq(KMsg) /\ Behind(kq, kq', [t |-> type, guid |-> c])
  BY <1>t, Pushed DEF to_checkmove, KMsg, Guid
<1>b. /\ UNCHANGED <<m_ml, init_req, m_init_ok, cpc, waiting, fromer, tries, kpc, fetching,
                     m_finish_update, datamap, cq, map, located, told, unannounced>>
      /\ c \notin sent /\ sent' = sent \cup {c}
  BY DEF to_checkmove, Send, hVars, cVars, kVars, chassis
<1>1. CtlTypeOK' BY <1>a, <1>b, <1>t DEF CtlTypeOK, KMsg
<1>2. Places' BY <1>b DEF CtlIInv, Places
<1>3. ASSUME NEW d \in Client PROVE OfClient(d)'
  <2>1. CASE d # c
    <3>1. \A i \in Nat : (AskedC(d, i)' => AskedC(d, i + 0)) /\ (AskedK(d, i)' => AskedK(d, i + 0))
      BY <2>1, <1>a, <1>b DEF AskedC, AskedK, Behind
    <3> QED BY <2>1, <3>1, <1>b, ClientUntouched DEF CtlIInv
  <2>2. CASE d = c
    <3>1. told[d] = 0 /\ fromer # d /\ init_req # d /\ \A i \in Nat : ~AskedC(d, i) /\ ~AskedK(d, i)
      BY <2>2, <1>b DEF CtlIInv, OfClient
    <3>3. \A i \in Nat : ~AskedC(d, i)' BY <3>1, <1>b DEF AskedC
    <3>4. \A i \in Nat : AskedK(d, i)' => i = Len(kq) + 1
      BY <3>1, <1>a DEF AskedK, Behind
    <3> QED BY <2>2, <3>1, <3>3, <3>4, <1>b DEF OfClient
  <2> QED BY <2>1, <2>2
<1>4. Fetching' BY <1>a, <1>b DEF CtlIInv, Fetching, ToldFrom, Behind
<1> QED BY <1>1, <1>2, <1>3, <1>4 DEF CtlIInv

\* C answers the client it waits for, and waits no more.
LEMMA WaiterAnswered ==
  ASSUME CtlIInv, waiting, told' = Reply(fromer), UNCHANGED <<sent, init_req, kq>>,
         NEW s \in {0, 1}, \A i \in Nat, c \in Client : AskedC(c, i)' => AskedC(c, i + s),
         fromer' = fromer /\ ~waiting'
  PROVE  told' \in [Client -> Nat] /\ \A d \in Client : OfClient(d)'
<1> USE ControllerAssumption DEF Nobody
<1>t. CtlTypeOK /\ told \in [Client -> Nat] /\ fromer \in Guid BY CtlTypes DEF CtlTypeOK
<1>f. fromer \in Client BY <1>t DEF CtlIInv, Places, Guid
<1>w. /\ told' \in [Client -> Nat]
      /\ \A d \in Client : told'[d] = IF d = fromer THEN told[d] + 1 ELSE told[d]
  BY <1>t, Replied
<1>1. ASSUME NEW d \in Client PROVE OfClient(d)'
  <2>1. CASE d # fromer
    <3>1. \A i \in Nat : (AskedC(d, i)' => AskedC(d, i + s)) /\ (AskedK(d, i)' => AskedK(d, i + 0))
      BY DEF AskedK
    <3> QED BY <2>1, <3>1, <1>w, ClientUntouched DEF CtlIInv
  <2>2. CASE d = fromer
    <3>1. told[d] = 0 /\ d \in sent /\ init_req # d /\ \A i \in Nat : ~AskedC(d, i) /\ ~AskedK(d, i)
      BY <2>2 DEF CtlIInv, OfClient
    <3>2. \A i \in Nat : ~AskedC(d, i)' /\ ~AskedK(d, i)'
      <4>1. ASSUME NEW i \in Nat PROVE ~AskedC(d, i)' /\ ~AskedK(d, i)'
        <5>1. i + s \in Nat OBVIOUS
        <5> QED BY <5>1, <3>1 DEF AskedK
      <4> QED BY <4>1
    <3>3. told'[d] = 1 BY <2>2, <3>1, <1>w
    <3> HIDE DEF AskedC, AskedK
    <3> QED BY <2>2, <3>1, <3>2, <3>3 DEF OfClient
  <2> QED BY <2>1, <2>2
<1> QED BY <1>w, <1>1

LEMMA RunInitKeeps ==
  ASSUME CtlIInv, run_init
  PROVE  CtlIInv'
<1> USE ControllerAssumption DEF Nobody
<1>t. CtlTypeOK /\ cq \in Seq(CMsg) /\ kq \in Seq(KMsg) /\ told \in [Client -> Nat]
  BY CtlTypes
<1>a. /\ cq # <<>> /\ cq' \in Seq(CMsg) /\ Without(cq, cq') /\ Head(cq).t = 3
      /\ fromer' = Head(cq).guid /\ Head(cq) \in CMsg
  BY <1>t, TookFirst DEF run_init
<1>k. kq' \in Seq(KMsg) /\ Behind(kq, kq', [t |-> 3, guid |-> Nobody])
  BY <1>t, Pushed DEF run_init, KMsg, Guid
<1>b. /\ UNCHANGED <<m_ml, init_req, tries, kpc, fetching, m_finish_update, datamap, map, located,
                     sent, unannounced>>
      /\ waiting' = TRUE /\ m_init_ok' = FALSE /\ cpc' = "poll" /\ cpc = "getq"
      /\ told' = IF waiting THEN Reply(fromer) ELSE told
  BY DEF run_init, hVars, kVars, chassis
<1>f. fromer' \in Client /\ fromer' # Nobody /\ AskedC(fromer', 1)
  <2>1. 1 \in DOMAIN cq /\ cq[1] = Head(cq) BY <1>a DEF Without
  <2>2. cq[1].guid # Nobody BY <2>1, <1>a DEF CtlIInv, Places
  <2> QED BY <2>1, <2>2, <1>a DEF CMsg, Guid, AskedC
<1>w. /\ told' \in [Client -> Nat]
      /\ \A d \in Client : told'[d] = IF waiting /\ d = fromer THEN told[d] + 1 ELSE told[d]
  <2>1. fromer \in Guid BY <1>t DEF CtlTypeOK
  <2> QED BY <2>1, <1>b, <1>t, Replied
<1>1. CtlTypeOK' BY <1>a, <1>b, <1>k, <1>w, <1>t, <1>f DEF CtlTypeOK, CMsg, KMsg, Guid
<1>2. Places' BY <1>a, <1>b, <1>f DEF CtlIInv, Places, Without
<1>s. \A d \in Client, i \in Nat : (AskedC(d, i)' => AskedC(d, i + 1)) /\ (AskedK(d, i)' => AskedK(d, i + 0))
  BY <1>a, <1>k DEF AskedC, AskedK, Without, Behind
<1>3. ASSUME NEW d \in Client PROVE OfClient(d)'
  <2>1. CASE d # fromer' /\ (waiting => d # fromer)
    <3> QED BY <2>1, <1>s, <1>b, <1>w, ClientUntouched DEF CtlIInv
  <2>2. CASE d = fromer'
    <3>1. /\ told[d] = 0 /\ fromer # d /\ d \in sent /\ init_req # d
          /\ \A i \in Nat : ~AskedK(d, i) /\ (AskedC(d, i) => i = 1)
      BY <2>2, <1>f DEF CtlIInv, OfClient
    <3>2. ASSUME NEW i \in Nat PROVE ~AskedC(d, i)' /\ ~AskedK(d, i)'
      <4>1. AskedC(d, i)' => i \in DOMAIN cq' BY DEF AskedC
      <4> QED BY <3>1, <4>1, <1>s, <1>a DEF Without
    <3> HIDE DEF AskedC, AskedK
    <3> QED BY <2>2, <3>1, <3>2, <1>b, <1>w DEF OfClient
  <2>3. CASE waiting /\ d = fromer /\ d # fromer'
    <3>1. told[d] = 0 /\ d \in sent /\ init_req # d /\ \A i \in Nat : ~AskedC(d, i) /\ ~AskedK(d, i)
      BY <2>3 DEF CtlIInv, OfClient
    <3>2. ASSUME NEW i \in Nat PROVE ~AskedC(d, i)' /\ ~AskedK(d, i)'
      <4>1. i + 1 \in Nat OBVIOUS
      <4> QED BY <3>1, <4>1, <1>s
    <3> HIDE DEF AskedC, AskedK
    <3> QED BY <2>3, <3>1, <3>2, <1>b, <1>w DEF OfClient
  <2> QED BY <2>1, <2>2, <2>3
<1>4. Fetching'
  <2>1. ToldFrom(1)' /\ (kq # <<>> => ToldFrom(2)')
    <3>1. Len(kq) + 1 \in DOMAIN kq' /\ kq'[Len(kq) + 1].t = 3 /\ (kq # <<>> => Len(kq) + 1 >= 2)
      BY <1>k, <1>t DEF Behind
    <3> QED BY <3>1, <1>k DEF ToldFrom, Behind
  <2> QED BY <2>1, <1>b, <1>k DEF CtlIInv, Fetching, Behind
<1> QED BY <1>1, <1>2, <1>3, <1>4 DEF CtlIInv

LEMMA RunCancelKeeps ==
  ASSUME CtlIInv, run_cancel
  PROVE  CtlIInv'
<1> USE ControllerAssumption DEF Nobody
<1>t. CtlTypeOK /\ cq \in Seq(CMsg) /\ kq \in Seq(KMsg) /\ told \in [Client -> Nat]
  BY CtlTypes
<1>a. /\ cq # <<>> /\ cq' \in Seq(CMsg) /\ Without(cq, cq') /\ Head(cq).t = 2
  BY <1>t, TookFirst DEF run_cancel
<1>b. /\ UNCHANGED <<m_ml, init_req, tries, m_init_ok, fromer, kpc, fetching, m_finish_update, datamap,
                     kq, map, located, sent, unannounced>>
      /\ waiting' = FALSE /\ cpc' = "ended" /\ cpc = "getq"
      /\ told' = IF waiting THEN Reply(fromer) ELSE told
  BY DEF run_cancel, hVars, kVars, chassis
<1>s. \A i \in Nat, d \in Client : AskedC(d, i)' => AskedC(d, i + 1)
  BY <1>a DEF AskedC, Without
<1>3. told' \in [Client -> Nat] /\ \A d \in Client : OfClient(d)'
  <2>1. CASE waiting BY <2>1, <1>b, <1>s, WaiterAnswered
  <2>2. CASE ~waiting
    <3>1. ASSUME NEW d \in Client PROVE OfClient(d)'
      <4>1. \A i \in Nat : (AskedC(d, i)' => AskedC(d, i + 1)) /\ (AskedK(d, i)' => AskedK(d, i + 0))
        BY <1>s, <1>b DEF AskedK
      <4>2. waiting' = waiting BY <1>b, <1>t, <2>2 DEF CtlTypeOK
      <4> QED BY <4>1, <4>2, <2>2, <1>b, ClientUntouched DEF CtlIInv
    <3> QED BY <3>1, <1>b, <1>t, <2>2
  <2> QED BY <2>1, <2>2
<1>1. CtlTypeOK' BY <1>a, <1>b, <1>3, <1>t DEF CtlTypeOK, CMsg
<1>2. Places' BY <1>a, <1>b DEF CtlIInv, Places, Without
<1>4. Fetching'
  <2>1. ASSUME NEW i \in DOMAIN cq, cq[i].t = 3 PROVE \E j \in DOMAIN cq' : cq'[j].t = 3
    <3>1. i # 1 /\ i - 1 \in DOMAIN cq' /\ cq'[i - 1] = cq[i] BY <2>1, <1>a DEF Without
    <3> QED BY <3>1, <2>1
  <2> QED BY <2>1, <1>b DEF CtlIInv, Fetching, ToldFrom
<1> QED BY <1>1, <1>2, <1>3, <1>4 DEF CtlIInv

LEMMA PollKeeps ==
  ASSUME CtlIInv, NEW reached \in BOOLEAN, wait_poll(reached)
  PROVE  CtlIInv'
<1> USE ControllerAssumption DEF Nobody
<1>t. CtlTypeOK /\ told \in [Client -> Nat]
  BY CtlTypes
<1>b. /\ UNCHANGED <<m_ml, init_req, tries, m_init_ok, fromer, kpc, fetching, m_finish_update, datamap,
                     cq, kq, map, located, sent, unannounced>>
      /\ waiting = TRUE /\ cpc \in {"poll", "getq"} /\ cpc' \in {"set_ok_reply", "getq"}
      /\ \/ told' = told /\ waiting' = waiting
         \/ told' = Reply(fromer) /\ waiting' = FALSE /\ cpc' = "getq"
  <2>1. waiting = TRUE BY <1>t DEF wait_poll, CtlTypeOK
  <2>2. PICK rt \in {0, 1, 2} :
          /\ cpc' = IF rt = 0 THEN "set_ok_reply" ELSE "getq"
          /\ IF rt = 2 \/ (rt = 1 /\ reached)
             THEN told' = Reply(fromer) /\ waiting' = FALSE
             ELSE UNCHANGED <<told, waiting>>
    <3>1. Rt \subseteq {0, 1, 2} BY DEF Rt
    <3> QED BY <3>1 DEF wait_poll
  <2>3. \/ told' = told /\ waiting' = waiting
        \/ told' = Reply(fromer) /\ waiting' = FALSE /\ cpc' = "getq"
    BY <2>2
  <2>4. cpc' \in {"set_ok_reply", "getq"} BY <2>2
  <2> QED BY <2>1, <2>3, <2>4 DEF wait_poll, Polling, hVars, kVars, chassis
<1>3. told' \in [Client -> Nat] /\ \A d \in Client : OfClient(d)'
  <2>1. CASE told' = Reply(fromer) /\ waiting' = FALSE
    <3>1. \A i \in Nat, d \in Client : AskedC(d, i)' => AskedC(d, i + 0) BY <1>b DEF AskedC
    <3> QED BY <2>1, <3>1, <1>b, WaiterAnswered
  <2>2. CASE told' = told /\ waiting' = waiting
    <3>1. ASSUME NEW d \in Client PROVE OfClient(d)'
      <4>1. \A i \in Nat : (AskedC(d, i)' => AskedC(d, i + 0)) /\ (AskedK(d, i)' => AskedK(d, i + 0))
        BY <1>b DEF AskedC, AskedK
      <4>2. waiting' = waiting BY <1>b, <1>t, <2>2 DEF CtlTypeOK
      <4> QED BY <4>1, <4>2, <2>2, <1>b, ClientUntouched DEF CtlIInv
    <3> QED BY <3>1, <1>t, <2>2
  <2> QED BY <2>1, <2>2, <1>b
<1>1. CtlTypeOK' BY <1>b, <1>3, <1>t, ZenonT(40) DEF CtlTypeOK
<1>2. Places' BY <1>b DEF CtlIInv, Places
<1>4. Fetching' BY <1>b DEF CtlIInv, Fetching, ToldFrom
<1> QED BY <1>1, <1>2, <1>3, <1>4 DEF CtlIInv

LEMMA SetOkKeeps ==
  ASSUME CtlIInv, set_ok
  PROVE  CtlIInv'
<1> USE ControllerAssumption DEF Nobody
<1>t. CtlTypeOK /\ kq \in Seq(KMsg) /\ told \in [Client -> Nat]
  BY CtlTypes
<1>k. kq' \in Seq(KMsg) /\ Behind(kq, kq', [t |-> 2, guid |-> Nobody])
  BY <1>t, Pushed DEF set_ok, KMsg, Guid
<1>b. /\ UNCHANGED <<m_ml, init_req, fromer, kpc, fetching, m_finish_update, datamap, cq, map, located,
                     sent, unannounced>>
      /\ m_ml = "none" /\ m_init_ok' = TRUE /\ cpc' = "getq"
      /\ \/ cpc = "set_ok_reply" /\ told' = Reply(fromer) /\ waiting' = FALSE /\ tries' = tries
         \/ tries' = MaxTries /\ UNCHANGED <<told, waiting>>
  BY DEF set_ok, hVars, kVars, chassis
<1>s. \A i \in Nat, d \in Client : (AskedC(d, i)' => AskedC(d, i + 0)) /\ (AskedK(d, i)' => AskedK(d, i + 0))
  BY <1>b, <1>k DEF AskedC, AskedK, Behind
<1>3. told' \in [Client -> Nat] /\ \A d \in Client : OfClient(d)'
  <2>1. CASE cpc = "set_ok_reply" /\ told' = Reply(fromer) /\ waiting' = FALSE
    <3> DEFINE c == fromer
    <3>f. fromer \in Client /\ waiting BY <2>1, <1>t DEF CtlIInv, CtlTypeOK, Places, Guid
    <3>w. /\ told' \in [Client -> Nat]
          /\ \A d \in Client : told'[d] = IF d = fromer THEN told[d] + 1 ELSE told[d]
      BY <1>t, <2>1, <3>f, Replied DEF Guid
    <3>1. ASSUME NEW d \in Client, d # fromer PROVE OfClient(d)'
      BY <3>1, <1>s, <3>w, <1>b, ClientUntouched DEF CtlIInv
    <3>2. /\ told[fromer] = 0 /\ fromer \in sent /\ init_req # fromer
          /\ \A i \in Nat : ~AskedC(fromer, i) /\ ~AskedK(fromer, i)
      BY <3>f DEF CtlIInv, OfClient
    <3>4. ASSUME NEW d \in Client, d = fromer PROVE OfClient(d)'
      <4>1. told'[d] = 1 /\ fromer' = d BY <3>4, <3>2, <3>w, <1>b
      <4>2. ASSUME NEW i \in Nat PROVE ~AskedC(d, i)' /\ ~AskedK(d, i)'
        <5>1. i + 0 = i /\ ~AskedC(d, i) /\ ~AskedK(d, i) BY <3>2, <3>4
        <5> QED BY <5>1, <1>s
      <4> QED BY <4>1, <4>2, <3>4, <3>2, <2>1, <1>b DEF OfClient
    <3> QED BY <3>w, <3>1, <3>4
  <2>2. CASE UNCHANGED <<told, waiting>>
    <3>1. ASSUME NEW d \in Client PROVE OfClient(d)'
      BY <1>s, <2>2, <1>b, ClientUntouched DEF CtlIInv
    <3> QED BY <3>1, <1>t, <2>2
  <2> QED BY <2>1, <2>2, <1>b
<1>1. CtlTypeOK'
  <2>1. waiting' \in BOOLEAN BY <1>b, <1>t DEF CtlTypeOK
  <2>2. tries' \in 0 .. MaxTries BY <1>b, <1>t, TriesBound DEF CtlTypeOK
  <2> QED BY <2>1, <2>2, <1>k, <1>b, <1>3, <1>t DEF CtlTypeOK, KMsg
<1>2. Places' BY <1>b DEF CtlIInv, Places
<1>4. Fetching'
  <2>1. ToldFrom(1)' /\ (kq # <<>> => ToldFrom(2)')
    <3>1. Len(kq) + 1 \in DOMAIN kq' /\ kq'[Len(kq) + 1].t = 2 /\ (kq # <<>> => Len(kq) + 1 >= 2)
      BY <1>k, <1>t DEF Behind
    <3> QED BY <3>1 DEF ToldFrom
  <2> QED BY <2>1, <1>b, <1>k DEF CtlIInv, Fetching, Behind
<1> QED BY <1>1, <1>2, <1>3, <1>4 DEF CtlIInv

LEMMA SetLostKeeps ==
  ASSUME CtlIInv, set_lost
  PROVE  CtlIInv'
<1> USE ControllerAssumption DEF Nobody
<1>t. CtlTypeOK /\ kq \in Seq(KMsg) /\ told \in [Client -> Nat]
  BY CtlTypes
<1>k. kq' \in Seq(KMsg) /\ Behind(kq, kq', [t |-> 3, guid |-> Nobody])
  BY <1>t, Pushed DEF set_lost, KMsg, Guid
<1>b. /\ UNCHANGED <<m_ml, init_req, waiting, fromer, tries, kpc, fetching, m_finish_update, datamap, cq,
                     map, located, sent, told, unannounced>>
      /\ m_init_ok' = FALSE /\ cpc' = "getq"
  BY DEF set_lost, hVars, kVars, chassis
<1>1. CtlTypeOK' BY <1>k, <1>b, <1>t DEF CtlTypeOK, KMsg
<1>2. Places' BY <1>b DEF CtlIInv, Places
<1>3. ASSUME NEW d \in Client PROVE OfClient(d)'
  <2>1. \A i \in Nat : (AskedC(d, i)' => AskedC(d, i + 0)) /\ (AskedK(d, i)' => AskedK(d, i + 0))
    BY <1>b, <1>k DEF AskedC, AskedK, Behind
  <2> QED BY <2>1, <1>b, ClientUntouched DEF CtlIInv
<1>4. Fetching'
  <2>1. ToldFrom(1)' /\ (kq # <<>> => ToldFrom(2)')
    <3>1. Len(kq) + 1 \in DOMAIN kq' /\ kq'[Len(kq) + 1].t = 3 /\ (kq # <<>> => Len(kq) + 1 >= 2)
      BY <1>k, <1>t DEF Behind
    <3> QED BY <3>1 DEF ToldFrom
  <2> QED BY <2>1, <1>b, <1>k DEF CtlIInv, Fetching, Behind
<1> QED BY <1>1, <1>2, <1>3, <1>4 DEF CtlIInv

\* The steps of C and of the chassis that send no message and answer nobody.
LEMMA AloneKeeps ==
  ASSUME CtlIInv, self_init \/ wait_init \/ watch_map \/ chassis_located \/ chassis_lost
  PROVE  CtlIInv'
<1> USE ControllerAssumption DEF Nobody
<1>t. CtlTypeOK /\ told \in [Client -> Nat] /\ HomeMap \in Map
  BY CtlTypes DEF HomeMap
<1>b. UNCHANGED <<m_ml, init_req, m_init_ok, waiting, fromer, kpc, fetching, m_finish_update, datamap, cq,
                  kq, sent, told>>
  BY DEF self_init, wait_init, watch_map, chassis_located, chassis_lost, hVars, cVars, kVars,
     chassis
<1>c. /\ cpc' \in {"getq", "self_wait", "set_ok", "set_lost", cpc}
      /\ cpc' = "set_ok_reply" => cpc = "set_ok_reply"
      /\ cpc' = "self_wait" => tries' < MaxTries
      /\ tries' \in 0 .. MaxTries
      /\ map' \in Map \cup {NoMap} /\ located' \in {"none", "running", "done"}
      /\ unannounced' \in BOOLEAN
  <2>1. tries' \in 0 .. MaxTries
    BY <1>t, TriesBound DEF CtlTypeOK, CtlIInv, Places, self_init, wait_init, watch_map,
       chassis_located,
                        chassis_lost, cVars
  <2>2. located' \in {"none", "running", "done"}
    BY <1>t DEF CtlTypeOK, self_init, wait_init, watch_map, chassis_located, chassis_lost, chassis
  <2>3. map' \in Map \cup {NoMap}
    BY <1>t DEF CtlTypeOK, self_init, wait_init, watch_map, chassis_located, chassis_lost, chassis
  <2>4. unannounced' \in BOOLEAN
    BY <1>t DEF CtlTypeOK, self_init, wait_init, watch_map, chassis_located, chassis_lost
  <2>5. /\ cpc' \in {"getq", "self_wait", "set_ok", "set_lost", cpc}
        /\ cpc' = "set_ok_reply" => cpc = "set_ok_reply"
        /\ cpc' = "self_wait" => tries' < MaxTries
    BY DEF CtlIInv, Places, self_init, wait_init, watch_map, chassis_located, chassis_lost,
       cVars, Polling
  <2> QED BY <2>1, <2>2, <2>3, <2>4, <2>5
<1>m. \/ unannounced' = TRUE
      \/ cpc' \in {"self_wait", "set_ok"}
      \/ /\ map' = map /\ unannounced' = unannounced
         /\ cpc' = cpc \/ cpc \notin {"self_wait", "set_ok", "set_ok_reply"}
  BY DEF self_init, wait_init, watch_map, chassis_located, chassis_lost, hVars, cVars, kVars,
     chassis, Polling
<1>1. CtlTypeOK' BY <1>b, <1>c, <1>t DEF CtlTypeOK
<1>2. Places' BY <1>b, <1>c DEF CtlIInv, Places
<1>3. ASSUME NEW d \in Client PROVE OfClient(d)'
  <2>1. \A i \in Nat : (AskedC(d, i)' => AskedC(d, i + 0)) /\ (AskedK(d, i)' => AskedK(d, i + 0))
    BY <1>b DEF AskedC, AskedK
  <2> QED BY <2>1, <1>b, ClientUntouched DEF CtlIInv
<1>4. Fetching'
  BY <1>b, <1>m DEF CtlIInv, Fetching, ToldFrom
<1> QED BY <1>1, <1>2, <1>3, <1>4 DEF CtlIInv

\* K takes its first message and may answer the client of it.
LEMMA AnsweredByK ==
  ASSUME CtlIInv, kq # <<>>, kq' = Tail(kq), told' = Reply(Head(kq).guid) \/ told' = told,
         UNCHANGED <<sent, init_req, fromer, waiting, cq>>
  PROVE  /\ told' \in [Client -> Nat] /\ \A d \in Client : OfClient(d)'
         /\ kq' \in Seq(KMsg) /\ Without(kq, kq')
<1> USE ControllerAssumption DEF Nobody
<1>t. CtlTypeOK /\ kq \in Seq(KMsg) /\ told \in [Client -> Nat]
  BY CtlTypes
<1>k. kq' \in Seq(KMsg) /\ Without(kq, kq') /\ Head(kq) \in KMsg
  BY <1>t, TookFirst
<1> DEFINE g == Head(kq).guid
<1>g. g \in Guid BY <1>k DEF KMsg
<1>s. \A d \in Client, i \in Nat : (AskedC(d, i)' => AskedC(d, i + 0)) /\ (AskedK(d, i)' => AskedK(d, i + 1))
  BY <1>k DEF AskedC, AskedK, Without
<1>w. /\ told' \in [Client -> Nat]
      /\ \A d \in Client : told'[d] = told[d] \/ (d = g /\ told'[d] = told[d] + 1)
  <2>1. CASE told' = told BY <2>1, <1>t
  <2>2. CASE told' = Reply(g) BY <2>2, <1>g, <1>t, Replied
  <2> QED BY <2>1, <2>2
<1>1. ASSUME NEW d \in Client PROVE OfClient(d)'
  <2>1. CASE d # g \/ told'[d] = told[d]
    BY <2>1, <1>s, <1>w, ClientUntouched DEF CtlIInv
  <2>2. CASE d = g /\ told'[d] = told[d] + 1
    <3>1. AskedK(d, 1) BY <2>2, <1>k DEF AskedK, Without
    <3>2. \A i \in Nat : ~AskedC(d, i) /\ (AskedK(d, i) => i = 1)
      BY <3>1 DEF CtlIInv, OfClient
    <3>3. told[d] = 0 /\ fromer # d /\ d \in sent /\ init_req # d
      BY <3>1 DEF CtlIInv, OfClient
    <3>4. ASSUME NEW i \in Nat PROVE ~AskedC(d, i)' /\ ~AskedK(d, i)'
      <4>1. AskedK(d, i)' => i \in DOMAIN kq' BY DEF AskedK
      <4> QED BY <3>2, <4>1, <1>s, <1>k DEF Without
    <3> HIDE DEF AskedC, AskedK
    <3> QED BY <2>2, <3>3, <3>4 DEF OfClient
  <2> QED BY <2>1, <2>2, <1>w
<1> QED BY <1>w, <1>k, <1>1

LEMMA JudgeKeeps ==
  ASSUME CtlIInv, checkmove
  PROVE  CtlIInv'
<1> USE ControllerAssumption DEF Nobody
<1>t. CtlTypeOK /\ kq \in Seq(KMsg) /\ told \in [Client -> Nat]
  BY CtlTypes
<1>b. UNCHANGED <<m_ml, init_req, m_init_ok, cpc, waiting, fromer, tries, cq, map, located, sent>>
  BY DEF checkmove, check_move, update_begin, update_end, forget_map, hVars, cVars, chassis
<1>2. Places' BY <1>b DEF CtlIInv, Places
<1>5. CASE kpc = "getq" /\ kpc' = "fetch"
  <2>1. /\ kq # <<>> /\ Head(kq).t = 2 /\ m_finish_update' = FALSE /\ fetching' = map
        /\ UNCHANGED <<kq, told, datamap>> /\ unannounced' = FALSE
    BY <1>5 DEF checkmove, check_move, update_begin, update_end, forget_map, kVars
  <2>2. CtlTypeOK' BY <2>1, <1>5, <1>b, <1>t DEF CtlTypeOK
  <2>3. ASSUME NEW d \in Client PROVE OfClient(d)'
    <3>1. \A i \in Nat : (AskedC(d, i)' => AskedC(d, i + 0)) /\ (AskedK(d, i)' => AskedK(d, i + 0))
      BY <1>b, <2>1 DEF AskedC, AskedK
    <3> QED BY <3>1, <1>b, <2>1, ClientUntouched DEF CtlIInv
  <2>4. Fetching' BY <2>1, <1>5, <1>b DEF Fetching
  <2> QED BY <2>2, <2>3, <2>4, <1>2 DEF CtlIInv
<1>6. CASE ~(kpc = "getq" /\ kpc' = "fetch")
  <2>1. /\ kq # <<>> /\ kq' = Tail(kq) /\ kpc' = "getq"
        /\ (told' = Reply(Head(kq).guid) \/ told' = told)
        /\ fetching' \in {fetching, NoMap}
    BY <1>6, <1>t DEF checkmove, check_move, update_begin, update_end, forget_map, kVars,
       CtlIInv, Fetching,
                      CtlTypeOK
  <2>2. /\ told' \in [Client -> Nat] /\ \A d \in Client : OfClient(d)'
        /\ kq' \in Seq(KMsg) /\ Without(kq, kq')
    BY <2>1, <1>b, AnsweredByK
  <2>3. \/ m_finish_update' = FALSE /\ unannounced' \in BOOLEAN /\ datamap' = datamap
        \/ /\ kpc = "getq" /\ Head(kq).t = 1
           /\ UNCHANGED <<m_finish_update, datamap, unannounced>>
        \/ /\ kpc = "fetch" /\ datamap' = fetching /\ m_finish_update' = TRUE
           /\ unannounced' = unannounced
    BY <1>6, <1>t DEF checkmove, check_move, update_begin, update_end, forget_map, kVars,
       CtlIInv, Fetching,
                      CtlTypeOK
  <2>4. CtlTypeOK'
    <3>1. /\ m_finish_update' \in BOOLEAN /\ unannounced' \in BOOLEAN
          /\ datamap' \in Map \cup {NoMap} /\ fetching' \in Map \cup {NoMap}
      BY <2>1, <2>3, <1>t DEF CtlTypeOK
    <3> QED BY <3>1, <2>1, <2>2, <1>b, <1>t DEF CtlTypeOK, KMsg
  <2>5. ASSUME NEW i \in DOMAIN kq, i >= 2, kq[i].t \in {2, 3}
        PROVE \E j \in DOMAIN kq' : j >= 1 /\ kq'[j].t \in {2, 3}
    <3>1. i - 1 \in DOMAIN kq' /\ i - 1 >= 1 /\ kq'[i - 1] = kq[i] BY <2>2, <2>5 DEF Without
    <3> QED BY <3>1, <2>5
  <2>6. ASSUME ToldFrom(2), unannounced' = unannounced PROVE ToldFrom(1)'
    BY <2>5, <2>6, <1>b DEF ToldFrom
  <2>7. ASSUME ToldFrom(1), Head(kq).t = 1 PROVE ToldFrom(2)
    <3>1. ASSUME NEW i \in DOMAIN kq, i >= 1, kq[i].t \in {2, 3} PROVE i >= 2
      BY <3>1, <2>7, <2>2 DEF Without
    <3> QED BY <3>1, <2>7 DEF ToldFrom
  <2>8. Fetching'
    BY <2>1, <2>3, <2>6, <2>7, <1>b DEF CtlIInv, Fetching
  <2> QED BY <2>2, <2>4, <2>8, <1>2 DEF CtlIInv
<1> QED BY <1>5, <1>6

\* Whatever clients ask, maps are loaded, initialisations are refused, replaced or cancelled and the
\* chassis loses its position: nobody is answered twice or skipped while C waits for him, and moves
\* are judged on an old map only while K is about to hear of the new one or nobody announced it.
THEOREM ControllerKept == CtlSpec => []ControllerInv
<1> USE ControllerAssumption DEF Nobody
<1>1. CtlInit => CtlIInv
  <2> SUFFICES ASSUME CtlInit PROVE CtlIInv OBVIOUS
  <2>1. HomeMap \in Map BY DEF HomeMap
  <2>2. [t |-> 3, guid |-> Nobody] \in KMsg BY DEF KMsg, Guid
  <2>3. kq \in Seq(KMsg) /\ cq \in Seq(CMsg) /\ Len(kq) = 1 /\ kq[1] = [t |-> 3, guid |-> Nobody]
        /\ DOMAIN cq = {} BY <2>2 DEF CtlInit
  <2>4. CtlTypeOK
    <3>1. told \in [Client -> Nat] /\ sent \subseteq Client /\ tries \in 0 .. MaxTries
      BY TriesBound DEF CtlInit
    <3>2. located \in {"none", "running", "done"} /\ init_req \in Guid /\ fromer \in Guid
      BY DEF CtlInit, Guid
    <3> QED BY <2>1, <2>3, <3>1, <3>2 DEF CtlInit, CtlTypeOK, KMsg, CMsg
  <2>5. ASSUME NEW c \in Client PROVE OfClient(c)
    <3>1. \A i \in Nat : ~AskedC(c, i) /\ ~AskedK(c, i) BY <2>3 DEF AskedC, AskedK, CtlInit
    <3> HIDE DEF AskedC, AskedK
    <3> QED BY <3>1 DEF OfClient, CtlInit
  <2>6. Places /\ Fetching BY <2>3 DEF Places, Fetching, CtlInit
  <2> QED BY <2>4, <2>5, <2>6 DEF CtlIInv
<1>2. CtlIInv /\ [CtlNext]_ctlVars => CtlIInv'
  <2> SUFFICES ASSUME CtlIInv, [CtlNext]_ctlVars PROVE CtlIInv' OBVIOUS
  <2>1. CASE UNCHANGED ctlVars
    BY <2>1 DEF ctlVars, CtlIInv, CtlTypeOK, Places, OfClient, AskedC, AskedK, Fetching, ToldFrom
  <2>2. ASSUME NEW reached \in BOOLEAN, wait_poll(reached) PROVE CtlIInv' BY <2>2, PollKeeps
  <2>3. CASE controller
    BY <2>2, <2>3, RunInitKeeps, RunCancelKeeps, SetOkKeeps, SetLostKeeps, AloneKeeps
       DEF controller
  <2> QED BY <2>1, <2>3, LoadKeeps, InitializeKeeps, CancelKeeps, HandedToK, JudgeKeeps,
             AloneKeeps DEF CtlNext
<1>3. CtlIInv => ControllerInv
  <2> SUFFICES ASSUME CtlIInv PROVE ControllerInv OBVIOUS
  <2>t. CtlTypeOK /\ cq \in Seq(CMsg) BY CtlTypes
  <2>1. StaleMapIsKnown BY DEF CtlIInv, Fetching, ToldFrom, StaleMapIsKnown
  <2>2. waiting => fromer # Nobody /\ told[fromer] = 0
    <3>1. waiting => fromer \in Client BY <2>t DEF CtlIInv, CtlTypeOK, Places, Guid
    <3> QED BY <3>1 DEF CtlIInv, Places, OfClient
  <2>3. ASSUME NEW i \in DOMAIN cq, cq[i].t = 3
        PROVE  cq[i].guid # fromer /\ told[cq[i].guid] = 0
    <3>1. i \in Nat /\ cq[i].guid \in Client
      <4>1. cq[i] \in CMsg /\ i \in Nat BY <2>t
      <4> QED BY <4>1, <2>3 DEF CMsg, Guid, CtlIInv, Places
    <3>2. AskedC(cq[i].guid, i) BY <2>3 DEF AskedC
    <3> HIDE DEF AskedC, AskedK
    <3> QED BY <3>1, <3>2 DEF CtlIInv, OfClient
  <2>4. \A c \in Client : told[c] <= 1
    BY <2>t DEF CtlIInv, OfClient
  <2> QED BY <2>t, <2>1, <2>2, <2>3, <2>4 DEF ControllerInv, InitPending
<1> QED BY <1>1, <1>2, <1>3, PTL DEF CtlSpec

-----------------------------------------------------------------------------
(* The motions: the requests of clients on one side, the flag and the notices on the other. *)

\* Each motion belongs to one client, who is told of its end once or not waited for any more.
Clients ==
  /\ owned \subseteq asked /\ dropped \subseteq owned
  /\ \A m \in Motion :
       /\ clinet[m] \in owned \cup {None} /\ moving[m] \in {None, clinet[m]}
       /\ wait_on[m] => clinet[m] # None /\ clinet[m] \notin dropped /\ finished[clinet[m]] = 0
  /\ clinet["rotate"] = clinet["moveto"] => clinet["rotate"] = None
  /\ \A c \in Mover : /\ finished[c] \in {0, 1}
                      /\ finished[c] = 1 => c \in owned \ dropped /\ moving["moveto"] # c

\* The request H works on: its motion is not begun yet, and the wait thread is gone before it is.
Ordered ==
  /\ order.pc # "idle" => order.from \in asked /\ order.m \in Motion
  /\ order.pc # "idle" /\ order.kind \in Motion => order.m = order.kind /\ order.from \notin owned
  /\ order.pc = "dance" => order.kind # "stop"
  /\ order.pc = "command" /\ order.kind \in Motion \cup {"stop"} => ~wait_on[order.m]

MotIInv == MotTypeOK /\ Clients /\ Ordered /\ FlagFollowsChassis

LEMMA Noticed ==
  ASSUME NEW q \in Seq({"HEADING", "END"}), NEW n \in {"HEADING", "END"}
  PROVE  /\ Append(q, n) \in Seq({"HEADING", "END"}) /\ Append(q, n) # <<>>
         /\ Append(q, n)[Len(Append(q, n))] = n
OBVIOUS

\* Six ways in which the flag, the chassis and the notices change together.
LEMMA NaviKept ==
  ASSUME MotTypeOK, FlagFollowsChassis,
         \/ UNCHANGED naviVars \/ Accept \/ Cancel \/ chassis_arrives \/ ifnavigation_infomation
         \/ websocket_closed
  PROVE  /\ FlagFollowsChassis' /\ notices' \in Seq({"HEADING", "END"})
         /\ g_navi_state' \in BOOLEAN /\ heading' \in BOOLEAN /\ lost' \in BOOLEAN
<1>t. /\ notices \in Seq({"HEADING", "END"})
      /\ g_navi_state \in BOOLEAN /\ heading \in BOOLEAN /\ lost \in BOOLEAN
  BY DEF MotTypeOK
<1>1. CASE UNCHANGED naviVars BY <1>1, <1>t DEF naviVars, FlagFollowsChassis
<1>2. CASE Accept BY <1>2, <1>t, Noticed DEF Accept, FlagFollowsChassis
<1>3. CASE Cancel BY <1>3, <1>t, Noticed DEF Cancel, FlagFollowsChassis
<1>4. CASE chassis_arrives BY <1>4, <1>t, Noticed DEF chassis_arrives, FlagFollowsChassis
<1>5. CASE ifnavigation_infomation
  <2>1. /\ notices # <<>> /\ notices' = Tail(notices) /\ g_navi_state' = (Head(notices) = "HEADING")
        /\ UNCHANGED <<heading, lost>>
    BY <1>5 DEF ifnavigation_infomation
  <2>2. /\ Len(notices) \in Nat \ {0} /\ DOMAIN notices = 1 .. Len(notices) /\ Head(notices) = notices[1]
        /\ notices' \in Seq({"HEADING", "END"}) /\ Len(notices') = Len(notices) - 1
        /\ DOMAIN notices' = 1 .. Len(notices) - 1
        /\ \A i \in 1 .. Len(notices) - 1 : notices'[i] = notices[i + 1]
    BY <2>1, <1>t
  <2>3. ASSUME g_navi_state' \/ "HEADING" \in {notices'[i] : i \in DOMAIN notices'}
        PROVE  "HEADING" \in {notices[i] : i \in DOMAIN notices}
               /\ (Len(notices) = 1 => notices[1] = "HEADING")
    <3>1. CASE g_navi_state'
      <4>1. Head(notices) = "HEADING" BY <3>1, <2>1, Zenon
      <4> QED BY <4>1, <2>2
    <3>2. CASE "HEADING" \in {notices'[i] : i \in DOMAIN notices'}
      <4>1. PICK i \in DOMAIN notices' : notices'[i] = "HEADING" BY <3>2
      <4>2. i + 1 \in DOMAIN notices /\ notices[i + 1] = "HEADING" BY <4>1, <2>2
      <4>3. Len(notices) # 1 BY <4>1, <2>2
      <4> QED BY <4>2, <4>3
    <3> QED BY <2>3, <3>1, <3>2
  <2>4. ASSUME notices[Len(notices)] = "END", Len(notices) # 1
        PROVE  notices' # <<>> /\ notices'[Len(notices')] = "END"
    <3>1. Len(notices') \in 1 .. Len(notices) - 1 /\ Len(notices') + 1 = Len(notices) BY <2>2,
                                                                                         <2>4
    <3> QED BY <3>1, <2>2, <2>4
  <2>5. FlagFollowsChassis'
    <3> SUFFICES ASSUME g_navi_state' \/ "HEADING" \in {notices'[i] : i \in DOMAIN notices'}
                 PROVE  heading' \/ lost' \/ (notices' # <<>> /\ notices'[Len(notices')] = "END")
      BY DEF FlagFollowsChassis
    <3>1. heading \/ lost \/ (notices # <<>> /\ notices[Len(notices)] = "END")
      BY <2>3 DEF FlagFollowsChassis
    <3>2. Len(notices) = 1 => notices[Len(notices)] # "END" BY <2>3
    <3> QED BY <3>1, <3>2, <2>1, <2>4
  <2> QED BY <2>5, <2>2, <2>1, <1>t
<1>6. CASE websocket_closed BY <1>6, <1>t DEF websocket_closed, FlagFollowsChassis
<1> QED BY <1>1, <1>2, <1>3, <1>4, <1>5, <1>6

LEMMA NaviSteps ==
  ASSUME MotNext
  PROVE  \/ UNCHANGED naviVars \/ Accept \/ Cancel \/ chassis_arrives \/ ifnavigation_infomation
         \/ websocket_closed
BY DEF MotNext, receive, start_dance, handler, quit_dance, quit_wait_post, quit_wait,
   command_motion,
       command_stop, command_goto, wait_end, wait_quit, chassis_stops, dancing, dance_fails, dance_round,
       dance_home, dance_end, naviVars

LEMMA DancesType ==
  ASSUME MotTypeOK, MotNext
  PROVE  /\ dance' \in {"off", "dance", "home", "last"}
         /\ dance_exit' \in BOOLEAN /\ navi_state' \in BOOLEAN
<1>t. /\ dance \in {"off", "dance", "home", "last"}
      /\ dance_exit \in BOOLEAN /\ navi_state \in BOOLEAN /\ g_navi_state \in BOOLEAN
  BY DEF MotTypeOK
<1>1. dance' \in {"off", "dance", "home", "last"}
  BY <1>t DEF MotNext, receive, start_dance, handler, quit_dance, quit_wait_post, quit_wait,
     command_motion,
       command_stop, command_goto, wait_end, wait_quit, chassis_stops, dancing, dance_fails, dance_round,
       dance_home, dance_end, danceVars, chassis_arrives, ifnavigation_infomation, websocket_closed
<1>2. dance_exit' \in BOOLEAN
  BY <1>t DEF MotNext, receive, start_dance, handler, quit_dance, quit_wait_post, quit_wait,
     command_motion,
       command_stop, command_goto, wait_end, wait_quit, chassis_stops, dancing, dance_fails, dance_round,
       dance_home, dance_end, danceVars, chassis_arrives, ifnavigation_infomation, websocket_closed
<1>3. navi_state' \in BOOLEAN
  BY <1>t DEF MotNext, receive, start_dance, handler, quit_dance, quit_wait_post, quit_wait,
     command_motion,
       command_stop, command_goto, wait_end, wait_quit, chassis_stops, dancing, dance_fails, dance_round,
       dance_home, dance_end, danceVars, chassis_arrives, ifnavigation_infomation, websocket_closed
<1> QED BY <1>1, <1>2, <1>3

\* The types of what the lemmas below are about.
MotOrder == [kind : Kind \cup {None}, from : Mover \cup {None}, m : Motion \cup {None},
              pc : {"idle", "dance", "wait", "command"}]
Movers == Clients /\ Ordered
MoverTypes ==
  /\ order \in MotOrder
  /\ wait_on \in [Motion -> BOOLEAN] /\ wait_exit \in [Motion -> BOOLEAN]
  /\ clinet \in [Motion -> Mover \cup {None}] /\ moving \in [Motion -> Mover \cup {None}]
  /\ asked \in SUBSET Mover /\ owned \in SUBSET Mover /\ dropped \in SUBSET Mover
  /\ finished \in [Mover -> Nat]

LEMMA ReceiveKeeps ==
  ASSUME MoverTypes, Movers, NEW c \in Mover, NEW kind \in Kind, NEW m \in Motion, receive(c, kind, m)
  PROVE  MoverTypes' /\ Movers'
<1>1. /\ c \notin asked /\ asked' = asked \cup {c}
      /\ order' = [kind |-> kind, from |-> c, m |-> m, pc |-> order'.pc]
      /\ order'.pc \in {"dance", "wait", "command"}
      /\ order'.pc = "command" => kind \notin Motion \cup {"stop"}
      /\ order'.pc = "dance" => kind # "stop"
      /\ kind \in Motion => m = kind
      /\ UNCHANGED <<wait_on, wait_exit, clinet, moving, owned, finished, dropped>>
  BY DEF receive, waitVars
<1>2. order' \in MotOrder BY <1>1 DEF MotOrder
<1>3. order'.kind = kind /\ order'.from = c /\ order'.m = m BY <1>1
<1>4. MoverTypes' BY <1>1, <1>2 DEF MoverTypes
<1>5. Ordered' BY <1>1, <1>3 DEF Ordered, Movers, Clients
<1>6. Clients' BY <1>1 DEF Clients, Movers
<1> QED BY <1>4, <1>5, <1>6 DEF Movers

LEMMA QuitKeeps ==
  ASSUME MoverTypes, Movers, quit_dance \/ quit_wait_post \/ quit_wait
  PROVE  MoverTypes' /\ Movers'
<1>1. /\ order' \in {Idle, order, [order EXCEPT !.pc = "wait"], [order EXCEPT !.pc = "command"]}
      /\ order.pc # "idle"
      /\ order'.pc = "command" =>
           order.kind \notin Motion \cup {"stop"} \/ ~wait_on[order.m]
      /\ UNCHANGED <<wait_on, clinet, moving, owned, finished, dropped, asked>>
      /\ wait_exit' \in [Motion -> BOOLEAN]
  <2>1. CASE quit_dance
    <3>1. /\ order.pc = "dance" /\ UNCHANGED <<wait_on, wait_exit, clinet, moving, owned, finished, dropped, asked>>
          /\ order' = IF order.kind = "stop_dance" THEN Idle
              ELSE [order EXCEPT !.pc = IF order.kind \in Motion THEN "wait" ELSE "command"]
      BY <2>1 DEF quit_dance, waitVars, clientVars
    <3>2. CASE order.kind = "stop_dance" BY <3>1, <3>2 DEF MoverTypes, Idle
    <3>3. CASE order.kind # "stop_dance" /\ order.kind \in Motion BY <3>1, <3>3 DEF MoverTypes,
                                                                     MotOrder
    <3>4. CASE order.kind # "stop_dance" /\ order.kind \notin Motion
      <4>1. order.kind # "stop" BY <3>1 DEF Movers, Ordered
      <4> QED BY <3>1, <3>4, <4>1 DEF MoverTypes, MotOrder
    <3> QED BY <3>2, <3>3, <3>4
  <2>2. CASE quit_wait_post
    <3>1. /\ order.pc = "wait" /\ order' = order /\ wait_exit' = [wait_exit EXCEPT ![order.m] = TRUE]
          /\ UNCHANGED <<wait_on, clinet, moving, owned, finished, dropped, asked>>
      BY <2>2 DEF quit_wait_post, clientVars
    <3> QED BY <3>1 DEF MoverTypes
  <2>3. CASE quit_wait
    <3>1. /\ order.pc = "wait" /\ order' = [order EXCEPT !.pc = "command"] /\ ~wait_on[order.m]
          /\ UNCHANGED <<wait_on, wait_exit, clinet, moving, owned, finished, dropped, asked>>
      BY <2>3 DEF quit_wait, waitVars, clientVars
    <3> QED BY <3>1 DEF MoverTypes
  <2> QED BY <2>1, <2>2, <2>3
<1>2. order' \in MotOrder
  BY <1>1 DEF MoverTypes, MotOrder, Idle
<1>3. MoverTypes' BY <1>1, <1>2 DEF MoverTypes
<1>4. Clients' BY <1>1 DEF Clients, Movers
<1>5. Ordered'
  BY <1>1 DEF Ordered, Movers, Idle, MoverTypes, MotOrder
<1> QED BY <1>3, <1>4, <1>5 DEF Movers

LEMMA CommandKeeps ==
  ASSUME MoverTypes, Movers, command_motion
  PROVE  MoverTypes' /\ Movers'
<1> USE MotionAssumption DEF None
<1> DEFINE k == order.m
           c == order.from
<1>0. /\ order.pc = "command" /\ order.kind \in Motion /\ order' = Idle
      /\ UNCHANGED <<asked, finished, dropped>>
  BY DEF command_motion
<1>1. k \in Motion /\ c \in asked /\ c \in Mover /\ c \notin owned /\ ~wait_on[k] /\ c # None
  BY <1>0 DEF Movers, Ordered, MoverTypes
<1>2. order' \in MotOrder BY <1>0 DEF MotOrder, Idle
<1>3. Ordered' BY <1>0 DEF Ordered, Idle
<1>4. CASE UNCHANGED <<wait_on, wait_exit, clinet, moving, owned>>
  BY <1>0, <1>2, <1>3, <1>4 DEF MoverTypes, Movers, Clients
<1>5. CASE /\ moving' = [moving EXCEPT ![k] = c]
           /\ clinet' = [clinet EXCEPT ![k] = c]
           /\ wait_on' = [wait_on EXCEPT ![k] = TRUE]
           /\ wait_exit' = [wait_exit EXCEPT ![k] = FALSE]
           /\ owned' = owned \cup {c}
  <2> HIDE DEF k, c
  <2>1. MoverTypes' BY <1>0, <1>1, <1>2, <1>5 DEF MoverTypes
  <2>2. finished[c] = 0 /\ c \notin dropped BY <1>1 DEF Movers, Clients
  <2>3. /\ \A m \in Motion : clinet'[m] = IF m = k THEN c ELSE clinet[m]
        /\ \A m \in Motion : moving'[m] = IF m = k THEN c ELSE moving[m]
        /\ \A m \in Motion : wait_on'[m] = IF m = k THEN TRUE ELSE wait_on[m]
    BY <1>1, <1>5 DEF MoverTypes
  <2>4. Clients'
    <3>1. ASSUME NEW m \in Motion
          PROVE  /\ clinet'[m] \in owned' \cup {None} /\ moving'[m] \in {None, clinet'[m]}
                 /\ wait_on'[m] => clinet'[m] # None /\ clinet'[m] \notin dropped' /\ finished'[clinet'[m]] = 0
      BY <1>0, <1>1, <1>5, <2>2, <2>3 DEF Movers, Clients
    <3>2. clinet'["rotate"] = clinet'["moveto"] => clinet'["rotate"] = None
      BY <1>1, <2>3 DEF Movers, Clients, Motion
    <3>3. ASSUME NEW d \in Mover
          PROVE  /\ finished'[d] \in {0, 1}
                 /\ finished'[d] = 1 => d \in owned' \ dropped' /\ moving'["moveto"] # d
      BY <1>0, <1>1, <1>5, <2>2, <2>3 DEF Movers, Clients, Motion
    <3> QED BY <3>1, <3>2, <3>3, <1>0, <1>1, <1>5 DEF Movers, Clients
  <2> QED BY <2>1, <2>4, <1>3 DEF Movers
<1> HIDE DEF k, c
<1> QED BY <1>4, <1>5 DEF command_motion, waitVars, k, c

LEMMA EndKeeps ==
  ASSUME MoverTypes, Movers, NEW m \in Motion, wait_end(m) \/ wait_quit(m)
  PROVE  MoverTypes' /\ Movers'
<1> USE MotionAssumption DEF None
<1> DEFINE c == clinet[m]
<1>0. /\ wait_on[m] /\ wait_on' = [wait_on EXCEPT ![m] = FALSE] /\ wait_exit' \in [Motion -> BOOLEAN]
      /\ UNCHANGED <<order, clinet, moving, asked, owned>>
  BY DEF wait_end, wait_quit, MoverTypes
<1>1. c \in Mover /\ c \in owned /\ c \notin dropped /\ finished[c] = 0
  BY <1>0 DEF Movers, Clients, MoverTypes
<1>2. \A k \in Motion : k # m => clinet[k] # c
  BY <1>1 DEF Movers, Clients, Motion
<1>3. \/ /\ finished' = [finished EXCEPT ![c] = @ + 1] /\ dropped' = dropped
         /\ moving[m] = None \/ m = "rotate"
      \/ finished' = finished /\ dropped' = dropped \cup {c}
  BY DEF wait_end, wait_quit
<1> HIDE DEF c
<1>4. \A k \in Motion : wait_on'[k] = IF k = m THEN FALSE ELSE wait_on[k]
  BY <1>0 DEF MoverTypes
<1>5. MoverTypes' BY <1>0, <1>1, <1>3 DEF MoverTypes
<1>6. Ordered'
  <2>1. order.pc # "idle" => order.m \in Motion BY DEF Movers, Ordered
  <2> QED BY <1>0, <1>4, <2>1 DEF Movers, Ordered
<1>7. \A d \in Mover : d # c => finished'[d] = finished[d] /\ (d \in dropped' => d \in dropped)
  BY <1>1, <1>3 DEF MoverTypes
<1>8. Clients'
  <2>1. ASSUME NEW k \in Motion
        PROVE  /\ clinet'[k] \in owned' \cup {None} /\ moving'[k] \in {None, clinet'[k]}
               /\ wait_on'[k] => clinet'[k] # None /\ clinet'[k] \notin dropped' /\ finished'[clinet'[k]] = 0
    <3>1. CASE k = m BY <3>1, <1>0, <1>4 DEF Movers, Clients
    <3>2. CASE k # m
      <4>1. clinet[k] # c BY <3>2, <1>2
      <4>2. wait_on[k] => clinet[k] \in Mover /\ clinet[k] \notin dropped /\ finished[clinet[k]] = 0
        BY DEF Movers, Clients, MoverTypes
      <4>3. wait_on'[k] = wait_on[k] BY <3>2, <1>4
      <4> QED BY <4>1, <4>2, <4>3, <1>7, <1>0 DEF Movers, Clients
    <3> QED BY <3>1, <3>2
  <2>2. ASSUME NEW d \in Mover
        PROVE  /\ finished'[d] \in {0, 1}
               /\ finished'[d] = 1 => d \in owned' \ dropped' /\ moving'["moveto"] # d
    <3>1. CASE d # c BY <3>1, <1>7, <1>0 DEF Movers, Clients
    <3>2. CASE d = c /\ finished' = [finished EXCEPT ![c] = @ + 1] /\ dropped' = dropped
                 /\ (moving[m] = None \/ m = "rotate")
      <4>1. finished'[d] = 1 BY <3>2, <1>1 DEF MoverTypes
      <4>2. moving["moveto"] # d
        BY <3>2, <1>1, <1>2 DEF Movers, Clients, Motion, MoverTypes, c
      <4> QED BY <4>1, <4>2, <3>2, <1>0, <1>1
    <3>3. CASE d = c /\ finished' = finished BY <3>3, <1>1
    <3> QED BY <3>1, <3>2, <3>3, <1>3
  <2> QED BY <2>1, <2>2, <1>0, <1>1, <1>3 DEF Movers, Clients
<1> QED BY <1>5, <1>6, <1>8 DEF Movers

LEMMA StoppedKeeps ==
  ASSUME MoverTypes, Movers, \/ command_stop \/ command_goto \/ \E m \in Motion : chassis_stops(m)
  PROVE  MoverTypes' /\ Movers'
<1>1. /\ order' \in {order, Idle}
      /\ UNCHANGED <<wait_on, wait_exit, clinet, asked, owned, finished, dropped>>
  BY DEF command_stop, command_goto, chassis_stops, waitVars, clientVars
<1>2. /\ moving' \in [Motion -> Mover \cup {None}]
      /\ \A m \in Motion : moving'[m] \in {moving[m], None}
  BY DEF command_stop, command_goto, chassis_stops, waitVars, MoverTypes
<1>3. order' \in MotOrder BY <1>1 DEF MotOrder, Idle, MoverTypes
<1>4. MoverTypes' BY <1>1, <1>2, <1>3 DEF MoverTypes
<1>5. Ordered' BY <1>1 DEF Movers, Ordered, Idle
<1>6. Clients'
  BY <1>1, <1>2, MotionAssumption DEF Movers, Clients, Motion, None, MoverTypes
<1> QED BY <1>4, <1>5, <1>6 DEF Movers

LEMMA DancesKeep ==
  ASSUME MoverTypes, Movers,
         start_dance \/ dancing \/ chassis_arrives \/ ifnavigation_infomation \/ websocket_closed
  PROVE  MoverTypes' /\ Movers'
<1>1. UNCHANGED <<order, wait_on, wait_exit, clinet, moving, asked, owned, finished, dropped>>
  BY DEF start_dance, dancing, dance_fails, dance_round, dance_home, dance_end, chassis_arrives,
         ifnavigation_infomation, websocket_closed, waitVars, clientVars
<1> QED BY <1>1 DEF MoverTypes, Movers, Clients, Ordered

\* However requests, the dance, the wait threads and the notices of the chassis interleave: the end of a
\* motion is told once and to its client, and the flag is set only while the robot navigates, its last
\* notice is on the way, or one was lost.
THEOREM MotionKept == MotSpec => []MotionInv
<1> USE MotionAssumption DEF None
<1>1. MotInit => MotIInv
  <2> SUFFICES ASSUME MotInit PROVE MotIInv OBVIOUS
  <2>0. Idle \in MotOrder BY DEF Idle, MotOrder
  <2>4. /\ wait_on \in [Motion -> BOOLEAN] /\ wait_exit \in [Motion -> BOOLEAN]
        /\ clinet \in [Motion -> Mover \cup {None}] /\ moving \in [Motion -> Mover \cup {None}]
        /\ finished \in [Mover -> Nat]
    BY DEF MotInit
  <2>5. notices \in Seq({"HEADING", "END"}) BY DEF MotInit
  <2>1. MotTypeOK
    BY <2>0, <2>4, <2>5 DEF MotInit, MotTypeOK, MotOrder
  <2>2. Clients BY DEF MotInit, Clients, Motion
  <2>3. Ordered /\ FlagFollowsChassis BY DEF MotInit, Ordered, Idle, FlagFollowsChassis
  <2> QED BY <2>1, <2>2, <2>3 DEF MotIInv
<1>2. MotIInv /\ [MotNext]_motVars => MotIInv'
  <2> SUFFICES ASSUME MotIInv, [MotNext]_motVars PROVE MotIInv' OBVIOUS
  <2>1. CASE UNCHANGED motVars
    BY <2>1 DEF motVars, MotIInv, MotTypeOK, Clients, Ordered, FlagFollowsChassis
  <2>2. CASE MotNext
    <3>1. MoverTypes /\ Movers /\ MotTypeOK /\ FlagFollowsChassis
      BY DEF MotIInv, MotTypeOK, MoverTypes, Movers, MotOrder
    <3>2. /\ FlagFollowsChassis' /\ notices' \in Seq({"HEADING", "END"})
          /\ g_navi_state' \in BOOLEAN /\ heading' \in BOOLEAN /\ lost' \in BOOLEAN
      BY <3>1, <2>2, NaviSteps, NaviKept
    <3>3. /\ dance' \in {"off", "dance", "home", "last"}
          /\ dance_exit' \in BOOLEAN /\ navi_state' \in BOOLEAN
      BY <3>1, <2>2, DancesType
    <3>4. MoverTypes' /\ Movers'
      BY <3>1, <2>2, ReceiveKeeps, QuitKeeps, CommandKeeps, EndKeeps, StoppedKeeps, DancesKeep
         DEF MotNext, handler
    <3> QED BY <3>2, <3>3, <3>4 DEF MotIInv, MotTypeOK, MoverTypes, Movers, MotOrder
  <2> QED BY <2>1, <2>2
<1>3. MotIInv => MotionInv
  <2> SUFFICES ASSUME MotIInv PROVE MotionInv OBVIOUS
  <2>1. \A c \in Mover : /\ finished[c] <= 1 /\ (finished[c] = 1 => c \in owned \ dropped)
                         /\ finished[c] = 1 => moving["moveto"] # c
    BY DEF MotIInv, Clients
  <2>2. \A m \in Motion : wait_on[m] => clinet[m] \in owned /\ finished[clinet[m]] = 0
    BY DEF MotIInv, Clients
  <2> QED BY <2>1, <2>2 DEF MotIInv, MotionInv, EndToldOnce, Ordered
<1> QED BY <1>1, <1>2, <1>3, PTL DEF MotSpec

-----------------------------------------------------------------------------
(* The parts together. *)

\* A behaviour of MCNavigation is one of each part: where a part does not move it stutters.
LEMMA PartsMove ==
  /\ MCInit => CtlInit /\ MotInit /\ PoolInit /\ HeadInit /\ DockInit
  /\ [MCNext]_<<part, ctlVars, motVars, poolVars, headVars, dockVars>> =>
       /\ [CtlNext]_ctlVars /\ [MotNext]_motVars /\ [PoolNext]_poolVars
       /\ [HeadNext]_headVars /\ [DockNext]_dockVars
<1>1. MCInit => CtlInit /\ MotInit /\ PoolInit /\ HeadInit /\ DockInit
  BY DEF MCInit
<1>2. [MCNext]_<<part, ctlVars, motVars, poolVars, headVars, dockVars>> =>
       /\ [CtlNext]_ctlVars /\ [MotNext]_motVars /\ [PoolNext]_poolVars
       /\ [HeadNext]_headVars /\ [DockNext]_dockVars
  BY DEF MCNext, Only
<1> QED BY <1>1, <1>2

\* Where the parts run beside each other, the threads of the controller and of docking keep their
\* promises.
THEOREM ControlKept == MCSpec => []ControlInv
<1>1. MCSpec => []ControllerInv
  <2>1. MCSpec => CtlSpec BY PartsMove, PTL DEF MCSpec, CtlSpec
  <2> QED BY <2>1, ControllerKept, PTL
<1>2. MCSpec => []DockingInv
  <2>1. DockIInv => DockingInv BY DockingFollows
  <2> QED BY <2>1, PartsMove, DockInitially, DockStep, PTL DEF MCSpec
<1>3. ControllerInv /\ DockingInv => ControlInv
  BY DEF ControlInv
<1> QED BY <1>1, <1>2, <1>3, PTL
===============================================================================
