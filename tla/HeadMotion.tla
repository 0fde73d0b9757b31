------------------------------ MODULE HeadMotion ------------------------------
(***************************************************************************)
(* The head and the arms (robot_baseaction_module): one thread that takes  *)
(* the orders of clients, asks the controller of the motors how they are   *)
(* between the orders, and waits while the motors find their zero.         *)
(*                                                                         *)
(* The controller is a USB device (RobotControlDevice) that can be pulled  *)
(* out; it then finds its zero anew.  A call may also fail, with or        *)
(* without having been obeyed.  Angles matter for the head only.           *)
(***************************************************************************)
EXTENDS Integers, Sequences, FiniteSets

CONSTANTS
  TurnAngle,   \* angles that orders ask for, with or without a sign
  HeadId,      \* numbers of motors in orders; the head is 0, the arms are 1 and 2
  MaxOrders,   \* bound: orders
  MaxFailures, \* bound: calls that fail
  MaxUnplugs   \* bound: times the controller is pulled out

ASSUME HeadAssumption ==
  /\ TurnAngle \subseteq Nat /\ HeadId \subseteq Nat
  /\ {MaxOrders, MaxFailures, MaxUnplugs} \subseteq Nat

VARIABLES
  head_queue,    \* orders to the thread
  head_pc,       \* "get"; "reinit", before update_initstate when the thread begins and after an
                 \* order for a new zero;
                 \* "sync", between update_initstate and synstatus
  isIniting,
  m_motor_state, \* motor -> currentangle (kept for the head), runstate, doaction
  device,        \* "ready", "zeroing" or "absent"
  zero_due,      \* the device was told to find its zero and has not begun
  m_handle,      \* m_handle_device: "closed", "open", or "stale", of a device that has gone
  head_at, head_to,  \* where the head is, and where it turns to
  turning,       \* motors that move
  careless,      \* since it was last at zero the head was turned although nobody compared
                 \* where it was with its limits
  blind,         \* the device finds its zero and no call shows it to the thread
  orders, failures, unplugs

deviceVars == <<device, zero_due, head_at, head_to, turning>>
threadState == <<head_pc, isIniting, m_motor_state>>
headVars == <<head_queue, threadState, careless, deviceVars, m_handle, blind, orders, failures, unplugs>>

HEADLEVELMOTOR == 0
MotorKnown == 0..2          \* MAXMOTORCOUNT
Arms == {1, 2}

\* Where an order names no motor it is for the head, and so is one for an arm that names 0,
\* but that it does not heed the limits of the head.
HeadOrder ==
  [cmd : {"HEAD_ROTATE"}, type : {0, 1}, angle : TurnAngle \cup {-a : a \in TurnAngle}]
  \cup [cmd : {"ARM_ROTATE", "GETANGLE", "STOP"}, id : HeadId]
  \cup [cmd : {"ROBOT_DO_ACTION", "ROBOT_STOP_ACTION", "ROBOT_REINIT", "CHANGE_SPEED"}]

MotorState == [currentangle : Int, runstate : {1, 3}, doaction : BOOLEAN]
NewMotor == [currentangle |-> 0, runstate |-> 3, doaction |-> FALSE]

HeadTypeOK ==
  /\ head_queue \in Seq(HeadOrder) /\ head_pc \in {"get", "reinit", "sync"}
  /\ isIniting \in BOOLEAN
  /\ DOMAIN m_motor_state \subseteq MotorKnown \cup HeadId
  /\ \A m \in DOMAIN m_motor_state : m_motor_state[m] \in MotorState
  /\ device \in {"ready", "zeroing", "absent"} /\ zero_due \in BOOLEAN
  /\ m_handle \in {"closed", "open", "stale"}
  /\ head_at \in Int /\ head_to \in Int /\ turning \subseteq MotorKnown
  /\ careless \in BOOLEAN /\ blind \in BOOLEAN

HeadInit ==
  /\ head_queue = <<>> /\ head_pc = "reinit" /\ isIniting = TRUE /\ m_motor_state = <<>>
  /\ device = "ready" /\ zero_due = FALSE /\ m_handle = "closed"
  /\ head_at = 0 /\ head_to = 0 /\ turning = {}
  /\ careless = FALSE /\ blind = FALSE
  /\ orders = 0 /\ failures = 0 /\ unplugs = 0

\* message_handler
message_handler(o) ==
  /\ orders < MaxOrders
  /\ orders' = orders + 1
  /\ head_queue' = Append(head_queue, o)
  /\ UNCHANGED <<threadState, careless, deviceVars, m_handle, blind, failures, unplugs>>

(***************************************************************************)
(* Calls of the device                                                     *)
(***************************************************************************)
\* WriteAndRead opens the device if it must.  The handle of a device that has gone is closed
\* by the call that fails for it; the next one opens it anew.
Reachable == device # "absent" /\ m_handle # "stale"

\* No motor has another number than the three: the controller does not answer for one.
CallOk(m) == Reachable /\ m \in MotorKnown /\ m_handle' = "open" /\ UNCHANGED failures

\* A wrong answer leaves the handle open, none closes it.
CallFails(m) ==
  /\ IF Reachable /\ m \in MotorKnown
     THEN failures < MaxFailures /\ failures' = failures + 1
     ELSE UNCHANGED failures
  /\ m_handle' \in IF Reachable THEN {"closed", "open"} ELSE {"closed"}

(***************************************************************************)
(* Between the orders                                                      *)
(***************************************************************************)
\* The run states that update_initstate has got of the first n motors: 1 while a motor finds
\* its zero, 3 when it has (2 and 4, a motor that runs or is at a limit, are left out).
RunStates(n) ==
  [m \in DOMAIN m_motor_state \cup 0 .. n - 1 |->
     LET s == IF m \in DOMAIN m_motor_state THEN m_motor_state[m] ELSE NewMotor
     IN IF m \in 0 .. n - 1
        THEN [s EXCEPT !.runstate = IF device = "zeroing" THEN 1 ELSE 3] ELSE s]

\* update_initstate, in the turn of the loop that finds no order, at the start and after
\* ROBOT_REINIT: it asks each motor, up to the first that fails.
update_initstate ==
  /\ \/ head_pc = "reinit" /\ head_pc' = "get"
     \/ head_pc = "get" /\ head_queue = <<>> /\ isIniting /\ head_pc' = "sync"
  /\ \/ /\ CallOk(HEADLEVELMOTOR)
        /\ m_motor_state' = RunStates(3)
        /\ isIniting' = (device = "zeroing")
     \/ /\ CallFails(HEADLEVELMOTOR)
        /\ \E n \in IF Reachable THEN 0..2 ELSE {0} : m_motor_state' = RunStates(n)
        /\ isIniting' = TRUE
  /\ blind' = FALSE
  /\ UNCHANGED <<head_queue, careless, deviceVars, orders, unplugs>>

\* A motor that has stopped is reported.
Reported(m) ==
  [m_motor_state[m] EXCEPT !.doaction = @ /\ m \in turning]

Polled(m) ==
  [Reported(m) EXCEPT !.currentangle = IF m = HEADLEVELMOTOR THEN head_at ELSE @]

\* synstatus asks each motor of the map in turn, up to the first that fails (f): its state
\* and its angle.
synstatus_fails(f) ==
  /\ f \in DOMAIN m_motor_state
  /\ \A m \in DOMAIN m_motor_state : m < f => Reachable /\ m \in MotorKnown
  /\ CallFails(f)
  /\ \E s \in {m_motor_state[f]} \cup IF Reachable THEN {Reported(f)} ELSE {} :
       m_motor_state' = [m \in DOMAIN m_motor_state |->
                           IF m < f THEN Polled(m) ELSE IF m = f THEN s ELSE m_motor_state[m]]
  /\ isIniting' = TRUE /\ blind' = FALSE

synstatus_ok ==
  /\ DOMAIN m_motor_state \subseteq MotorKnown
  /\ IF m_motor_state = <<>> THEN UNCHANGED <<m_handle, failures>> ELSE CallOk(HEADLEVELMOTOR)
  /\ m_motor_state' = [m \in DOMAIN m_motor_state |-> Polled(m)]
  /\ UNCHANGED <<isIniting, blind>>

synstatus ==
  /\ (head_pc = "sync" \/ (head_pc = "get" /\ head_queue = <<>> /\ ~isIniting))
  /\ head_pc' = "get"
  /\ (synstatus_ok \/ \E f \in DOMAIN m_motor_state : synstatus_fails(f))
  /\ UNCHANGED <<head_queue, careless, deviceVars, orders, unplugs>>

(***************************************************************************)
(* Orders: do_client_command                                               *)
(***************************************************************************)
Order(cmd) == head_pc = "get" /\ head_queue # <<>> /\ Head(head_queue).cmd = cmd
Taken == head_queue' = Tail(head_queue) /\ UNCHANGED <<orders, unplugs>>

\* m_motor_state[m], which makes the entry that is not there, set to s.
Motor(m) == IF m \in DOMAIN m_motor_state THEN m_motor_state[m] ELSE NewMotor
SetMotor(m, s) ==
  m_motor_state' = [x \in DOMAIN m_motor_state \cup {m} |-> IF x = m THEN s ELSE m_motor_state[x]]

\* A call fails for the thread: that the device went away and came back shows in this call
\* only.
Unseen == blind' = (blind \/ (m_handle = "stale" /\ device = "zeroing" /\ ~isIniting))

Magnitude(a) == IF a < 0 THEN -a ELSE a

\* As HeadTurn, but it cuts the turn and not where it leads to.
HeadTurn_of_itself(current, type, angle) ==
  IF type = 0 THEN IF angle > 60 THEN 60 ELSE angle ELSE IF angle > 60 THEN -60 ELSE -angle

\* What HEAD_ROTATE makes of the angle of the order, at an angle of the head.
HeadTurn(current, type, angle) ==
  LET a == IF type = 0 THEN angle ELSE -angle
  IN IF type = 0
     THEN IF current + a > 60 THEN a - Magnitude(current + a - 60) ELSE a
     ELSE IF current + a < -60 THEN a + Magnitude(current + a + 60) ELSE a

\* The device turns motor m; while it finds its zero the order has no effect.
Obeys(m, a) ==
  IF device = "ready"
  THEN /\ turning' = turning \cup {m}
       /\ head_to' = IF m = HEADLEVELMOTOR THEN head_at + a ELSE head_to
       /\ UNCHANGED <<device, zero_due, head_at>>
  ELSE UNCHANGED deviceVars

\* A call that turns motor m.  One that fails may have been obeyed.
turn(m, a, doubtful) ==
  \/ /\ (isIniting \/ Motor(m).runstate # 3)
     /\ IF isIniting THEN UNCHANGED m_motor_state ELSE SetMotor(m, Motor(m))
     /\ UNCHANGED <<deviceVars, m_handle, blind, failures, careless>>
  \/ /\ ~isIniting /\ Motor(m).runstate = 3
     /\ careless' = (careless \/ (m = HEADLEVELMOTOR /\ doubtful))
     /\ \/ CallOk(m) /\ Obeys(m, a) /\ SetMotor(m, [Motor(m) EXCEPT !.doaction = TRUE])
           /\ UNCHANGED blind
        \/ /\ CallFails(m) /\ SetMotor(m, Motor(m)) /\ Unseen
           /\ \/ UNCHANGED deviceVars
              \/ Reachable /\ m \in MotorKnown /\ Obeys(m, a)

\* HEAD_ROTATE.  The angle of the head is the last one zero_due for; an order may have the
\* sign that its type is there for.
HEAD_ROTATE ==
  /\ Order("HEAD_ROTATE")
  /\ LET o == Head(head_queue)
         current == Motor(HEADLEVELMOTOR).currentangle
         doubtful == current # head_at \/ HEADLEVELMOTOR \in turning \/ o.angle < 0
     IN turn(HEADLEVELMOTOR, HeadTurn(current, o.type, o.angle), doubtful)
  /\ Taken /\ UNCHANGED <<head_pc, isIniting>>

\* ARM_ROTATE turns whatever motor it names.
ARM_ROTATE ==
  /\ Order("ARM_ROTATE")
  /\ \E a \in TurnAngle : turn(Head(head_queue).id, a, TRUE)
  /\ Taken /\ UNCHANGED <<head_pc, isIniting>>

\* HEAD_GETANGLE, ARM_GETANGLE: an angle that could not be read is 0.
GETANGLE ==
  /\ Order("GETANGLE")
  /\ LET m == Head(head_queue).id
     IN \/ /\ CallOk(m) /\ UNCHANGED blind
           /\ SetMotor(m, [Motor(m) EXCEPT !.currentangle = IF m = HEADLEVELMOTOR THEN head_at ELSE 0])
        \/ CallFails(m) /\ Unseen /\ SetMotor(m, [Motor(m) EXCEPT !.currentangle = 0])
  /\ Taken /\ UNCHANGED <<head_pc, isIniting, careless, deviceVars>>

\* A motor stops where it is by now.
Stops(m) ==
  /\ turning' = turning \ {m}
  /\ head_at' \in IF m = HEADLEVELMOTOR THEN {head_at, head_to} ELSE {head_at}
  /\ head_to' = IF m = HEADLEVELMOTOR THEN head_at' ELSE head_to
  /\ UNCHANGED <<device, zero_due>>

\* HEAD_STOP, ARM_STOP
STOP ==
  /\ Order("STOP")
  /\ LET m == Head(head_queue).id
     IN IF isIniting \/ Motor(m).runstate # 3
        THEN /\ IF isIniting THEN UNCHANGED m_motor_state ELSE SetMotor(m, Motor(m))
             /\ UNCHANGED <<deviceVars, m_handle, blind, failures>>
        ELSE \/ CallOk(m) /\ Stops(m) /\ SetMotor(m, [Motor(m) EXCEPT !.doaction = FALSE])
                /\ UNCHANGED blind
             \/ /\ CallFails(m) /\ SetMotor(m, Motor(m)) /\ Unseen
                /\ \/ UNCHANGED deviceVars
                   \/ Reachable /\ m \in MotorKnown /\ Stops(m)
  /\ Taken /\ UNCHANGED <<head_pc, isIniting, careless>>

\* ROBOT_DO_ACTION (not while the motors find their zero), which for one action first stops
\* the arms and turns one of them; ROBOT_STOP_ACTION, which waits for the arms; CHANGE_SPEED
\* and MOTION_SET_SWINGANGLE.  In the end the arms move or not.
other_orders(cmd) ==
  /\ Order(cmd)
  /\ \/ /\ isIniting /\ cmd = "ROBOT_DO_ACTION"
        /\ UNCHANGED <<turning, m_handle, blind, failures>>
     \/ /\ (~isIniting \/ cmd # "ROBOT_DO_ACTION")
        /\ (CallOk(HEADLEVELMOTOR) /\ UNCHANGED blind) \/ (CallFails(HEADLEVELMOTOR) /\ Unseen)
        /\ turning' \in IF cmd # "CHANGE_SPEED" /\ Reachable /\ device = "ready"
                       THEN {(turning \ Arms) \cup s : s \in SUBSET Arms} ELSE {turning}
  /\ Taken /\ UNCHANGED <<head_pc, isIniting, careless, m_motor_state, device, zero_due, head_at, head_to>>

\* ROBOT_REINIT: the thread will ask for the run states in a tenth of a second, whether the
\* device has heard the order or not.
ROBOT_REINIT ==
  /\ Order("ROBOT_REINIT")
  /\ m_handle' = "closed"
  /\ zero_due' = (zero_due \/ (Reachable /\ device = "ready"))
  /\ isIniting' = TRUE /\ blind' = FALSE /\ head_pc' = "reinit"
  /\ Taken
  /\ UNCHANGED <<m_motor_state, careless, device, head_at, head_to, turning, failures>>

(***************************************************************************)
(* The device                                                              *)
(***************************************************************************)
device_zeroes ==
  /\ zero_due /\ device = "ready"
  /\ zero_due' = FALSE /\ device' = "zeroing" /\ turning' = {}
  /\ blind' = ~isIniting
  /\ UNCHANGED <<head_queue, threadState, careless, head_at, head_to, m_handle, orders, failures,
                 unplugs>>

device_zeroed ==
  /\ device = "zeroing"
  /\ device' = "ready" /\ head_at' = 0 /\ head_to' = 0 /\ careless' = FALSE
  /\ UNCHANGED <<head_queue, threadState, zero_due, turning, m_handle, blind, orders, failures, unplugs>>

motor_arrives(m) ==
  /\ m \in turning /\ turning' = turning \ {m}
  /\ head_at' = IF m = HEADLEVELMOTOR THEN head_to ELSE head_at
  /\ UNCHANGED <<head_queue, threadState, careless, device, zero_due, head_to, m_handle, blind,
                 orders, failures, unplugs>>

unplugged ==
  /\ device # "absent" /\ unplugs < MaxUnplugs
  /\ unplugs' = unplugs + 1
  /\ device' = "absent" /\ zero_due' = FALSE /\ turning' = {} /\ head_to' = head_at
  /\ m_handle' = IF m_handle = "open" THEN "stale" ELSE m_handle
  /\ UNCHANGED <<head_queue, threadState, careless, head_at, blind, orders, failures>>

plugged_in ==
  /\ device = "absent"
  /\ device' = "zeroing"
  /\ blind' = (~isIniting /\ m_handle = "closed")
  /\ UNCHANGED <<head_queue, threadState, careless, zero_due, head_at, head_to, turning, m_handle,
                 orders, failures, unplugs>>

head_run ==
  \/ update_initstate \/ synstatus
  \/ HEAD_ROTATE \/ ARM_ROTATE \/ GETANGLE \/ STOP \/ ROBOT_REINIT
  \/ \E cmd \in {"ROBOT_DO_ACTION", "ROBOT_STOP_ACTION", "CHANGE_SPEED"} : other_orders(cmd)

HeadNext ==
  \/ \E o \in HeadOrder : message_handler(o)
  \/ head_run
  \/ device_zeroes \/ device_zeroed \/ unplugged \/ plugged_in
  \/ \E m \in MotorKnown : motor_arrives(m)

\* The head stays within its limits, unless since it was last at zero it was turned while it
\* moved or when its angle was not the one the thread had (it has moved since, or the angle
\* could not be read), by an order whose angle had a sign, or as motor 0 of an order for an
\* arm.
HeadLimits == ~careless => {head_to, head_at} \subseteq -60..60

\* The thread knows when the motors find their zero, unless the device went away and came
\* back between two calls, the first of which was an order, or it was zero_due to find its zero
\* and had not begun when the thread looked.
ZeroingNoticed ==
  /\ device = "zeroing" /\ ~isIniting => blind \/ m_handle = "stale"
  /\ ~isIniting => MotorKnown \subseteq DOMAIN m_motor_state

\* The thread has an entry of the right type for each motor, keeps the head within its
\* limits and notices that the motors find their zero.
HeadInv == HeadTypeOK /\ HeadLimits /\ ZeroingNoticed

HeadFairness ==
  /\ WF_headVars(head_run)
  /\ WF_headVars(device_zeroes) /\ WF_headVars(device_zeroed) /\ WF_headVars(plugged_in)
  /\ \A m \in MotorKnown : WF_headVars(motor_arrives(m))

HeadSpec == HeadInit /\ [][HeadNext]_headVars /\ HeadFairness

\* Again and again the thread knows that the motors have found their zero and has reported the
\* end of every turn.  An order that named a motor there is not leaves it in the map for good:
\* from then on synstatus fails each time, and orders are refused.
Stray == ~(DOMAIN m_motor_state \subseteq MotorKnown)
HeadEnds ==
  []<>(/\ (~isIniting /\ head_pc = "get") \/ Stray
       /\ \A m \in MotorKnown \cap HeadId \cap DOMAIN m_motor_state : ~m_motor_state[m].doaction)
===============================================================================
