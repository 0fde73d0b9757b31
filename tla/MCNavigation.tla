----------------------------- MODULE MCNavigation -----------------------------
(***************************************************************************)
(* What moves the robot: the parts of the navigation module, and the head  *)
(* and the arms.  They share no state in the models: each behaviour of     *)
(* this specification is one of the controller, of the motions, of the     *)
(* pool of connections, of the head, or of docking; part says of which.    *)
(***************************************************************************)
EXTENDS RobotController, FootMotion, HttpPool, HeadMotion, Docking

VARIABLE part

MCInit ==
  /\ CtlInit /\ MotInit /\ PoolInit /\ HeadInit /\ DockInit
  /\ part \in {"controller"} \cup IF located = "none" THEN {"motion", "pool", "head", "docking"} ELSE {}

\* The variables of a part that moves change, those of the others do not.
Only(p, next, vars) == IF part = p THEN next ELSE UNCHANGED vars

MCNext ==
  /\ UNCHANGED part
  /\ Only("controller", CtlNext, ctlVars)
  /\ Only("motion", MotNext, motVars)
  /\ Only("pool", PoolNext, poolVars)
  /\ Only("head", HeadNext, headVars)
  /\ Only("docking", DockNext, dockVars)

\* CtlFairness, MotFairness, HeadFairness and DockFairness, each where its part moves.
MCFairness ==
  /\ WF_ctlVars(part = "controller" /\ initialize_robot)
  /\ WF_ctlVars(part = "controller" /\ controller)
  /\ SF_ctlVars(part = "controller" /\ wait_poll(TRUE))
  /\ WF_ctlVars(part = "controller" /\ checkmove)
  /\ WF_motVars(part = "motion" /\ handler) /\ WF_motVars(part = "motion" /\ dancing)
  /\ WF_motVars(part = "motion" /\ chassis_arrives)
  /\ WF_motVars(part = "motion" /\ ifnavigation_infomation)
  /\ \A m \in Motion : /\ WF_motVars(part = "motion" /\ waiting_thread(m))
                       /\ WF_motVars(part = "motion" /\ chassis_stops(m))
  /\ WF_headVars(part = "head" /\ head_run)
  /\ WF_headVars(part = "head" /\ device_zeroes) /\ WF_headVars(part = "head" /\ device_zeroed)
  /\ WF_headVars(part = "head" /\ plugged_in)
  /\ \A m \in MotorKnown : WF_headVars(part = "head" /\ motor_arrives(m))
  /\ WF_dockVars(part = "docking" /\ mtc_run)

MCSpec ==
  MCInit /\ [][MCNext]_<<part, ctlVars, motVars, poolVars, headVars, dockVars>> /\ MCFairness

\* What the thread of the controller does for its clients, and what the thread that docks does:
\* both are told to stop while they wait for the chassis.
ControlInv == ControllerInv /\ DockingInv

\* A motion, a task of the controller and a docking come to an end that is told, and the motors
\* are found at zero and their turns reported (MotionEnds, ControllerEnds, DockingEnds,
\* HeadEnds).
MovesEnd ==
  /\ MotionEnds /\ ControllerEnds
  /\ part = "head" => HeadEnds
  /\ part = "docking" => DockingEnds
===============================================================================
