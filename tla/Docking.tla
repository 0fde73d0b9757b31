------------------------------- MODULE Docking -------------------------------
(***************************************************************************)
(* Docking along a magnetic strip: the thread MagneticTrack_ctrol_thread,  *)
(* the navigation it asks in every round (NavigationImp), and the thread   *)
(* that reads the sensor from a serial line (robot_controller_mems).       *)
(*                                                                         *)
(* A reading of the sensor is whether its front and its back see the       *)
(* strip, chosen when it is used.  How far the robot is from the dock is   *)
(* one of the distances Spot, in centimetres, anew at each question; how   *)
(* far it came from where it began to search is one of four classes.  Time *)
(* passes in rounds: the line is opened again after ReopenAt rounds        *)
(* without data, in the code when the wait between them is beyond 500 ms,  *)
(* and the task gives up after GiveUpAt, 5 seconds, or before when a round *)
(* took long.                                                              *)
(***************************************************************************)
EXTENDS Naturals

CONSTANTS
  Spot,      \* distances from the dock
  ReopenAt, GiveUpAt, \* rounds without data
  MaxDocks,  \* bound: tasks
  MaxDrops   \* bound: times the line breaks or cannot be opened

ASSUME DockingAssumption ==
  /\ Spot \subseteq Nat
  /\ {ReopenAt, GiveUpAt, MaxDocks, MaxDrops} \subseteq Nat /\ 0 < ReopenAt /\ ReopenAt < GiveUpAt

VARIABLES
  mtc_pc,      \* the thread: "off"; "open"; "test", before it looks whether the line is open;
               \* "loop"; "end", before its last notice; "close", after it
  mtc_exit,    \* it was told to end
  mtc_out,     \* what its last notice will say
  navi,        \* the state of NavigationImp
  nowinfo,     \* there is a reading that is younger than 100 ms
  stale,       \* rounds since the last reading
  cmems,       \* the serial thread: "off", "opening", "reading", "closing", or "leaving", when
               \* it has set isFinish for the last time
  isFinish,    \* readings are ignored
  crossed,     \* a serial thread set isFinish since the docking thread last cleared it, and
               \* before that looked whether the line is open; not a variable of the program
  chassis_turns, \* the task that ordered the rotation that goes on, or 0
  strip_seen,  \* the strip was seen since the robot last began to search
  docks, docks_told,  \* tasks begun, and ended with a notice
  drops

mtcVars == <<mtc_pc, mtc_exit, mtc_out, stale, docks, docks_told>>
lineVars == <<nowinfo, cmems, isFinish, drops, crossed>>
robotVars == <<navi, chassis_turns, strip_seen>>
dockVars == <<mtcVars, lineVars, robotVars>>

Reading == [f : BOOLEAN, b : BOOLEAN]

Navigation == [step : {0, 1, 3, 8}, findmemsstep : 0..5, rotate_step : 0..2, OriSpeed : {0, 1},
               maybe_end_try_count : 0..3, max_try_find_count : 0..3]
NewNavigation == [step |-> 0, findmemsstep |-> 0, rotate_step |-> 0, OriSpeed |-> 1,
                  maybe_end_try_count |-> 3, max_try_find_count |-> 3]

DockingTypeOK ==
  /\ mtc_pc \in {"off", "open", "test", "loop", "end", "close"} /\ mtc_exit \in BOOLEAN
  /\ mtc_out \in {"failed", "success", "need init"}
  /\ navi \in Navigation /\ nowinfo \in BOOLEAN /\ stale \in 0..GiveUpAt
  /\ cmems \in {"off", "opening", "reading", "closing", "leaving"}
  /\ isFinish \in BOOLEAN /\ crossed \in BOOLEAN
  /\ chassis_turns \in 0..docks /\ strip_seen \in BOOLEAN
  /\ docks \in 0..MaxDocks /\ docks_told \in 0..docks /\ drops \in 0..MaxDrops

DockInit ==
  /\ mtc_pc = "off" /\ mtc_exit = FALSE /\ mtc_out = "failed" /\ stale = 0
  /\ nowinfo = FALSE /\ cmems = "off" /\ isFinish = FALSE /\ crossed = FALSE /\ drops = 0
  /\ navi = NewNavigation /\ chassis_turns = 0 /\ strip_seen = FALSE
  /\ docks = 0 /\ docks_told = 0

-----------------------------------------------------------------------------
(* NavigationImp::Handle.  An outcome is the state after it and its result: *)
(* 100 go on, 0 the robot has arrived, 101 and 102 it gives up.             *)

Outcome(n, r) == [navi |-> n, result |-> r]
Turn(n) == [n EXCEPT !.rotate_step = 1]

\* What getSpeed returns: 2, nothing is seen; 1, the end that leads sees nothing and the other
\* does; 0, go on.  The robot backs to the dock, its front leads when OriSpeed is 0.
getSpeed(n, d) ==
  CASE ~d.f /\ ~d.b -> 2
    [] d.f # d.b /\ (n.OriSpeed = 1) = d.b -> 1
    [] OTHER -> 0

NormalMove(n, d, ids) ==
  LET ret == getSpeed(n, d)
      ori == 1 - n.OriSpeed
      back == [n EXCEPT !.OriSpeed = ori, !.step = 1,
                        !.maybe_end_try_count = IF ori = 0 /\ ~d.f THEN @ - 1 ELSE @]
  IN CASE ret = 1 /\ ids <= 85 /\ n.step # 8 -> Outcome(back, 100)
       [] ret = 2 /\ ids > 60 -> Outcome([n EXCEPT !.step = 0], 100)
       [] ret = 2 /\ ids <= 60 -> Outcome(n, 101)
       [] OTHER -> Outcome(n, 100)

\* Leave the strip forwards, and fail when its end is reached.  A distance that cannot be asked
\* for ends the task here as below.
LeaveStrip(n, d) ==
  LET away == [n EXCEPT !.step = 8, !.OriSpeed = 0]
  IN {Outcome(n, 101)}
     \cup {IF d.b THEN NormalMove(away, d, ids) ELSE Outcome(away, 102) : ids \in Spot}

\* Close to the dock.
Approach(n, d) ==
  LET at(ids) == ~d.f /\ ((n.OriSpeed = 1 /\ ids < 15) \/ n.maybe_end_try_count = 0)
      near == [n EXCEPT !.step = 3]
  IN {Outcome(n, 101)}
     \cup {Outcome(near, 0) : ids \in {i \in Spot : at(i) /\ i <= 40}}
     \cup {NormalMove(near, d, ids) : ids \in {i \in Spot : ~at(i)}}
     \cup IF \E i \in Spot : at(i) /\ i > 40 THEN LeaveStrip(near, d) ELSE {}

\* Which end may lead: ok, the robot stands straight on the strip.
ChangeOri(n, ids, ok) ==
  CASE ids <= 30 -> n
    [] ids > 30 /\ ids < 53 /\ ~ok -> [n EXCEPT !.OriSpeed = 0]
    [] ids > 90 \/ (ids > 65 /\ ok) -> [n EXCEPT !.OriSpeed = 1]
    [] OTHER -> n

FollowStrip(n, d) ==
  LET then(ids, m) ==
        CASE ids < 30 /\ m.OriSpeed = 1 -> Approach(m, d)
          [] ~(ids < 30 /\ m.OriSpeed = 1) /\ m.maybe_end_try_count = 0 -> LeaveStrip(m, d)
          [] OTHER -> {NormalMove(m, d, ids)}
  IN IF ~d.f /\ ~d.b
     THEN {Outcome([n EXCEPT !.step = 0], 100)}
     ELSE {Outcome(n, 101)}
          \cup UNION {then(ids, ChangeOri(n, ids, ok)) : ids \in Spot, ok \in BOOLEAN}

\* How far the robot came in its search: not as far as it shall less 5 cm, not as far, as far,
\* and 10 cm too far (or its position cannot be asked for).
Way == {"short", "almost", "full", "too far"}

Find(n, way) ==
  LET f == n.findmemsstep IN
  CASE way = "too far" -> Outcome(n, 101)
    [] way # "too far" /\ f = 2 /\ way = "full" -> Outcome(Turn([n EXCEPT !.findmemsstep = 3]), 100)
    [] f = 3 /\ way = "short" -> Outcome([n EXCEPT !.findmemsstep = 4], 100)
    [] f = 4 /\ way = "full" -> Outcome(Turn([n EXCEPT !.findmemsstep = 5]), 100)
    [] way # "too far" /\ f = 5 -> Outcome([n EXCEPT !.findmemsstep = 0], 102)
    [] OTHER -> Outcome(n, 100)

SelfFindMode(n, d) ==
  LET tried == IF n.max_try_find_count = 0 THEN [n EXCEPT !.findmemsstep = 5] ELSE n
      search == [tried EXCEPT !.findmemsstep = 1, !.max_try_find_count = @ - 1]
  IN CASE (d.f \/ d.b) /\ n.findmemsstep # 0 ->
            {Outcome(n, 101), Outcome(Turn([n EXCEPT !.findmemsstep = 0]), 100)}
       [] (d.f \/ d.b) /\ n.findmemsstep = 0 ->
            {Outcome([n EXCEPT !.maybe_end_try_count = 3, !.step = 1], 100)}
       [] ~d.f /\ ~d.b /\ tried.findmemsstep = 0 -> {Outcome(n, 101), Outcome(Turn(search), 100)}
       [] ~d.f /\ ~d.b /\ tried.findmemsstep = 1 ->
            {Outcome(Turn([tried EXCEPT !.findmemsstep = 2]), 100)}
       [] OTHER -> {Find(tried, way) : way \in Way}

\* The rotation that was asked for is over, as far as one can see.
rotated == navi.rotate_step = 0 \/ (navi.rotate_step = 2 /\ chassis_turns # docks)

Handle(d) ==
  LET n == [navi EXCEPT !.rotate_step = 0]
  IN CASE n.step = 0 -> SelfFindMode(n, d)
       [] n.step = 1 -> FollowStrip(n, d)
       [] n.step = 3 -> Approach(n, d)
       [] n.step = 8 -> LeaveStrip(n, d)

-----------------------------------------------------------------------------
(* The module thread *)

NAVIGATE_START_MASE ==
  /\ mtc_pc = "off" /\ docks < MaxDocks
  /\ docks' = docks + 1
  /\ mtc_pc' = "open" /\ mtc_exit' = FALSE /\ stale' = 0 /\ nowinfo' = FALSE
  /\ UNCHANGED <<mtc_out, docks_told, cmems, isFinish, drops, crossed, robotVars>>

\* The module thread then waits for the end, 5 seconds at most, and says whether it saw it.
NAVIGATE_STOP_MASE ==
  /\ mtc_pc # "off"
  /\ mtc_exit' = TRUE
  /\ UNCHANGED <<mtc_pc, mtc_out, stale, docks, docks_told, lineVars, robotVars>>

-----------------------------------------------------------------------------
(* The thread of the task *)

no_library ==
  /\ mtc_pc = "open" /\ mtc_pc' = "off"
  /\ docks_told' = docks_told + 1
  /\ UNCHANGED <<mtc_exit, mtc_out, stale, docks, lineVars, robotVars>>

\* From now on readings count, unless a serial thread ends before the next step.
clear_finish == isFinish' = FALSE /\ crossed' = FALSE

open_com_begin ==
  /\ mtc_pc = "open" /\ mtc_pc' = "test"
  /\ clear_finish
  /\ UNCHANGED <<mtc_exit, mtc_out, stale, docks, docks_told, nowinfo, cmems, drops, robotVars>>

\* A line that the thread of an earlier task reads, or is about to leave, is taken as it is; a
\* line that nobody reads is opened, or cannot be.
open_com ==
  /\ mtc_pc = "test"
  /\ \/ /\ mtc_pc' = "loop"
        /\ cmems' = IF cmems = "off" THEN "reading" ELSE cmems
        /\ UNCHANGED <<docks_told, drops>>
     \/ /\ cmems = "off" /\ drops < MaxDrops /\ drops' = drops + 1
        /\ mtc_pc' = "off" /\ docks_told' = docks_told + 1
        /\ UNCHANGED cmems
  /\ UNCHANGED <<mtc_exit, mtc_out, stale, docks, nowinfo, isFinish, crossed, robotVars>>

take_exit ==
  /\ mtc_pc = "loop" /\ mtc_exit
  /\ mtc_exit' = FALSE /\ mtc_pc' = "end"
  /\ UNCHANGED <<mtc_out, stale, docks, docks_told, lineVars, robotVars>>

\* A round in which there is a reading not older than 100 ms.
round == mtc_pc = "loop" /\ ~mtc_exit /\ nowinfo /\ stale' = 0

\* A rotation is ordered until that succeeds; one that failed may have been obeyed.
rotate_begin ==
  /\ round
  /\ navi.rotate_step = 1
  /\ \/ navi' = [navi EXCEPT !.rotate_step = 2] /\ chassis_turns' = docks
     \/ navi' = navi /\ chassis_turns' \in {chassis_turns, docks}
  /\ UNCHANGED <<mtc_pc, mtc_exit, mtc_out, docks, docks_told, lineVars, strip_seen>>

\* The rotation is not over, or the chassis does not say.
rotate_wait ==
  /\ round
  /\ navi.rotate_step = 2
  /\ \/ mtc_pc' = "loop" /\ chassis_turns = docks
     \/ mtc_pc' = "end"
  /\ UNCHANGED <<mtc_exit, mtc_out, docks, docks_told, lineVars, robotVars>>

navigate ==
  \E d \in Reading :
    /\ round /\ rotated
    /\ \E o \in Handle(d) :
         /\ navi' = o.navi
         /\ mtc_pc' = IF o.result = 100 THEN "loop" ELSE "end"
         /\ mtc_out' = CASE o.result = 0 -> "success" [] o.result = 102 -> "need init"
                         [] OTHER -> mtc_out
         /\ strip_seen' = (d.f \/ d.b \/ (strip_seen /\ o.navi.findmemsstep # 1))
    /\ UNCHANGED <<mtc_exit, docks, docks_told, lineVars, chassis_turns>>

\* No thread is left that could set isFinish meanwhile: this is one step.
autoopen_com == cmems = "off" /\ cmems' = "opening" /\ clear_finish

no_data ==
  /\ mtc_pc = "loop" /\ ~mtc_exit /\ ~nowinfo
  /\ stale' = stale + 1
  /\ IF stale' >= ReopenAt /\ cmems = "off"
     THEN autoopen_com
     ELSE UNCHANGED <<cmems, isFinish, crossed>>
  /\ \/ mtc_pc' = "end" /\ mtc_out' = "failed"
     \/ stale' < GiveUpAt /\ UNCHANGED <<mtc_pc, mtc_out>>
  /\ UNCHANGED <<mtc_exit, docks, docks_told, nowinfo, drops, robotVars>>

\* The notice, and the end of the navigation.
post_out ==
  /\ mtc_pc = "end" /\ mtc_pc' = "close"
  /\ docks_told' = docks_told + 1
  /\ mtc_out' = "failed" /\ navi' = NewNavigation /\ strip_seen' = FALSE /\ stale' = 0
  /\ UNCHANGED <<mtc_exit, docks, lineVars, chassis_turns>>

\* The line is no more listened to; it stays open, and its thread runs.
close_com ==
  /\ mtc_pc = "close" /\ mtc_pc' = "off"
  /\ isFinish' = TRUE
  /\ UNCHANGED <<mtc_exit, mtc_out, stale, docks, docks_told, nowinfo, cmems, drops, crossed,
                 robotVars>>

mtc_run ==
  \/ no_library \/ open_com_begin \/ open_com \/ take_exit
  \/ rotate_begin \/ rotate_wait \/ navigate \/ no_data
  \/ post_out \/ close_com

-----------------------------------------------------------------------------
(* The serial thread, the sensor and the chassis *)

\* The last thing the thread does before it returns.
set_finish == isFinish' = TRUE /\ crossed' = (crossed \/ mtc_pc = "test") /\ cmems' = "leaving"

serial_opened ==
  /\ cmems = "opening"
  /\ \/ cmems' = "reading" /\ UNCHANGED <<isFinish, crossed, drops>>
     \/ drops < MaxDrops /\ drops' = drops + 1 /\ set_finish
  /\ UNCHANGED <<mtcVars, nowinfo, robotVars>>

\* What is read while no task looks at it is cleared when the next begins.
mems_in ==
  /\ mtc_pc \in {"test", "loop"} /\ cmems = "reading" /\ ~isFinish /\ nowinfo' = TRUE
  /\ UNCHANGED <<mtcVars, cmems, isFinish, drops, crossed, robotVars>>

serial_broken ==
  /\ cmems = "reading" /\ cmems' = "closing"
  /\ drops < MaxDrops /\ drops' = drops + 1
  /\ UNCHANGED <<mtcVars, nowinfo, isFinish, crossed, robotVars>>

\* The port is closed.
serial_exit ==
  /\ cmems = "closing" /\ set_finish
  /\ UNCHANGED <<mtcVars, nowinfo, drops, robotVars>>

serial_ended ==
  /\ cmems = "leaving" /\ cmems' = "off"
  /\ UNCHANGED <<mtcVars, nowinfo, isFinish, drops, crossed, robotVars>>

reading_ages ==
  /\ nowinfo /\ nowinfo' = FALSE
  /\ UNCHANGED <<mtcVars, cmems, isFinish, drops, crossed, robotVars>>

chassis_turned ==
  /\ chassis_turns # 0 /\ chassis_turns' = 0
  /\ UNCHANGED <<mtcVars, lineVars, navi, strip_seen>>

DockNext ==
  \/ NAVIGATE_START_MASE \/ NAVIGATE_STOP_MASE
  \/ mtc_run
  \/ serial_opened \/ mems_in \/ serial_broken \/ serial_exit \/ serial_ended
  \/ reading_ages \/ chassis_turned

DockFairness == WF_dockVars(mtc_run)

DockSpec == DockInit /\ [][DockNext]_dockVars /\ DockFairness

-----------------------------------------------------------------------------
\* Whatever ends a task, its client is told once, before it may begin another.
DockingToldOnce == docks = docks_told + (IF mtc_pc \in {"open", "test", "loop", "end"} THEN 1 ELSE 0)

\* Success is told of a robot that saw the strip after its last search began, and of which no
\* rotation of this task goes on.
ArrivedOnStrip ==
  mtc_out = "success" => strip_seen /\ chassis_turns # docks

\* A robot leaves its place for a search at most twice: the third search ends where it begins.
SearchesBounded == navi.max_try_find_count = 0 => navi.findmemsstep \in {0, 1, 5}

\* While a task runs, the thread that reads the line is deaf only if the thread of an earlier
\* task ended between the two halves of open_com, and then it really is; the first task never
\* meets that.  Nothing else makes a line deaf, however the ends of both threads, a line that
\* breaks and one that is opened again cross.
LineIsHeard ==
  /\ mtc_pc = "loop" /\ cmems \in {"opening", "reading"} => (isFinish <=> crossed)
  /\ crossed => docks > 1

DockingInv == DockingTypeOK /\ DockingToldOnce /\ ArrivedOnStrip /\ SearchesBounded /\ LineIsHeard

\* A task goes on for ever only while readings come and nobody stops it: one that is told to end
\* ends, whatever the chassis answers, and so does one whose sensor is silent from some time on,
\* also when its line is opened again and again.
DockingEnds == []<>(mtc_pc = "off" \/ (mtc_pc = "loop" /\ nowinfo /\ ~mtc_exit))
===============================================================================
