------------------------------- MODULE IdReader -------------------------------
(***************************************************************************)
(* The two readers of identity cards (IDcardmodule and IDcardYSmodule): a  *)
(* thread that opens the device for a client, polls it until a card is read*)
(* or the time is up, and closes it.  Both have the same loop; the second  *)
(* one ("ys") keeps a state of the device that clients may ask for, and    *)
(* probes the device when nobody uses it.  A run has one of the two.       *)
(***************************************************************************)
EXTENDS Naturals

CONSTANTS
  IdUser,     \* clients
  MaxIdMsg    \* bound: requests

ASSUME IdAssumption == MaxIdMsg \in Nat /\ "none" \notin IdUser

VARIABLES
  reader,      \* "id" or "ys"
  id_task,     \* the client the reader works for, or "none" (has_task # 0)
  index_open,  \* the device is open (openstatus, index_open)
  DevState,    \* "failed", "idle", "opened", "reading": -1, 0, 1, 2; "idle" in "id"
  id_begun,    \* client -> waits of its that set the reader to work
  id_ended,    \* client -> results posted to it or waits cancelled
  stuck_open,  \* CloseComm failed and the device is still open
  id_runs,     \* the thread has not left its loop
  id_count     \* requests so far

idVars == <<reader, id_task, index_open, DevState, id_begun, id_ended, stuck_open, id_runs,
            id_count>>

Users == IdUser \cup {"none"}

IdTypeOK ==
  /\ reader \in {"id", "ys"} /\ id_task \in Users
  /\ index_open \in BOOLEAN /\ stuck_open \in BOOLEAN /\ id_runs \in BOOLEAN
  /\ DevState \in {"failed", "idle", "opened", "reading"}
  /\ id_begun \in [IdUser -> Nat] /\ id_ended \in [IdUser -> Nat]

IdInit ==
  /\ reader \in {"id", "ys"} /\ id_task = "none"
  /\ index_open = FALSE /\ stuck_open = FALSE /\ DevState = "idle"
  /\ id_begun = [c \in IdUser |-> 0] /\ id_ended = id_begun
  /\ id_runs = TRUE /\ id_count = 0

SetDevState(s) == DevState' = IF reader = "ys" THEN s ELSE DevState

\* Open_dev, on one port or the other, and Send_OpenDev: an open device is not
\* opened again.
Opens == IF index_open THEN {TRUE} ELSE BOOLEAN

\* Close_dev, which may fail, and Send_CloseDev.
Close ==
  \/ index_open' = FALSE /\ stuck_open' = FALSE
  \/ /\ reader = "id" /\ index_open
     /\ index_open' = TRUE /\ stuck_open' = TRUE

\* The poll in the turn of the loop that has a task of c: it goes on, or a result is
\* posted, with the data of a card or for the time that is up.
poll(c) ==
  \/ /\ id_task' = c /\ index_open' = TRUE /\ stuck_open' = FALSE
     /\ SetDevState("reading")
     /\ UNCHANGED id_ended
  \/ /\ id_task' = "none" /\ id_ended' = [id_ended EXCEPT ![c] = @ + 1]
     /\ SetDevState("idle")
     /\ \/ index_open' = FALSE /\ stuck_open' = FALSE
        \/ reader = "id" /\ index_open' = TRUE /\ stuck_open' = TRUE

\* Case 0.  Who comes while another one waits is told that it waits as well.
id_wait(c) ==
  IF id_task # "none" THEN poll(id_task) /\ UNCHANGED id_begun
  ELSE \E ok \in Opens :
         IF ok THEN poll(c) /\ id_begun' = [id_begun EXCEPT ![c] = @ + 1]
         ELSE /\ SetDevState("failed")
              /\ UNCHANGED <<id_task, index_open, stuck_open, id_begun, id_ended>>

\* Case 1, no matter who asks.
id_cancel ==
  /\ id_task' = "none"
  /\ id_ended' = [c \in IdUser |-> IF c = id_task THEN id_ended[c] + 1 ELSE id_ended[c]]
  /\ Close /\ SetDevState("idle")
  /\ UNCHANGED id_begun

Probed ==
  \E ok \in Opens : DevState' = (IF ok THEN "idle" ELSE "failed") /\ index_open' = FALSE

\* Case 2 of "ys": a device that nobody uses is opened and closed again.
devstate_query ==
  /\ reader = "ys"
  /\ IF DevState \in {"failed", "idle"}
     THEN Probed /\ UNCHANGED <<id_task, id_ended, stuck_open>>
     ELSE poll(id_task)
  /\ UNCHANGED id_begun

IdMessage ==
  /\ id_runs /\ id_count < MaxIdMsg /\ id_count' = id_count + 1
  /\ (\E c \in IdUser : id_wait(c)) \/ id_cancel \/ devstate_query
  /\ UNCHANGED <<reader, id_runs>>

IdPoll ==
  /\ id_runs /\ id_task # "none" /\ poll(id_task)
  /\ UNCHANGED <<reader, id_begun, id_runs, id_count>>

\* _EXIT_THREAD_ leaves the device as it is, and the destructor closes it.
id_exit ==
  /\ id_runs /\ id_runs' = FALSE
  /\ UNCHANGED <<reader, id_task, index_open, DevState, id_begun, id_ended, stuck_open, id_count>>

id_destroyed ==
  /\ ~id_runs /\ Close
  /\ UNCHANGED <<reader, id_task, DevState, id_begun, id_ended, id_runs, id_count>>

IdNext == IdMessage \/ IdPoll \/ id_exit \/ id_destroyed

IdSpec == IdInit /\ [][IdNext]_idVars

\* The device is open exactly while the reader works for a client, but for a port of
\* "id" that could not be closed; and what a client of "ys" is told of the device is
\* true: "reading" while there is a task, "idle" or "failed" otherwise.
DeviceFollowsTask ==
  id_runs =>
  /\ IF stuck_open THEN reader = "id" /\ index_open ELSE index_open <=> id_task # "none"
  /\ reader = "ys" => (DevState = "reading" <=> id_task # "none") /\ DevState # "opened"

\* A wait that set the reader to work ends once: by a result or by a cancellation.
IdEndsOnce ==
  \A c \in IdUser : id_begun[c] = id_ended[c] + (IF id_task = c THEN 1 ELSE 0)

IdReaderInv == IdTypeOK /\ DeviceFollowsTask /\ IdEndsOnce
===============================================================================
