--------------------------------- MODULE Cloud ---------------------------------
(***************************************************************************)
(* The client of the cloud platform.  Three threads: R (the client's run)  *)
(* keeps the connection to the message broker and calls back for remote    *)
(* requests, Q (cloud_mq_thread) takes messages from the broker and hands  *)
(* them over in MessageIn, H (the module's) hears the modules.  A message  *)
(* is a task, a task to be done offline, or a remote request, which is     *)
(* passed to the modules and whose result is posted to a url.              *)
(*                                                                         *)
(* The sections under m_guard_data are single steps; nobody waits for a    *)
(* thread inside one.  Remote requests have one type, and are counted.     *)
(***************************************************************************)
EXTENDS Naturals, Sequences, SequencesExt

CONSTANTS
  MaxPublished,  \* bound: messages published for the robot
  MaxFaults      \* bound: connections that break, and crashes of the process

ASSUME CloudAssumption == MaxPublished \in Nat /\ MaxFaults \in Nat

VARIABLES
  kinds,         \* messages that reached the queue: their kinds
  mq_queue,      \* broker: messages not delivered
  unacked,       \* broker: the message delivered and not acknowledged (QOS 1), in a sequence
  alive,         \* the connection works
  m_conn,        \* R has a connection
  r_at,          \* R: "check", "getq", "exits" (waits for Q in MQ_Exit), "clean", "ended"
  r_last,        \* that wait is the last one
  twos,          \* messages 2 in R's queue
  q_at,          \* Q: "none", "consume", "ack", "acked", "quits", "ended"
  q_exit,        \* _EXIT_THREAD_ is in Q's queue
  q_msg,         \* the message Q works on, or 0
  handed,        \* message -> how often it was handed over
  resent,        \* messages whose acknowledgement was lost
  crash_lost,    \* messages acknowledged and not handed over at a crash
  isOffline,
  m_offline_task,  \* offline tasks: [id, finish]
  passed,          \* offline tasks passed to the modules
  m_map_remote,        \* remote requests the modules have not answered
  m_error_retry_list,  \* results that could not be posted
  requests, settled,   \* remote requests so far, and those posted, refused or given up
  faults

broker == <<kinds, mq_queue, unacked, alive>>
rState == <<m_conn, r_at, r_last, twos>>
qState == <<q_at, q_exit, q_msg>>
fates == <<handed, resent, crash_lost>>
offline == <<isOffline, m_offline_task, passed>>
remote == <<m_map_remote, m_error_retry_list, requests, settled>>
cloudVars == <<kinds, mq_queue, unacked, alive, m_conn, r_at, r_last, twos, q_at, q_exit, q_msg,
               handed, resent, crash_lost, isOffline, m_offline_task, passed, m_map_remote,
               m_error_retry_list, requests, settled, faults>>

MsgId == 1..MaxPublished

CloudTypeOK ==
  /\ kinds \in Seq({"task", "offline", "request"}) /\ Len(kinds) <= MaxPublished
  /\ mq_queue \in Seq(MsgId) /\ unacked \in Seq(MsgId) /\ q_msg \in 0..MaxPublished
  /\ alive \in BOOLEAN /\ m_conn \in BOOLEAN /\ r_last \in BOOLEAN /\ q_exit \in BOOLEAN
  /\ isOffline \in BOOLEAN
  /\ r_at \in {"check", "getq", "exits", "clean", "ended"}
  /\ q_at \in {"none", "consume", "ack", "acked", "quits", "ended"}
  /\ handed \in [MsgId -> Nat]
  /\ resent \subseteq MsgId /\ crash_lost \subseteq MsgId /\ passed \subseteq MsgId
  /\ m_offline_task \in Seq([id : MsgId, finish : BOOLEAN])
  /\ twos \in Nat /\ m_map_remote \in Nat /\ m_error_retry_list \in Nat
  /\ requests \in Nat /\ settled \in Nat

CloudInit ==
  /\ m_conn = FALSE /\ r_at = "check" /\ r_last = FALSE /\ twos = 0
  /\ q_at = "none" /\ q_exit = FALSE /\ q_msg = 0
  /\ isOffline = FALSE /\ m_offline_task = <<>> /\ passed = {}
  /\ m_map_remote = 0 /\ m_error_retry_list = 0 /\ requests = 0 /\ settled = 0
  /\ kinds = <<>> /\ mq_queue = <<>> /\ unacked = <<>> /\ alive = FALSE
  /\ handed = [i \in MsgId |-> 0] /\ resent = {} /\ crash_lost = {}
  /\ faults = 0

-------------------------------------------------------------------------------
(* The broker and the connection.                                          *)

publish(kind) ==
  /\ Len(kinds) < MaxPublished
  /\ kinds' = Append(kinds, kind)
  /\ mq_queue' = Append(mq_queue, Len(kinds) + 1)
  /\ UNCHANGED <<unacked, alive, rState, qState, fates, offline, remote, faults>>

\* What was delivered and not acknowledged is delivered again on another connection.
Requeued == mq_queue' = unacked \o mq_queue /\ unacked' = <<>> /\ alive' = FALSE

connection_breaks ==
  /\ alive /\ faults < MaxFaults
  /\ faults' = faults + 1
  /\ Requeued
  /\ UNCHANGED <<kinds, rState, qState, fates, offline, remote>>

\* The process ends, in whatever it does, and is started again.
crash ==
  /\ faults < MaxFaults
  /\ faults' = faults + 1
  /\ Requeued
  /\ crash_lost' = crash_lost \cup (IF q_at = "acked" THEN {q_msg} ELSE {})
  /\ m_conn' = FALSE /\ r_at' = "check" /\ r_last' = FALSE /\ twos' = 0
  /\ q_at' = "none" /\ q_exit' = FALSE /\ q_msg' = 0
  /\ isOffline' = FALSE /\ m_offline_task' = <<>> /\ passed' = {}
  /\ m_map_remote' = 0 /\ m_error_retry_list' = 0 /\ requests' = 0 /\ settled' = 0
  /\ UNCHANGED <<kinds, handed, resent>>

-------------------------------------------------------------------------------
(* R: cloudplatform_client::run.                                           *)

\* check_connect_cloud: the platform tells the name of the queue, a connection is made
\* and Q started.  What fails leaves no connection and no thread.
check_connect_cloud ==
  /\ r_at = "check"
  /\ r_at' = "getq"
  /\ \/ UNCHANGED <<m_conn, alive, qState>>
     \/ /\ ~m_conn
        /\ m_conn' = TRUE /\ alive' = TRUE
        /\ q_at' = "consume" /\ q_exit' = FALSE /\ q_msg' = 0
  /\ UNCHANGED <<kinds, mq_queue, unacked, r_last, twos, fates, offline, remote, faults>>

\* getq: nothing in three seconds, or message 2, for which the connection is given up.
R_getq ==
  /\ r_at = "getq"
  /\ \/ /\ twos = 0
        /\ r_at' = "clean"
        /\ UNCHANGED <<twos, q_exit>>
     \/ /\ twos > 0
        /\ twos' = twos - 1
        /\ r_at' = "exits" /\ q_exit' = TRUE
  /\ UNCHANGED <<broker, m_conn, r_last, q_at, q_msg, fates, offline, remote, faults>>

\* Stop: _EXIT_THREAD_.
R_exit ==
  /\ r_at = "getq"
  /\ r_at' = "exits" /\ r_last' = TRUE /\ q_exit' = TRUE
  /\ UNCHANGED <<broker, m_conn, twos, q_at, q_msg, fates, offline, remote, faults>>

\* Mutant: the connection is given up without waiting for Q.
MQ_Exit_at_once ==
  /\ r_at = "exits"
  /\ q_at' = "none" /\ m_conn' = FALSE
  /\ Requeued
  /\ r_at' = IF r_last THEN "ended" ELSE "clean"
  /\ UNCHANGED <<kinds, r_last, twos, q_exit, q_msg, fates, offline, remote, faults>>

\* MQ_Exit: Q has ended, and the connection is closed.
MQ_Exit ==
  /\ r_at = "exits" /\ q_at \in {"none", "ended"}
  /\ q_at' = "none" /\ m_conn' = FALSE
  /\ Requeued
  /\ r_at' = IF r_last THEN "ended" ELSE "clean"
  /\ UNCHANGED <<kinds, r_last, twos, q_exit, q_msg, fates, offline, remote, faults>>

\* clean_delay: who has not been answered for ten minutes is told of the timeout; what
\* could not be posted is posted again, for an hour.
clean_delay(late, left) ==
  /\ r_at = "clean"
  /\ late \in 0..m_map_remote
  /\ \E failed \in 0..late : left \in 0..(m_error_retry_list + failed)
  /\ r_at' = "check"
  /\ m_map_remote' = m_map_remote - late
  /\ m_error_retry_list' = left
  /\ settled' = settled + late + m_error_retry_list - left
  /\ UNCHANGED <<broker, m_conn, r_last, twos, qState, fates, offline, requests, faults>>

-------------------------------------------------------------------------------
(* Q: cloud_mq_thread::run.                                                *)

\* A message is delivered, one at a time.
Q_consume ==
  /\ q_at = "consume" /\ alive /\ unacked = <<>> /\ mq_queue # <<>>
  /\ unacked' = <<Head(mq_queue)>> /\ mq_queue' = Tail(mq_queue)
  /\ q_msg' = Head(mq_queue) /\ q_at' = "ack"
  /\ UNCHANGED <<kinds, alive, rState, q_exit, fates, offline, remote, faults>>

\* amqp_basic_ack: it arrives, or it is sent and the connection has broken, or it fails.
Q_ack ==
  /\ q_at = "ack"
  /\ \/ /\ alive /\ unacked' = <<>> /\ q_at' = "acked"
        /\ UNCHANGED resent
     \/ /\ ~alive /\ q_at' = "acked"
        /\ resent' = resent \cup {q_msg}
        /\ UNCHANGED unacked
     \/ /\ q_at' = "quits"
        /\ UNCHANGED <<unacked, resent>>
  /\ UNCHANGED <<kinds, mq_queue, alive, rState, q_exit, q_msg, handed, crash_lost, offline, remote,
                 faults>>

\* MessageIn.  An offline task is put in the list; the test whether the list is empty
\* comes after that, so that the first task is not passed on here either.
MessageIn ==
  /\ q_at = "acked"
  /\ q_at' = "consume" /\ q_msg' = 0
  /\ handed' = [handed EXCEPT ![q_msg] = @ + 1]
  /\ LET kind == kinds[q_msg]
     IN /\ isOffline' = (kind = "offline" \/ (kind = "request" /\ isOffline))
        /\ m_offline_task' = IF kind = "offline"
                             THEN Append(m_offline_task, [id |-> q_msg, finish |-> FALSE])
                             ELSE m_offline_task
        /\ m_map_remote' = m_map_remote + (IF kind = "request" THEN 1 ELSE 0)
        /\ requests' = requests + (IF kind = "request" THEN 1 ELSE 0)
  /\ UNCHANGED <<broker, rState, q_exit, resent, crash_lost, passed, m_error_retry_list, settled,
                 faults>>

\* The loop ends: _EXIT_THREAD_, an error, or half an hour without a message.
Q_leaves ==
  /\ q_at = "consume"
  /\ q_at' = "quits"
  /\ UNCHANGED <<broker, rState, q_exit, q_msg, fates, offline, remote, faults>>

\* ThreadQuit: R hears of it.
ThreadQuit ==
  /\ q_at = "quits"
  /\ q_at' = "ended" /\ q_msg' = 0
  /\ twos' = twos + 1
  /\ UNCHANGED <<broker, m_conn, r_at, r_last, q_exit, fates, offline, remote, faults>>

-------------------------------------------------------------------------------
(* H: HandleMessage.                                                       *)

Min1(S) == CHOOSE i \in S : \A j \in S : i <= j
Unfinished == {i \in DOMAIN m_offline_task : ~m_offline_task[i].finish}

\* tasklink_handler for a task that succeeded, offline: the first task that is not
\* finished is passed to the modules, and the first of all is marked.
tasklink_handler ==
  /\ r_at # "ended"
  /\ isOffline /\ Unfinished # {}
  /\ passed' = passed \cup {m_offline_task[Min1(Unfinished)].id}
  /\ m_offline_task' = [m_offline_task EXCEPT ![1] = [id |-> @.id, finish |-> TRUE]]
  /\ UNCHANGED <<broker, rState, qState, fates, isOffline, remote, faults>>

\* RPC_handler: a module has answered; the result of the oldest request is posted, or
\* kept to be posted again.
RPC_handler ==
  /\ r_at # "ended"
  /\ m_map_remote > 0
  /\ m_map_remote' = m_map_remote - 1
  /\ \/ settled' = settled + 1 /\ UNCHANGED m_error_retry_list
     \/ m_error_retry_list' = m_error_retry_list + 1 /\ UNCHANGED settled
  /\ UNCHANGED <<broker, rState, qState, fates, offline, requests, faults>>

R_next ==
  \/ check_connect_cloud \/ R_getq \/ MQ_Exit
  \/ \E late \in 0..m_map_remote, left \in 0..(m_map_remote + m_error_retry_list) :
       clean_delay(late, left)
Q_next == Q_consume \/ Q_ack \/ MessageIn \/ Q_leaves \/ ThreadQuit

CloudNext ==
  \/ \E kind \in {"task", "offline", "request"} : publish(kind)
  \/ connection_breaks \/ crash
  \/ R_next \/ R_exit \/ Q_next
  \/ tasklink_handler \/ RPC_handler

CloudSpec == CloudInit /\ [][CloudNext]_cloudVars

-------------------------------------------------------------------------------
(* Properties.                                                             *)

SetOf(s) == {s[i] : i \in DOMAIN s}

\* A message that has left the broker is handed over, or about to be, or was in Q's
\* hands at a crash; it is handed over twice only when its acknowledgement was lost.
TakenOnce ==
  \A i \in DOMAIN kinds :
    /\ i \notin SetOf(mq_queue \o unacked) =>
         handed[i] > 0 \/ i \in crash_lost \/ (q_at = "acked" /\ q_msg = i)
    /\ handed[i] > 1 => i \in resent
    /\ handed[i] > 0 /\ i \in SetOf(mq_queue \o unacked) => i \in resent

\* A connection is served by Q or about to be given up; R is told of the end of each
\* thread once, so that an old message never ends a new connection; and Q has ended
\* before its connection is closed.
ConnectionServed ==
  r_at # "ended" =>
  /\ q_at # "none" => m_conn
  /\ m_conn /\ q_at \in {"none", "ended"} => twos > 0 \/ r_at = "exits"
  /\ twos > 0 => twos = 1 /\ q_at = "ended"

\* Each remote request is in one place until its result is posted or given up.
RequestsKept == requests = settled + m_map_remote + m_error_retry_list

\* No offline task is passed on before those that came earlier.
OfflineInOrder ==
  \A i \in DOMAIN m_offline_task : m_offline_task[i].id \in passed =>
    \A j \in 1..(i - 1) : m_offline_task[j].id \in passed

CloudInv == CloudTypeOK /\ TakenOnce /\ ConnectionServed /\ RequestsKept /\ OfflineInOrder

\* R and Q run, and the ten minutes and the hour of a request pass.
all_overdue == clean_delay(m_map_remote, 0)

CloudFairness ==
  /\ WF_cloudVars(R_next) /\ WF_cloudVars(Q_next) /\ SF_cloudVars(all_overdue)

\* A connection whose thread has ended is given up, and each remote request is settled,
\* unless R is stopped.
CloudEnds ==
  /\ m_conn /\ q_at = "ended" ~> ~m_conn
  /\ []<>(settled = requests \/ r_at = "ended")
===============================================================================
