-------------------------------- MODULE IotWifi --------------------------------
(***************************************************************************)
(* iotServerForWifi50315: boxes and frames connect over Wifi, and requests *)
(* of clients are queued per device, written when the device is ready,     *)
(* matched with what it answers and reported back.  The module thread (run,*)
(* msg_process, timeout) and the socket library's callbacks (onAccept,     *)
(* onRead, onClose) all work under m_ml, so each is one action; timeout    *)
(* visits the devices one by one and touches only the one it visits, so    *)
(* one visit is an action.                                                 *)
(*                                                                         *)
(* Time is left to chance: a visit may find any of the waiting requests    *)
(* overdue and the device idle for any time.                               *)
(***************************************************************************)
EXTENDS Naturals, Sequences, FiniteSets

CONSTANTS
  Handle,      \* xSocketUserInterface pointers
  Ip,          \* addresses of devices
  Id,          \* names of devices; a name includes the type, box or frame
  Request,     \* requests of clients
  NoId, NoIp,  \* the empty string
  NoRequest,   \* the empty guid of a request the server makes itself
  ClientKind,  \* kinds of requests that clients make
  QueueLimit,  \* requests the queue of a device takes (3 in the code)
  MaxMsgs      \* bound: requests in the queue of the module thread

\* Kinds of requests that the code treats differently.  OPENDOOR stands for
\* every kind whose response makeresponse turns into a report.
Kind == {"OPENDOOR", "CLOSEDOOR", "SETBOXAP"}

ASSUME IotWifiAssumption ==
  /\ NoId \notin Id
  /\ NoIp \notin Ip
  /\ NoRequest \notin Request
  /\ ClientKind \subseteq Kind
  /\ QueueLimit \in Nat \ {0}
  /\ MaxMsgs \in Nat

VARIABLES
  dev,     \* m_socket_map, a function from handles to socket_contexts
  conn,    \* handles the socket library has open
  msgs,    \* queue of the module thread
  posted,  \* requests that were posted
  ans      \* error codes answered to each request

vars == <<dev, conn, msgs, posted, ans>>

\* The request for the device's name that the server makes itself.
GetList == [r |-> NoRequest, k |-> "GETLIST", res |-> 0]

Item == [r : Request, k : Kind, res : {0}] \cup {GetList}
Report == [r : Request, k : {"OPENDOOR", "SETBOXAP"}, res : {0, 6}]
Device == [ip : Ip \cup {NoIp}, id : Id \cup {NoId}, online : BOOLEAN,
           ready : BOOLEAN, send : Seq(Item), wait : Seq(Item), report : Seq(Report)]

TypeOK ==
  /\ DOMAIN dev \subseteq Handle
  /\ \A h \in DOMAIN dev : dev[h] \in Device
  /\ conn \in SUBSET Handle
  /\ msgs \in Seq([r : Request, k : Kind, to : Id])
  /\ posted \in SUBSET Request
  /\ ans \in [Request -> Seq(0..6)]

Init ==
  /\ dev = [h \in {} |-> <<>>]
  /\ conn = {}
  /\ msgs = <<>>
  /\ posted = {}
  /\ ans = [r \in Request |-> <<>>]

-------------------------------------------------------------------------------
(* Helpers.                                                                *)

\* m_socket_map[h] = c, which adds an entry that is not there.
Put(m, h, c) == [x \in DOMAIN m \cup {h} |-> IF x = h THEN c ELSE m[x]]
Erase(m, h) == [x \in DOMAIN m \ {h} |-> m[x]]

\* socket_context::socket_context.
NewContext ==
  [ip |-> NoIp, id |-> NoId, online |-> TRUE, ready |-> FALSE,
   send |-> <<>>, wait |-> <<>>, report |-> <<>>]

\* Answers for a list of requests: one code for all, or each one's result.
AllWith(list, code) == [i \in DOMAIN list |-> <<list[i].r, code>>]
Results(list) == [i \in DOMAIN list |-> <<list[i].r, list[i].res>>]

\* The members of a list at the positions in S, in their order, and the others.
Only(list, S) ==
  LET at == S \cap DOMAIN list
      nth(n) == CHOOSE i \in at : Cardinality({j \in at : j <= i}) = n
  IN [n \in 1..Cardinality(at) |-> list[nth(n)]]
Without(list, S) == Only(list, DOMAIN list \ S)

\* Posting a batch of answers; the server's own requests have nobody to answer.
Mine(batch, r) == Only(batch, {i \in DOMAIN batch : batch[i][1] = r})
Answer(batch) ==
  ans' = [r \in Request |->
            ans[r] \o [i \in DOMAIN Mine(batch, r) |-> Mine(batch, r)[i][2]]]

\* PostRemainMessage for a context.
Remaining(c) ==
  AllWith(c.send, 2) \o AllWith(c.wait, 2) \o Results(c.report)

\* Mutant: what waits for a report is not answered.
Flushed_without_report(c) == AllWith(c.wait, 2)

\* What shifttask and an expiring device post: the sent requests time out, the
\* finished ones are reported.
Flushed(c) == AllWith(c.wait, 2) \o Results(c.report)

-------------------------------------------------------------------------------
(* The module thread.                                                      *)

\* iotServerManager::SetProcessData pushes a request.
SetProcessData(r, k, id) ==
  /\ r \notin posted
  /\ Len(msgs) < MaxMsgs
  /\ posted' = posted \cup {r}
  /\ msgs' = Append(msgs, [r |-> r, k |-> k, to |-> id])
  /\ UNCHANGED <<dev, conn, ans>>

\* Mutant: the queue of a device takes one more.
msg_process_off_by_one ==
  /\ msgs # <<>>
  /\ msgs' = Tail(msgs)
  /\ LET m == Head(msgs)
         found == {h \in DOMAIN dev : dev[h].id = m.to}
     IN IF found = {}
        THEN Answer(<<<<m.r, 3>>>>) /\ UNCHANGED dev
        ELSE \E h \in found :
               IF ~dev[h].online
               THEN Answer(<<<<m.r, 4>>>>) /\ UNCHANGED dev
               ELSE IF Len(dev[h].send) > QueueLimit
               THEN Answer(<<<<m.r, 5>>>>) /\ UNCHANGED dev
               ELSE /\ dev' = [dev EXCEPT ![h].send =
                                 Append(@, [r |-> m.r, k |-> m.k, res |-> 0])]
                    /\ UNCHANGED ans
  /\ UNCHANGED <<conn, posted>>

\* msg_process: the request is refused or joins the queue of its device.
msg_process ==
  /\ msgs # <<>>
  /\ msgs' = Tail(msgs)
  /\ LET m == Head(msgs)
         found == {h \in DOMAIN dev : dev[h].id = m.to}
     IN IF found = {}
        THEN Answer(<<<<m.r, 3>>>>) /\ UNCHANGED dev
        ELSE \E h \in found :
               IF ~dev[h].online
               THEN Answer(<<<<m.r, 4>>>>) /\ UNCHANGED dev
               ELSE IF Len(dev[h].send) >= QueueLimit
               THEN Answer(<<<<m.r, 5>>>>) /\ UNCHANGED dev
               ELSE /\ dev' = [dev EXCEPT ![h].send =
                                 Append(@, [r |-> m.r, k |-> m.k, res |-> 0])]
                    /\ UNCHANGED ans
  /\ UNCHANGED <<conn, posted>>

\* Mutant: only devices that are online are cleaned.
Cleanable_online(c, od) == IF c.online THEN od ELSE <<{}, {}, {}>>

\* Nothing is overdue while the device has no name.
Cleanable(c, od) == IF c.id # NoId THEN od ELSE <<{}, {}, {}>>

\* clean_overdue_task of both lists and clean_overdue_donetask, with the
\* overdue positions of each list.
Cleaned(c, od) ==
  [c EXCEPT !.send = Without(@, od[1]), !.wait = Without(@, od[2]),
            !.report = Without(@, od[3])]
CleanedAnswers(c, od) ==
  AllWith(Only(c.send, od[1]), 2) \o AllWith(Only(c.wait, od[2]), 2)
    \o Results(Only(c.report, od[3]))

\* What Write of the repeated command may return to command: all of it, an
\* error, or so little that the size happens to be that of one command.
Written == {"all", "error", "one"}

\* Post_Command of the first queued request.  command leaves ready cleared only
\* when all was written, and the caller takes the size of one command for
\* success.
Sent(c, w) ==
  [c EXCEPT !.ready = w # "all", !.send = Tail(@),
            !.wait = IF w = "error" THEN @ ELSE Append(@, Head(c.send))]

SentAnswers(c, w) == IF w = "error" THEN <<<<Head(c.send).r, 1>>>> ELSE <<>>

\* HeartBeat writes GetID and expects nothing.
Beaten(c, w) == [c EXCEPT !.ready = w # "all"]

\* Mutant: what was sent stays.
Offline_keeps_sent(c) == [c EXCEPT !.online = FALSE, !.report = <<>>]

\* A device that was silent for 15 s loses what it was sent.
Offline(c) == [c EXCEPT !.online = FALSE, !.wait = <<>>, !.report = <<>>]

\* The visit of timeout to h.  due: the device has been quiet long enough to
\* be written to; idle: more than 15 s, which a write in this visit excludes.
timeout(h, od, due, idle, w) ==
  /\ h \in DOMAIN dev
  /\ LET late == Cleanable(dev[h], od)
         c == Cleaned(dev[h], late)
         clean == CleanedAnswers(dev[h], late)
     IN \/ /\ c.ready /\ due /\ c.send # <<>>
           /\ dev' = [dev EXCEPT ![h] = Sent(c, w)]
           /\ Answer(clean \o SentAnswers(c, w))
        \/ /\ c.ready /\ due /\ c.send = <<>>
           /\ dev' = [dev EXCEPT ![h] = Beaten(c, w)]
           /\ Answer(clean)
        \/ /\ ~idle
           /\ c.ready => ~due \/ c.send = <<>>
           /\ dev' = [dev EXCEPT ![h] = c]
           /\ Answer(clean)
        \/ /\ idle
           /\ ~c.ready
           /\ dev' = [dev EXCEPT ![h] =
                        Beaten(IF c.online THEN Offline(c) ELSE c, w)]
           /\ Answer(IF c.online THEN clean \o Flushed(c) ELSE clean)
  /\ UNCHANGED <<conn, msgs, posted>>

-------------------------------------------------------------------------------
(* The callbacks of the socket library.                                    *)

\* shifttask: the queue of the old connection becomes the queue of the new
\* one, which loses its own.
Shifted(new, old) ==
  IF old.send # <<>> THEN [new EXCEPT !.send = old.send] ELSE new

\* A device connects; a connection from the same address gives way to it.
onAccept(h, ip) ==
  /\ h \notin conn
  /\ conn' = conn \cup {h}
  /\ LET new == [NewContext EXCEPT !.ip = ip]
         olds == {o \in DOMAIN dev \ {h} : dev[o].ip = ip}
     IN IF olds = {}
        THEN dev' = Put(dev, h, new) /\ UNCHANGED ans
        ELSE \E o \in olds :
               /\ dev' = Put(Erase(dev, o), h,
                             Shifted([new EXCEPT !.id = dev[o].id], dev[o]))
               /\ Answer(Flushed(dev[o]))
  /\ UNCHANGED <<msgs, posted>>

\* process_STMresponse of "Ready" from a device without a name: ask for it.
read_ready_unnamed(h) ==
  /\ h \in DOMAIN dev \cap conn
  /\ dev[h].id = NoId
  /\ dev' = [dev EXCEPT ![h].online = TRUE, ![h].ready = TRUE,
               ![h].send = IF @ = <<>> /\ dev[h].wait = <<>>
                           THEN <<GetList>>
                           ELSE @]
  /\ UNCHANGED <<conn, msgs, posted, ans>>

\* "Ready" from a named device reports the oldest result.  After SETBOXAP the
\* device is removed, and the assignment of ready makes a new entry for it.
read_ready_named(h) ==
  /\ h \in DOMAIN dev \cap conn
  /\ dev[h].id # NoId
  /\ LET c == [dev[h] EXCEPT !.online = TRUE]
     IN IF c.report = <<>>
        THEN dev' = [dev EXCEPT ![h] = [c EXCEPT !.ready = TRUE]] /\ UNCHANGED ans
        ELSE LET first == Head(c.report)
                 rest == [c EXCEPT !.report = Tail(@)]
             IN IF first.k = "SETBOXAP"
                THEN /\ dev' = [dev EXCEPT ![h] = [NewContext EXCEPT !.ready = TRUE]]
                     /\ Answer(<<<<first.r, first.res>>>> \o Remaining(rest))
                ELSE /\ dev' = [dev EXCEPT ![h] = [rest EXCEPT !.ready = TRUE]]
                     /\ Answer(<<<<first.r, first.res>>>>)
  /\ UNCHANGED <<conn, msgs, posted>>

\* Mutant: a device that names itself joins its older entry.
read_name_keeps_old(h, id) ==
  /\ h \in DOMAIN dev \cap conn
  /\ dev[h].wait # <<>> /\ Head(dev[h].wait).k = "GETLIST"
  /\ dev' = [dev EXCEPT ![h].online = TRUE, ![h].wait = Tail(@), ![h].id = id]
  /\ UNCHANGED <<conn, msgs, posted, ans>>

\* makeresponse when GETLIST waits first and the response is a name: a device
\* of that name gives way.
read_name(h, id) ==
  /\ h \in DOMAIN dev \cap conn
  /\ dev[h].wait # <<>> /\ Head(dev[h].wait).k = "GETLIST"
  /\ LET c == [dev[h] EXCEPT !.online = TRUE, !.wait = Tail(@)]
         olds == {o \in DOMAIN dev \ {h} : dev[o].id = id}
     IN IF c.id # NoId
        THEN dev' = [dev EXCEPT ![h] = c] /\ UNCHANGED ans
        ELSE IF olds = {}
        THEN dev' = [dev EXCEPT ![h] = [c EXCEPT !.id = id]] /\ UNCHANGED ans
        ELSE \E o \in olds :
               /\ dev' = Put(Erase(dev, o), h,
                             Shifted([c EXCEPT !.id = id], dev[o]))
               /\ Answer(Flushed(dev[o]))
  /\ UNCHANGED <<conn, msgs, posted>>

\* makeresponse with any other response, good or bad.  The request waiting
\* first takes it; a CLOSEDOOR request is forgotten.
read_response(h, good) ==
  /\ h \in DOMAIN dev \cap conn
  /\ LET c == [dev[h] EXCEPT !.online = TRUE]
         res == IF good THEN 0 ELSE 6
     IN IF c.wait = <<>>
        THEN dev' = [dev EXCEPT ![h] = c]
        ELSE LET first == [Head(c.wait) EXCEPT !.res = res]
             IN dev' = [dev EXCEPT ![h] =
                          [c EXCEPT !.wait = Tail(@),
                             !.report = IF first.k \in {"OPENDOOR", "SETBOXAP"}
                                        THEN Append(@, first) ELSE @]]
  /\ UNCHANGED <<conn, msgs, posted, ans>>

\* onClose: RemoveDevice answers everything the device still holds.
onClose(h) ==
  /\ h \in conn
  /\ conn' = conn \ {h}
  /\ IF h \in DOMAIN dev
     THEN dev' = Erase(dev, h) /\ Answer(Remaining(dev[h]))
     ELSE UNCHANGED <<dev, ans>>
  /\ UNCHANGED <<msgs, posted>>

-------------------------------------------------------------------------------

\* Which positions of the three lists a visit finds overdue.
Overdue(h) ==
  (SUBSET DOMAIN dev[h].send) \X (SUBSET DOMAIN dev[h].wait)
    \X (SUBSET DOMAIN dev[h].report)

Next ==
  \/ \E r \in Request, k \in ClientKind, id \in Id : SetProcessData(r, k, id)
  \/ msg_process
  \/ \E h \in DOMAIN dev : \E od \in Overdue(h), due, idle \in BOOLEAN,
                            w \in Written :
       timeout(h, od, due, idle, w)
  \/ \E h \in Handle, ip \in Ip : onAccept(h, ip)
  \/ \E h \in Handle :
       \/ read_ready_unnamed(h)
       \/ read_ready_named(h)
       \/ \E id \in Id : read_name(h, id)
       \/ \E good \in BOOLEAN : read_response(h, good)
       \/ onClose(h)

Spec == Init /\ [][Next]_vars

\* A list of device h holds r.
Holds(list, r) == \E i \in DOMAIN list : list[i].r = r
HeldBy(h, r) ==
  Holds(dev[h].send, r) \/ Holds(dev[h].wait, r) \/ Holds(dev[h].report, r)

\* A visit that finds r overdue, wherever it is.
timeout_of(r) ==
  \E h \in DOMAIN dev : \E od \in Overdue(h), due, idle \in BOOLEAN, w \in Written :
    /\ HeldBy(h, r)
    /\ \A i \in DOMAIN dev[h].send : dev[h].send[i].r = r => i \in od[1]
    /\ \A i \in DOMAIN dev[h].wait : dev[h].wait[i].r = r => i \in od[2]
    /\ \A i \in DOMAIN dev[h].report : dev[h].report[i].r = r => i \in od[3]
    /\ timeout(h, od, due, idle, w)

\* The module thread comes round at least every 50 ms, so a request that stays
\* is overdue at some visit.
FairSpec ==
  /\ Spec
  /\ WF_vars(msg_process)
  /\ \A r \in Request : WF_vars(timeout_of(r))

-------------------------------------------------------------------------------
(* Properties.                                                             *)

\* How often r is held, anywhere.
Positions(list, r) == {i \in DOMAIN list : list[i].r = r}
Count(list, r) == Cardinality(Positions(list, r))
Places(r) ==
  UNION {{<<h, l, i>> : i \in Positions(dev[h][l], r)} :
           h \in DOMAIN dev, l \in {"send", "wait", "report"}}
Held(r) == Count(msgs, r) + Cardinality(Places(r))

\* A request is answered at most once and is not held any more when it was,
\* however the device reconnects, renames itself, goes offline, is removed or
\* answers late (shifttask, PostRemainMessage, timeout, report together).
AnsweredOnce == \A r \in Request : Len(ans[r]) + Held(r) <= 1

\* A request is dropped without an answer only by makeresponse, when it is the
\* CLOSEDOOR request that waits first.
DroppedOnlyCloseDoor ==
  [][\A r \in posted : Len(ans[r]) + Held(r) = 1 /\ Len(ans'[r]) + Held(r)' = 0
       => \E h \in DOMAIN dev :
            dev[h].wait # <<>> /\ Head(dev[h].wait).r = r
              /\ Head(dev[h].wait).k = "CLOSEDOOR"]_vars

\* A device is found under one connection only: two entries never share a name
\* or an address (onAccept and makeresponse replace the older one).
OneEntryPerDevice ==
  \A h, o \in DOMAIN dev :
    h # o => /\ dev[h].id = dev[o].id => dev[h].id = NoId
             /\ dev[h].ip = dev[o].ip => dev[h].ip = NoIp

\* What m_socket_map keeps in every state.
EntriesInv == TypeOK /\ OneEntryPerDevice

\* The queue of a device never exceeds the limit msg_process enforces, though
\* shifttask moves whole queues.
QueueBounded == \A h \in DOMAIN dev : Len(dev[h].send) <= QueueLimit

\* Every request is answered in the end, whatever its device does, unless it
\* is one for which makeresponse has no branch.
Answered ==
  \A r \in Request :
    (r \in posted) ~> (Len(ans[r]) = 1 \/ Held(r) = 0)
===============================================================================
