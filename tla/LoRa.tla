--------------------------------- MODULE LoRa ---------------------------------
(***************************************************************************)
(* The LoRa server of the IoT module: iotServerForLoRa schedules the       *)
(* requests of clients on one serial line, which iotServerForLoRaSerial    *)
(* serves on a thread of its own; each thread has a queue.  Opening a door *)
(* has priority.  While it has nothing to do, the serial thread asks the   *)
(* stations one by one which box they serve, and publishes the list when   *)
(* it is complete.                                                         *)
(***************************************************************************)
EXTENDS Integers, Sequences, FiniteSets

CONSTANTS
  Request,    \* requests of clients other than the expression application, to which no broadcast goes
  About,      \* what each is about: the box it names and, if it is a query, what it asks
  Box,        \* names of boxes
  Limit,      \* a request may join a list of up to so many (20 in the code)
  Stations,   \* stations on the line (6 in the code)
  MaxScans    \* bound: how often the two minutes pass

\* The messages by which the serial thread reports the end of a request.
Done == {10024, 10025, 10026}

ASSUME LoRaAssumption ==
  /\ Limit \in Nat /\ Stations \in Nat \ {0} /\ MaxScans \in Nat
  /\ Request \cap Done = {} /\ DOMAIN About = Request

\* "OPEN" has priority; "GET" stands for the queries of a box; "CLOSE", which the
\* serial thread does not know.  The scheduler answers a request for the list of
\* boxes on the spot, from IDList; it changes nothing and is left out.
Kind == {"OPEN", "GET", "CLOSE"}

VARIABLES
  inbox,      \* queue of the scheduler: requests and completions
  state,      \* _state
  current,    \* _current_task
  highlist, midlist,
  exe,        \* queue of the serial thread
  sched_on, serial_on,  \* the thread has cleaned its queue and serves it
  missed,     \* requests the scheduler cleaned away at its start
  swept,      \* requests the serial thread cleaned away at its start
  kind,       \* kind of each request that was posted
  answers,    \* answers to each request: to its client, or to all clients when it is refused
  overheard,  \* per request, the others whose answer reached its client while it waited, and
              \* looked like an answer to it
  i,          \* station asked next, -1 when the list is complete
  has_task,   \* whether the serial thread waits a second for a message
  temp,       \* boxes found: name -> station
  IDList,     \* boxes published
  found,      \* boxes that answered since the last publication
  scans       \* how often the two minutes passed

sched == <<inbox, state, current, highlist, midlist, exe>>
startup == <<sched_on, serial_on, missed, swept>>
scan == <<i, has_task, temp, IDList, found, scans>>
vars == <<inbox, state, current, highlist, midlist, exe, kind, answers, overheard,
          sched_on, serial_on, missed, swept, i, has_task, temp, IDList, found, scans>>

Station == 0..(Stations - 1)

TypeOK ==
  /\ inbox \in Seq(Request \cup Done)
  /\ state \in {"high", "mid", "low"}
  /\ current \in Nat
  /\ highlist \in Seq(Request) /\ midlist \in Seq(Request) /\ exe \in Seq(Request)
  /\ sched_on \in BOOLEAN /\ serial_on \in BOOLEAN
  /\ missed \subseteq Request /\ swept \subseteq Request
  /\ DOMAIN kind \subseteq Request /\ \A r \in DOMAIN kind : kind[r] \in Kind
  /\ answers \in [Request -> Nat] /\ overheard \in [Request -> SUBSET Request]
  /\ i \in Station \cup {-1} /\ has_task \in BOOLEAN
  /\ DOMAIN temp \subseteq Box /\ \A b \in DOMAIN temp : temp[b] \in Station
  /\ DOMAIN IDList \subseteq Box /\ \A b \in DOMAIN IDList : IDList[b] \in Station
  /\ found \subseteq Box /\ scans \in 0..MaxScans

Init ==
  /\ inbox = <<>> /\ exe = <<>>
  /\ state = "low" /\ current = 0
  /\ sched_on = FALSE /\ serial_on = FALSE /\ missed = {} /\ swept = {}
  /\ highlist = <<>> /\ midlist = <<>>
  /\ kind = [r \in {} |-> "GET"] /\ answers = [r \in Request |-> 0]
  /\ overheard = [r \in Request |-> {}]
  /\ i = 0 /\ has_task = FALSE
  /\ temp = [b \in {} |-> 0] /\ IDList = [b \in {} |-> 0]
  /\ found = {} /\ scans = 0

Answered(r) == answers' = [answers EXCEPT ![r] = @ + 1]
KindOf(r) == kind[r]
Members(queue) == {queue[j] : j \in DOMAIN queue}

\* iotServerManager::SetProcessData pushes a request.
SetProcessData(r, k) ==
  /\ r \notin DOMAIN kind
  /\ kind' = [x \in DOMAIN kind \cup {r} |-> IF x = r THEN k ELSE kind[x]]
  /\ inbox' = Append(inbox, r)
  /\ UNCHANGED <<state, current, highlist, midlist, exe, answers, overheard>>
  /\ UNCHANGED <<startup, scan>>

-------------------------------------------------------------------------------
(* The scheduler's run: what one message makes of its state, as a record   *)
(* of the variables it works on.                                           *)

Now == [state |-> state, current |-> current, high |-> highlist, mid |-> midlist, exe |-> exe]

\* _exe.pushq of a request that just came, or of the first one that waits.
Start(s, r, st) == [s EXCEPT !.exe = Append(@, r), !.state = st, !.current = @ + 1]
StartHigh(s) == Start([s EXCEPT !.high = Tail(@)], Head(s.high), "high")

\* Mutant: the query that is started stays in the list.
StartMid_keeps(s) == Start(s, Head(s.mid), "mid")

\* The first query that waits.
StartMid(s) == Start([s EXCEPT !.mid = Tail(@)], Head(s.mid), "mid")

\* When nothing runs, the next query starts, or the state is low.
NextMid(s) ==
  IF s.current # 0 THEN s
  ELSE IF s.mid # <<>> THEN StartMid(s)
  ELSE [s EXCEPT !.state = "low"]

\* Mutant: an opening never waits for another one.
Opened_always(s, r) == Start(s, r, "high")

\* A request with priority waits only for another one; any other request for
\* everything.  A list that is full refuses it.
Opened(s, r) ==
  IF s.state # "high" THEN Start(s, r, "high") ELSE [s EXCEPT !.high = Append(@, r)]
Queried(s, r) ==
  IF s.state = "low" THEN Start(s, r, "mid") ELSE [s EXCEPT !.mid = Append(@, r)]
Refused(r) ==
  \/ KindOf(r) = "OPEN" /\ state = "high" /\ Len(highlist) > Limit
  \/ KindOf(r) \in {"GET", "CLOSE"} /\ state # "low" /\ Len(midlist) > Limit

\* 10024 and 10026 end an opening or an unknown request, 10025 a query.
Completed(s, d) ==
  LET c == [s EXCEPT !.current = @ - 1] IN
  IF d = 10025 THEN (IF c.state = "high" THEN c ELSE NextMid(c))
  ELSE IF c.high # <<>> THEN StartHigh(c)
  ELSE NextMid([c EXCEPT !.state = "mid"])

\* The last part of the loop: in the low state, whatever waits is started.
Woken(s) ==
  IF s.state # "low" THEN s
  ELSE IF s.high # <<>> THEN StartHigh(s)
  ELSE IF s.mid # <<>> THEN StartMid(s)
  ELSE s

Become(s) ==
  /\ state' = s.state /\ current' = s.current
  /\ highlist' = s.high /\ midlist' = s.mid /\ exe' = s.exe

\* The beginning of run: what was posted before is cleaned away, and the serial
\* thread is started.
sched_start ==
  /\ ~sched_on
  /\ sched_on' = TRUE
  /\ missed' = Members(inbox)
  /\ inbox' = <<>>
  /\ UNCHANGED <<state, current, highlist, midlist, exe, serial_on, swept, kind>>
  /\ UNCHANGED <<answers, overheard>>
  /\ UNCHANGED scan

\* The clients that wait for an answer they cannot tell from one to m: an answer names the type of
\* the request and the box, and not who asked.
Alike(m) ==
  {r \in DOMAIN kind \ {m} : KindOf(r) = KindOf(m) /\ About[r] = About[m] /\ answers[r] = 0}

\* The refusal of an opening goes to who asked for it, any other to every client.
Refuse(m) ==
  /\ Answered(m)
  /\ LET hear == IF KindOf(m) = "OPEN" THEN {} ELSE Alike(m)
     IN overheard' = [r \in Request |-> IF r \in hear THEN overheard[r] \cup {m} ELSE overheard[r]]

\* One round of the scheduler.
run ==
  /\ sched_on /\ inbox # <<>>
  /\ inbox' = Tail(inbox)
  /\ LET m == Head(inbox) IN
     IF m \in Done THEN Become(Woken(Completed(Now, m))) /\ UNCHANGED <<answers, overheard>>
     ELSE IF Refused(m) THEN Become(Woken(Now)) /\ Refuse(m)
     ELSE /\ Become(Woken(IF KindOf(m) = "OPEN" THEN Opened(Now, m) ELSE Queried(Now, m)))
          /\ UNCHANGED <<answers, overheard>>
  /\ UNCHANGED kind
  /\ UNCHANGED <<startup, scan>>

-------------------------------------------------------------------------------
(* The serial thread's run.                                                *)

\* The beginning of run: what the scheduler pushed before is cleaned away.
serial_start ==
  /\ sched_on /\ ~serial_on
  /\ serial_on' = TRUE
  /\ swept' = Members(exe)
  /\ exe' = <<>>
  /\ UNCHANGED <<inbox, state, current, highlist, midlist, sched_on, missed, kind>>
  /\ UNCHANGED <<answers, overheard>>
  /\ UNCHANGED scan

\* Mutant: an unknown request is dropped without telling the scheduler.
execute_silent_default ==
  /\ serial_on /\ exe # <<>>
  /\ exe' = Tail(exe)
  /\ LET r == Head(exe) IN
     CASE KindOf(r) = "OPEN" -> inbox' = Append(inbox, 10024) /\ Answered(r)
       [] KindOf(r) = "GET" -> inbox' = Append(inbox, 10025) /\ Answered(r)
       [] OTHER -> UNCHANGED <<inbox, answers>>
  /\ UNCHANGED <<state, current, highlist, midlist, kind, overheard>>
  /\ UNCHANGED <<startup, scan>>

\* A request is carried out, answered with whatever came of it, and reported to
\* the scheduler; one that the thread does not know is reported only.
execute ==
  /\ serial_on /\ exe # <<>>
  /\ exe' = Tail(exe)
  /\ LET r == Head(exe) IN
     CASE KindOf(r) = "OPEN" -> inbox' = Append(inbox, 10024) /\ Answered(r)
       [] KindOf(r) = "GET" -> inbox' = Append(inbox, 10025) /\ Answered(r)
       [] OTHER -> inbox' = Append(inbox, 10026) /\ UNCHANGED answers
  /\ UNCHANGED <<state, current, highlist, midlist, kind, overheard>>
  /\ UNCHANGED <<startup, scan>>

\* Mutant: the boxes of the last list are kept for the next one.
Publish_keeps_temp(t) == IDList' = t /\ temp' = t /\ found' = {}

\* The complete list is published.
Publish(t) == IDList' = t /\ temp' = [b \in {} |-> 0] /\ found' = {}

\* Nothing to do: ask the next station.  It answers with a box, does not answer,
\* or the line fails, which ends the round and keeps what was found.
ask(ret, box) ==
  /\ serial_on /\ exe = <<>> /\ i # -1
  /\ LET t == IF ret = 0 THEN [b \in DOMAIN temp \cup {box} |-> IF b = box THEN i ELSE temp[b]]
              ELSE temp
         seen == IF ret = 0 THEN found \cup {box} ELSE found
     IN IF ret \in {0, 2} /\ i + 1 = Stations
        THEN Publish(t) /\ i' = -1 /\ has_task' = TRUE
        ELSE /\ temp' = t /\ found' = seen
             /\ i' = IF ret \in {0, 2} THEN i + 1 ELSE -1
             /\ has_task' = (ret \notin {0, 2} \/ has_task)
             /\ UNCHANGED IDList
  /\ UNCHANGED <<kind, answers, overheard, scans>>
  /\ UNCHANGED <<sched, startup>>

\* Two minutes passed since the last round began.
rescan ==
  /\ serial_on /\ scans < MaxScans
  /\ scans' = scans + 1
  /\ i' = 0 /\ has_task' = FALSE
  /\ UNCHANGED <<kind, answers, overheard, temp, IDList, found>>
  /\ UNCHANGED <<sched, startup>>

-------------------------------------------------------------------------------

Next ==
  \/ \E r \in Request, k \in Kind : SetProcessData(r, k)
  \/ sched_start \/ run
  \/ serial_start \/ execute
  \/ \E ret \in {0, 1, 2, 3, 9}, box \in Box : ask(ret, box)
  \/ rescan

Spec == Init /\ [][Next]_vars

\* Both threads start and take their messages.
FairSpec == Spec /\ WF_vars(sched_start \/ run) /\ WF_vars(serial_start \/ execute)

-------------------------------------------------------------------------------
(* Properties.                                                             *)

\* The counter of tasks is the number of tasks the serial thread holds, has
\* finished without the scheduler knowing, or cleaned away at its start: no
\* completion is lost or counted twice, whatever overtakes what.
TasksCounted ==
  current = Len(exe) + Cardinality({j \in DOMAIN inbox : inbox[j] \in Done}) + Cardinality(swept)

\* While anything waits, a completion is to come that will start it; in the low
\* state nothing waits and nothing runs.
WaitingIsWoken ==
  /\ highlist # <<>> \/ midlist # <<>> => current > 0
  /\ state = "low" => current = 0

\* The serial thread holds at most two tasks, so that an opening waits for no
\* more than one query that was started before it.
OpeningWaitsForOne ==
  /\ Len(exe) <= 2
  /\ \A j \in DOMAIN exe : KindOf(exe[j]) = "OPEN" =>
       Cardinality({l \in 1..(j - 1) : KindOf(exe[l]) # "OPEN"}) <= 1

\* What the two threads keep in every state.
ScheduleInv == TypeOK /\ TasksCounted /\ WaitingIsWoken /\ OpeningWaitsForOne

\* No request is answered twice.  What reaches a client besides, as if it were the answer to its
\* own request, is the refusal of the same question of somebody else, never of an opening; and
\* that is the only answer to it: neither thread holds it any more.
AnsweredOnce ==
  \A r \in Request :
    /\ answers[r] <= 1
    /\ \A x \in overheard[r] :
         /\ x # r /\ KindOf(x) = KindOf(r) /\ KindOf(x) # "OPEN" /\ About[x] = About[r]
         /\ answers[x] = 1
         /\ x \notin Members(inbox) \cup Members(highlist) \cup Members(midlist) \cup Members(exe)

\* A list that is published holds only boxes that answered since the one before.
PublishedIsFresh ==
  [][IDList' # IDList => \A b \in DOMAIN IDList' : b \in found \/ IDList'[b] = Stations - 1]_vars

\* Every request is answered, whatever its client overheard, except one the serial thread does
\* not know, one that was posted before the scheduler cleaned its queue, and, once the serial
\* thread has cleaned away a task at its start, those that may wait for its end.
EveryoneAnswered ==
  \A r \in Request :
    (r \in DOMAIN kind /\ KindOf(r) # "CLOSE") 
      ~> (answers[r] = 1 \/ r \in missed \/ swept # {})
===============================================================================
