----------------------------- MODULE ModulesProofs -----------------------------
(***************************************************************************)
(* The module threads, for any clients and bounds.  The readers of cards   *)
(* and the detection of faces answer each request once and hold their      *)
(* devices and cameras where the code takes them to; a text of the speech  *)
(* synthesis is on one channel, waits for one or has ended, and a client   *)
(* is told that a text was read only when it was.  Their invariants are    *)
(* proved one module after the other, and put together at the end.         *)
(***************************************************************************)
EXTENDS MCModules, FiniteSetTheorems, SequenceTheorems, TLAPS

-------------------------------------------------------------------------------
\* A turn of the loop with a task of c, whatever counts as begun.
LEMMA PollKeeps ==
  ASSUME IdReaderInv, id_runs = TRUE, NEW c \in IdUser, poll(c),
         reader' = reader, id_runs' = id_runs,
         \/ id_task = c /\ id_begun' = id_begun
         \/ id_task = "none" /\ id_begun' = [id_begun EXCEPT ![c] = @ + 1]
  PROVE  IdReaderInv'
<1> USE IdAssumption
<1>1. IdTypeOK'
  <2>1. id_begun' \in [IdUser -> Nat] /\ id_ended' \in [IdUser -> Nat]
    BY DEF IdReaderInv, IdTypeOK, poll
  <2>2. DevState' \in {"failed", "idle", "opened", "reading"}
    BY DEF IdReaderInv, IdTypeOK, poll, SetDevState
  <2>3. /\ reader' \in {"id", "ys"} /\ id_task' \in Users /\ id_runs' \in BOOLEAN
        /\ index_open' \in BOOLEAN /\ stuck_open' \in BOOLEAN
    BY DEF IdReaderInv, IdTypeOK, poll, Users
  <2> QED BY <2>1, <2>2, <2>3 DEF IdTypeOK
<1>2. DeviceFollowsTask'
  BY DEF IdReaderInv, IdTypeOK, DeviceFollowsTask, poll, SetDevState
<1>3. IdEndsOnce'
  BY DEF IdReaderInv, IdTypeOK, IdEndsOnce, poll
<1> QED BY <1>1, <1>2, <1>3 DEF IdReaderInv

\* A wait is a poll for the task at hand or for a new one, or a device that does not open.
LEMMA IdWaitKeeps ==
  ASSUME IdReaderInv, id_runs = TRUE, NEW c \in IdUser, id_wait(c),
         reader' = reader, id_runs' = id_runs
  PROVE  IdReaderInv'
<1> USE IdAssumption
<1>1. CASE id_task # "none"
  <2>1. id_task \in IdUser /\ poll(id_task) /\ id_begun' = id_begun
    BY <1>1 DEF id_wait, IdReaderInv, IdTypeOK, Users
  <2> QED BY <2>1, PollKeeps
<1>2. CASE id_task = "none" /\ poll(c) /\ id_begun' = [id_begun EXCEPT ![c] = @ + 1]
  BY <1>2, PollKeeps
<1>3. CASE /\ id_task = "none" /\ FALSE \in Opens /\ SetDevState("failed")
           /\ UNCHANGED <<id_task, index_open, stuck_open, id_begun, id_ended>>
  <2>1. IdTypeOK'
    BY <1>3 DEF IdReaderInv, IdTypeOK, SetDevState
  <2>2. DeviceFollowsTask'
    BY <1>3 DEF IdReaderInv, IdTypeOK, DeviceFollowsTask, SetDevState
  <2>3. IdEndsOnce'
    BY <1>3 DEF IdReaderInv, IdEndsOnce
  <2> QED BY <2>1, <2>2, <2>3 DEF IdReaderInv
<1> QED BY <1>1, <1>2, <1>3 DEF id_wait, Opens

\* A cancel ends the task at hand, no matter who asks.
LEMMA IdCancelKeeps ==
  ASSUME IdReaderInv, id_runs = TRUE, id_cancel, reader' = reader, id_runs' = id_runs
  PROVE  IdReaderInv'
<1> USE IdAssumption
<1>1. IdTypeOK'
  <2>1. id_ended' \in [IdUser -> Nat]
    BY DEF IdReaderInv, IdTypeOK, id_cancel
  <2>2. /\ id_begun' = id_begun /\ id_task' \in Users
        /\ index_open' \in BOOLEAN /\ stuck_open' \in BOOLEAN
    BY DEF id_cancel, Close, Users
  <2>3. DevState' \in {"failed", "idle", "opened", "reading"}
    BY DEF IdReaderInv, IdTypeOK, id_cancel, SetDevState
  <2> QED BY <2>1, <2>2, <2>3 DEF IdReaderInv, IdTypeOK
<1>2. DeviceFollowsTask'
  BY DEF IdReaderInv, IdTypeOK, DeviceFollowsTask, id_cancel, Close, SetDevState
<1>3. IdEndsOnce'
  BY DEF IdReaderInv, IdTypeOK, IdEndsOnce, id_cancel
<1> QED BY <1>1, <1>2, <1>3 DEF IdReaderInv

\* The state query of the second reader opens and closes the device between polls.
LEMMA QueryKeeps ==
  ASSUME IdReaderInv, id_runs = TRUE, devstate_query, reader' = reader, id_runs' = id_runs
  PROVE  IdReaderInv'
<1> USE IdAssumption
<1>1. CASE DevState \in {"failed", "idle"}
  <2>1. /\ DevState' \in {"failed", "idle"} /\ index_open' = FALSE /\ reader = "ys"
        /\ id_task' = id_task /\ id_ended' = id_ended /\ stuck_open' = stuck_open
        /\ id_begun' = id_begun
    BY <1>1 DEF devstate_query, Probed
  <2>2. IdTypeOK'
    BY <2>1 DEF IdReaderInv, IdTypeOK
  <2>3. DeviceFollowsTask'
    BY <1>1, <2>1 DEF IdReaderInv, IdTypeOK, DeviceFollowsTask
  <2>4. IdEndsOnce'
    BY <2>1 DEF IdReaderInv, IdEndsOnce
  <2> QED BY <2>2, <2>3, <2>4 DEF IdReaderInv
<1>2. CASE DevState \notin {"failed", "idle"}
  <2>1. DevState = "reading" /\ id_task \in IdUser
    BY <1>2 DEF devstate_query, IdReaderInv, IdTypeOK, DeviceFollowsTask, Users
  <2>2. poll(id_task) /\ id_begun' = id_begun
    BY <1>2 DEF devstate_query
  <2> QED BY <2>1, <2>2, PollKeeps
<1> QED BY <1>1, <1>2

\* Every step of the card readers of identity keeps their invariant.
LEMMA IdStep == IdReaderInv /\ [IdNext]_idVars => IdReaderInv'
<1> SUFFICES ASSUME IdReaderInv, [IdNext]_idVars PROVE IdReaderInv'
  OBVIOUS
<1> USE IdAssumption
<1>1. CASE IdMessage
  <2>1. id_runs = TRUE /\ reader' = reader /\ id_runs' = id_runs
    BY <1>1 DEF IdMessage, IdReaderInv, IdTypeOK
  <2> QED BY <1>1, <2>1, IdWaitKeeps, IdCancelKeeps, QueryKeeps DEF IdMessage
<1>2. CASE IdPoll
  <2>1. /\ id_runs = TRUE /\ reader' = reader /\ id_runs' = id_runs /\ id_begun' = id_begun
        /\ id_task \in IdUser /\ poll(id_task)
    BY <1>2 DEF IdPoll, IdReaderInv, IdTypeOK, Users
  <2> QED BY <2>1, PollKeeps
<1>3. CASE id_exit
  BY <1>3 DEF id_exit, IdReaderInv, IdTypeOK, DeviceFollowsTask, IdEndsOnce
<1>4. CASE id_destroyed
  BY <1>4 DEF id_destroyed, Close, IdReaderInv, IdTypeOK, DeviceFollowsTask, IdEndsOnce
<1>5. CASE UNCHANGED idVars
  BY <1>5 DEF idVars, IdReaderInv, IdTypeOK, DeviceFollowsTask, IdEndsOnce
<1> QED BY <1>1, <1>2, <1>3, <1>4, <1>5 DEF IdNext

LEMMA IdStart == IdInit => IdReaderInv
<1> SUFFICES ASSUME IdInit PROVE IdReaderInv
  OBVIOUS
<1>1. IdTypeOK
  BY DEF IdInit, IdTypeOK, Users
<1>2. DeviceFollowsTask /\ IdEndsOnce
  BY IdAssumption DEF IdInit, DeviceFollowsTask, IdEndsOnce
<1> QED BY <1>1, <1>2 DEF IdReaderInv

-------------------------------------------------------------------------------
\* Moving the card out changes nothing of the request.
LEMMA CardMoved ==
  ASSUME NEW r \in IcState, NEW ok
  PROVE  /\ Cancel_Card(r, ok) \in IcState
         /\ Cancel_Card(r, ok).has_task = r.has_task
         /\ Cancel_Card(r, ok).owner = r.owner
         /\ Cancel_Card(r, ok).need_hold_card = r.need_hold_card
BY DEF Cancel_Card, IcState

\* What a message makes of the reader.
LEMMA Handled ==
  ASSUME NEW r \in IcState, NEW m \in IcMessage, NEW com \in Opened(r), NEW ok,
         NEW h, h = ic_handle(r, m, com, ok), r.has_task => r.need_hold_card
  PROVE  /\ h \in IcState
         /\ r.has_task => h.owner = r.owner
         /\ h.has_task => h.need_hold_card
         /\ h.need_hold_card /\ ~h.has_task => r.need_hold_card
<1>1. com \in {"none", "open", "closed"}
  BY DEF Opened, IcState
<1>2. CASE m.kind = "wait"
  <2>1. m.from \in CardUser
    BY DEF IcMessage
  <2>2. h = ic_wait(r, m.from, com)
    BY <1>2 DEF ic_handle
  <2> QED BY <1>1, <2>1, <2>2 DEF ic_wait, IcState
<1>3. CASE m.kind = "cancel"
  <2>1. h = ic_cancel(r)
    BY <1>3 DEF ic_handle
  <2> QED BY <2>1 DEF ic_cancel, IcState
<1>4. CASE m.kind = "remove"
  <2>1. h = ic_remove(r, com, ok)
    BY <1>4 DEF ic_handle
  <2>2. [r EXCEPT !.hCom = com] \in IcState
    BY <1>1 DEF IcState
  <2>3. PICK q : q = Cancel_Card([r EXCEPT !.hCom = com], ok)
    OBVIOUS
  <2>4. /\ q \in IcState /\ q.has_task = r.has_task /\ q.owner = r.owner
        /\ q.need_hold_card = r.need_hold_card
    BY <2>2, <2>3, CardMoved DEF IcState
  <2>5. \/ h = r
        \/ ~r.has_task /\ h = [q EXCEPT !.need_hold_card = FALSE]
        \/ ~r.has_task /\ h = [r EXCEPT !.hCom = com]
    BY <2>1, <2>3 DEF ic_remove
  <2> QED BY <1>1, <2>4, <2>5 DEF IcState
<1> QED BY <1>2, <1>3, <1>4 DEF IcMessage

\* What the poll and the time make of it: the task is over or not, and one result is
\* posted if it is.
LEMMA Polled ==
  ASSUME NEW r \in IcState, NEW ok, NEW p \in ic_read(r, ok),
         NEW t \in ic_timeout(p, ok)
  PROVE  /\ t.r \in IcState /\ t.r.owner = r.owner
         /\ t.r.has_task => r.has_task /\ t.posts = 0 /\ t.r.need_hold_card = r.need_hold_card
         /\ ~t.r.has_task /\ r.has_task => t.posts = 1 /\ (t.r.need_hold_card => t.why = "data")
         /\ ~r.has_task => t.posts = 0 /\ t.r = r /\ t.why = "none"
<1>1. /\ p.r \in IcState /\ p.r.owner = r.owner
      /\ p.r.has_task => p = Turn(r, 0, "none")
      /\ ~p.r.has_task /\ r.has_task => p.posts = 1 /\ (p.r.need_hold_card => p.why = "data")
      /\ ~r.has_task => p = Turn(r, 0, "none")
  <2>1. CASE p = Turn(r, 0, "none")
    BY <2>1 DEF Turn
  <2>2. CASE r.has_task /\ p = Turn([r EXCEPT !.has_task = FALSE], 1, "data")
    BY <2>2 DEF Turn, IcState
  <2>3. CASE /\ r.has_task
             /\ p = Turn([Cancel_Card(r, ok) EXCEPT !.has_task = FALSE, !.need_hold_card = FALSE],
                         1, "blank")
    <3>1. PICK q : q = Cancel_Card(r, ok)
      OBVIOUS
    <3>2. q \in IcState /\ q.owner = r.owner
      BY <3>1, CardMoved
    <3> QED BY <2>3, <3>1, <3>2 DEF Turn, IcState
  <2> QED BY <2>1, <2>2, <2>3 DEF ic_read
<1>2. CASE t = p
  BY <1>1, <1>2 DEF Turn
<1>3. CASE p.r.has_task /\ t = TimedOut(p, ok)
  <2>1. PICK q : q = Cancel_Card(p.r, ok)
    OBVIOUS
  <2>2. q \in IcState /\ q.owner = r.owner
    BY <1>1, <2>1, CardMoved
  <2>3. t = Turn([q EXCEPT !.has_task = FALSE, !.need_hold_card = FALSE], p.posts + 1, "timeout")
    BY <1>3, <2>1 DEF TimedOut
  <2>4. p.posts = 0 /\ r.has_task
    BY <1>1, <1>3 DEF Turn
  <2>5. /\ t.r = [q EXCEPT !.has_task = FALSE, !.need_hold_card = FALSE]
        /\ t.posts = 1
    BY <2>3, <2>4 DEF Turn
  <2>6. /\ t.r \in IcState /\ t.r.owner = r.owner
        /\ t.r.has_task = FALSE /\ t.r.need_hold_card = FALSE
    BY <2>2, <2>5 DEF IcState
  <2> QED BY <2>4, <2>5, <2>6
<1> QED BY <1>2, <1>3 DEF ic_timeout

\* What counting n more for one user does to the counts.
LEMMA Counted ==
  ASSUME NEW f \in [CardUser -> Nat], NEW c, NEW n \in Nat
  PROVE  /\ Plus(f, c, n) \in [CardUser -> Nat]
         /\ \A d \in CardUser : Plus(f, c, n)[d] = f[d] + (IF d = c THEN n ELSE 0)
<1>1. CASE n = 0
  BY <1>1 DEF Plus
<1>2. CASE n # 0
  <2>1. PICK g : g = [f EXCEPT ![c] = f[c] + n]
    OBVIOUS
  <2>2. Plus(f, c, n) = g
    BY <1>2, <2>1 DEF Plus
  <2>3. ASSUME NEW d \in CardUser PROVE g[d] = f[d] + (IF d = c THEN n ELSE 0) /\ g[d] \in Nat
    <3>1. f[d] \in Nat
      OBVIOUS
    <3> QED BY <2>1, <3>1
  <2>4. g \in [CardUser -> Nat]
    BY <2>1, <2>3
  <2> QED BY <2>2, <2>3, <2>4
<1> QED BY <1>1, <1>2

\* A turn of the loop of the card reader: a request begins or ends in it at most once.
LEMMA TurnKeeps ==
  ASSUME CardReaderInv, NEW r \in IcState, NEW ok, NEW begun \in BOOLEAN,
         begun <=> ~ic.has_task /\ r.has_task,
         ic.has_task => r.owner = ic.owner,
         ic_thread = "runs" /\ r.has_task => r.need_hold_card,
         r.need_hold_card /\ ~r.has_task => ic.need_hold_card,
         ic_turn(r, begun, ok), ic_thread = "runs", ic_thread' = ic_thread,
         ic_queue' \in Seq(IcMessage)
  PROVE  CardReaderInv'
<1>1. PICK p \in ic_read(r, ok) : \E t \in ic_timeout(p, ok) :
        LET dropped == ic.has_task /\ ~r.has_task
        IN /\ ic' = eject(t.r, ok)
           /\ started' = Plus(started, r.owner, IF begun THEN 1 ELSE 0)
           /\ results' = Plus(results, r.owner, t.posts)
           /\ cancelled' = Plus(cancelled, r.owner, IF dropped THEN 1 ELSE 0)
           /\ ic_kept' = IF t.r.has_task \/ ~t.r.need_hold_card THEN "none"
                         ELSE IF t.why = "data" THEN "read"
                         ELSE IF dropped THEN "cancel" ELSE ic_kept
  BY DEF ic_turn
<1>2. PICK t \in ic_timeout(p, ok) :
           /\ ic' = eject(t.r, ok)
           /\ started' = Plus(started, r.owner, IF begun THEN 1 ELSE 0)
           /\ results' = Plus(results, r.owner, t.posts)
           /\ cancelled' = Plus(cancelled, r.owner, IF ic.has_task /\ ~r.has_task THEN 1 ELSE 0)
           /\ ic_kept' = IF t.r.has_task \/ ~t.r.need_hold_card THEN "none"
                         ELSE IF t.why = "data" THEN "read"
                         ELSE IF ic.has_task /\ ~r.has_task THEN "cancel" ELSE ic_kept
  BY <1>1
<1>3. /\ t.r \in IcState /\ t.r.owner = r.owner
      /\ t.r.has_task => r.has_task /\ t.posts = 0 /\ t.r.need_hold_card = r.need_hold_card
      /\ ~t.r.has_task /\ r.has_task => t.posts = 1 /\ (t.r.need_hold_card => t.why = "data")
      /\ ~r.has_task => t.posts = 0 /\ t.r = r /\ t.why = "none"
  BY Polled
<1>4. /\ ic' \in IcState /\ ic'.has_task = t.r.has_task /\ ic'.owner = r.owner
      /\ ic'.need_hold_card = t.r.need_hold_card
  BY <1>2, <1>3, CardMoved DEF eject
<1>5. t.posts \in Nat
  BY <1>3 DEF IcState
<1>6. IcTypeOK'
  <2>1. started' \in [CardUser -> Nat] /\ results' \in [CardUser -> Nat] /\ cancelled' \in [CardUser -> Nat]
    BY <1>2, <1>5, Counted DEF CardReaderInv, IcTypeOK
  <2>2. ic_kept' \in {"none", "read", "cancel"}
    BY <1>2 DEF CardReaderInv, IcTypeOK
  <2> QED BY <1>4, <2>1, <2>2 DEF CardReaderInv, IcTypeOK
<1>7. WaitEndsOnce'
  <2> SUFFICES ASSUME NEW c \in CardUser
               PROVE  started'[c] = results'[c] + cancelled'[c]
                                      + (IF ic'.has_task /\ ic'.owner = c THEN 1 ELSE 0)
    BY DEF WaitEndsOnce
  <2>1. /\ started[c] = results[c] + cancelled[c] + (IF ic.has_task /\ ic.owner = c THEN 1 ELSE 0)
        /\ started[c] \in Nat /\ results[c] \in Nat /\ cancelled[c] \in Nat
    BY DEF CardReaderInv, WaitEndsOnce, IcTypeOK
  <2>6. /\ started \in [CardUser -> Nat] /\ results \in [CardUser -> Nat]
        /\ cancelled \in [CardUser -> Nat]
    BY DEF CardReaderInv, IcTypeOK
  <2>5. (IF begun THEN 1 ELSE 0) \in Nat /\ (IF ic.has_task /\ ~r.has_task THEN 1 ELSE 0) \in Nat
    OBVIOUS
  <2>2. started'[c] = started[c] + (IF c = r.owner THEN (IF begun THEN 1 ELSE 0) ELSE 0)
    BY <1>2, <2>5, <2>6, Counted
  <2>3. results'[c] = results[c] + (IF c = r.owner THEN t.posts ELSE 0)
    <3>1. PICK n : n = t.posts
      OBVIOUS
    <3>2. n \in Nat /\ results' = Plus(results, r.owner, n)
      BY <1>2, <1>5, <3>1
    <3> QED BY <2>6, <3>1, <3>2, Counted
  <2>4. cancelled'[c] = cancelled[c]
           + (IF c = r.owner THEN (IF ic.has_task /\ ~r.has_task THEN 1 ELSE 0) ELSE 0)
    BY <1>2, <2>5, <2>6, Counted
  <2> QED BY <1>3, <1>4, <2>1, <2>2, <2>3, <2>4 DEF IcState, CardReaderInv, IcTypeOK
<1>8. HeldForReason'
  <2>1. ic_thread # "ended" => IF ic.has_task THEN ic.need_hold_card
                               ELSE ic.need_hold_card <=> ic_kept # "none"
    BY DEF CardReaderInv, HeldForReason
  <2>2. CASE t.r.has_task
    BY <1>2, <1>3, <1>4, <2>2 DEF HeldForReason
  <2>3. CASE ~t.r.has_task
    BY <1>2, <1>3, <1>4, <2>1, <2>3 DEF HeldForReason, IcState
  <2> QED BY <2>2, <2>3
<1> QED BY <1>6, <1>7, <1>8 DEF CardReaderInv

\* Every step of the reader of chip cards keeps its invariant.
LEMMA IcStep == CardReaderInv /\ [IcNext]_icVars => CardReaderInv'
<1> SUFFICES ASSUME CardReaderInv, [IcNext]_icVars PROVE CardReaderInv'
  OBVIOUS
<1>1. ASSUME NEW m \in IcMessage, ic_message_handler(m) PROVE CardReaderInv'
  BY <1>1 DEF ic_message_handler, CardReaderInv, IcTypeOK, WaitEndsOnce, HeldForReason
<1>2. CASE ic_run_begins
  <2>1. ic_queue' \in Seq(IcMessage)
    BY <1>2 DEF ic_run_begins
  <2> QED
  BY <1>2, <2>1 DEF ic_run_begins, CardReaderInv, IcTypeOK, WaitEndsOnce, HeldForReason
<1>3. CASE insert_card
  <2>1. /\ ic' \in IcState /\ ic'.has_task = ic.has_task /\ ic'.owner = ic.owner
        /\ ic'.need_hold_card = ic.need_hold_card
    BY <1>3 DEF insert_card, CardReaderInv, IcTypeOK, IcState
  <2> QED
    BY <1>3, <2>1 DEF insert_card, CardReaderInv, IcTypeOK, WaitEndsOnce, HeldForReason
<1>4. ASSUME NEW ok, ic_take(ok) PROVE CardReaderInv'
  <2>9. PICK m : m = Head(ic_queue)
    OBVIOUS
  <2>8. PICK com \in Opened(ic) :
          ic_turn(ic_handle(ic, m, com, ok), ~ic.has_task /\ ic_handle(ic, m, com, ok).has_task, ok)
    BY <1>4, <2>9 DEF ic_take
  <2>1. PICK r : r = ic_handle(ic, m, com, ok)
    OBVIOUS
  <2>2. m \in IcMessage /\ ic_queue' \in Seq(IcMessage) /\ ic \in IcState
    BY <1>4, <2>9 DEF ic_take, CardReaderInv, IcTypeOK
  <2>4. ic_thread = "runs" /\ ic_thread' = ic_thread
    BY <1>4 DEF ic_take
  <2>3. /\ r \in IcState
        /\ ic.has_task => r.owner = ic.owner
        /\ r.has_task => r.need_hold_card
        /\ r.need_hold_card /\ ~r.has_task => ic.need_hold_card
    <3>1. com \in Opened(ic) /\ ic \in IcState
      BY <2>8, <2>2
    <3>2. ic.has_task => ic.need_hold_card
      BY <2>4 DEF CardReaderInv, HeldForReason
    <3> QED BY <2>1, <2>2, <3>1, <3>2, Handled
  <2>6. PICK begun \in BOOLEAN : begun = (~ic.has_task /\ r.has_task)
    OBVIOUS
  <2>7. ic_turn(r, begun, ok)
    BY <2>8, <2>1, <2>6
  <2> QED BY <2>2, <2>3, <2>4, <2>6, <2>7, TurnKeeps
<1>5. ASSUME NEW ok \in BOOLEAN, ic_idle(ok) PROVE CardReaderInv'
  <2>1. /\ ic_turn(ic, FALSE, ok) /\ ic_thread = "runs" /\ ic_thread' = ic_thread
        /\ ic \in IcState /\ ic_queue' \in Seq(IcMessage)
        /\ ic.has_task => ic.need_hold_card
    BY <1>5 DEF ic_idle, CardReaderInv, IcTypeOK, HeldForReason
  <2> QED BY <2>1, TurnKeeps
<1>6. CASE ic_exit
  <2>1. PICK ok \in BOOLEAN :
          ic' = [Cancel_Card(ic, ok) EXCEPT !.need_hold_card = FALSE,
                   !.hCom = IF ic.hCom = "none" THEN "none" ELSE "closed"]
    BY <1>6 DEF ic_exit
  <2>2. PICK q : q = Cancel_Card(ic, ok)
    OBVIOUS
  <2>3. q \in IcState /\ q.has_task = ic.has_task /\ q.owner = ic.owner
    BY <2>2, CardMoved DEF CardReaderInv, IcTypeOK
  <2>4. ic' \in IcState /\ ic'.has_task = ic.has_task /\ ic'.owner = ic.owner
    BY <2>1, <2>2, <2>3 DEF IcState
  <2> QED BY <1>6, <2>4 DEF ic_exit, CardReaderInv, IcTypeOK, WaitEndsOnce, HeldForReason
<1>7. CASE UNCHANGED icVars
  BY <1>7 DEF icVars, CardReaderInv, IcTypeOK, WaitEndsOnce, HeldForReason
<1> QED BY <1>1, <1>2, <1>3, <1>4, <1>5, <1>6, <1>7 DEF IcNext

LEMMA IcStart == IcInit => CardReaderInv
<1> SUFFICES ASSUME IcInit PROVE CardReaderInv
  OBVIOUS
<1>1. IcTypeOK
  BY DEF IcInit, IcTypeOK, IcState
<1>2. WaitEndsOnce /\ HeldForReason
  BY DEF IcInit, WaitEndsOnce, HeldForReason
<1> QED BY <1>1, <1>2 DEF CardReaderInv

-------------------------------------------------------------------------------
\* What the status of a player says of its text.
StatusOfText ==
  /\ isstop = "reset" => text_ = 0
  /\ isstop = "wait_data" => t_text \in {0, text_}
  /\ isstop = "wait_finish" => text_ \in synthesised \cup {0}
  /\ isstop \in {"wait_data", "wait_finish"} => text_ \notin discarded

\* Texts are numbered as they are started, and one that T has still to take is new.
TextsNumbered ==
  /\ h_starts => texts < MaxSpoken
  /\ text_ <= texts /\ next_text <= texts /\ \A n \in discarded : n <= texts
  /\ next_text # 0 => text_ = 0 /\ next_text \notin discarded

PlayerIInv == PlayerTypeOK /\ ReadOverIsTrue /\ StatusOfText /\ TextsNumbered

\* A message for the thread of the player is one of the six.
LEMMA Pushed ==
  ASSUME NEW S, NEW q \in Seq(S), NEW e \in S
  PROVE  Append(q, e) \in Seq(S)
OBVIOUS

Flags == /\ isAlreadyReset \in BOOLEAN /\ m_all_finish \in BOOLEAN /\ late_end \in BOOLEAN
         /\ p_stop \in BOOLEAN /\ h_starts \in BOOLEAN

Numbers == /\ text_ \in TextNo /\ t_text \in TextNo /\ next_text \in TextNo /\ texts \in TextNo
           /\ synthesised \subseteq TextNo \ {0} /\ discarded \subseteq TextNo \ {0}
           /\ told \subseteq TextNo \ {0}

States == /\ isstop \in {"reset", "stop", "wait_data", "wait_finish"}
          /\ m_cur_state \in {"ide", "ready", "playing", "pause"}
          /\ m_media_cache \in Nat /\ BuffersQueued \in 0..(MAX_BUFFER_COUNT - 1)
          /\ pq \in Seq({"data", "over", "data_over", "stop", "pause", "resume"})
          /\ p_at \in {"getq", "ends", "notifies"}
          /\ h_doing \in {"free", "stopping", "stopped", "pausing"}

\* The type invariant of the player in three parts.
LEMMA PlayerTypes == PlayerTypeOK <=> Flags /\ Numbers /\ States
BY DEF PlayerTypeOK, Flags, Numbers, States

\* The thread of the module: start, cancel, pause and resume.
LEMMA HThread ==
  ASSUME PlayerIInv,
         \/ StartTTS_player \/ Cancel_player \/ H_stopped
         \/ \E m \in {"pause", "resume"} : H_pauses(m)
  PROVE  PlayerIInv'
<1> USE PlayerAssumption
<1> DEFINE M == {"data", "over", "data_over", "stop", "pause", "resume"}
<1>1. ASSUME discard(TRUE) \/ discard(FALSE) PROVE pq' \in Seq(M)
  BY <1>1, Pushed DEF discard, PlayerIInv, PlayerTypeOK
<1>2. CASE StartTTS_player
  <2>1. PlayerTypeOK'
    BY <1>1, <1>2 DEF StartTTS_player, discard, sound, P_, T_, bounds, warp, PlayerIInv,
       PlayerTypeOK, TextNo
  <2>2. ReadOverIsTrue' /\ StatusOfText' /\ TextsNumbered'
    BY <1>2 DEF StartTTS_player, discard, sound, P_, T_, bounds, warp, PlayerIInv, PlayerTypeOK,
       TextNo,
                ReadOverIsTrue, StatusOfText, TextsNumbered
  <2> QED BY <2>1, <2>2 DEF PlayerIInv
<1>3. CASE Cancel_player
  <2>1. PlayerTypeOK'
    BY <1>1, <1>3 DEF Cancel_player, discard, sound, P_, T_, bounds, warp, PlayerIInv,
       PlayerTypeOK, TextNo
  <2>2. ReadOverIsTrue' /\ StatusOfText' /\ TextsNumbered'
    BY <1>3 DEF Cancel_player, discard, sound, P_, T_, bounds, warp, PlayerIInv, PlayerTypeOK,
       TextNo,
                ReadOverIsTrue, StatusOfText, TextsNumbered
  <2> QED BY <2>1, <2>2 DEF PlayerIInv
<1>4. CASE H_stopped
  <2>1. PlayerTypeOK'
    <3>1. Flags'
      BY <1>4 DEF H_stopped, sound, P_, T_, ghosts, warp, PlayerIInv, PlayerTypeOK, Flags
    <3>2. Numbers'
      <4>1. Numbers /\ (h_starts => texts + 1 \in TextNo)
        BY DEF PlayerIInv, PlayerTypeOK, Numbers, TextNo, TextsNumbered
      <4>2. text_' \in TextNo /\ t_text' \in TextNo
        BY <1>4, <4>1 DEF H_stopped, T_, warp, Numbers, TextNo
      <4>3. next_text' \in TextNo /\ texts' \in TextNo
        BY <1>4, <4>1 DEF H_stopped, Numbers, TextNo
      <4>4. /\ synthesised' \subseteq TextNo \ {0} /\ discarded' \subseteq TextNo \ {0}
            /\ told' \subseteq TextNo \ {0}
        BY <1>4, <4>1 DEF H_stopped, ghosts, Numbers
      <4> QED BY <4>2, <4>3, <4>4 DEF Numbers, TextNo
    <3>3. States'
      BY <1>4 DEF H_stopped, sound, P_, T_, ghosts, warp, PlayerIInv, PlayerTypeOK, States
    <3> QED BY <3>1, <3>2, <3>3 DEF PlayerTypeOK, Flags, Numbers, States
  <2>2. ReadOverIsTrue' /\ StatusOfText' /\ TextsNumbered'
    BY <1>4 DEF H_stopped, sound, P_, T_, ghosts, warp, PlayerIInv, PlayerTypeOK, TextNo,
                ReadOverIsTrue, StatusOfText, TextsNumbered
  <2> QED BY <2>1, <2>2 DEF PlayerIInv
<1>5. ASSUME NEW m \in {"pause", "resume"}, H_pauses(m) PROVE PlayerIInv'
  <2>1. pq' \in Seq(M)
    BY <1>5, Pushed DEF H_pauses, PlayerIInv, PlayerTypeOK
  <2> QED
    BY <1>5, <2>1 DEF H_pauses, sound, P_, T_, ghosts, warp, PlayerIInv, PlayerTypeOK,
                ReadOverIsTrue, StatusOfText, TextsNumbered
<1> QED BY <1>2, <1>3, <1>4, <1>5

\* The thread of the synthesis takes a text, passes its sound on and announces its end.
LEMMA TThread ==
  ASSUME PlayerIInv, T_takes_text \/ T_takes_waiting \/ push_data \/ done
  PROVE  PlayerIInv'
<1> USE PlayerAssumption
<1> DEFINE M == {"data", "over", "data_over", "stop", "pause", "resume"}
<1>1. ASSUME NEW m \in TextNo, T_works(m), m \notin discarded, m <= texts', texts <= texts',
             texts' \in TextNo, next_text' = 0
      PROVE  PlayerIInv'
  <2>1. PlayerTypeOK'
    BY <1>1 DEF T_works, sound, P_, H_, ghosts, PlayerIInv, PlayerTypeOK, TextNo
  <2>2. ReadOverIsTrue' /\ StatusOfText' /\ TextsNumbered'
    BY <1>1 DEF T_works, sound, P_, H_, ghosts, PlayerIInv, PlayerTypeOK, TextNo,
                ReadOverIsTrue, StatusOfText, TextsNumbered
  <2> QED BY <2>1, <2>2 DEF PlayerIInv
<1>2. CASE T_takes_text
  BY <1>1, <1>2 DEF T_takes_text, PlayerIInv, PlayerTypeOK, TextNo, TextsNumbered
<1>3. CASE T_takes_waiting
  BY <1>1, <1>3 DEF T_takes_waiting, PlayerIInv, PlayerTypeOK, TextNo, TextsNumbered
<1>4. CASE push_data
  <2>1. pq' \in Seq(M)
    BY <1>4, Pushed DEF push_data, PlayerIInv, PlayerTypeOK
  <2>2. PlayerTypeOK'
    <3>1. Flags'
      BY <1>4 DEF push_data, P_, H_, ghosts, bounds, warp, sound, PlayerIInv, PlayerTypeOK, Flags
    <3>2. Numbers'
      <4>1. Numbers /\ 0 \in TextNo
        BY DEF PlayerIInv, PlayerTypeOK, Numbers, TextNo
      <4>2. text_' \in TextNo /\ t_text' \in TextNo
        BY <1>4, <4>1 DEF push_data, warp, Numbers
      <4>3. next_text' \in TextNo /\ texts' \in TextNo
        BY <1>4, <4>1 DEF push_data, bounds, Numbers
      <4>4. /\ synthesised' \subseteq TextNo \ {0} /\ discarded' \subseteq TextNo \ {0}
            /\ told' \subseteq TextNo \ {0}
        BY <1>4, <4>1 DEF push_data, ghosts, Numbers
      <4> QED BY <4>2, <4>3, <4>4 DEF Numbers, TextNo
    <3>3. States'
      BY <1>4, <2>1 DEF push_data, P_, H_, ghosts, bounds, warp, sound, PlayerIInv,
         PlayerTypeOK, States
    <3> QED BY <3>1, <3>2, <3>3 DEF PlayerTypeOK, Flags, Numbers, States
  <2>3. ReadOverIsTrue' /\ StatusOfText' /\ TextsNumbered'
    BY <1>4 DEF push_data, P_, H_, ghosts, bounds, warp, sound, PlayerIInv, PlayerTypeOK, TextNo,
                ReadOverIsTrue, StatusOfText, TextsNumbered
  <2> QED BY <2>2, <2>3 DEF PlayerIInv
<1>5. CASE done
  <2>1. pq' \in Seq(M)
    BY <1>5, Pushed DEF done, PlayerIInv, PlayerTypeOK
  <2>2. PlayerTypeOK'
    <3>1. Flags'
      BY <1>5 DEF done, P_, H_, bounds, sound, PlayerIInv, PlayerTypeOK, Flags
    <3>2. Numbers'
      <4>1. /\ text_' = text_ /\ next_text' = next_text /\ texts' = texts /\ told' = told
            /\ discarded' = discarded /\ t_text' = 0 /\ t_text # 0
            /\ synthesised' \in {synthesised, synthesised \cup {t_text}}
        BY <1>5 DEF done, bounds
      <4>2. 0 \in TextNo
        BY DEF TextNo
      <4> QED BY <4>1, <4>2 DEF PlayerIInv, PlayerTypeOK, Numbers
    <3>3. States'
      BY <1>5, <2>1 DEF done, P_, H_, bounds, sound, PlayerIInv, PlayerTypeOK, States
    <3> QED BY <3>1, <3>2, <3>3 DEF PlayerTypeOK, Flags, Numbers, States
  <2>3. ReadOverIsTrue' /\ StatusOfText' /\ TextsNumbered'
    BY <1>5 DEF done, P_, H_, bounds, sound, PlayerIInv, PlayerTypeOK, TextNo,
                ReadOverIsTrue, StatusOfText, TextsNumbered
  <2> QED BY <2>2, <2>3 DEF PlayerIInv
<1> QED BY <1>2, <1>3, <1>4, <1>5

\* The sound that P moves to the device fits.
LEMMA Fits ==
  ASSUME PlayerTypeOK
  PROVE  /\ m_media_cache - Submitted \in Nat
         /\ BuffersQueued + Submitted \in 0..(MAX_BUFFER_COUNT - 1)
BY PlayerAssumption DEF PlayerTypeOK, Submitted, Full

\* The thread of the player and the device: status, buffers and the end of a text.
LEMMA PThread ==
  ASSUME PlayerIInv, P_next \/ OnBufferEnd
  PROVE  PlayerIInv'
<1> USE PlayerAssumption
<1> DEFINE M == {"data", "over", "data_over", "stop", "pause", "resume"}
           Texts == UNCHANGED <<isstop, text_, t_text, next_text, texts, synthesised, discarded, h_starts>>
<1>1. ASSUME Flags', States', told' = told, Texts PROVE PlayerIInv'
  BY <1>1 DEF PlayerIInv, PlayerTypeOK, Flags, States, ReadOverIsTrue, StatusOfText, TextsNumbered
<1>2. ASSUME NEW m, P_takes(m) PROVE pq' \in Seq(M)
  BY <1>2 DEF P_takes, PlayerIInv, PlayerTypeOK
<1>3. m_media_cache - Submitted \in Nat /\ BuffersQueued + Submitted \in 0..(MAX_BUFFER_COUNT - 1)
  BY Fits DEF PlayerIInv
<1>4. CASE P_data
  <2>1. Flags' /\ told' = told /\ Texts
    BY <1>4 DEF P_data, warp, P_, H_, T_, ghosts, bounds, PlayerIInv, PlayerTypeOK, Flags
  <2>2. States'
    BY <1>2, <1>3, <1>4 DEF P_data, TrySubmitAudioData, warp, P_, H_, PlayerIInv, PlayerTypeOK,
       States
  <2> QED BY <1>1, <2>1, <2>2
<1>5. CASE P_over
  <2>1. Flags' /\ told' = told /\ Texts
    BY <1>5 DEF P_over, warp, H_, T_, ghosts, bounds, PlayerIInv, PlayerTypeOK, Flags
  <2>2. States'
    BY <1>2, <1>3, <1>5 DEF P_over, P_takes, TrySubmitAudioData, warp, H_, PlayerIInv,
       PlayerTypeOK, States
  <2> QED BY <1>1, <2>1, <2>2
<1>6. CASE P_data_over
  <2>1. Flags' /\ told' = told /\ Texts
    <3>1. m_all_finish' = TRUE /\ late_end' \in BOOLEAN
      BY <1>6 DEF P_data_over
    <3> QED BY <1>6, <3>1 DEF P_data_over, P_, warp, H_, T_, ghosts, bounds, PlayerIInv,
               PlayerTypeOK, Flags
  <2>2. States'
    BY <1>2, <1>6 DEF P_data_over, P_, warp, H_, PlayerIInv, PlayerTypeOK, States
  <2> QED BY <1>1, <2>1, <2>2
<1>7. CASE P_stop
  <2>1. Flags' /\ told' = told /\ Texts
    BY <1>7 DEF P_stop, sound, warp, H_, T_, ghosts, bounds, PlayerIInv, PlayerTypeOK, Flags
  <2>2. States'
    BY <1>2, <1>7 DEF P_stop, sound, warp, H_, PlayerIInv, PlayerTypeOK, States
  <2> QED BY <1>1, <2>1, <2>2
<1>8. CASE P_pause
  <2>1. Flags' /\ told' = told /\ Texts
    BY <1>8 DEF P_pause, P_, warp, T_, ghosts, bounds, PlayerIInv, PlayerTypeOK, Flags
  <2>2. States'
    BY <1>2, <1>8 DEF P_pause, P_, warp, PlayerIInv, PlayerTypeOK, States
  <2> QED BY <1>1, <2>1, <2>2
<1>9. CASE P_ends
  <2>1. pq' \in Seq(M)
    <3>1. PICK late \in 0..BuffersQueued : pq' = pq \o [i \in 1..late |-> "over"]
      BY <1>9 DEF P_ends
    <3>2. [i \in 1..late |-> "over"] \in Seq(M)
      BY <3>1 DEF PlayerIInv, PlayerTypeOK
    <3>3. pq \in Seq(M)
      BY DEF PlayerIInv, PlayerTypeOK
    <3> HIDE DEF M
    <3> QED BY <3>1, <3>2, <3>3, ConcatProperties
  <2>2. Flags' /\ told' = told /\ Texts
    BY <1>9 DEF P_ends, warp, T_, ghosts, bounds, PlayerIInv, PlayerTypeOK, Flags
  <2>3. States'
    BY <1>9, <2>1 DEF P_ends, warp, PlayerIInv, PlayerTypeOK, States
  <2> QED BY <1>1, <2>2, <2>3
<1>10. CASE onFinsih
  BY <1>10 DEF onFinsih, H_, warp, T_, sound, bounds, PlayerIInv, PlayerTypeOK, ReadOverIsTrue,
                     StatusOfText, TextsNumbered
<1>11. CASE OnBufferEnd
  <2>1. pq' \in Seq(M)
    BY <1>11, Pushed DEF OnBufferEnd, PlayerIInv, PlayerTypeOK
  <2>2. Flags' /\ told' = told /\ Texts
    BY <1>11 DEF OnBufferEnd, P_, H_, warp, T_, ghosts, bounds, PlayerIInv, PlayerTypeOK, Flags
  <2>3. States'
    BY <1>11, <2>1 DEF OnBufferEnd, P_, H_, warp, PlayerIInv, PlayerTypeOK, States
  <2> QED BY <1>1, <2>2, <2>3
<1> QED BY <1>4, <1>5, <1>6, <1>7, <1>8, <1>9, <1>10, <1>11 DEF P_next

\* Every step of the player keeps its invariant.
LEMMA PlayerStep == PlayerIInv /\ [PlayerNext]_playerVars => PlayerIInv'
<1> SUFFICES ASSUME PlayerIInv, [PlayerNext]_playerVars PROVE PlayerIInv'
  OBVIOUS
<1>1. CASE PlayerNext
  BY <1>1, HThread, TThread, PThread DEF PlayerNext
<1>2. CASE UNCHANGED playerVars
  BY <1>2 DEF playerVars, PlayerIInv, PlayerTypeOK, ReadOverIsTrue, StatusOfText, TextsNumbered
<1> QED BY <1>1, <1>2

LEMMA PlayerStart == PlayerInit => PlayerIInv
<1> SUFFICES ASSUME PlayerInit PROVE PlayerIInv
  OBVIOUS
<1>1. Flags
  BY DEF PlayerInit, Flags
<1>2. Numbers
  BY PlayerAssumption DEF PlayerInit, Numbers, TextNo
<1>3. States
  BY PlayerAssumption DEF PlayerInit, States
<1>4. ReadOverIsTrue /\ StatusOfText /\ TextsNumbered
  BY PlayerAssumption DEF PlayerInit, ReadOverIsTrue, StatusOfText, TextsNumbered
<1> QED BY <1>1, <1>2, <1>3, <1>4, PlayerTypes DEF PlayerIInv

-------------------------------------------------------------------------------
\* Where T is says whether it has a text.
Working == {"check", "request", "check_again", "data", "done"}
TextInHand ==
  /\ t_at \in {"ended", "remain"} => ~m_tts_context
  /\ t_at \in Working => m_tts_context

\* Every channel in use has a player; when T has ended it is discarded.
PlayersThere ==
  /\ \A i \in DOMAIN m_channel_list : m_player[m_channel_list[i].channels] # "none"
  /\ m_active_channel # NoChannel =>
       m_player[m_active_channel] # "none" /\ (t_at = "ended" => m_player[m_active_channel] = "stop")

\* A number belongs to one text.
NumbersDistinct ==
  /\ Len(m_newmessage) <= 1
  /\ \A i \in DOMAIN m_channel_list, j \in DOMAIN m_newmessage : m_channel_list[i].id # m_newmessage[j].id
  /\ \A i, j \in DOMAIN m_channel_list : m_channel_list[i].id = m_channel_list[j].id => i = j
  /\ IdsOf(m_channel_list) \cup IdsOf(m_newmessage) \subseteq DOMAIN fate
  /\ m_tts_context => task.id \in DOMAIN fate

Spoken ==
  /\ OneTextPerChannel /\ SpeaksOnActive /\ EveryTextAccounted /\ BlockedForReason
  /\ TextInHand /\ PlayersThere /\ NumbersDistinct

TtsIInv == TtsTypeOK /\ (~undefined => Spoken)

\* What setting the fate of some texts does to the others.
LEMMA FatesIs ==
  ASSUME fate \in Seq(Fate), NEW ids, NEW f \in Fate
  PROVE  /\ Fates(ids, f) \in Seq(Fate) /\ Len(Fates(ids, f)) = Len(fate)
         /\ DOMAIN Fates(ids, f) = DOMAIN fate
         /\ \A i \in DOMAIN fate : Fates(ids, f)[i] = IF i \in ids THEN f ELSE fate[i]
<1> HIDE DEF Fate
<1>1. DOMAIN fate = 1..Len(fate) /\ Len(fate) \in Nat /\ \A i \in 1..Len(fate) : fate[i] \in Fate
  OBVIOUS
<1>2. Fates(ids, f) = [i \in 1..Len(fate) |-> IF i \in ids THEN f ELSE fate[i]]
  BY <1>1 DEF Fates
<1>3. Fates(ids, f) \in [1..Len(fate) -> Fate]
  BY <1>1, <1>2
<1>4. Fates(ids, f) \in Seq(Fate)
  BY <1>1, <1>3
<1> QED BY <1>1, <1>2, <1>4

\* A list of texts holds texts, with their channels and numbers.
LEMMA TextsTyped ==
  ASSUME NEW list \in Seq(Text)
  PROVE  \A i \in DOMAIN list : list[i].channels \in Channel /\ list[i].id \in TextId
<1>1. ASSUME NEW i \in DOMAIN list PROVE list[i] \in Text
  <2> HIDE DEF Text
  <2> QED OBVIOUS
<1> QED BY <1>1 DEF Text

\* clean_old_ttsmessage leaves the texts of the other channels, each once.
LEMMA WithoutIs ==
  ASSUME NEW list \in Seq(Text), NEW c, NEW rest \in Without(list, c)
  PROVE  /\ rest \in Seq(Text)
         /\ \A k \in DOMAIN rest : \E i \in DOMAIN list : list[i].channels # c /\ rest[k] = list[i]
         /\ \A i \in DOMAIN list : list[i].channels # c => \E k \in DOMAIN rest : rest[k] = list[i]
         /\ (\A i, j \in DOMAIN list : list[i].channels = list[j].channels => i = j)
              => \A i, j \in DOMAIN rest : rest[i].channels = rest[j].channels => i = j
         /\ (\A i, j \in DOMAIN list : list[i].id = list[j].id => i = j)
              => \A i, j \in DOMAIN rest : rest[i].id = rest[j].id => i = j
<1> HIDE DEF Text
<1> DEFINE kept == {i \in DOMAIN list : list[i].channels # c}
           n == Cardinality(kept)
<1>1. PICK f \in [1..n -> kept] :
        /\ \A k, l \in DOMAIN f : k < l => f[k] < f[l]
        /\ rest = [k \in DOMAIN f |-> list[f[k]]]
  BY DEF Without
<1>2. IsFiniteSet(kept) /\ n \in Nat /\ kept \subseteq Nat
  <2>1. DOMAIN list = 1..Len(list) /\ Len(list) \in Nat
    BY LenProperties
  <2>2. IsFiniteSet(DOMAIN list)
    BY <2>1, FS_Interval
  <2>3. IsFiniteSet(kept)
    BY <2>2, FS_Subset
  <2>4. n \in Nat
    <3> HIDE DEF kept
    <3> QED BY <2>3, FS_CardinalityType
  <2> QED BY <2>1, <2>3, <2>4
<1>3. DOMAIN f = 1..n /\ DOMAIN rest = 1..n /\ \A k \in 1..n : f[k] \in kept /\ rest[k] = list[f[k]]
  BY <1>1
<1>4. \A k, l \in 1..n : f[k] = f[l] => k = l
  <2> SUFFICES ASSUME NEW k \in 1..n, NEW l \in 1..n, k # l PROVE f[k] # f[l]
    OBVIOUS
  <2>1. f[k] \in Nat /\ f[l] \in Nat
    BY <1>2, <1>3
  <2>2. k < l \/ l < k
    BY <1>2
  <2> QED BY <1>1, <1>3, <2>1, <2>2
<1>5. \A i \in kept : \E k \in 1..n : f[k] = i
  <2> HIDE DEF kept
  <2>1. IsFiniteSet(1..n) /\ Cardinality(1..n) = n
    BY <1>2, FS_Interval
  <2>2. f \in Injection(1..n, kept)
    BY <1>1, <1>4 DEF Injection, IsInjective
  <2>3. f \in Surjection(1..n, kept)
    <3> HIDE DEF n
    <3>1. Cardinality(1..n) = Cardinality(kept)
      BY <2>1 DEF n
    <3> QED BY <1>2, <2>1, <2>2, <3>1, FS_Injection
  <2> QED BY <2>3 DEF Surjection
<1>6. rest \in Seq(Text)
  <2>1. \A k \in 1..n : list[f[k]] \in Text
    BY <1>3
  <2>2. rest \in [1..n -> Text]
    BY <1>1, <1>3, <2>1
  <2> HIDE DEF n
  <2> QED BY <1>2, <2>2
<1> HIDE DEF n
<1>7. \A k \in DOMAIN rest : \E i \in DOMAIN list : list[i].channels # c /\ rest[k] = list[i]
  BY <1>3
<1>8. \A i \in DOMAIN list : list[i].channels # c => \E k \in DOMAIN rest : rest[k] = list[i]
  BY <1>3, <1>5
<1>9. ASSUME \A i, j \in DOMAIN list : list[i].channels = list[j].channels => i = j
      PROVE  \A i, j \in DOMAIN rest : rest[i].channels = rest[j].channels => i = j
  BY <1>3, <1>4, <1>9
<1>10. ASSUME \A i, j \in DOMAIN list : list[i].id = list[j].id => i = j
       PROVE  \A i, j \in DOMAIN rest : rest[i].id = rest[j].id => i = j
  BY <1>3, <1>4, <1>10
<1> QED BY <1>6, <1>7, <1>8, <1>9, <1>10

\* Steps of H that touch neither texts nor players, and those of T that only go on.
LEMMA TtsGoesOn ==
  ASSUME TtsIInv, ~undefined,
         UNCHANGED <<m_player, m_newmessage, m_channel_list, m_active_channel, task, m_tts_context, fate>>,
         t_at' = t_at \/ (m_tts_context /\ t_at' \in Working \cup {"wait"})
  PROVE  Spoken'
<1>1. Spoken
  BY DEF TtsIInv
<1>2. OneTextPerChannel' /\ SpeaksOnActive' /\ EveryTextAccounted' /\ NumbersDistinct'
  BY <1>1 DEF Spoken, OneTextPerChannel, SpeaksOnActive, EveryTextAccounted, NumbersDistinct
<1>3. BlockedForReason' /\ TextInHand' /\ PlayersThere'
  BY <1>1 DEF Spoken, BlockedForReason, Blocked, TextInHand, Working, PlayersThere
<1> QED BY <1>2, <1>3 DEF Spoken

\* A text of T's ends.
LEMMA TextEnded ==
  ASSUME TtsIInv, ~undefined, t_at \in Working, NEW f \in {"spoken", "cut", "failed"}, Ends(f),
         UNCHANGED <<m_newmessage, m_channel_list, m_active_channel, task>>,
         \A c \in Channel : m_player'[c] = "none" <=> m_player[c] = "none"
  PROVE  Spoken' /\ fate' \in Seq(Fate) /\ Len(fate') <= MaxSpeak
<1>1. Spoken /\ TtsTypeOK
  BY DEF TtsIInv
<1>2. /\ m_tts_context = TRUE /\ m_tts_context' = FALSE /\ t_at' = "remain"
      /\ fate' = Fates({task.id}, f)
  BY <1>1 DEF Spoken, TextInHand, Ends, TtsTypeOK
<1>3. /\ fate' \in Seq(Fate) /\ Len(fate') = Len(fate) /\ DOMAIN fate' = DOMAIN fate
      /\ \A i \in DOMAIN fate : fate'[i] = IF i = task.id THEN f ELSE fate[i]
  BY <1>1, <1>2, FatesIs DEF TtsTypeOK, Fate
<1>4. OneTextPerChannel' /\ SpeaksOnActive' /\ NumbersDistinct'
  BY <1>1, <1>2, <1>3 DEF Spoken, OneTextPerChannel, SpeaksOnActive, NumbersDistinct
<1>5. EveryTextAccounted'
  <2>1. /\ IdsOf(m_newmessage)' = IdsOf(m_newmessage)
        /\ IdsOf(m_channel_list)' = IdsOf(m_channel_list)
    BY DEF IdsOf
  <2>2. \A i \in DOMAIN fate :
          /\ fate[i] = "waits" <=> i \in IdsOf(m_newmessage) \cup IdsOf(m_channel_list)
          /\ fate[i] = "taken" <=> i = task.id
    BY <1>1, <1>2 DEF Spoken, EveryTextAccounted
  <2> QED BY <1>2, <1>3, <2>1, <2>2 DEF EveryTextAccounted
<1>6. BlockedForReason' /\ TextInHand'
  BY <1>2 DEF BlockedForReason, Blocked, TextInHand, Working
<1>7. PlayersThere'
  <2>1. \A i \in DOMAIN m_channel_list : m_channel_list[i].channels \in Channel
    BY <1>1, TextsTyped DEF TtsTypeOK
  <2> QED BY <1>1, <1>2, <2>1 DEF Spoken, PlayersThere, TtsTypeOK
<1> QED BY <1>1, <1>3, <1>4, <1>5, <1>6, <1>7 DEF Spoken, TtsTypeOK

\* The thread of the synthesis leaves its loop.
LEMMA TExitKeeps ==
  ASSUME TtsIInv, T_exit
  PROVE  TtsIInv'
<1>1. Spoken /\ TtsTypeOK /\ undefined = FALSE /\ undefined' = undefined
  BY DEF TtsIInv, T_exit, At, T_leaves, TtsTypeOK
<1>2. /\ fate' \in Seq(Fate) /\ Len(fate') = Len(fate) /\ DOMAIN fate' = DOMAIN fate
      /\ \A i \in DOMAIN fate : fate'[i] = IF m_tts_context /\ i = task.id THEN "cut" ELSE fate[i]
  <2>1. CASE m_tts_context
    BY <1>1, <2>1, FatesIs DEF T_exit, TtsTypeOK, Fate
  <2>2. CASE ~m_tts_context
    BY <1>1, <2>2 DEF T_exit, TtsTypeOK
  <2> QED BY <2>1, <2>2
<1>3. /\ m_newmessage' = m_newmessage /\ m_channel_list' = m_channel_list /\ task' = task
      /\ m_active_channel' = m_active_channel /\ m_tts_context' = FALSE /\ t_at' = "ended"
      /\ m_player' = [c \in Channel |-> IF m_player[c] = "none" THEN "none" ELSE "stop"]
      /\ request_state' = request_state /\ m_init' = m_init /\ h_at' = h_at /\ h_channel' = h_channel
  BY DEF T_exit, T_leaves
<1>4. TtsTypeOK'
  BY <1>1, <1>2, <1>3 DEF TtsTypeOK
<1>5. OneTextPerChannel' /\ SpeaksOnActive' /\ NumbersDistinct'
  BY <1>1, <1>2, <1>3 DEF Spoken, OneTextPerChannel, SpeaksOnActive, NumbersDistinct
<1>6. EveryTextAccounted'
  <2>1. /\ IdsOf(m_newmessage)' = IdsOf(m_newmessage)
        /\ IdsOf(m_channel_list)' = IdsOf(m_channel_list)
    BY <1>3 DEF IdsOf
  <2>2. \A i \in DOMAIN fate :
          /\ fate[i] = "waits" <=> i \in IdsOf(m_newmessage) \cup IdsOf(m_channel_list)
          /\ fate[i] = "taken" <=> m_tts_context /\ task.id = i
    BY <1>1, <1>2 DEF Spoken, EveryTextAccounted
  <2> QED BY <1>2, <1>3, <2>1, <2>2 DEF EveryTextAccounted
<1>7. PlayersThere' /\ TextInHand' /\ BlockedForReason'
  <2>1. \A i \in DOMAIN m_channel_list : m_channel_list[i].channels \in Channel
    BY <1>1, TextsTyped DEF TtsTypeOK
  <2>2. m_active_channel \in Channel \cup {NoChannel}
    BY <1>1 DEF TtsTypeOK
  <2>3. PlayersThere'
    BY <1>1, <1>3, <2>1, <2>2 DEF Spoken, PlayersThere
  <2>4. TextInHand'
    BY <1>3 DEF TextInHand, Working
  <2> QED BY <1>3, <2>3, <2>4 DEF PlayersThere, BlockedForReason, Blocked
<1> QED BY <1>4, <1>5, <1>6, <1>7 DEF TtsIInv, Spoken

\* The thread takes the text handed to it; the work on it may fail.
LEMMA TTakesKeeps ==
  ASSUME TtsIInv, T_takes
  PROVE  TtsIInv'
<1>1. Spoken /\ TtsTypeOK /\ undefined = FALSE /\ undefined' = undefined
  BY DEF TtsIInv, T_takes, At, T_leaves, TtsTypeOK
<1>2. PICK m : m = m_newmessage[1]
  OBVIOUS
<1>3. /\ m \in Text /\ m_newmessage = <<m>> /\ IdsOf(m_newmessage) = {m.id}
      /\ m.channels = m_active_channel /\ m.id \in DOMAIN fate /\ fate[m.id] = "waits"
      /\ \A i \in DOMAIN m_channel_list : m_channel_list[i].id # m.id
  <2>1. m_newmessage \in Seq(Text) /\ m_newmessage # <<>> /\ Len(m_newmessage) <= 1
    BY <1>1 DEF T_takes, TtsTypeOK, Spoken, NumbersDistinct
  <2>2. m \in Text /\ m_newmessage = <<m>>
    <3> HIDE DEF Text
    <3>4. Len(m_newmessage) \in Nat \ {0}
      BY <2>1, EmptySeq, Zenon
    <3>5. \A l \in Nat \ {0} : l <= 1 => l = 1
      OBVIOUS
    <3>1. Len(m_newmessage) = 1
      BY <2>1, <3>4, <3>5, Zenon
    <3>2. m_newmessage[1] \in Text /\ <<m>> \in Seq(Text) /\ Len(<<m>>) = 1 /\ <<m>>[1] = m
      BY <1>2, <2>1, <3>1
    <3>3. \A i \in 1..1 : m_newmessage[i] = <<m>>[i]
      BY <1>2, <3>2
    <3> QED BY <1>2, <2>1, <3>1, <3>2, <3>3, SeqEqual
  <2>3. IdsOf(m_newmessage) = {m.id}
    BY <2>2 DEF IdsOf
  <2>4. m.id \in DOMAIN fate /\ m.channels = m_active_channel
    BY <1>1, <1>2, <2>1, <2>3 DEF Spoken, NumbersDistinct, SpeaksOnActive
  <2>5. fate[m.id] = "waits"
    BY <1>1, <2>3, <2>4 DEF Spoken, EveryTextAccounted
  <2>6. \A i \in DOMAIN m_channel_list : m_channel_list[i].id # m.id
    BY <1>1, <2>2 DEF Spoken, NumbersDistinct
  <2> QED BY <2>2, <2>3, <2>4, <2>5, <2>6
<1>4. PICK works \in BOOLEAN : works = (m_player[m.channels] # "stop")
  OBVIOUS
<1>5. /\ task' = m /\ m_newmessage' = <<>>
      /\ m_tts_context' = (works /\ ~m.empty)
      /\ m_player' = IF works THEN [m_player EXCEPT ![m.channels] = "wait_data"] ELSE m_player
      /\ request_state' = IF works THEN FALSE ELSE request_state
      /\ t_at' = IF m_tts_context' THEN "check" ELSE "wait"
      /\ fate' = [Fates(IF m_tts_context THEN {task.id} ELSE {}, "cut")
                    EXCEPT ![m.id] = IF m_tts_context' THEN "taken" ELSE "cut"]
  BY <1>2, <1>4 DEF T_takes
<1>6. /\ m_channel_list' = m_channel_list /\ m_active_channel' = m_active_channel
      /\ m_init' = m_init /\ h_at' = h_at /\ h_channel' = h_channel
  BY DEF T_takes, T_leaves
<1>7. PICK g : g = Fates(IF m_tts_context THEN {task.id} ELSE {}, "cut")
  OBVIOUS
<1>8. /\ g \in Seq(Fate) /\ Len(g) = Len(fate) /\ DOMAIN g = DOMAIN fate
      /\ \A i \in DOMAIN fate : g[i] = IF m_tts_context /\ i = task.id THEN "cut" ELSE fate[i]
  BY <1>1, <1>7, FatesIs DEF TtsTypeOK, Fate
<1>9. /\ fate' \in Seq(Fate) /\ Len(fate') = Len(fate) /\ DOMAIN fate' = DOMAIN fate
      /\ \A i \in DOMAIN fate : i # m.id => fate'[i] = g[i]
      /\ fate'[m.id] = IF m_tts_context' THEN "taken" ELSE "cut"
  <2>1. PICK e \in Fate : e = IF m_tts_context' THEN "taken" ELSE "cut"
    BY DEF Fate
  <2>2. fate' = [g EXCEPT ![m.id] = e] /\ m.id \in 1..Len(g)
    BY <1>3, <1>5, <1>7, <1>8, <2>1
  <2> HIDE DEF Fate
  <2> QED BY <1>8, <2>1, <2>2
<1>10. TtsTypeOK'
  <2>1. m_tts_context' \in BOOLEAN /\ request_state' \in BOOLEAN
    BY <1>1, <1>4, <1>5 DEF TtsTypeOK
  <2>2. m_player' \in [Channel -> {"none", "reset", "stop", "wait_data", "wait_finish"}]
    BY <1>1, <1>5 DEF TtsTypeOK
  <2>3. task' \in Text \cup {NoTask} /\ m_newmessage' \in Seq(Text)
    BY <1>3, <1>5
  <2>4. t_at' \in {"ended", "wait", "check", "request", "check_again", "data", "done", "remain"}
    BY <1>5
  <2> QED BY <1>1, <1>6, <1>9, <2>1, <2>2, <2>3, <2>4 DEF TtsTypeOK
<1>11. OneTextPerChannel' /\ SpeaksOnActive'
  <2>1. m_active_channel # NoChannel
    BY <1>1, <1>3 DEF Spoken, OneTextPerChannel
  <2> QED BY <1>1, <1>3, <1>5, <1>6, <2>1 DEF Spoken, OneTextPerChannel, SpeaksOnActive
<1>12. EveryTextAccounted'
  <2>1. IdsOf(m_newmessage)' = {} /\ IdsOf(m_channel_list)' = IdsOf(m_channel_list)
    BY <1>5, <1>6 DEF IdsOf
  <2>2. m.id \notin IdsOf(m_channel_list)
    BY <1>3 DEF IdsOf
  <2>3. \A i \in DOMAIN fate :
          /\ fate[i] = "waits" <=> i \in IdsOf(m_newmessage) \cup IdsOf(m_channel_list)
          /\ fate[i] = "taken" <=> m_tts_context /\ task.id = i
    BY <1>1, <1>2 DEF Spoken, EveryTextAccounted
  <2>4. \A i \in DOMAIN fate :
          /\ fate'[i] = "waits" <=> i \in IdsOf(m_channel_list)
          /\ fate'[i] = "taken" <=> m_tts_context' /\ m.id = i
    BY <1>3, <1>8, <1>9, <2>2, <2>3
  <2> QED BY <1>5, <1>9, <2>1, <2>4 DEF EveryTextAccounted
<1>13. NumbersDistinct'
  <2>1. IdsOf(m_newmessage)' = {} /\ IdsOf(m_channel_list)' = IdsOf(m_channel_list)
    BY <1>5, <1>6 DEF IdsOf
  <2>2. Len(m_newmessage') <= 1 /\ DOMAIN m_newmessage' = {}
    BY <1>5
  <2>3. IdsOf(m_channel_list) \subseteq DOMAIN fate'
    BY <1>1, <1>9 DEF Spoken, NumbersDistinct
  <2>4. m_tts_context' => task'.id \in DOMAIN fate'
    BY <1>3, <1>5, <1>9
  <2>5. \A i, j \in DOMAIN m_channel_list : m_channel_list[i].id = m_channel_list[j].id => i = j
    BY <1>1 DEF Spoken, NumbersDistinct
  <2> QED BY <1>6, <2>1, <2>2, <2>3, <2>4, <2>5 DEF NumbersDistinct
<1>14. TextInHand'
  BY <1>5 DEF TextInHand, Working
<1>15. PlayersThere'
  <2>1. \A i \in DOMAIN m_channel_list : m_channel_list[i].channels \in Channel
    BY <1>1, TextsTyped DEF TtsTypeOK
  <2>2. \A c \in Channel : m_player[c] # "none" => m_player'[c] # "none"
    BY <1>1, <1>5 DEF TtsTypeOK
  <2>3. t_at' # "ended"
    BY <1>5
  <2> QED BY <1>1, <1>6, <2>1, <2>2, <2>3 DEF Spoken, PlayersThere, TtsTypeOK
<1>16. BlockedForReason'
  <2>1. CASE m_tts_context'
    BY <2>1 DEF BlockedForReason, Blocked
  <2>2. CASE works /\ m.empty
    BY <1>3, <1>5, <1>6, <2>2 DEF BlockedForReason
  <2>3. CASE ~works
    BY <1>3, <1>4, <1>5, <1>6, <2>3 DEF BlockedForReason
  <2> QED BY <1>4, <1>5, <2>1, <2>2, <2>3
<1> QED BY <1>10, <1>11, <1>12, <1>13, <1>14, <1>15, <1>16 DEF TtsIInv, Spoken

\* The thread hands itself the first of the waiting texts, if there is one.
LEMMA RemainKeeps ==
  ASSUME TtsIInv, handle_remain_task
  PROVE  TtsIInv'
<1>1. /\ Spoken /\ TtsTypeOK /\ undefined = FALSE
      /\ t_at = "remain" /\ t_at' = "wait" /\ m_tts_context = FALSE
  BY DEF TtsIInv, handle_remain_task, At, TtsTypeOK, Spoken, TextInHand
<1>2. UNCHANGED <<m_player, m_init, h_at, h_channel, task, m_tts_context, request_state, fate>>
  BY DEF handle_remain_task
<1>3. TextInHand'
  BY <1>1 DEF TextInHand, Working
<1>4. CASE m_newmessage # <<>>
  <2>1. UNCHANGED <<m_newmessage, m_channel_list, m_active_channel, undefined>>
    BY <1>4 DEF handle_remain_task
  <2>2. TtsTypeOK'
    BY <1>1, <1>2, <2>1 DEF TtsTypeOK
  <2>3. OneTextPerChannel' /\ SpeaksOnActive' /\ EveryTextAccounted' /\ NumbersDistinct'
    BY <1>1, <1>2, <2>1 DEF Spoken, OneTextPerChannel, SpeaksOnActive, EveryTextAccounted,
       NumbersDistinct
  <2>4. PlayersThere' /\ BlockedForReason'
    BY <1>1, <1>2, <1>4, <2>1 DEF Spoken, PlayersThere, BlockedForReason, Blocked
  <2> QED BY <1>3, <2>2, <2>3, <2>4 DEF TtsIInv, Spoken
<1>5. CASE m_newmessage = <<>> /\ m_channel_list = <<>>
  <2>1. UNCHANGED <<m_newmessage, m_channel_list, undefined>> /\ m_active_channel' = NoChannel
    BY <1>5 DEF handle_remain_task
  <2>2. TtsTypeOK'
    BY <1>1, <1>2, <2>1 DEF TtsTypeOK
  <2>3. OneTextPerChannel' /\ SpeaksOnActive' /\ EveryTextAccounted' /\ NumbersDistinct'
    BY <1>1, <1>2, <1>5, <2>1 DEF Spoken, OneTextPerChannel, SpeaksOnActive, EveryTextAccounted,
       NumbersDistinct
  <2>4. PlayersThere' /\ BlockedForReason'
    BY <1>1, <1>2, <1>5, <2>1 DEF Spoken, PlayersThere, BlockedForReason, Blocked
  <2> QED BY <1>3, <2>2, <2>3, <2>4 DEF TtsIInv, Spoken
<1>6. CASE m_newmessage = <<>> /\ m_channel_list # <<>>
  <2>1. PICK h : h = Head(m_channel_list)
    OBVIOUS
  <2>2. /\ m_active_channel' = h.channels /\ m_newmessage' = <<h>>
        /\ m_channel_list' = Tail(m_channel_list) /\ undefined' = (h_at = "cleaning")
    BY <1>6, <2>1 DEF handle_remain_task
  <2>3. PICK list : list = m_channel_list
    OBVIOUS
  <2>4. /\ list \in Seq(Text) /\ list # <<>> /\ Len(list) \in Nat \ {0} /\ DOMAIN list = 1..Len(list)
        /\ h \in Text /\ h = list[1] /\ m_channel_list' \in Seq(Text)
        /\ DOMAIN m_channel_list' = 1..(Len(list) - 1)
        /\ \A i \in 1..(Len(list) - 1) : m_channel_list'[i] = list[i + 1]
    <3>1. list \in Seq(Text) /\ list # <<>>
      BY <1>1, <1>6, <2>3 DEF TtsTypeOK
    <3> HIDE DEF Text
    <3>2. Len(list) \in Nat \ {0} /\ DOMAIN list = 1..Len(list)
      BY <3>1, EmptySeq, LenProperties
    <3>3. /\ h \in Text /\ h = list[1] /\ m_channel_list' \in Seq(Text)
          /\ Len(m_channel_list') = Len(list) - 1
          /\ \A i \in 1..(Len(list) - 1) : m_channel_list'[i] = list[i + 1]
      BY <2>1, <2>2, <2>3, <3>1, <3>2, HeadTailProperties
    <3> QED BY <3>1, <3>2, <3>3, LenProperties
  <2>5. h.channels \in Channel /\ h.id \in TextId
    BY <2>4 DEF Text
  <2>6. TtsTypeOK'
    <3>1. m_newmessage' \in Seq(Text)
      BY <2>2, <2>4
    <3>2. undefined' \in BOOLEAN
      BY <2>2
    <3> QED BY <1>1, <1>2, <2>2, <2>4, <2>5, <3>1, <3>2 DEF TtsTypeOK
  <2>7. /\ \A i, j \in 1..Len(list) : list[i].channels = list[j].channels => i = j
        /\ \A i, j \in 1..Len(list) : list[i].id = list[j].id => i = j
        /\ \A i \in 1..Len(list) : m_player[list[i].channels] # "none"
        /\ IdsOf(list) \subseteq DOMAIN fate
    BY <1>1, <2>3, <2>4 DEF Spoken, OneTextPerChannel, NumbersDistinct, PlayersThere
  <2>8. \A i \in 1..(Len(list) - 1) :
          /\ m_channel_list'[i].channels # h.channels /\ m_channel_list'[i].id # h.id
          /\ m_channel_list'[i] = list[i + 1]
    BY <2>4, <2>7
  <2>9. OneTextPerChannel'
    <3>1. h.channels # NoChannel
      BY <2>5, TtsAssumption DEF NoChannel
    <3>2. \A i, j \in 1..(Len(list) - 1) :
            m_channel_list'[i].channels = m_channel_list'[j].channels => i = j
      <4> SUFFICES ASSUME NEW i \in 1..(Len(list) - 1), NEW j \in 1..(Len(list) - 1),
                          m_channel_list'[i].channels = m_channel_list'[j].channels
                   PROVE  i = j
        OBVIOUS
      <4>1. i + 1 \in 1..Len(list) /\ j + 1 \in 1..Len(list)
        BY <2>4
      <4>2. list[i + 1].channels = list[j + 1].channels
        BY <2>8
      <4>3. i + 1 = j + 1
        BY <2>7, <4>1, <4>2
      <4> QED BY <4>3
    <3> QED BY <2>2, <2>4, <2>8, <3>1, <3>2 DEF OneTextPerChannel
  <2>10. SpeaksOnActive'
    BY <1>1, <1>2, <2>2 DEF SpeaksOnActive
  <2>11. IdsOf(m_newmessage)' = {h.id} /\ IdsOf(m_newmessage) = {}
    BY <1>6, <2>2 DEF IdsOf
  <2>12. IdsOf(m_channel_list)' \cup {h.id} = IdsOf(list)
    <3>1. IdsOf(m_channel_list)' = {list[i + 1].id : i \in 1..(Len(list) - 1)}
      BY <2>4 DEF IdsOf
    <3>2. IdsOf(list) = {list[i].id : i \in 1..Len(list)}
      BY <2>4 DEF IdsOf
    <3>3. \A i \in 1..Len(list) : i = 1 \/ (i - 1 \in 1..(Len(list) - 1) /\ (i - 1) + 1 = i)
      BY <2>4
    <3>4. ASSUME NEW i \in 1..Len(list) PROVE list[i].id \in IdsOf(m_channel_list)' \cup {h.id}
      BY <2>4, <3>1, <3>3
    <3>5. IdsOf(m_channel_list)' \cup {h.id} \subseteq IdsOf(list)
      BY <2>4, <3>1, <3>2
    <3> QED BY <3>2, <3>4, <3>5
  <2>13. EveryTextAccounted'
    BY <1>1, <1>2, <2>3, <2>11, <2>12 DEF Spoken, EveryTextAccounted
  <2>14. NumbersDistinct'
    <3>1. Len(m_newmessage') <= 1 /\ DOMAIN m_newmessage' = {1} /\ m_newmessage'[1] = h
      BY <2>2
    <3>2. (IdsOf(m_channel_list) \cup IdsOf(m_newmessage))' \subseteq DOMAIN fate'
      BY <1>2, <2>7, <2>11, <2>12
    <3>3. \A i, j \in DOMAIN m_channel_list' : m_channel_list'[i].id = m_channel_list'[j].id => i = j
      BY <2>4, <2>7
    <3> QED BY <1>1, <1>2, <2>4, <2>8, <3>1, <3>2, <3>3 DEF NumbersDistinct
  <2>15. PlayersThere'
    <3>1. \A i \in DOMAIN m_channel_list' : m_player'[m_channel_list'[i].channels] # "none"
      BY <1>2, <2>4, <2>7
    <3>2. m_player'[m_active_channel'] # "none" /\ t_at' = "wait"
      BY <1>1, <1>2, <2>2, <2>4, <2>7
    <3> QED BY <3>1, <3>2 DEF PlayersThere
  <2>16. BlockedForReason'
    BY <2>2 DEF BlockedForReason, Blocked
  <2> QED BY <1>3, <2>6, <2>9, <2>10, <2>13, <2>14, <2>15, <2>16 DEF TtsIInv, Spoken
<1> QED BY <1>4, <1>5, <1>6

\* A cancel cuts short what its channel speaks.
LEMMA CancelKeeps ==
  ASSUME TtsIInv, NEW c \in Channel, Cancel_discards(c)
  PROVE  TtsIInv'
<1>1. Spoken /\ TtsTypeOK /\ undefined = FALSE /\ undefined' = undefined
  BY DEF TtsIInv, Cancel_discards, H, TtsTypeOK
<1>2. /\ m_player' = [m_player EXCEPT ![c] = "stop"] /\ h_at' = "discarded" /\ h_channel' = c
      /\ UNCHANGED <<m_newmessage, m_channel_list, m_active_channel, m_init, t_at, task,
                     m_tts_context, request_state, fate>>
  BY DEF Cancel_discards
<1>3. \A d \in Channel : m_player'[d] = IF d = c THEN "stop" ELSE m_player[d]
  BY <1>1, <1>2 DEF TtsTypeOK
<1>4. TtsTypeOK'
  BY <1>1, <1>2 DEF TtsTypeOK
<1>5. OneTextPerChannel' /\ SpeaksOnActive' /\ EveryTextAccounted' /\ NumbersDistinct' /\ TextInHand'
  BY <1>1, <1>2 DEF Spoken, OneTextPerChannel, SpeaksOnActive, EveryTextAccounted,
     NumbersDistinct, TextInHand
<1>6. PlayersThere' /\ BlockedForReason'
  <2>1. \A i \in DOMAIN m_channel_list : m_channel_list[i].channels \in Channel
    BY <1>1, TextsTyped DEF TtsTypeOK
  <2>2. m_active_channel \in Channel \cup {NoChannel}
    BY <1>1 DEF TtsTypeOK
  <2>3. PlayersThere'
    BY <1>1, <1>2, <1>3, <2>1, <2>2 DEF Spoken, PlayersThere
  <2>4. BlockedForReason'
    BY <1>1, <1>2, <1>3, <2>2 DEF Spoken, BlockedForReason, Blocked
  <2> QED BY <2>3, <2>4
<1> QED BY <1>1, <1>4, <1>5, <1>6 DEF TtsIInv, Spoken

\* What clean_old_ttsmessage takes from the list and what it leaves.
LEMMA CleanedIds ==
  ASSUME m_channel_list \in Seq(Text), NEW c, NEW rest \in Without(m_channel_list, c),
         \A i, j \in DOMAIN m_channel_list : m_channel_list[i].id = m_channel_list[j].id => i = j
  PROVE  \A n : /\ n \in IdsOf(m_channel_list) <=> n \in IdsOf(rest) \cup OfChannel(c)
                /\ ~(n \in IdsOf(rest) /\ n \in OfChannel(c))
<1>1. /\ \A k \in DOMAIN rest : \E i \in DOMAIN m_channel_list :
           m_channel_list[i].channels # c /\ rest[k] = m_channel_list[i]
      /\ \A i \in DOMAIN m_channel_list : m_channel_list[i].channels # c =>
           \E k \in DOMAIN rest : rest[k] = m_channel_list[i]
  BY WithoutIs
<1> QED BY <1>1 DEF IdsOf, OfChannel

\* A cancel drops the waiting texts of its channel, and only those.
LEMMA CleansKeeps ==
  ASSUME TtsIInv, Cancel_cleans
  PROVE  TtsIInv'
<1>1. Spoken /\ TtsTypeOK /\ undefined = FALSE /\ undefined' = undefined
  BY DEF TtsIInv, Cancel_cleans, TtsTypeOK
<1>2. PICK rest \in Without(m_channel_list, h_channel) : m_channel_list' = rest
  BY DEF Cancel_cleans
<1>3. /\ fate' = Fates(OfChannel(h_channel), "cut") /\ h_at' = "free" /\ h_channel' = NoChannel
      /\ UNCHANGED <<m_player, m_newmessage, m_active_channel, m_init, t_at, task, m_tts_context,
                     request_state>>
  BY DEF Cancel_cleans
<1>4. /\ fate' \in Seq(Fate) /\ Len(fate') = Len(fate) /\ DOMAIN fate' = DOMAIN fate
      /\ \A i \in DOMAIN fate : fate'[i] = IF i \in OfChannel(h_channel) THEN "cut" ELSE fate[i]
  BY <1>1, <1>3, FatesIs DEF TtsTypeOK, Fate
<1>5. m_channel_list \in Seq(Text)
  BY <1>1 DEF TtsTypeOK
<1>6. /\ rest \in Seq(Text)
      /\ \A k \in DOMAIN rest : \E i \in DOMAIN m_channel_list :
           m_channel_list[i].channels # h_channel /\ rest[k] = m_channel_list[i]
      /\ \A i, j \in DOMAIN rest : rest[i].channels = rest[j].channels => i = j
      /\ \A i, j \in DOMAIN rest : rest[i].id = rest[j].id => i = j
  <2>1. /\ \A i, j \in DOMAIN m_channel_list :
             m_channel_list[i].channels = m_channel_list[j].channels => i = j
        /\ \A i, j \in DOMAIN m_channel_list : m_channel_list[i].id = m_channel_list[j].id => i = j
    BY <1>1 DEF Spoken, OneTextPerChannel, NumbersDistinct
  <2>2. rest \in Seq(Text)
    BY <1>5, WithoutIs, Zenon
  <2>5. \A k \in DOMAIN rest : \E i \in DOMAIN m_channel_list :
          m_channel_list[i].channels # h_channel /\ rest[k] = m_channel_list[i]
    BY <1>5, WithoutIs
  <2>3. \A i, j \in DOMAIN rest : rest[i].channels = rest[j].channels => i = j
    BY <1>5, <2>1, WithoutIs, Zenon
  <2>4. \A i, j \in DOMAIN rest : rest[i].id = rest[j].id => i = j
    BY <1>5, <2>1, WithoutIs, Zenon
  <2> QED BY <2>2, <2>3, <2>4, <2>5
<1>7. \A n : /\ n \in IdsOf(m_channel_list) <=> n \in IdsOf(rest) \cup OfChannel(h_channel)
             /\ ~(n \in IdsOf(rest) /\ n \in OfChannel(h_channel))
  BY <1>1, <1>5, CleanedIds DEF Spoken, NumbersDistinct
<1>8. TtsTypeOK'
  BY <1>1, <1>2, <1>3, <1>4, <1>6 DEF TtsTypeOK
<1>9. m_channel_list = <<>> => rest = <<>>
  <2> HIDE DEF Text
  <2> QED BY <1>6, EmptySeq
<1>10. OneTextPerChannel' /\ SpeaksOnActive'
  BY <1>1, <1>2, <1>3, <1>6, <1>9 DEF Spoken, OneTextPerChannel, SpeaksOnActive
<1>11. EveryTextAccounted'
  <2>1. IdsOf(m_newmessage)' = IdsOf(m_newmessage) /\ IdsOf(m_channel_list)' = IdsOf(rest)
    BY <1>2, <1>3 DEF IdsOf
  <2>2. \A n \in OfChannel(h_channel) : n \notin IdsOf(m_newmessage)
    BY <1>1 DEF Spoken, NumbersDistinct, OfChannel, IdsOf
  <2>3. \A i \in DOMAIN fate :
          /\ fate[i] = "waits" <=> i \in IdsOf(m_newmessage) \cup IdsOf(m_channel_list)
          /\ fate[i] = "taken" <=> m_tts_context /\ task.id = i
    BY <1>1 DEF Spoken, EveryTextAccounted
  <2>4. \A i \in DOMAIN fate :
          /\ fate'[i] = "waits" <=> i \in IdsOf(m_newmessage) \cup IdsOf(rest)
          /\ fate'[i] = "taken" <=> m_tts_context /\ task.id = i
    BY <1>4, <1>7, <2>2, <2>3
  <2> QED BY <1>3, <1>4, <2>1, <2>4 DEF EveryTextAccounted
<1>12. NumbersDistinct'
  <2>1. IdsOf(m_newmessage)' = IdsOf(m_newmessage) /\ IdsOf(m_channel_list)' = IdsOf(rest)
    BY <1>2, <1>3 DEF IdsOf
  <2>2. (IdsOf(m_channel_list) \cup IdsOf(m_newmessage))' \subseteq DOMAIN fate'
    BY <1>1, <1>4, <1>7, <2>1 DEF Spoken, NumbersDistinct
  <2>3. /\ Len(m_newmessage) <= 1 /\ (m_tts_context => task.id \in DOMAIN fate)
        /\ \A i \in DOMAIN m_channel_list, j \in DOMAIN m_newmessage :
             m_channel_list[i].id # m_newmessage[j].id
    BY <1>1 DEF Spoken, NumbersDistinct
  <2> QED BY <1>2, <1>3, <1>4, <1>6, <2>2, <2>3 DEF NumbersDistinct
<1>13. TextInHand' /\ PlayersThere' /\ BlockedForReason'
  BY <1>1, <1>2, <1>3, <1>6 DEF Spoken, TextInHand, PlayersThere, BlockedForReason, Blocked
<1> QED BY <1>1, <1>8, <1>10, <1>11, <1>12, <1>13 DEF TtsIInv, Spoken

\* A new text, after some have been replaced.
LEMMA Grown ==
  ASSUME fate \in Seq(Fate), Len(fate) < MaxSpeak, NEW ids,
         fate' = Append(Fates(ids, "replaced"), "waits")
  PROVE  /\ fate' \in Seq(Fate) /\ Len(fate') <= MaxSpeak /\ Len(fate) \in Nat
         /\ DOMAIN fate = 1..Len(fate) /\ DOMAIN fate' = 1..(Len(fate) + 1)
         /\ \A i \in DOMAIN fate : fate'[i] = IF i \in ids THEN "replaced" ELSE fate[i]
         /\ fate'[Len(fate) + 1] = "waits"
<1>1. PICK g : g = Fates(ids, "replaced")
  OBVIOUS
<1>2. "waits" \in Fate /\ "replaced" \in Fate
  BY DEF Fate
<1>3. /\ g \in Seq(Fate) /\ Len(g) = Len(fate) /\ DOMAIN g = DOMAIN fate
      /\ \A i \in DOMAIN fate : g[i] = IF i \in ids THEN "replaced" ELSE fate[i]
  BY <1>1, <1>2, FatesIs
<1>4. fate' = Append(g, "waits")
  BY <1>1
<1>5. Len(fate) \in Nat /\ DOMAIN fate = 1..Len(fate)
  BY LenProperties
<1> HIDE DEF Fate
<1>6. /\ fate' \in Seq(Fate) /\ Len(fate') = Len(fate) + 1
      /\ \A i \in 1..Len(fate) : fate'[i] = g[i]
      /\ fate'[Len(fate) + 1] = "waits"
  <2>1. g \in Seq(Fate) /\ "waits" \in Fate
    BY <1>2, <1>3
  <2>2. /\ Append(g, "waits") \in Seq(Fate) /\ Len(Append(g, "waits")) = Len(g) + 1
        /\ \A i \in 1..Len(g) : Append(g, "waits")[i] = g[i]
        /\ Append(g, "waits")[Len(g) + 1] = "waits"
    BY <2>1, AppendProperties
  <2> QED BY <1>3, <1>4, <2>2
<1>7. DOMAIN fate' = 1..(Len(fate) + 1)
  BY <1>6, LenProperties
<1> QED BY <1>3, <1>5, <1>6, <1>7, TtsAssumption

\* What StartTTS does in both cases.
LEMMA Starts ==
  ASSUME TtsIInv, NEW c \in Channel, NEW empty \in BOOLEAN, StartTTS(c, empty), NEW m,
         m = [id |-> Len(fate) + 1, channels |-> c, empty |-> empty]
  PROVE  /\ Spoken /\ TtsTypeOK /\ undefined = FALSE /\ undefined' = FALSE
         /\ m \in Text /\ m.id = Len(fate) + 1 /\ m.channels = c /\ Len(fate) < MaxSpeak
         /\ StartTTS_now(m) \/ StartTTS_waits(m)
         /\ t_at' = (IF t_at = "ended" THEN "wait" ELSE t_at)
         /\ m_tts_context' = m_tts_context /\ (m_tts_context => task' = task)
         /\ t_at # "ended" => task' = task
         /\ task' \in Text \cup {NoTask} /\ request_state' \in BOOLEAN
         /\ m_init' = m_init /\ h_at' = h_at /\ h_channel' = h_channel
         /\ c # NoChannel /\ TextInHand'
<1>1. Spoken /\ TtsTypeOK /\ undefined = FALSE
  BY DEF TtsIInv, StartTTS, H, TtsTypeOK
<1>2. /\ started_T /\ Len(fate) < MaxSpeak
      /\ UNCHANGED <<m_init, h_at, h_channel, m_tts_context, undefined>>
      /\ StartTTS_now(m) \/ StartTTS_waits(m)
  BY DEF StartTTS
<1>3. t_at = "ended" => m_tts_context = FALSE
  BY <1>1 DEF Spoken, TextInHand, TtsTypeOK
<1>4. /\ t_at' = IF t_at = "ended" THEN "wait" ELSE t_at
      /\ t_at # "ended" => task' = task
      /\ task' \in Text \cup {NoTask} /\ request_state' \in BOOLEAN
  BY <1>1, <1>2 DEF started_T, TtsTypeOK
<1>5. m \in Text
  <2>1. Len(fate) \in Nat /\ Len(fate) + 1 \in TextId
    BY <1>1, <1>2, TtsAssumption, LenProperties DEF TtsTypeOK, TextId
  <2> QED BY <2>1 DEF Text
<1>6. c # NoChannel
  BY TtsAssumption DEF NoChannel
<1>7. TextInHand'
  BY <1>1, <1>2, <1>3, <1>4 DEF Spoken, TextInHand, Working
<1> QED BY <1>1, <1>2, <1>3, <1>4, <1>5, <1>6, <1>7

\* A text of the active channel, or where none is active, is handed to the thread.
LEMMA SpeaksNow ==
  ASSUME TtsIInv, NEW c \in Channel, NEW empty \in BOOLEAN, StartTTS(c, empty), NEW m,
         m = [id |-> Len(fate) + 1, channels |-> c, empty |-> empty], StartTTS_now(m)
  PROVE  TtsIInv'
<1>1. /\ Spoken /\ TtsTypeOK /\ undefined = FALSE /\ undefined' = FALSE
      /\ m \in Text /\ m.id = Len(fate) + 1 /\ m.channels = c /\ Len(fate) < MaxSpeak
      /\ t_at' = (IF t_at = "ended" THEN "wait" ELSE t_at)
      /\ m_tts_context' = m_tts_context /\ (m_tts_context => task' = task)
      /\ task' \in Text \cup {NoTask} /\ request_state' \in BOOLEAN
      /\ m_init' = m_init /\ h_at' = h_at /\ h_channel' = h_channel
      /\ c # NoChannel /\ TextInHand'
  BY Starts, Zenon
<1>2. /\ m_active_channel \in {c, NoChannel} /\ m_active_channel' = c
      /\ m_player' = [m_player EXCEPT ![c] = "reset"]
      /\ m_newmessage' = <<m>> /\ m_channel_list' = m_channel_list
  BY <1>1 DEF StartTTS_now
<1>3. PICK ids : ids = IdsOf(m_newmessage)
  OBVIOUS
<1>4. fate' = Append(Fates(ids, "replaced"), "waits")
  BY <1>3 DEF StartTTS_now
<1>5. /\ fate' \in Seq(Fate) /\ Len(fate') <= MaxSpeak /\ Len(fate) \in Nat
      /\ DOMAIN fate = 1..Len(fate) /\ DOMAIN fate' = 1..(Len(fate) + 1)
      /\ \A i \in DOMAIN fate : fate'[i] = IF i \in ids THEN "replaced" ELSE fate[i]
      /\ fate'[Len(fate) + 1] = "waits"
  BY <1>1, <1>4, Grown DEF TtsTypeOK
<1>6. TtsTypeOK'
  <2>1. m_player' \in [Channel -> {"none", "reset", "stop", "wait_data", "wait_finish"}]
    BY <1>1, <1>2 DEF TtsTypeOK
  <2>2. m_newmessage' \in Seq(Text) /\ m_channel_list' \in Seq(Text)
    BY <1>1, <1>2 DEF TtsTypeOK
  <2>3. t_at' \in {"ended", "wait", "check", "request", "check_again", "data", "done", "remain"}
    BY <1>1 DEF TtsTypeOK
  <2> QED BY <1>1, <1>2, <1>5, <2>1, <2>2, <2>3 DEF TtsTypeOK
<1>7. /\ IdsOf(m_newmessage)' = {m.id} /\ IdsOf(m_channel_list)' = IdsOf(m_channel_list)
      /\ DOMAIN m_newmessage' = {1} /\ m_newmessage'[1] = m /\ Len(m_newmessage') = 1
  BY <1>2 DEF IdsOf
<1>8. /\ IdsOf(m_channel_list) \cup ids \subseteq DOMAIN fate
      /\ \A i \in ids : i \notin IdsOf(m_channel_list)
      /\ m_tts_context => task.id \in DOMAIN fate
      /\ \A i, j \in DOMAIN m_channel_list : m_channel_list[i].id = m_channel_list[j].id => i = j
  BY <1>1, <1>3 DEF Spoken, NumbersDistinct, IdsOf
<1>9. OneTextPerChannel' /\ SpeaksOnActive'
  <2>1. \A i \in DOMAIN m_channel_list : m_channel_list[i].channels # c
    BY <1>1, <1>2 DEF Spoken, OneTextPerChannel
  <2>2. m_tts_context => task.channels = c
    BY <1>1, <1>2 DEF Spoken, OneTextPerChannel, SpeaksOnActive
  <2> QED BY <1>1, <1>2, <1>7, <2>1, <2>2 DEF Spoken, OneTextPerChannel, SpeaksOnActive
<1>10. EveryTextAccounted'
  <2>1. \A i \in DOMAIN fate :
          /\ fate[i] = "waits" <=> i \in ids \cup IdsOf(m_channel_list)
          /\ fate[i] = "taken" <=> m_tts_context /\ task.id = i
    BY <1>1, <1>3 DEF Spoken, EveryTextAccounted
  <2>2. \A i \in DOMAIN fate :
          /\ fate'[i] = "waits" <=> i \in IdsOf(m_channel_list)
          /\ fate'[i] = "taken" <=> m_tts_context /\ task.id = i
          /\ i # m.id
    BY <1>1, <1>5, <1>8, <2>1
  <2>3. \A i \in DOMAIN fate' : i \in DOMAIN fate \/ i = m.id
    BY <1>1, <1>5
  <2>4. fate'[m.id] = "waits" /\ m.id \notin DOMAIN fate
    BY <1>1, <1>5
  <2> QED BY <1>1, <1>7, <1>8, <2>2, <2>3, <2>4 DEF EveryTextAccounted
<1>11. NumbersDistinct'
  <2>1. m.id \in DOMAIN fate' /\ m.id \notin DOMAIN fate /\ DOMAIN fate \subseteq DOMAIN fate'
    BY <1>1, <1>5
  <2>2. \A i \in DOMAIN m_channel_list : m_channel_list[i].id # m.id
    BY <1>8, <2>1 DEF IdsOf
  <2> QED BY <1>1, <1>2, <1>7, <1>8, <2>1, <2>2 DEF NumbersDistinct
<1>12. PlayersThere' /\ BlockedForReason'
  <2>1. \A i \in DOMAIN m_channel_list : m_channel_list[i].channels \in Channel
    BY <1>1, TextsTyped DEF TtsTypeOK
  <2>2. \A d \in Channel : m_player'[d] = IF d = c THEN "reset" ELSE m_player[d]
    BY <1>1, <1>2 DEF TtsTypeOK
  <2>3. t_at' # "ended" /\ m_newmessage' # <<>>
    BY <1>1, <1>2
  <2> QED BY <1>1, <1>2, <2>1, <2>2, <2>3 DEF Spoken, PlayersThere, BlockedForReason, Blocked
<1> QED BY <1>1, <1>6, <1>9, <1>10, <1>11, <1>12 DEF TtsIInv, Spoken

\* A text of another channel joins the waiting ones, in the place of an older one.
LEMMA SpeaksLater ==
  ASSUME TtsIInv, NEW c \in Channel, NEW empty \in BOOLEAN, StartTTS(c, empty), NEW m,
         m = [id |-> Len(fate) + 1, channels |-> c, empty |-> empty], StartTTS_waits(m)
  PROVE  TtsIInv'
<1>1. /\ Spoken /\ TtsTypeOK /\ undefined = FALSE /\ undefined' = FALSE
      /\ m \in Text /\ m.id = Len(fate) + 1 /\ m.channels = c /\ Len(fate) < MaxSpeak
      /\ t_at' = (IF t_at = "ended" THEN "wait" ELSE t_at)
      /\ m_tts_context' = m_tts_context /\ (m_tts_context => task' = task)
      /\ t_at # "ended" => task' = task
      /\ task' \in Text \cup {NoTask} /\ request_state' \in BOOLEAN
      /\ m_init' = m_init /\ h_at' = h_at /\ h_channel' = h_channel
      /\ c # NoChannel /\ TextInHand'
  BY Starts, Zenon
<1>2. PICK rest \in Without(m_channel_list, c) : m_channel_list' = Append(rest, m)
  BY <1>1 DEF StartTTS_waits
<1>3. /\ m_active_channel \notin {c, NoChannel} /\ m_active_channel' = m_active_channel
      /\ m_player' = [m_player EXCEPT ![c] = IF m_player[c] = "none" THEN "reset" ELSE m_player[c]]
      /\ m_newmessage' = m_newmessage
      /\ fate' = Append(Fates(OfChannel(c), "replaced"), "waits")
  BY <1>1 DEF StartTTS_waits
<1>4. PICK ids : ids = OfChannel(c)
  OBVIOUS
<1>5. /\ fate' \in Seq(Fate) /\ Len(fate') <= MaxSpeak /\ Len(fate) \in Nat
      /\ DOMAIN fate = 1..Len(fate) /\ DOMAIN fate' = 1..(Len(fate) + 1)
      /\ \A i \in DOMAIN fate : fate'[i] = IF i \in ids THEN "replaced" ELSE fate[i]
      /\ fate'[Len(fate) + 1] = "waits"
  BY <1>1, <1>3, <1>4, Grown DEF TtsTypeOK
<1>6. m_channel_list \in Seq(Text)
  BY <1>1 DEF TtsTypeOK
<1>7. /\ \A i, j \in DOMAIN m_channel_list :
           m_channel_list[i].channels = m_channel_list[j].channels => i = j
      /\ \A i, j \in DOMAIN m_channel_list : m_channel_list[i].id = m_channel_list[j].id => i = j
      /\ \A i \in DOMAIN m_channel_list : m_channel_list[i].channels # m_active_channel
  BY <1>1 DEF Spoken, OneTextPerChannel, NumbersDistinct
<1>8. rest \in Seq(Text)
  BY <1>6, WithoutIs, Zenon
<1>9. \A k \in DOMAIN rest : \E i \in DOMAIN m_channel_list :
        m_channel_list[i].channels # c /\ rest[k] = m_channel_list[i]
  BY <1>6, WithoutIs
<1>10. \A i, j \in DOMAIN rest : rest[i].channels = rest[j].channels => i = j
  BY <1>6, <1>7, WithoutIs, Zenon
<1>11. \A i, j \in DOMAIN rest : rest[i].id = rest[j].id => i = j
  BY <1>6, <1>7, WithoutIs, Zenon
<1>12. \A n : /\ n \in IdsOf(m_channel_list) <=> n \in IdsOf(rest) \cup ids
              /\ ~(n \in IdsOf(rest) /\ n \in ids)
  BY <1>4, <1>6, <1>7, CleanedIds
<1>13. PICK q : q = m_channel_list'
  OBVIOUS
<1>14. /\ q \in Seq(Text) /\ DOMAIN rest = 1..Len(rest) /\ Len(rest) \in Nat
       /\ DOMAIN q = 1..(Len(rest) + 1)
       /\ \A i \in 1..Len(rest) : q[i] = rest[i]
       /\ q[Len(rest) + 1] = m
  <2> HIDE DEF Text
  <2>1. q = Append(rest, m)
    BY <1>2, <1>13
  <2>2. q \in Seq(Text) /\ Len(q) = Len(rest) + 1
        /\ (\A i \in 1..Len(rest) : q[i] = rest[i]) /\ q[Len(rest) + 1] = m
    BY <1>1, <1>8, <2>1, AppendProperties
  <2> QED BY <1>8, <2>2, LenProperties
<1>15. TtsTypeOK'
  <2>1. m_player' \in [Channel -> {"none", "reset", "stop", "wait_data", "wait_finish"}]
    BY <1>1, <1>3 DEF TtsTypeOK
  <2>2. m_newmessage' \in Seq(Text) /\ m_channel_list' \in Seq(Text)
    BY <1>1, <1>3, <1>13, <1>14 DEF TtsTypeOK
  <2>3. t_at' \in {"ended", "wait", "check", "request", "check_again", "data", "done", "remain"}
    BY <1>1 DEF TtsTypeOK
  <2> QED BY <1>1, <1>3, <1>5, <2>1, <2>2, <2>3 DEF TtsTypeOK
<1>16. /\ \A i \in DOMAIN q : i \in DOMAIN rest \/ i = Len(rest) + 1
       /\ \A i \in DOMAIN rest : /\ i # Len(rest) + 1 /\ q[i] = rest[i]
                                 /\ rest[i].channels # c /\ rest[i].channels # m_active_channel
                                 /\ rest[i].id \in IdsOf(m_channel_list)
  <2>1. \A i \in DOMAIN rest : /\ rest[i].channels # c /\ rest[i].channels # m_active_channel
                               /\ rest[i].id \in IdsOf(m_channel_list)
    BY <1>7, <1>9 DEF IdsOf
  <2> QED BY <1>14, <2>1
<1>17. IdsOf(m_newmessage)' = IdsOf(m_newmessage) /\ IdsOf(m_channel_list)' = IdsOf(rest) \cup {m.id}
  <2>1. IdsOf(m_channel_list)' = {q[i].id : i \in DOMAIN q}
    BY <1>13 DEF IdsOf
  <2>2. Len(rest) + 1 \in DOMAIN q /\ DOMAIN rest \subseteq DOMAIN q
    BY <1>14
  <2>3. {q[i].id : i \in DOMAIN q} = IdsOf(rest) \cup {m.id}
    BY <1>14, <1>16, <2>2 DEF IdsOf
  <2> QED BY <1>3, <2>1, <2>3 DEF IdsOf
<1>18. /\ IdsOf(m_channel_list) \cup IdsOf(m_newmessage) \subseteq DOMAIN fate
       /\ \A n \in IdsOf(m_newmessage) : n \notin IdsOf(m_channel_list)
       /\ (m_tts_context => task.id \in DOMAIN fate) /\ Len(m_newmessage) <= 1
       /\ m.id \notin DOMAIN fate /\ m.id \in DOMAIN fate' /\ DOMAIN fate \subseteq DOMAIN fate'
  BY <1>1, <1>5 DEF Spoken, NumbersDistinct, IdsOf
<1>19. OneTextPerChannel' /\ SpeaksOnActive'
  <2>1. \A i, j \in DOMAIN q : q[i].channels = q[j].channels => i = j
    BY <1>1, <1>10, <1>14, <1>16
  <2>2. \A i \in DOMAIN q : q[i].channels # m_active_channel
    BY <1>1, <1>3, <1>14, <1>16
  <2>3. SpeaksOnActive'
    BY <1>1, <1>3 DEF Spoken, SpeaksOnActive
  <2> QED BY <1>3, <1>13, <2>1, <2>2, <2>3 DEF OneTextPerChannel
<1>20. EveryTextAccounted'
  <2>1. \A i \in DOMAIN fate :
          /\ fate[i] = "waits" <=> i \in IdsOf(m_newmessage) \cup IdsOf(m_channel_list)
          /\ fate[i] = "taken" <=> m_tts_context /\ task.id = i
    BY <1>1 DEF Spoken, EveryTextAccounted
  <2>2. \A i \in DOMAIN fate :
          /\ fate'[i] = "waits" <=> i \in IdsOf(m_newmessage) \cup IdsOf(rest)
          /\ fate'[i] = "taken" <=> m_tts_context /\ task.id = i
          /\ i # m.id
    BY <1>5, <1>12, <1>18, <2>1
  <2>3. \A i \in DOMAIN fate' : i \in DOMAIN fate \/ i = m.id
    BY <1>1, <1>5
  <2>4. fate'[m.id] = "waits"
    BY <1>1, <1>5
  <2> QED BY <1>1, <1>17, <1>18, <2>2, <2>3, <2>4 DEF EveryTextAccounted
<1>21. NumbersDistinct'
  <2>1. \A i, j \in DOMAIN q : q[i].id = q[j].id => i = j
    BY <1>11, <1>14, <1>16, <1>18
  <2>2. \A i \in DOMAIN q, j \in DOMAIN m_newmessage : q[i].id # m_newmessage[j].id
    BY <1>14, <1>16, <1>18 DEF IdsOf
  <2>3. IdsOf(rest) \subseteq IdsOf(m_channel_list)
    BY <1>12
  <2> QED BY <1>1, <1>3, <1>13, <1>17, <1>18, <2>1, <2>2, <2>3 DEF NumbersDistinct
<1>22. PlayersThere' /\ BlockedForReason'
  <2>1. \A i \in DOMAIN m_channel_list : m_channel_list[i].channels \in Channel
    BY <1>6, TextsTyped
  <2>2. \A d \in Channel : d # c => m_player'[d] = m_player[d]
    BY <1>1, <1>3 DEF TtsTypeOK
  <2>3. m_player'[c] # "none" /\ t_at' # "ended" /\ m_active_channel \in Channel
    BY <1>1, <1>3 DEF TtsTypeOK
  <2>4. \A i \in DOMAIN rest : m_player'[rest[i].channels] # "none"
    BY <1>1, <1>9, <2>1, <2>2 DEF Spoken, PlayersThere
  <2>5. \A i \in DOMAIN q : m_player'[q[i].channels] # "none"
    BY <1>1, <1>14, <1>16, <2>3, <2>4
  <2>6. PlayersThere'
    BY <1>1, <1>3, <1>13, <2>2, <2>3, <2>5 DEF Spoken, PlayersThere
  <2>7. Blocked' => Blocked
    BY <1>1, <1>3 DEF Blocked
  <2>8. t_at = "ended" => m_player[m_active_channel] = "stop"
    BY <1>1, <1>3 DEF Spoken, PlayersThere
  <2>9. BlockedForReason'
    BY <1>1, <1>3, <2>2, <2>3, <2>7, <2>8 DEF Spoken, BlockedForReason
  <2> QED BY <2>6, <2>9
<1> QED BY <1>1, <1>15, <1>19, <1>20, <1>21, <1>22 DEF TtsIInv, Spoken

\* StartTTS: one or the other.
LEMMA StartKeeps ==
  ASSUME TtsIInv, NEW c \in Channel, NEW empty \in BOOLEAN, StartTTS(c, empty)
  PROVE  TtsIInv'
<1>1. PICK m : m = [id |-> Len(fate) + 1, channels |-> c, empty |-> empty]
  OBVIOUS
<1>2. StartTTS_now(m) \/ StartTTS_waits(m)
  BY <1>1, Starts
<1> QED BY <1>1, <1>2, SpeaksNow, SpeaksLater

\* A step of T's inside a text: it ends the text or goes on, and the players that exist
\* are the same.
LEMMA WorkKeeps ==
  ASSUME TtsIInv, ~undefined, t_at \in Working, UNCHANGED <<m_newmessage, task>>, UNCHANGED T_leaves,
         NEW f \in {"spoken", "cut", "failed"},
         \/ /\ Ends(f)
            /\ m_player' \in [Channel -> {"none", "reset", "stop", "wait_data", "wait_finish"}]
            /\ \A c \in Channel : m_player'[c] = "none" <=> m_player[c] = "none"
         \/ /\ t_at' \in Working \cup {"wait"} /\ UNCHANGED <<m_player, m_tts_context, fate>>
            /\ request_state' \in BOOLEAN
  PROVE  TtsIInv'
<1>1. /\ Spoken /\ TtsTypeOK
      /\ UNCHANGED <<m_channel_list, m_active_channel, m_init, h_at, h_channel, undefined>>
  BY DEF TtsIInv, T_leaves
<1>2. CASE /\ Ends(f)
           /\ m_player' \in [Channel -> {"none", "reset", "stop", "wait_data", "wait_finish"}]
           /\ \A c \in Channel : m_player'[c] = "none" <=> m_player[c] = "none"
  <2>1. Spoken' /\ fate' \in Seq(Fate) /\ Len(fate') <= MaxSpeak
    BY <1>1, <1>2, TextEnded
  <2>2. m_tts_context' = FALSE /\ request_state' = FALSE /\ t_at' = "remain"
    BY <1>2 DEF Ends
  <2>3. TtsTypeOK'
    BY <1>1, <1>2, <2>1, <2>2 DEF TtsTypeOK
  <2> QED BY <2>1, <2>3 DEF TtsIInv
<1>3. CASE /\ t_at' \in Working \cup {"wait"} /\ UNCHANGED <<m_player, m_tts_context, fate>>
           /\ request_state' \in BOOLEAN
  <2>1. m_tts_context
    BY <1>1 DEF Spoken, TextInHand
  <2>2. Spoken'
    BY <1>1, <1>3, <2>1, TtsGoesOn
  <2>3. TtsTypeOK'
    BY <1>1, <1>3 DEF TtsTypeOK, Working
  <2> QED BY <2>2, <2>3 DEF TtsIInv
<1> QED BY <1>2, <1>3

\* Every step of the thread of the synthesis.
LEMMA TNext ==
  ASSUME TtsIInv, T_next
  PROVE  TtsIInv'
<1>1. TtsTypeOK
  BY DEF TtsIInv
<1>2. CASE T_exit
  BY <1>2, TExitKeeps
<1>3. CASE T_takes
  BY <1>3, TTakesKeeps
<1>4. CASE handle_remain_task
  BY <1>4, RemainKeeps
<1>5. CASE T_waited
  <2>1. /\ ~undefined /\ m_tts_context /\ t_at' = "check"
        /\ UNCHANGED <<m_player, m_newmessage, task, m_tts_context, request_state, fate>>
        /\ UNCHANGED <<m_channel_list, m_active_channel, m_init, h_at, h_channel, undefined>>
    BY <1>5 DEF T_waited, At, T_leaves
  <2>2. Spoken'
    BY <2>1, TtsGoesOn DEF Working
  <2>3. TtsTypeOK'
    BY <1>1, <2>1 DEF TtsTypeOK
  <2> QED BY <2>2, <2>3 DEF TtsIInv
<1>6. ASSUME NEW p \in Working, NEW next \in Working, T_check_stop(p, next)
      PROVE  TtsIInv'
  <2>1. /\ ~undefined /\ t_at \in Working /\ UNCHANGED <<m_newmessage, task>> /\ UNCHANGED T_leaves
        /\ UNCHANGED m_player
        /\ Ends("cut") \/ (t_at' = next /\ UNCHANGED <<m_tts_context, request_state, fate>>)
    BY <1>6 DEF T_check_stop, At
  <2>2. CASE Ends("cut")
    BY <1>1, <2>1, <2>2, WorkKeeps DEF TtsTypeOK
  <2>3. CASE t_at' = next /\ UNCHANGED <<m_tts_context, request_state, fate>>
    BY <1>1, <1>6, <2>1, <2>3, WorkKeeps DEF TtsTypeOK
  <2> QED BY <2>1, <2>2, <2>3
<1>7. CASE T_check_stop("check", "request") \/ T_check_stop("check_again", "data")
  BY <1>6, <1>7 DEF Working
<1>8. CASE T_request
  <2>1. /\ ~undefined /\ t_at \in Working /\ UNCHANGED <<m_newmessage, task>> /\ UNCHANGED T_leaves
        /\ UNCHANGED m_player
        /\ \/ Ends("failed")
           \/ t_at' = "check_again" /\ UNCHANGED <<m_tts_context, fate>> /\ request_state' = TRUE
           \/ t_at' = "check_again" /\ UNCHANGED <<m_tts_context, request_state, fate>>
    BY <1>8 DEF T_request, At, Working
  <2>2. CASE Ends("failed")
    BY <1>1, <2>1, <2>2, WorkKeeps DEF TtsTypeOK
  <2>3. CASE t_at' = "check_again" /\ UNCHANGED <<m_tts_context, fate>> /\ request_state' = TRUE
    BY <1>1, <2>1, <2>3, WorkKeeps DEF TtsTypeOK, Working
  <2>4. CASE t_at' = "check_again" /\ UNCHANGED <<m_tts_context, request_state, fate>>
    BY <1>1, <2>1, <2>4, WorkKeeps DEF TtsTypeOK, Working
  <2> QED BY <2>1, <2>2, <2>3, <2>4
<1>9. CASE T_data
  <2>1. /\ ~undefined /\ t_at \in Working /\ UNCHANGED <<m_newmessage, task>> /\ UNCHANGED T_leaves
        /\ UNCHANGED m_player
        /\ \/ Ends("failed") \/ Ends("cut")
           \/ t_at' \in {"wait", "done"} /\ UNCHANGED <<m_tts_context, request_state, fate>>
    BY <1>9 DEF T_data, At, Working
  <2>2. CASE Ends("failed") \/ Ends("cut")
    BY <1>1, <2>1, <2>2, WorkKeeps DEF TtsTypeOK
  <2>3. CASE t_at' \in {"wait", "done"} /\ UNCHANGED <<m_tts_context, request_state, fate>>
    BY <1>1, <2>1, <2>3, WorkKeeps DEF TtsTypeOK, Working
  <2> QED BY <2>1, <2>2, <2>3
<1>10. CASE T_done
  <2>1. /\ ~undefined /\ t_at \in Working /\ UNCHANGED <<m_newmessage, task>> /\ UNCHANGED T_leaves
        /\ m_player' = [m_player EXCEPT ![task.channels] =
                          IF m_player[task.channels] = "stop" THEN m_player[task.channels]
                          ELSE "wait_finish"]
        /\ Ends("spoken") \/ Ends("cut")
    BY <1>10 DEF T_done, At, Working
  <2>2. task.channels \in Channel => m_player[task.channels] # "none"
    <3>1. Spoken /\ m_tts_context
      BY <2>1 DEF TtsIInv, Spoken, TextInHand
    <3>2. task.channels = m_active_channel
      BY <3>1 DEF Spoken, SpeaksOnActive
    <3>3. task.channels \in Channel => m_active_channel # NoChannel
      BY <3>2, TtsAssumption DEF NoChannel
    <3> QED BY <3>1, <3>2, <3>3 DEF Spoken, PlayersThere
  <2>3. /\ m_player' \in [Channel -> {"none", "reset", "stop", "wait_data", "wait_finish"}]
        /\ \A c \in Channel : m_player'[c] = "none" <=> m_player[c] = "none"
    BY <1>1, <2>1, <2>2 DEF TtsTypeOK
  <2> QED BY <2>1, <2>3, WorkKeeps
<1> QED BY <1>2, <1>3, <1>4, <1>5, <1>7, <1>8, <1>9, <1>10 DEF T_next

\* What H does besides.
LEMMA HServes ==
  ASSUME TtsIInv, Init_service \/ UnInit_quits \/ Cancel_begins \/ UnInit_returns
  PROVE  TtsIInv'
<1>1. /\ UNCHANGED <<m_player, m_newmessage, m_channel_list, m_active_channel, task, m_tts_context,
                     fate, t_at, request_state, undefined, h_channel>>
      /\ h_at' \in {"free", "discarded", "cleaning", "quits"} /\ m_init' \in BOOLEAN
  BY DEF Init_service, UnInit_quits, Cancel_begins, UnInit_returns, TtsIInv, TtsTypeOK
<1>2. TtsTypeOK'
  BY <1>1 DEF TtsIInv, TtsTypeOK
<1>3. ~undefined => Spoken'
  BY <1>1, TtsGoesOn
<1> QED BY <1>1, <1>2, <1>3 DEF TtsIInv

\* Every step of the synthesis keeps its invariant.
LEMMA TtsStep == TtsIInv /\ [TtsNext]_ttsVars => TtsIInv'
<1> SUFFICES ASSUME TtsIInv, [TtsNext]_ttsVars PROVE TtsIInv'
  OBVIOUS
<1>1. CASE TtsNext
  BY <1>1, HServes, TNext, CleansKeeps, StartKeeps, CancelKeeps DEF TtsNext, H_goes_on
<1>2. CASE UNCHANGED ttsVars
  <2>1. TtsTypeOK' /\ undefined' = undefined
    BY <1>2 DEF ttsVars, TtsIInv, TtsTypeOK
  <2>2. ~undefined => Spoken'
    BY <1>2, TtsGoesOn DEF ttsVars
  <2> QED BY <2>1, <2>2 DEF TtsIInv
<1> QED BY <1>1, <1>2

LEMMA TtsStart == TtsInit => TtsIInv
<1> SUFFICES ASSUME TtsInit PROVE TtsIInv
  OBVIOUS
<1>1. TtsTypeOK
  <2>1. /\ m_player \in [Channel -> {"none", "reset", "stop", "wait_data", "wait_finish"}]
        /\ m_active_channel \in Channel \cup {NoChannel} /\ h_channel \in Channel \cup {NoChannel}
        /\ task \in Text \cup {NoTask}
    BY DEF TtsInit
  <2>2. m_newmessage \in Seq(Text) /\ m_channel_list \in Seq(Text) /\ fate \in Seq(Fate) /\ Len(fate) = 0
    BY DEF TtsInit
  <2>3. /\ m_init = FALSE /\ m_tts_context = FALSE /\ request_state = FALSE /\ undefined = FALSE
        /\ h_at = "free" /\ t_at = "ended"
    BY DEF TtsInit
  <2>4. /\ m_init \in BOOLEAN /\ m_tts_context \in BOOLEAN /\ request_state \in BOOLEAN
        /\ undefined \in BOOLEAN
    BY <2>3
  <2>5. Len(fate) <= MaxSpeak
    BY <2>2, TtsAssumption
  <2> QED BY <2>1, <2>2, <2>3, <2>4, <2>5 DEF TtsTypeOK
<1>2. /\ m_newmessage = <<>> /\ m_channel_list = <<>> /\ fate = <<>> /\ m_active_channel = NoChannel
      /\ t_at = "ended" /\ m_tts_context = FALSE
  BY DEF TtsInit
<1>3. OneTextPerChannel /\ SpeaksOnActive /\ EveryTextAccounted /\ NumbersDistinct
  BY <1>2 DEF OneTextPerChannel, SpeaksOnActive, EveryTextAccounted, NumbersDistinct, IdsOf
<1>4. BlockedForReason /\ TextInHand /\ PlayersThere
  BY <1>2 DEF BlockedForReason, Blocked, TextInHand, Working, PlayersThere
<1> QED BY <1>1, <1>3, <1>4 DEF TtsIInv, Spoken

-------------------------------------------------------------------------------
\* Without a thread at its loop nobody is waited for.
ThreadIdle == face_thread # "runs" => face_task = NoSnapshot /\ livetask = "none"

\* Two starts are not answered.
TwoDue ==
  \/ Len(camera_answers) >= 2
  \/ camera_answers # <<>> /\ \E i \in DOMAIN camera_orders : camera_orders[i].start
  \/ \E i, j \in DOMAIN camera_orders :
       i # j /\ camera_orders[i].start /\ camera_orders[j].start

\* Answers are to come after which the service starts or gives its cameras back.
AnswersDue ==
  IF "nis" \in cameras
  THEN (m_resultcount = 0 /\ TwoDue) \/ (m_resultcount = 1 /\ Unanswered)
  ELSE \E i \in DOMAIN camera_answers : camera_answers[i].ok

\* The service reads c and no message is under way that changes that, or will read it.
HeldIn(c, orders, holds) ==
  \/ /\ c \in holds
     /\ \A i \in DOMAIN orders : orders[i].start \/ orders[i].camera # c
  \/ /\ "nis" \in cameras
     /\ \E i \in DOMAIN orders :
          /\ orders[i].start /\ orders[i].camera = c
          /\ \A j \in DOMAIN orders : j > i => orders[j].start \/ orders[j].camera # c
CameraHeld(c) == HeldIn(c, camera_orders, camera_reader)

CamerasKnown ==
  \A c \in cameras : CameraHeld(c) => FaceState \/ face_quitting \/ camera_left \/ AnswersDue

WaitKnown == message_wait # "none" => IF "nis" \in cameras THEN AnswersDue ELSE Unanswered

\* A start asks for the cameras in this order.
CameraCount == IF "nis" \in cameras THEN 2 ELSE 1
CameraAt(i) == IF i = 1 THEN "vis" ELSE "nis"

\* Of the last start for n cameras a answers were handled, and b were given.
RoundOf(a, b, n, orders, answers, holds, handled, count) ==
  /\ a <= b /\ b <= n
  /\ Len(answers) = b - a
  /\ \A i \in DOMAIN answers :
       /\ answers[i].camera = CameraAt(a + i)
       /\ answers[i].ok => CameraAt(a + i) \in holds
  /\ Len(orders) >= n - b
  /\ \A i \in DOMAIN orders :
       /\ orders[i].start <=> i > Len(orders) - (n - b)
       /\ orders[i].start => orders[i].camera = CameraAt(i - Len(orders) + n)
  /\ a < n =>
       /\ n = 2 => count = a
       /\ b > 0 => Len(orders) = n - b
       /\ \A i \in 1..a : CameraAt(i) \notin handled => CameraAt(i) \in holds

StartsInTurn ==
  ~camera_overlap =>
    /\ \E a, b \in 0..2 :
         RoundOf(a, b, CameraCount, camera_orders, camera_answers, camera_reader, camera_results,
                 m_resultcount)
    /\ FaceState \/ face_quitting =>
         camera_orders = <<>> /\ camera_answers = <<>> /\ camera_reader = cameras

StatusKnown == FaceState => face_status

CamerasInv == CamerasKnown /\ WaitKnown /\ StartsInTurn /\ StatusKnown

FaceIInv == FaceTypeOK /\ RequestsAccounted /\ ThreadIdle /\ CamerasInv

-----------------------------------------------------------------------------
\* A service has one camera or two, numbered in the order it asks for them.
LEMMA CamerasAre ==
  ASSUME FaceTypeOK
  PROVE  /\ CameraCount \in {1, 2} /\ ("nis" \in cameras <=> CameraCount = 2)
         /\ \A i \in 1..CameraCount : CameraAt(i) \in cameras
         /\ \A c \in cameras : \E i \in 1..CameraCount : c = CameraAt(i)
         /\ \A i, j \in 1..CameraCount : CameraAt(i) = CameraAt(j) => i = j
<1>1. CASE cameras = {"vis"}
  BY <1>1 DEF CameraCount, CameraAt
<1>2. CASE cameras = {"vis", "nis"}
  BY <1>2 DEF CameraCount, CameraAt
<1> QED BY <1>1, <1>2 DEF FaceTypeOK

\* What open_camera and close_camera add to the messages of the video module.
LEMMA OrdersAdded ==
  ASSUME FaceTypeOK, NEW s \in BOOLEAN, camera_orders' = camera_orders \o Orders(s)
  PROVE  /\ camera_orders' \in Seq(CameraMessage) /\ Len(camera_orders) \in Nat
         /\ Len(camera_orders') = Len(camera_orders) + CameraCount
         /\ DOMAIN camera_orders = 1..Len(camera_orders)
         /\ DOMAIN camera_orders' = 1..(Len(camera_orders) + CameraCount)
         /\ \A i \in DOMAIN camera_orders : camera_orders'[i] = camera_orders[i]
         /\ \A i \in 1..CameraCount :
              /\ camera_orders'[Len(camera_orders) + i].start = s
              /\ camera_orders'[Len(camera_orders) + i].camera = CameraAt(i)
<1>1. PICK q : q = Orders(s)
  OBVIOUS
<1>2. /\ q \in Seq(CameraMessage) /\ Len(q) = CameraCount
      /\ \A i \in 1..CameraCount : q[i].start = s /\ q[i].camera = CameraAt(i)
  <2>1. PICK v, n : v = [start |-> s, camera |-> "vis"] /\ n = [start |-> s, camera |-> "nis"]
    OBVIOUS
  <2>2. CASE cameras = {"vis"}
    <3>1. q = <<v>> /\ CameraCount = 1 /\ v \in CameraMessage
      BY <1>1, <2>1, <2>2 DEF Orders, CameraCount, CameraMessage
    <3> QED BY <2>1, <3>1 DEF CameraAt
  <2>3. CASE cameras = {"vis", "nis"}
    <3>1. q = <<v>> \o <<n>> /\ CameraCount = 2 /\ v \in CameraMessage /\ n \in CameraMessage
      BY <1>1, <2>1, <2>3 DEF Orders, CameraCount, CameraMessage
    <3> HIDE DEF CameraMessage
    <3>2. /\ <<v>> \in Seq(CameraMessage) /\ Len(<<v>>) = 1 /\ <<v>>[1] = v
          /\ <<n>> \in Seq(CameraMessage) /\ Len(<<n>>) = 1 /\ <<n>>[1] = n
      BY <3>1
    <3>3. q \in Seq(CameraMessage) /\ Len(q) = 2 /\ q[1] = v /\ q[2] = n
      BY <3>1, <3>2, ConcatProperties
    <3> QED BY <2>1, <3>1, <3>3 DEF CameraAt
  <2> QED BY <2>2, <2>3 DEF FaceTypeOK
<1>3. camera_orders \in Seq(CameraMessage) /\ camera_orders' = camera_orders \o q
  BY <1>1 DEF FaceTypeOK
<1> HIDE DEF CameraMessage
<1>4. CameraCount \in {1, 2}
  BY CamerasAre
<1>5. /\ camera_orders \o q \in Seq(CameraMessage)
      /\ Len(camera_orders \o q) = Len(camera_orders) + Len(q)
      /\ \A i \in 1..(Len(camera_orders) + Len(q)) :
           (camera_orders \o q)[i] = IF i <= Len(camera_orders) THEN camera_orders[i]
                                     ELSE q[i - Len(camera_orders)]
  BY <1>2, <1>3, ConcatProperties
<1>6. Len(camera_orders) \in Nat /\ DOMAIN camera_orders = 1..Len(camera_orders)
  BY <1>3, LenProperties
<1>7. /\ Len(camera_orders') = Len(camera_orders) + CameraCount
      /\ DOMAIN camera_orders' = 1..(Len(camera_orders) + CameraCount)
  BY <1>2, <1>3, <1>5, LenProperties
<1>8. \A i \in 1..CameraCount : camera_orders'[Len(camera_orders) + i] = q[i]
  BY <1>2, <1>3, <1>4, <1>5, <1>6
<1> QED BY <1>2, <1>3, <1>4, <1>5, <1>6, <1>7, <1>8

\* A message is taken from the front of a queue.
LEMMA FirstTaken ==
  ASSUME NEW S, NEW q \in Seq(S), q # <<>>
  PROVE  /\ Head(q) \in S /\ Head(q) = q[1] /\ Tail(q) \in Seq(S)
         /\ Len(q) \in Nat \ {0} /\ DOMAIN q = 1..Len(q) /\ Len(Tail(q)) = Len(q) - 1
         /\ DOMAIN Tail(q) = 1..(Len(q) - 1)
         /\ \A i \in 1..(Len(q) - 1) : Tail(q)[i] = q[i + 1]
<1>1. Len(q) \in Nat /\ DOMAIN q = 1..Len(q)
  BY LenProperties
<1>2. Len(q) # 0
  BY EmptySeq
<1>3. /\ Head(q) \in S /\ Tail(q) \in Seq(S) /\ Len(Tail(q)) = Len(q) - 1
      /\ \A i \in 1..Len(Tail(q)) : Tail(q)[i] = q[i + 1]
  BY HeadTailProperties
<1> QED BY <1>1, <1>2, <1>3, LenProperties

-----------------------------------------------------------------------------
\* Steps that leave the cameras alone.
LEMMA CamerasLeft ==
  ASSUME CamerasInv,
         UNCHANGED <<message_wait, camera_orders, camera_answers, camera_results, m_resultcount,
                     camera_reader, camera_overlap, cameras>>,
         (FaceState \/ face_quitting)' => FaceState \/ face_quitting,
         FaceState \/ face_quitting \/ camera_left => (FaceState \/ face_quitting \/ camera_left)',
         FaceState' => face_status'
  PROVE  CamerasInv'
<1>1. (AnswersDue' <=> AnswersDue) /\ (Unanswered' <=> Unanswered)
  BY DEF AnswersDue, TwoDue, Unanswered
<1>2. \A c : CameraHeld(c)' <=> CameraHeld(c)
  BY DEF CameraHeld, HeldIn
<1>3. CamerasKnown' /\ WaitKnown' /\ StatusKnown'
  BY <1>1, <1>2 DEF CamerasInv, CamerasKnown, WaitKnown, StatusKnown
<1>4. CameraCount' = CameraCount
  BY DEF CameraCount
<1>5. StartsInTurn'
  BY <1>4 DEF CamerasInv, StartsInTurn
<1> QED BY <1>3, <1>5 DEF CamerasInv

\* New messages to the video module leave what is due.
LEMMA DueStays ==
  ASSUME FaceTypeOK, NEW s \in BOOLEAN, camera_orders' = camera_orders \o Orders(s),
         camera_answers' = camera_answers, cameras' = cameras
  PROVE  /\ Unanswered => Unanswered'
         /\ TwoDue => TwoDue'
         /\ m_resultcount' = m_resultcount => (AnswersDue => AnswersDue')
<1>1. \A i \in DOMAIN camera_orders : i \in DOMAIN camera_orders' /\ camera_orders'[i] = camera_orders[i]
  BY OrdersAdded, CamerasAre
<1>2. (Unanswered => Unanswered') /\ (TwoDue => TwoDue')
  BY <1>1 DEF Unanswered, TwoDue
<1> QED BY <1>2 DEF AnswersDue

\* After close_camera no camera is held.
LEMMA NoneHeld ==
  ASSUME FaceTypeOK, camera_orders' = camera_orders \o Orders(FALSE), cameras' = cameras
  PROVE  \A c \in cameras : ~CameraHeld(c)'
<1>1. PICK n : n = Len(camera_orders)
  OBVIOUS
<1>2. PICK q : q = camera_orders'
  OBVIOUS
<1>3. /\ n \in Nat /\ CameraCount \in {1, 2} /\ DOMAIN q = 1..(n + CameraCount)
      /\ \A i \in 1..CameraCount : q[n + i].start = FALSE /\ q[n + i].camera = CameraAt(i)
      /\ \A c \in cameras : \E i \in 1..CameraCount : c = CameraAt(i)
  BY <1>1, <1>2, OrdersAdded, CamerasAre
<1> SUFFICES ASSUME NEW c \in cameras PROVE ~CameraHeld(c)'
  OBVIOUS
<1>4. PICK k \in 1..CameraCount : c = CameraAt(k)
  BY <1>3
<1>5. n + k \in DOMAIN q /\ q[n + k].start = FALSE /\ q[n + k].camera = c
  BY <1>3, <1>4
<1>6. ASSUME NEW i \in DOMAIN q, q[i].start PROVE n + k > i
  <2>1. ~(i > n)
    <3> SUFFICES ASSUME i > n PROVE FALSE
      OBVIOUS
    <3>1. i - n \in 1..CameraCount /\ n + (i - n) = i
      BY <1>3
    <3> QED BY <1>3, <1>6, <3>1
  <2> QED BY <1>3, <2>1
<1> QED BY <1>2, <1>5, <1>6 DEF CameraHeld, HeldIn

\* A start asks for the cameras: two orders are put behind those of earlier stops.
LEMMA StartKeepsCameras ==
  ASSUME FaceTypeOK, CamerasInv, NEW c \in FaceClient, start_detect_task(c)
  PROVE  CamerasInv'
<1>1. /\ ~face_quitting /\ ~FaceState /\ ~face_quitting' /\ ~FaceState'
      /\ m_resultcount' = 0 /\ camera_orders' = camera_orders \o Orders(TRUE)
      /\ camera_overlap' = (camera_overlap \/ Unanswered)
      /\ UNCHANGED <<camera_answers, camera_reader, camera_left, cameras>>
  BY DEF start_detect_task, FaceState
<1>2. PICK n : n = Len(camera_orders)
  OBVIOUS
<1>3. PICK q : q = camera_orders'
  OBVIOUS
<1>4. /\ n \in Nat /\ CameraCount \in {1, 2} /\ ("nis" \in cameras <=> CameraCount = 2)
      /\ Len(q) = n + CameraCount /\ DOMAIN q = 1..(n + CameraCount) /\ DOMAIN camera_orders = 1..n
      /\ \A i \in DOMAIN camera_orders : q[i] = camera_orders[i]
      /\ \A i \in 1..CameraCount : q[n + i].start = TRUE /\ q[n + i].camera = CameraAt(i)
  BY <1>1, <1>2, <1>3, OrdersAdded, CamerasAre
<1>5. CameraCount' = CameraCount /\ \A i : CameraAt(i)' = CameraAt(i)
  BY <1>1 DEF CameraCount, CameraAt
<1>6. Unanswered' /\ (CameraCount = 2 => TwoDue')
  <2>1. n + 1 \in DOMAIN q /\ q[n + 1].start /\ 1 \in 1..CameraCount
    BY <1>4
  <2>2. CameraCount = 2 => n + 2 \in DOMAIN q /\ q[n + 2].start /\ n + 1 # n + 2
    BY <1>4
  <2> QED BY <1>3, <2>1, <2>2 DEF Unanswered, TwoDue
<1>7. WaitKnown' /\ StatusKnown'
  BY <1>1, <1>4, <1>6 DEF WaitKnown, StatusKnown, AnswersDue
<1>8. CamerasKnown'
  <2>1. CASE CameraCount = 2
    BY <1>1, <1>4, <1>6, <2>1 DEF CamerasKnown, AnswersDue
  <2>2. CASE CameraCount = 1
    <3> SUFFICES ASSUME NEW d \in cameras, CameraHeld(d)' PROVE camera_left \/ AnswersDue'
      BY <1>1 DEF CamerasKnown
    <3>1. CameraHeld(d)
      <4>1. \A i \in DOMAIN camera_orders : i \in DOMAIN q /\ q[i] = camera_orders[i]
        BY <1>4
      <4>2. HeldIn(d, q, camera_reader)
        <5>1. HeldIn(d, camera_orders, camera_reader)'
          BY DEF CameraHeld
        <5>2. camera_orders' = q /\ camera_reader' = camera_reader /\ cameras' = cameras
          BY <1>1, <1>3
        <5> QED BY <5>1, <5>2, ZenonT(30) DEF HeldIn
      <4>3. ~("nis" \in cameras)
        BY <1>4, <2>2
      <4> QED BY <4>1, <4>2, <4>3 DEF CameraHeld, HeldIn
    <3>2. AnswersDue' <=> AnswersDue
      BY <1>1, <1>4, <2>2 DEF AnswersDue
    <3> QED BY <1>1, <3>1, <3>2 DEF CamerasInv, CamerasKnown
  <2> QED BY <1>4, <2>1, <2>2
<1>9. StartsInTurn'
  <2> SUFFICES ASSUME ~camera_overlap'
               PROVE  RoundOf(0, 0, CameraCount, q, camera_answers, camera_reader, {}, 0)
    <3>1. 0 \in 0..2 /\ camera_results' = {}
      BY DEF start_detect_task
    <3> QED BY <1>1, <1>3, <1>5, <3>1, Zenon DEF StartsInTurn
  <2>0. ~Unanswered
    BY <1>1
  <2>1. /\ camera_answers = <<>> /\ DOMAIN camera_answers = {} /\ Len(camera_answers) = 0
        /\ \A i \in DOMAIN camera_orders : ~camera_orders[i].start
    BY <2>0 DEF Unanswered
  <2>2. \A i \in DOMAIN q :
          /\ q[i].start <=> i > Len(q) - (CameraCount - 0)
          /\ q[i].start => q[i].camera = CameraAt(i - Len(q) + CameraCount)
    <3>1. ASSUME NEW i \in DOMAIN q, i > n
          PROVE  q[i].start = TRUE /\ q[i].camera = CameraAt(i - Len(q) + CameraCount)
      <4>1. i - n \in 1..CameraCount /\ n + (i - n) = i /\ i - Len(q) + CameraCount = i - n
        BY <1>4, <3>1
      <4> QED BY <1>4, <4>1
    <3>2. ASSUME NEW i \in DOMAIN q, ~(i > n) PROVE ~q[i].start
      BY <1>4, <2>1, <3>2
    <3>3. Len(q) - (CameraCount - 0) = n
      BY <1>4
    <3> QED BY <3>1, <3>2, <3>3
  <2>3. /\ CameraCount - 0 = CameraCount /\ Len(q) >= CameraCount /\ 0 <= CameraCount /\ 1..0 = {}
        /\ 0 - 0 = 0 /\ 0 <= 0 /\ ~(0 > 0)
    BY <1>4
  <2> QED BY <1>4, <2>1, <2>2, <2>3 DEF RoundOf
<1> QED BY <1>7, <1>8, <1>9 DEF CamerasInv

\* A stop that found the thread ended gives the cameras back.
LEMMA ReturnKeepsCameras ==
  ASSUME FaceTypeOK, CamerasInv, stop_returns
  PROVE  CamerasInv'
<1>1. /\ face_quitting = TRUE /\ ~FaceState /\ ~face_quitting' /\ ~FaceState'
      /\ camera_orders' = camera_orders \o Orders(FALSE)
      /\ UNCHANGED <<message_wait, camera_answers, camera_results, m_resultcount, camera_reader,
                     camera_overlap, camera_left, cameras>>
  BY DEF stop_returns, FaceState, threadVars, FaceTypeOK
<1>2. CamerasKnown' /\ StatusKnown'
  BY <1>1, NoneHeld DEF CamerasKnown, StatusKnown
<1>3. WaitKnown'
  BY <1>1, DueStays DEF CamerasInv, WaitKnown
<1>4. StartsInTurn'
  <2>1. PICK k : k = CameraCount
    OBVIOUS
  <2>2. k \in {1, 2} /\ k \in 0..2 /\ CameraCount' = k
    BY <1>1, <2>1, CamerasAre DEF CameraCount
  <2>3. PICK q : q = camera_orders'
    OBVIOUS
  <2> SUFFICES ASSUME ~camera_overlap
               PROVE  RoundOf(k, k, k, q, camera_answers, camera_reader, camera_results, m_resultcount)
    BY <1>1, <2>2, <2>3, Zenon DEF StartsInTurn
  <2>4. camera_orders = <<>> /\ camera_answers = <<>>
    BY <1>1 DEF CamerasInv, StartsInTurn
  <2>5. Len(camera_orders) = 0 /\ Len(camera_answers) = 0 /\ DOMAIN camera_answers = {}
    BY <2>4
  <2>6. /\ Len(q) = 0 + k /\ DOMAIN q = 1..(0 + k)
        /\ \A i \in 1..k : q[0 + i].start = FALSE
    BY <1>1, <2>1, <2>3, <2>5, OrdersAdded
  <2>7. \A i \in DOMAIN q : ~q[i].start /\ ~(i > Len(q) - (k - k))
    BY <2>2, <2>6
  <2> QED BY <2>2, <2>5, <2>6, <2>7 DEF RoundOf
<1> QED BY <1>2, <1>3, <1>4 DEF CamerasInv

\* The video module takes a message: what is due stays.
LEMMA DueTaken ==
  ASSUME FaceTypeOK, camera_orders # <<>>, camera_orders' = Tail(camera_orders), cameras' = cameras,
         m_resultcount' = m_resultcount,
         IF Head(camera_orders).start
         THEN \E a \in CameraAnswer : camera_answers' = Append(camera_answers, a)
         ELSE camera_answers' = camera_answers
  PROVE  /\ Unanswered => Unanswered'
         /\ AnswersDue => AnswersDue'
         /\ camera_answers' \in Seq(CameraAnswer)
         /\ Len(camera_answers') = Len(camera_answers) + (IF Head(camera_orders).start THEN 1 ELSE 0)
         /\ \A i \in DOMAIN camera_answers :
              i \in DOMAIN camera_answers' /\ camera_answers'[i] = camera_answers[i]
<1>1. PICK o, q, n : o = camera_orders /\ q = camera_orders' /\ n = Len(camera_orders)
  OBVIOUS
<1>2. /\ n \in Nat \ {0} /\ DOMAIN o = 1..n /\ DOMAIN q = 1..(n - 1) /\ Head(camera_orders) = o[1]
      /\ \A i \in 1..(n - 1) : q[i] = o[i + 1]
  BY <1>1, FirstTaken DEF FaceTypeOK
<1>3. PICK x, y : x = camera_answers /\ y = camera_answers'
  OBVIOUS
<1>4. x \in Seq(CameraAnswer) /\ DOMAIN x = 1..Len(x) /\ Len(x) \in Nat
  BY <1>3, LenProperties DEF FaceTypeOK
<1>5. /\ y \in Seq(CameraAnswer) /\ Len(y) = Len(x) + (IF o[1].start THEN 1 ELSE 0)
      /\ \A i \in DOMAIN x : i \in DOMAIN y /\ y[i] = x[i]
  <2> HIDE DEF CameraAnswer
  <2>1. CASE o[1].start
    <3>1. PICK a \in CameraAnswer : y = Append(x, a)
      BY <1>2, <1>3, <2>1
    <3>2. /\ y \in Seq(CameraAnswer) /\ Len(y) = Len(x) + 1
          /\ \A i \in 1..Len(x) : y[i] = x[i]
      BY <1>4, <3>1, AppendProperties
    <3>3. DOMAIN y = 1..(Len(x) + 1)
      BY <3>2, LenProperties
    <3> QED BY <1>4, <2>1, <3>2, <3>3
  <2>2. CASE ~o[1].start
    <3>1. y = x
      BY <1>2, <1>3, <2>2
    <3> QED BY <1>4, <2>2, <3>1
  <2> QED BY <2>1, <2>2
<1>6. /\ Len(y) \in Nat /\ Len(y) >= Len(x) /\ (o[1].start => Len(y) >= Len(x) + 1)
      /\ (Len(x) >= 1 <=> x # <<>>) /\ (Len(y) >= 1 <=> y # <<>>)
  BY <1>4, <1>5, EmptySeq, LenProperties
<1>7. \A i \in 1..n : i = 1 \/ (i - 1 \in 1..(n - 1) /\ q[i - 1] = o[i])
  BY <1>2
<1>8. (\E i \in 1..n : o[i].start) => o[1].start \/ \E i \in 1..(n - 1) : q[i].start
  BY <1>7
<1>9. ASSUME Unanswered PROVE Unanswered'
  <2>1. x # <<>> \/ \E i \in 1..n : o[i].start
    BY <1>1, <1>2, <1>3, <1>9 DEF Unanswered
  <2>2. y # <<>> \/ \E i \in 1..(n - 1) : q[i].start
    BY <1>4, <1>6, <1>8, <2>1
  <2> QED BY <1>1, <1>2, <1>3, <2>2 DEF Unanswered
<1>10. ASSUME TwoDue PROVE TwoDue'
  <2>1. \/ Len(x) >= 2
        \/ x # <<>> /\ \E i \in 1..n : o[i].start
        \/ \E i, j \in 1..n : i # j /\ o[i].start /\ o[j].start
    BY <1>1, <1>2, <1>3, <1>10 DEF TwoDue
  <2>2. \/ Len(y) >= 2
        \/ y # <<>> /\ \E i \in 1..(n - 1) : q[i].start
        \/ \E i, j \in 1..(n - 1) : i # j /\ q[i].start /\ q[j].start
    <3>1. CASE Len(x) >= 2
      BY <1>4, <1>6, <3>1
    <3>2. CASE x # <<>> /\ \E i \in 1..n : o[i].start
      BY <1>4, <1>6, <1>8, <3>2
    <3>3. ASSUME NEW i \in 1..n, NEW j \in 1..n, i # j, o[i].start, o[j].start
          PROVE  \/ y # <<>> /\ \E k \in 1..(n - 1) : q[k].start
                 \/ \E k, l \in 1..(n - 1) : k # l /\ q[k].start /\ q[l].start
      <4>1. CASE i = 1 \/ j = 1
        <5>1. o[1].start /\ \E k \in 1..(n - 1) : q[k].start
          BY <1>7, <3>3, <4>1
        <5> QED BY <1>4, <1>6, <5>1
      <4>2. CASE i # 1 /\ j # 1
        <5>1. i - 1 \in 1..(n - 1) /\ j - 1 \in 1..(n - 1) /\ i - 1 # j - 1
          BY <1>2, <3>3, <4>2
        <5> QED BY <1>7, <3>3, <4>2, <5>1
      <4> QED BY <4>1, <4>2
    <3> QED BY <2>1, <3>1, <3>2, <3>3
  <2> QED BY <1>1, <1>2, <1>3, <2>2 DEF TwoDue
<1>11. AnswersDue => AnswersDue'
  BY <1>3, <1>5, <1>9, <1>10 DEF AnswersDue
<1> QED BY <1>1, <1>2, <1>3, <1>5, <1>9, <1>11

\* The camera module takes an order: a start is answered, a stop is not.
LEMMA TakenKeepsCameras ==
  ASSUME FaceTypeOK, CamerasInv, NEW ok \in BOOLEAN, order_taken(ok)
  PROVE  CamerasInv' /\ camera_answers' \in Seq(CameraAnswer)
<1>1. /\ camera_orders # <<>> /\ camera_orders' = Tail(camera_orders)
      /\ UNCHANGED <<face_status, message_wait, camera_results, m_resultcount, camera_overlap,
                     camera_left, face_thread, face_quitting, cameras>>
  BY DEF order_taken, threadVars
<1>2. PICK o, q, n : o = camera_orders /\ q = camera_orders' /\ n = Len(camera_orders)
  OBVIOUS
<1>3. /\ n \in Nat \ {0} /\ DOMAIN o = 1..n /\ DOMAIN q = 1..(n - 1)
      /\ Len(o) = n /\ Len(q) = n - 1 /\ Head(camera_orders) = o[1] /\ o[1] \in CameraMessage
      /\ \A i \in 1..(n - 1) : q[i] = o[i + 1]
  BY <1>1, <1>2, FirstTaken DEF FaceTypeOK
<1>4. PICK x, y : x = camera_answers /\ y = camera_answers'
  OBVIOUS
<1>5. PICK r, s : r = camera_reader /\ s = camera_reader'
  OBVIOUS
<1>6. IF o[1].start
      THEN y = Append(x, [camera |-> o[1].camera, ok |-> ok]) /\ s = IF ok THEN r \cup {o[1].camera} ELSE r
      ELSE y = x /\ s = r \ {o[1].camera}
  BY <1>3, <1>4, <1>5 DEF order_taken
<1>7. [camera |-> o[1].camera, ok |-> ok] \in CameraAnswer
  BY <1>3 DEF CameraMessage, CameraAnswer
<1>8. /\ Unanswered => Unanswered'
      /\ AnswersDue => AnswersDue'
      /\ y \in Seq(CameraAnswer)
      /\ Len(y) = Len(x) + (IF o[1].start THEN 1 ELSE 0)
      /\ \A i \in DOMAIN x : i \in DOMAIN y /\ y[i] = x[i]
  <2>1. IF Head(camera_orders).start
        THEN \E a \in CameraAnswer : camera_answers' = Append(camera_answers, a)
        ELSE camera_answers' = camera_answers
    BY <1>3, <1>4, <1>6, <1>7
  <2> QED BY <1>1, <1>3, <1>4, <2>1, DueTaken
<1>9. DOMAIN x = 1..Len(x) /\ Len(x) \in Nat /\ DOMAIN y = 1..Len(y)
  BY <1>4, <1>8, LenProperties DEF FaceTypeOK
<1>10. o[1].start => y[Len(x) + 1] = [camera |-> o[1].camera, ok |-> ok]
  <2>1. x \in Seq(CameraAnswer)
    BY <1>4 DEF FaceTypeOK
  <2> HIDE DEF CameraAnswer
  <2> QED BY <1>6, <1>7, <2>1, AppendProperties
<1>11. WaitKnown' /\ StatusKnown'
  BY <1>1, <1>8 DEF CamerasInv, WaitKnown, StatusKnown, FaceState
<1>12. CamerasKnown'
  <2> SUFFICES ASSUME NEW c \in cameras, CameraHeld(c)'
               PROVE  FaceState \/ face_quitting \/ camera_left \/ AnswersDue'
    BY <1>1 DEF CamerasKnown, FaceState
  <2>1. HeldIn(c, q, s)
    BY <1>1, <1>2, <1>5 DEF CameraHeld, HeldIn
  <2>2. CASE CameraHeld(c)
    BY <1>8, <2>2 DEF CamerasInv, CamerasKnown
  <2>3. CASE ~CameraHeld(c)
    <3>1. \A i \in 1..n : i = 1 \/ (i - 1 \in 1..(n - 1) /\ q[i - 1] = o[i])
      BY <1>3
    <3>2. ~HeldIn(c, o, r)
      BY <1>2, <1>5, <2>3 DEF CameraHeld
    <3>3. /\ c \in s
          /\ \A i \in DOMAIN q : q[i].start \/ q[i].camera # c
      <4>1. ASSUME "nis" \in cameras, NEW i \in DOMAIN q, q[i].start, q[i].camera = c,
                   \A j \in DOMAIN q : j > i => q[j].start \/ q[j].camera # c
            PROVE  FALSE
        <5>1. i + 1 \in 1..n /\ o[i + 1] = q[i]
          BY <1>3
        <5>2. ASSUME NEW j \in 1..n, j > i + 1 PROVE o[j].start \/ o[j].camera # c
          <6>1. j - 1 \in DOMAIN q /\ j - 1 > i /\ o[j] = q[j - 1]
            BY <1>3, <3>1, <5>1, <5>2
          <6> QED BY <4>1, <6>1
        <5> QED BY <1>3, <3>2, <4>1, <5>1, <5>2 DEF HeldIn
      <4> QED BY <2>1, <4>1 DEF HeldIn
    <3>4. \A i \in 1..n : i # 1 => o[i].start \/ o[i].camera # c
      BY <1>3, <3>1, <3>3
    <3>5. o[1].start /\ ok = TRUE /\ o[1].camera = c
      <4>1. CASE c \in r
        <5>1. o[1].start \/ o[1].camera # c
          BY <1>6, <3>3
        <5> QED BY <1>3, <3>2, <3>4, <4>1, <5>1 DEF HeldIn
      <4>2. CASE c \notin r
        BY <1>6, <3>3, <4>2
      <4> QED BY <4>1, <4>2
    <3>6. "nis" \notin cameras
      <4>1. \A j \in 1..n : j > 1 => o[j].start \/ o[j].camera # c
        BY <1>3, <3>4
      <4> QED BY <1>3, <3>2, <3>5, <4>1 DEF HeldIn
    <3>7. Len(x) + 1 \in DOMAIN y /\ y[Len(x) + 1].ok
      BY <1>8, <1>9, <1>10, <3>5
    <3> QED BY <1>1, <1>4, <3>6, <3>7 DEF AnswersDue
  <2> QED BY <2>2, <2>3
<1>13. StartsInTurn'
  <2>1. PICK k : k = CameraCount
    OBVIOUS
  <2>2. k \in {1, 2} /\ CameraCount' = k
    BY <1>1, <2>1, CamerasAre DEF CameraCount
  <2> SUFFICES ASSUME ~camera_overlap
               PROVE  /\ \E a, b \in 0..2 : RoundOf(a, b, k, q, y, s, camera_results, m_resultcount)
                      /\ ~FaceState /\ ~face_quitting
    BY <1>1, <1>2, <1>4, <1>5, <2>2 DEF StartsInTurn, FaceState
  <2>3. PICK a \in 0..2, b \in 0..2 : RoundOf(a, b, k, o, x, r, camera_results, m_resultcount)
    BY <1>2, <1>4, <1>5, <2>1 DEF CamerasInv, StartsInTurn
  <2>4. ~FaceState /\ ~face_quitting
    BY <1>1 DEF CamerasInv, StartsInTurn
  <2>5. CASE o[1].start
    <3>1. n = k - b /\ b < k /\ 1 - n + k = b + 1 /\ Len(x) = b - a /\ a <= b
      BY <1>3, <2>2, <2>3, <2>5 DEF RoundOf
    <3>2. o[1].camera = CameraAt(b + 1)
      BY <1>3, <2>3, <2>5, <3>1 DEF RoundOf
    <3>3. r \subseteq s /\ (ok => CameraAt(b + 1) \in s)
      BY <1>6, <2>5, <3>2
    <3>4. Len(y) = (b + 1) - a /\ DOMAIN y = 1..((b + 1) - a) /\ Len(x) + 1 = (b + 1) - a
      BY <1>8, <1>9, <2>5, <3>1
    <3>5. \A i \in DOMAIN y :
            y[i].camera = CameraAt(a + i) /\ (y[i].ok => CameraAt(a + i) \in s)
      <4>1. ASSUME NEW i \in DOMAIN x
            PROVE  y[i].camera = CameraAt(a + i) /\ (y[i].ok => CameraAt(a + i) \in s)
        BY <1>8, <2>3, <3>3 DEF RoundOf
      <4>2. \A i \in DOMAIN y : i \in DOMAIN x \/ (i = Len(x) + 1 /\ a + i = b + 1)
        BY <1>9, <3>1, <3>4
      <4>3. y[Len(x) + 1].camera = CameraAt(b + 1) /\ (y[Len(x) + 1].ok => CameraAt(b + 1) \in s)
        BY <1>10, <2>5, <3>2, <3>3
      <4> QED BY <4>1, <4>2, <4>3
    <3>6. \A i \in DOMAIN q :
            /\ q[i].start <=> i > Len(q) - (k - (b + 1))
            /\ q[i].start => q[i].camera = CameraAt(i - Len(q) + k)
      <4> SUFFICES ASSUME NEW i \in DOMAIN q
                   PROVE  q[i].start /\ i > Len(q) - (k - (b + 1))
                          /\ q[i].camera = CameraAt(i - Len(q) + k)
        OBVIOUS
      <4>1. i + 1 \in DOMAIN o /\ q[i] = o[i + 1] /\ i + 1 > Len(o) - (k - b)
            /\ (i + 1) - Len(o) + k = i - Len(q) + k /\ i > Len(q) - (k - (b + 1))
        BY <1>3, <2>2, <3>1
      <4>2. o[i + 1].start /\ o[i + 1].camera = CameraAt((i + 1) - Len(o) + k)
        BY <2>3, <4>1 DEF RoundOf
      <4> QED BY <4>1, <4>2
    <3>7. a <= b + 1 /\ b + 1 <= k /\ b + 1 \in 0..2 /\ Len(q) = k - (b + 1) /\ a < k
      <4>1. n = k - b /\ b < k /\ a <= b
        BY <3>1
      <4>2. n \in Nat /\ Len(q) = n - 1
        BY <1>3
      <4>3. k = 1 \/ k = 2
        BY <2>2
      <4>4. a \in {0, 1, 2} /\ b \in {0, 1, 2}
        OBVIOUS
      <4> QED BY <4>1, <4>2, <4>3, <4>4
    <3>8. RoundOf(a, b + 1, k, q, y, s, camera_results, m_resultcount)
      BY <2>3, <3>3, <3>4, <3>5, <3>6, <3>7 DEF RoundOf
    <3> QED BY <2>4, <3>7, <3>8
  <2>6. CASE ~o[1].start
    <3>1. ~(1 > n - (k - b))
      BY <1>3, <2>3, <2>6 DEF RoundOf
    <3>2. a = b /\ (a < k => a = 0)
      BY <1>3, <2>2, <2>3, <3>1 DEF RoundOf
    <3>3. y = x /\ Len(x) = 0 /\ DOMAIN x = {}
      BY <1>6, <1>9, <2>3, <2>6, <3>2 DEF RoundOf
    <3>4. \A i \in DOMAIN q :
            /\ q[i].start <=> i > Len(q) - (k - b)
            /\ q[i].start => q[i].camera = CameraAt(i - Len(q) + k)
      <4> SUFFICES ASSUME NEW i \in DOMAIN q
                   PROVE  /\ q[i].start <=> i > Len(q) - (k - b)
                          /\ q[i].start => q[i].camera = CameraAt(i - Len(q) + k)
        OBVIOUS
      <4>1. i + 1 \in DOMAIN o /\ q[i] = o[i + 1] /\ (i + 1) - Len(o) + k = i - Len(q) + k
            /\ (i + 1 > Len(o) - (k - b) <=> i > Len(q) - (k - b))
        BY <1>3, <2>2
      <4>2. /\ o[i + 1].start <=> i + 1 > Len(o) - (k - b)
            /\ o[i + 1].start => o[i + 1].camera = CameraAt((i + 1) - Len(o) + k)
        BY <2>3, <4>1 DEF RoundOf
      <4> QED BY <4>1, <4>2
    <3>5. Len(q) >= k - b /\ 1..0 = {} /\ ~(0 > 0) /\ (a < k => 1..a = {} /\ ~(b > 0))
      BY <1>3, <2>2, <3>1, <3>2
    <3>6. RoundOf(a, b, k, q, y, s, camera_results, m_resultcount)
      BY <2>3, <3>2, <3>3, <3>4, <3>5 DEF RoundOf
    <3> QED BY <2>4, <3>6
  <2> QED BY <2>5, <2>6
<1> QED BY <1>4, <1>8, <1>11, <1>12, <1>13 DEF CamerasInv

\* What the handler does with an answer, and what it finds in the cameras.
LEMMA AnswerHandled ==
  ASSUME FaceTypeOK, NEW ok \in BOOLEAN, camera_message(ok), NEW a, a = Head(camera_answers), NEW failed,
         failed = IF a.ok THEN camera_results \ {a.camera} ELSE camera_results \cup {a.camera},
         NEW last, last = ("nis" \notin cameras \/ m_resultcount = 1)
  PROVE  /\ ~face_quitting /\ camera_results' = failed
         /\ m_resultcount' = (IF m_resultcount > 2 THEN m_resultcount ELSE m_resultcount + 1)
         /\ UNCHANGED <<camera_reader, camera_overlap, face_quitting, cameras, face_task, livetask,
                        face_misled, face_starts, face_sent>>
         /\ IF last THEN message_wait' = "none" ELSE message_wait' = message_wait
         /\ \/ /\ ~last
               /\ UNCHANGED <<face_queue, face_open, face_thread, camera_orders, face_status, camera_left>>
            \/ /\ last /\ FaceState /\ face_status' = TRUE
               /\ UNCHANGED <<face_queue, face_open, face_thread, camera_orders, camera_left>>
            \/ /\ last /\ ~FaceState /\ failed = {} /\ ok /\ clean_message /\ face_thread' = "begins"
               /\ camera_left' = FALSE /\ face_status' = TRUE /\ UNCHANGED camera_orders
            \/ /\ last /\ ~FaceState /\ failed = {} /\ camera_left' = TRUE
               /\ UNCHANGED <<face_queue, face_open, face_thread, face_status, camera_orders>>
            \/ /\ last /\ ~FaceState /\ failed # {}
               /\ camera_orders' =
                    camera_orders \o IF "nis" \in cameras THEN Orders(FALSE) ELSE <<>>
               /\ UNCHANGED <<face_queue, face_open, face_thread, face_status, camera_left>>
BY DEF camera_message, cameras_answered, readly_start

\* An answer is handled: the first of two is counted, the last starts or gives up.
LEMMA AnswerKeepsCameras ==
  ASSUME FaceTypeOK, CamerasInv, NEW ok \in BOOLEAN, camera_message(ok)
  PROVE  CamerasInv' /\ camera_orders' \in Seq(CameraMessage) /\ camera_results' \subseteq cameras
<1>1. PICK a, failed, last :
        /\ a = Head(camera_answers)
        /\ failed = IF a.ok THEN camera_results \ {a.camera} ELSE camera_results \cup {a.camera}
        /\ last = ("nis" \notin cameras \/ m_resultcount = 1)
  OBVIOUS
<1>2. /\ ~face_quitting /\ ~face_quitting' /\ camera_results' = failed
      /\ m_resultcount' = (IF m_resultcount > 2 THEN m_resultcount ELSE m_resultcount + 1)
      /\ UNCHANGED <<camera_reader, camera_overlap, cameras>>
      /\ IF last THEN message_wait' = "none" ELSE message_wait' = message_wait
  BY <1>1, AnswerHandled
<1>3. \/ /\ ~last
         /\ UNCHANGED <<face_thread, camera_orders, face_status, camera_left>>
      \/ last /\ FaceState /\ face_status' = TRUE /\ UNCHANGED <<face_thread, camera_orders, camera_left>>
      \/ /\ last /\ ~FaceState /\ failed = {} /\ face_thread' = "begins"
         /\ camera_left' = FALSE /\ face_status' = TRUE /\ UNCHANGED camera_orders
      \/ /\ last /\ ~FaceState /\ failed = {} /\ camera_left' = TRUE
         /\ UNCHANGED <<face_thread, face_status, camera_orders>>
      \/ /\ last /\ ~FaceState /\ failed # {}
         /\ camera_orders' = camera_orders \o IF "nis" \in cameras THEN Orders(FALSE) ELSE <<>>
         /\ UNCHANGED <<face_thread, face_status, camera_left>>
  BY <1>1, AnswerHandled
<1>4. PICK x, y, m : x = camera_answers /\ y = camera_answers' /\ m = Len(camera_answers)
  OBVIOUS
<1>5. /\ m \in Nat \ {0} /\ DOMAIN x = 1..m /\ DOMAIN y = 1..(m - 1) /\ a = x[1] /\ a \in CameraAnswer
      /\ Len(x) = m /\ Len(y) = m - 1 /\ \A i \in 1..(m - 1) : y[i] = x[i + 1]
  <2>1. camera_answers # <<>> /\ camera_answers' = Tail(camera_answers)
    BY DEF camera_message
  <2> QED BY <1>1, <1>4, <2>1, FirstTaken DEF FaceTypeOK
<1>6. a.camera \in cameras /\ failed \subseteq cameras /\ a.ok \in BOOLEAN
  BY <1>1, <1>5 DEF FaceTypeOK, CameraAnswer
<1>7. PICK o, q, n : o = camera_orders /\ q = camera_orders' /\ n = Len(camera_orders)
  OBVIOUS
<1>8. /\ o \in Seq(CameraMessage) /\ n \in Nat /\ Len(o) = n /\ DOMAIN o = 1..n
      /\ CameraCount \in {1, 2} /\ ("nis" \in cameras <=> CameraCount = 2)
  <2>1. o \in Seq(CameraMessage)
    BY <1>7 DEF FaceTypeOK
  <2> QED BY <1>7, <2>1, LenProperties, CamerasAre
<1>9. /\ q \in Seq(CameraMessage)
      /\ q = o \/ (last /\ ~FaceState /\ failed # {} /\ CameraCount = 2 /\ q = o \o Orders(FALSE))
  <2>1. CASE q = o
    BY <1>8, <2>1
  <2>2. CASE /\ last /\ ~FaceState /\ failed # {}
             /\ q = o \o IF "nis" \in cameras THEN Orders(FALSE) ELSE <<>>
    <3>1. CASE CameraCount = 2
      BY <1>7, <1>8, <2>2, <3>1, OrdersAdded
    <3>2. CASE CameraCount = 1
      <4>1. q = o \o <<>>
        BY <1>8, <2>2, <3>2
      <4>2. q = o
        <5> HIDE DEF CameraMessage
        <5> QED BY <1>8, <4>1, ConcatEmptySeq
      <4> QED BY <1>8, <4>2
    <3> QED BY <1>8, <3>1, <3>2
  <2> QED BY <1>3, <1>7, <2>1, <2>2
\* A first of two answers.
<1>10. ASSUME ~last
       PROVE  /\ CameraCount = 2 /\ q = o /\ m_resultcount # 1
              /\ AnswersDue => AnswersDue'
  <2>1. CameraCount = 2 /\ q = o /\ m_resultcount # 1
    BY <1>1, <1>3, <1>7, <1>8, <1>10
  <2>2. AnswersDue => m_resultcount = 0 /\ TwoDue
    BY <1>8, <2>1 DEF AnswersDue
  <2>3. TwoDue => Unanswered'
    <3>1. (Len(x) >= 2 => y # <<>>) /\ Unanswered' = (y # <<>> \/ \E i \in DOMAIN o : o[i].start)
      BY <1>4, <1>5, <1>7, <2>1 DEF Unanswered
    <3> QED BY <1>4, <1>7, <3>1 DEF TwoDue
  <2> QED BY <1>2, <1>8, <2>1, <2>2, <2>3 DEF AnswersDue
<1>11. WaitKnown' /\ StatusKnown'
  <2>1. WaitKnown'
    BY <1>2, <1>8, <1>10 DEF CamerasInv, WaitKnown
  <2>2. StatusKnown'
    BY <1>3 DEF CamerasInv, StatusKnown, FaceState
  <2> QED BY <2>1, <2>2
<1>12. CamerasKnown'
  <2> SUFFICES ASSUME NEW c \in cameras, CameraHeld(c)'
               PROVE  (FaceState \/ camera_left \/ AnswersDue)'
    BY <1>2 DEF CamerasKnown
  <2>1. ASSUME q = o PROVE FaceState \/ camera_left \/ AnswersDue
    <3>1. CameraHeld(c)
      BY <1>2, <1>7, <2>1 DEF CameraHeld, HeldIn
    <3> QED BY <1>2, <3>1 DEF CamerasInv, CamerasKnown
  <2>2. CASE ~last
    <3>1. q = o /\ (AnswersDue => AnswersDue')
      BY <1>10, <2>2
    <3>2. face_thread' = face_thread /\ camera_left' = camera_left
      BY <1>3, <2>2
    <3> QED BY <2>1, <3>1, <3>2 DEF FaceState
  <2>3. CASE last /\ (FaceState \/ failed = {})
    <3>1. (FaceState /\ face_thread' = face_thread) \/ face_thread' = "begins" \/ camera_left' = TRUE
      BY <1>3, <2>3
    <3> QED BY <3>1 DEF FaceState
  <2>4. CASE last /\ ~FaceState /\ failed # {} /\ CameraCount = 2
    <3>1. camera_orders' = camera_orders \o Orders(FALSE)
      BY <1>3, <1>8, <2>4
    <3>2. ~CameraHeld(c)'
      BY <1>2, <3>1, NoneHeld
    <3> QED BY <3>2
  <2>5. CASE last /\ ~FaceState /\ failed # {} /\ CameraCount = 1
    <3>1. q = o /\ camera_left' = camera_left
      BY <1>3, <1>8, <1>9, <2>5
    <3>2. CASE camera_left
      BY <3>1, <3>2
    <3>3. CASE AnswersDue
      <4>1. PICK i \in 1..m : x[i].ok
        BY <1>4, <1>5, <1>8, <2>5, <3>3 DEF AnswersDue
      <4>2. ~a.ok
        <5>1. cameras = {"vis"}
          BY <1>8, <2>5 DEF FaceTypeOK
        <5>2. camera_results \ {a.camera} = {}
          BY <1>6, <5>1 DEF FaceTypeOK
        <5> QED BY <1>1, <2>5, <5>2
      <4>3. i # 1 /\ i - 1 \in 1..(m - 1) /\ y[i - 1] = x[i]
        BY <1>5, <4>1, <4>2
      <4> QED BY <1>2, <1>4, <1>5, <1>8, <2>5, <4>1, <4>3 DEF AnswersDue
    <3> QED BY <2>1, <2>5, <3>1, <3>2, <3>3
  <2> QED BY <1>1, <1>8, <2>2, <2>3, <2>4, <2>5
<1>13. StartsInTurn'
  <2>1. PICK k, r : k = CameraCount /\ r = camera_reader
    OBVIOUS
  <2>2. k \in {1, 2} /\ CameraCount' = k /\ ("nis" \in cameras <=> k = 2)
    BY <1>2, <1>8, <2>1 DEF CameraCount
  <2> SUFFICES ASSUME ~camera_overlap
               PROVE  /\ \E c, d \in 0..2 : RoundOf(c, d, k, q, y, r, failed, m_resultcount')
                      /\ FaceState' => q = <<>> /\ y = <<>> /\ r = cameras
    BY <1>2, <1>4, <1>7, <2>1, <2>2 DEF StartsInTurn
  <2>3. PICK c \in 0..2, b \in 0..2 : RoundOf(c, b, k, o, x, r, camera_results, m_resultcount)
    BY <1>4, <1>7, <2>1 DEF CamerasInv, StartsInTurn
  <2>4. ~FaceState
    BY <1>4, <1>5 DEF CamerasInv, StartsInTurn
  <2>5. /\ m = b - c /\ b <= k /\ c < k /\ b > 0 /\ n = k - b /\ (k = 2 => m_resultcount = c)
        /\ a.camera = CameraAt(c + 1) /\ (a.ok => CameraAt(c + 1) \in r)
        /\ \A i \in 1..c : CameraAt(i) \notin camera_results => CameraAt(i) \in r
    <3>1. m = b - c /\ b <= k /\ c < k /\ b > 0
      BY <1>5, <2>2, <2>3 DEF RoundOf
    <3>2. 1 \in DOMAIN x
      BY <1>5
    <3> QED BY <1>5, <1>8, <2>3, <3>1, <3>2 DEF RoundOf
  <2>6. \A i \in 1..(c + 1) : CameraAt(i) \notin failed => CameraAt(i) \in r
    <3>1. CameraAt(c + 1) \notin failed => CameraAt(c + 1) \in r
      BY <1>1, <1>6, <2>5
    <3>2. ASSUME NEW i \in 1..c, CameraAt(i) \notin failed PROVE CameraAt(i) \in r
      <4>1. CameraAt(i) # CameraAt(c + 1)
        BY <2>2, <2>5, <3>2 DEF CameraAt
      <4>2. CameraAt(i) \notin camera_results
        BY <1>1, <2>5, <3>2, <4>1
      <4> QED BY <2>5, <4>2
    <3>3. \A i \in 1..(c + 1) : i \in 1..c \/ i = c + 1
      OBVIOUS
    <3> QED BY <3>1, <3>2, <3>3
  <2>7. CASE ~last
    <3>1. q = o /\ k = 2 /\ c = 0 /\ m_resultcount' = 1
      BY <1>2, <1>10, <2>1, <2>2, <2>5, <2>7
    <3>2. \A i \in DOMAIN y :
            y[i].camera = CameraAt(1 + i) /\ (y[i].ok => CameraAt(1 + i) \in r)
      <4> SUFFICES ASSUME NEW i \in DOMAIN y
                   PROVE  y[i].camera = CameraAt(1 + i) /\ (y[i].ok => CameraAt(1 + i) \in r)
        OBVIOUS
      <4>1. i + 1 \in DOMAIN x /\ y[i] = x[i + 1] /\ c + (i + 1) = 1 + i
        BY <1>5, <3>1
      <4> QED BY <2>3, <4>1 DEF RoundOf
    <3>3. 1 <= b /\ b <= 2 /\ Len(y) = b - 1 /\ 1 \in 0..2 /\ c + 1 = 1
      BY <1>5, <2>2, <2>5, <3>1
    <3>4. RoundOf(1, b, k, q, y, r, failed, m_resultcount')
      BY <1>8, <2>3, <2>5, <2>6, <3>1, <3>2, <3>3 DEF RoundOf
    <3>5. ~FaceState'
      BY <1>3, <2>4, <2>7 DEF FaceState
    <3> QED BY <3>3, <3>4, <3>5
  <2>8. CASE last
    <3>1. c + 1 = k /\ b = k /\ n = 0 /\ m = 1
      <4>1. "nis" \notin cameras \/ m_resultcount = 1
        BY <1>1, <2>8
      <4>2. c + 1 = k
        BY <2>2, <2>5, <4>1
      <4> QED BY <1>5, <2>2, <2>5, <4>2
    <3>2. DOMAIN y = {} /\ Len(y) = 0 /\ y = <<>>
      <4>1. y \in Seq(CameraAnswer)
        <5>1. camera_answers # <<>> /\ camera_answers' = Tail(camera_answers)
          BY DEF camera_message
        <5> QED BY <1>4, <5>1, FirstTaken DEF FaceTypeOK
      <4> HIDE DEF CameraAnswer
      <4> QED BY <1>5, <3>1, <4>1, EmptySeq
    <3>3. /\ Len(q) >= 0 /\ \A i \in DOMAIN q : ~q[i].start /\ ~(i > Len(q) - (k - k))
      <4>1. CASE q = o
        <5>1. Len(q) = 0 /\ DOMAIN q = 1..0
          BY <1>8, <3>1, <4>1
        <5> QED BY <2>2, <5>1
      <4>2. CASE CameraCount = 2 /\ q = o \o Orders(FALSE)
        <5>1. /\ Len(q) = 0 + 2 /\ DOMAIN q = 1..(0 + 2)
              /\ \A i \in 1..2 : q[0 + i].start = FALSE
          BY <1>7, <1>8, <3>1, <4>2, OrdersAdded
        <5>4. k = 2
          BY <2>1, <4>2
        <5>2. k - k = 0 /\ Len(q) = 2
          BY <5>1, <5>4
        <5>3. \A i \in DOMAIN q : i \in 1..2 /\ 0 + i = i
          BY <5>1
        <5> QED BY <5>1, <5>2, <5>3, <5>4
      <4> QED BY <1>9, <4>1, <4>2
    <3>4. RoundOf(k, k, k, q, y, r, failed, m_resultcount')
      BY <2>2, <3>2, <3>3 DEF RoundOf
    <3>5. ASSUME FaceState' PROVE q = <<>> /\ y = <<>> /\ r = cameras
      <4>1. failed = {} /\ q = o
        BY <1>3, <1>7, <2>4, <2>8, <3>5 DEF FaceState
      <4>2. q = <<>>
        <5> HIDE DEF CameraMessage
        <5> QED BY <1>8, <3>1, <4>1, EmptySeq
      <4>3. \A d \in cameras : d \in r
        BY <2>1, <2>6, <3>1, <4>1, CamerasAre
      <4> QED BY <2>1, <3>2, <4>2, <4>3 DEF FaceTypeOK
    <3>6. k \in 0..2
      BY <2>2
    <3> QED BY <3>4, <3>5, <3>6
  <2> QED BY <1>1, <2>7, <2>8
<1> QED BY <1>2, <1>6, <1>7, <1>9, <1>11, <1>12, <1>13 DEF CamerasInv

-------------------------------------------------------------------------------
\* How often x is in a queue.
Places(queue, x) == {i \in DOMAIN queue : queue[i] = x}
Count(queue, x) == Cardinality(Places(queue, x))

\* A queue holds a message finitely often.
LEMMA PlacesFinite ==
  ASSUME NEW S, NEW queue \in Seq(S), NEW x
  PROVE  /\ IsFiniteSet(Places(queue, x)) /\ Count(queue, x) \in Nat
         /\ queue = <<>> => Count(queue, x) = 0
<1>1. DOMAIN queue = 1..Len(queue) /\ Len(queue) \in Nat
  BY LenProperties
<1>2. IsFiniteSet(DOMAIN queue)
  BY <1>1, FS_Interval
<1>3. IsFiniteSet(Places(queue, x))
  BY <1>2, FS_Subset DEF Places
<1>4. Count(queue, x) \in Nat
  BY <1>3, FS_CardinalityType DEF Count
<1>5. ASSUME queue = <<>> PROVE Count(queue, x) = 0
  <2>1. Places(queue, x) = {}
    BY <1>5 DEF Places
  <2> QED BY <2>1, FS_EmptySet DEF Count
<1> QED BY <1>3, <1>4, <1>5

\* A message put into a queue is counted once more.
LEMMA CountPut ==
  ASSUME NEW S, NEW queue \in Seq(S), NEW m \in S, NEW x
  PROVE  Count(Append(queue, m), x) = Count(queue, x) + (IF m = x THEN 1 ELSE 0)
<1>1. PICK n, q : n = Len(queue) /\ q = Append(queue, m)
  OBVIOUS
<1>2. /\ n \in Nat /\ DOMAIN queue = 1..n /\ DOMAIN q = 1..(n + 1) /\ q[n + 1] = m
      /\ \A i \in 1..n : q[i] = queue[i]
  <2>1. q \in Seq(S) /\ Len(q) = n + 1 /\ q[n + 1] = m /\ \A i \in 1..n : q[i] = queue[i]
    BY <1>1, AppendProperties
  <2> QED BY <1>1, <2>1, LenProperties
<1>3. Places(q, x) = Places(queue, x) \cup (IF m = x THEN {n + 1} ELSE {})
  BY <1>2 DEF Places
<1>4. n + 1 \notin Places(queue, x)
  BY <1>2 DEF Places
<1>5. IsFiniteSet(Places(queue, x)) /\ Count(queue, x) \in Nat
  BY PlacesFinite
<1>6. CASE m = x
  <2>1. Places(q, x) = Places(queue, x) \cup {n + 1}
    BY <1>3, <1>6
  <2>2. Cardinality(Places(queue, x) \cup {n + 1}) = Cardinality(Places(queue, x)) + 1
    BY <1>4, <1>5, FS_AddElement
  <2> QED BY <1>1, <1>5, <1>6, <2>1, <2>2 DEF Count
<1>7. CASE m # x
  <2>1. Places(q, x) = Places(queue, x)
    BY <1>3, <1>7
  <2> QED BY <1>1, <1>5, <1>7, <2>1 DEF Count
<1> QED BY <1>6, <1>7

\* The message taken from a queue was counted once.
LEMMA CountTaken ==
  ASSUME NEW S, NEW queue \in Seq(S), queue # <<>>, NEW x
  PROVE  Count(queue, x) = Count(Tail(queue), x) + (IF Head(queue) = x THEN 1 ELSE 0)
<1>1. PICK n, q : n = Len(queue) /\ q = Tail(queue)
  OBVIOUS
<1>2. /\ n \in Nat \ {0} /\ DOMAIN queue = 1..n /\ DOMAIN q = 1..(n - 1) /\ q \in Seq(S)
      /\ Head(queue) = queue[1] /\ \A i \in 1..(n - 1) : q[i] = queue[i + 1]
  BY <1>1, FirstTaken
<1>3. PICK f : f = [i \in Places(q, x) |-> i + 1]
  OBVIOUS
<1>4. PICK rest : rest = Places(queue, x) \ {1}
  OBVIOUS
<1>5. /\ IsFiniteSet(Places(q, x)) /\ Count(q, x) \in Nat
      /\ IsFiniteSet(Places(queue, x)) /\ Count(queue, x) \in Nat
  BY <1>2, PlacesFinite
<1>6. \A i \in Places(q, x) : i \in Nat /\ i + 1 \in rest
  BY <1>2, <1>4 DEF Places
<1>7. \A i \in rest : i \in Nat /\ i - 1 \in Places(q, x) /\ (i - 1) + 1 = i
  BY <1>2, <1>4 DEF Places
<1>8. f \in Bijection(Places(q, x), rest)
  <2>1. f \in [Places(q, x) -> rest]
    BY <1>3, <1>6
  <2>2. \A i, j \in Places(q, x) : f[i] = f[j] => i = j
    BY <1>3, <1>6
  <2>3. \A i \in rest : \E j \in Places(q, x) : f[j] = i
    BY <1>3, <1>7
  <2> QED BY <2>1, <2>2, <2>3 DEF Bijection, Injection, IsInjective, Surjection
<1>9. Cardinality(rest) = Count(q, x)
  BY <1>5, <1>8, FS_Bijection DEF ExistsBijection, Count
<1>10. Cardinality(rest) = IF 1 \in Places(queue, x) THEN Count(queue, x) - 1 ELSE Count(queue, x)
  BY <1>4, <1>5, FS_RemoveElement DEF Count
<1>11. 1 \in Places(queue, x) <=> Head(queue) = x
  BY <1>2 DEF Places
<1> QED BY <1>1, <1>5, <1>9, <1>10, <1>11

-------------------------------------------------------------------------------
\* The record in which a turn of the loop stands, and what it owes to whom.
FaceTurn == [task : [to : FaceClient, of : FaceClient] \cup {NoSnapshot},
             live : FaceClient \cup {"none"},
             open : [FaceKind -> [FaceClient -> Int]],
             misled : BOOLEAN]

Owed(t, k, c) == (IF k = "face" /\ t.task.of = c THEN 1 ELSE 0)
                 + (IF k = "live" /\ t.live = c THEN 1 ELSE 0)

\* Where as many requests wait in the queue as wait says.
Accounts(t, wait) ==
  t.misled \/ \A k \in FaceKind, c \in FaceClient : t.open[k][c] = wait[k][c] + Owed(t, k, c)

Counts == [FaceKind -> [FaceClient -> Int]]

\* What answering one request does to the counts.
LEMMA DoneIs ==
  ASSUME NEW open \in Counts, NEW k \in FaceKind, NEW c \in FaceClient
  PROVE  /\ Done(open, k, c) \in Counts
         /\ \A l \in FaceKind, d \in FaceClient :
              Done(open, k, c)[l][d] = open[l][d] - (IF l = k /\ d = c THEN 1 ELSE 0)
BY DEF Done, Counts

\* NoSnapshot is nobody's.
LEMMA Nobody ==
  /\ NoSnapshot.of \notin FaceClient
  /\ \A s \in [to : FaceClient, of : FaceClient] : s # NoSnapshot
BY FaceAssumption DEF NoSnapshot

\* The photograph of a live request answers it.
LEMMA PhotographedKeeps ==
  ASSUME NEW t \in FaceTurn, NEW wait \in Counts, Accounts(t, wait)
  PROVE  Photographed(t) \in FaceTurn /\ Accounts(Photographed(t), wait) /\ Photographed(t).live = "none"
<1>1. CASE t.live = "none"
  BY <1>1 DEF Photographed
<1>2. CASE t.live # "none"
  <2>1. t.live \in FaceClient /\ t.open \in Counts /\ "live" \in FaceKind
    BY <1>2 DEF FaceTurn, Counts, FaceKind
  <2>2. PICK u : u = Photographed(t)
    OBVIOUS
  <2>3. PICK open : open = Done(t.open, "live", t.live)
    OBVIOUS
  <2>4. u.live = "none" /\ u.task = t.task /\ u.misled = t.misled /\ u.open = open
    BY <1>2, <2>2, <2>3 DEF Photographed, FaceTurn
  <2>5. /\ open \in Counts
        /\ \A l \in FaceKind, d \in FaceClient :
             open[l][d] = t.open[l][d] - (IF l = "live" /\ d = t.live THEN 1 ELSE 0)
    BY <2>1, <2>3, DoneIs
  <2>6. u \in FaceTurn
    BY <1>2, <2>2, <2>3, <2>5 DEF Photographed, FaceTurn, Counts
  <2>7. ASSUME ~t.misled, NEW k \in FaceKind, NEW c \in FaceClient
        PROVE  u.open[k][c] = wait[k][c] + Owed(u, k, c)
    <3>1. t.open[k][c] = wait[k][c] + Owed(t, k, c)
      BY <2>7 DEF Accounts
    <3>2. c # "none" /\ wait[k][c] \in Int
      BY FaceAssumption DEF Counts
    <3> QED BY <2>4, <2>5, <3>1, <3>2 DEF Owed
  <2>8. Accounts(u, wait)
    BY <2>4, <2>7 DEF Accounts
  <2> QED BY <2>2, <2>4, <2>6, <2>8
<1> QED BY <1>1, <1>2

\* The end of a snapshot answers the client it was taken for.
LEMMA AnsweredKeeps ==
  ASSUME NEW t \in FaceTurn, NEW wait \in Counts, Accounts(t, wait)
  PROVE  Answered(t) \in FaceTurn /\ Accounts(Answered(t), wait) /\ Answered(t).task = NoSnapshot
         /\ Answered(t).live = t.live
<1>1. CASE t.task = NoSnapshot
  BY <1>1 DEF Answered
<1>2. CASE t.task # NoSnapshot
  <2>1. t.task.to \in FaceClient /\ t.task.of \in FaceClient /\ t.open \in Counts /\ "face" \in FaceKind
    BY <1>2 DEF FaceTurn, Counts, FaceKind
  <2>2. PICK u : u = Answered(t)
    OBVIOUS
  <2>3. PICK open : open = Done(t.open, "face", t.task.to)
    OBVIOUS
  <2>4. /\ u.live = t.live /\ u.task = NoSnapshot /\ u.open = open
        /\ u.misled = (t.misled \/ t.task.to # t.task.of)
    BY <1>2, <2>2, <2>3 DEF Answered, FaceTurn
  <2>5. /\ open \in Counts
        /\ \A l \in FaceKind, d \in FaceClient :
             open[l][d] = t.open[l][d] - (IF l = "face" /\ d = t.task.to THEN 1 ELSE 0)
    BY <2>1, <2>3, DoneIs
  <2>6. u \in FaceTurn
    BY <1>2, <2>2, <2>3, <2>5 DEF Answered, FaceTurn, Counts
  <2>7. ASSUME ~t.misled, t.task.to = t.task.of, NEW k \in FaceKind, NEW c \in FaceClient
        PROVE  u.open[k][c] = wait[k][c] + Owed(u, k, c)
    <3>1. t.open[k][c] = wait[k][c] + Owed(t, k, c)
      BY <2>7 DEF Accounts
    <3>2. u.task.of # c /\ wait[k][c] \in Int
      BY <2>4, Nobody DEF Counts
    <3> QED BY <2>4, <2>5, <2>7, <3>1, <3>2 DEF Owed
  <2>8. Accounts(u, wait)
    BY <2>4, <2>7 DEF Accounts
  <2> QED BY <2>2, <2>4, <2>6, <2>8
<1> QED BY <1>1, <1>2

\* A picture from the camera ends what it is for.
LEMMA PicturedKeeps ==
  ASSUME NEW t \in FaceTurn, NEW wait \in Counts, Accounts(t, wait), NEW fresh, NEW ends
  PROVE  Pictured(t, fresh, ends) \in FaceTurn /\ Accounts(Pictured(t, fresh, ends), wait)
<1>1. PICK p : p = Photographed(t)
  OBVIOUS
<1>2. p \in FaceTurn /\ Accounts(p, wait)
  BY <1>1, PhotographedKeeps
<1>3. Answered(p) \in FaceTurn /\ Accounts(Answered(p), wait)
  BY <1>2, AnsweredKeeps
<1> QED BY <1>1, <1>2, <1>3 DEF Pictured

\* The thread answers what it holds before it ends.
LEMMA ExitedKeeps ==
  ASSUME NEW t \in FaceTurn, NEW wait \in Counts, Accounts(t, wait)
  PROVE  /\ Exited(t) \in FaceTurn /\ Accounts(Exited(t), wait)
         /\ Exited(t).task = NoSnapshot /\ Exited(t).live = "none"
<1>1. PICK a : a = Answered(t)
  OBVIOUS
<1>2. a \in FaceTurn /\ Accounts(a, wait) /\ a.task = NoSnapshot
  BY <1>1, AnsweredKeeps
<1>3. PICK p : p = Photographed(a)
  OBVIOUS
<1>4. p \in FaceTurn /\ Accounts(p, wait) /\ p.live = "none"
  BY <1>2, <1>3, PhotographedKeeps
<1>5. Exited(t) = p /\ p.task = a.task
  <2>1. CASE a.live = "none"
    BY <1>1, <1>2, <1>3, <2>1 DEF Exited, Photographed, FaceTurn
  <2>2. CASE a.live # "none"
    BY <1>1, <1>2, <1>3, <2>2 DEF Exited, Photographed, FaceTurn
  <2> QED BY <2>1, <2>2
<1> QED BY <1>2, <1>4, <1>5

\* The thread takes a request: it is answered, or owed from now on.
LEMMA TakeKeeps ==
  ASSUME NEW t \in FaceTurn, NEW m \in FaceMessage, NEW wait \in Counts, NEW rest \in Counts,
         \A k \in FaceKind, c \in FaceClient :
           wait[k][c] = rest[k][c] + (IF m.kind = k /\ m.from = c THEN 1 ELSE 0),
         Accounts(t, wait)
  PROVE  face_take(t, m) \in FaceTurn /\ Accounts(face_take(t, m), rest)
<1>1. PICK u, f : u = face_take(t, m) /\ f = m.from
  OBVIOUS
<1>2. /\ f \in FaceClient /\ t.open \in Counts /\ t.misled \in BOOLEAN
      /\ m.kind \in {"face", "live", "register", "cancel"}
      /\ {"face", "live", "register"} = FaceKind
  BY <1>1 DEF FaceMessage, FaceTurn, Counts, FaceKind
<1>3. \A k \in FaceKind, c \in FaceClient : wait[k][c] \in Int /\ rest[k][c] \in Int
  BY DEF Counts
<1> DEFINE Good == \A k \in FaceKind, c \in FaceClient : u.open[k][c] = rest[k][c] + Owed(u, k, c)
<1>4. ASSUME u \in FaceTurn, u.misled = t.misled, ~t.misled => Good PROVE u \in FaceTurn /\ Accounts(u, rest)
  BY <1>4 DEF Accounts
<1>5. ~t.misled => \A k \in FaceKind, c \in FaceClient : t.open[k][c] = wait[k][c] + Owed(t, k, c)
  BY DEF Accounts
<1> HIDE DEF Good
\* The request is answered at once.
<1>6. ASSUME NEW open, m.kind \in FaceKind, open = Done(t.open, m.kind, f), u.open = open, u.live = t.live,
             u.task.of = t.task.of
      PROVE  open \in Counts /\ (~t.misled => Good)
  <2>1. /\ open \in Counts
        /\ \A l \in FaceKind, d \in FaceClient :
             open[l][d] = t.open[l][d] - (IF l = m.kind /\ d = f THEN 1 ELSE 0)
    BY <1>2, <1>6, DoneIs
  <2>2. ASSUME ~t.misled, NEW k \in FaceKind, NEW c \in FaceClient
        PROVE  u.open[k][c] = rest[k][c] + Owed(u, k, c)
    <3>1. t.open[k][c] = wait[k][c] + Owed(t, k, c)
      BY <1>5, <2>2
    <3>2. Owed(u, k, c) = Owed(t, k, c) /\ Owed(t, k, c) \in Int
      BY <1>6 DEF Owed
    <3>3. wait[k][c] = rest[k][c] + (IF k = m.kind /\ c = f THEN 1 ELSE 0)
      BY <1>1
    <3> QED BY <1>3, <1>6, <2>1, <3>1, <3>2, <3>3
  <2> QED BY <2>1, <2>2 DEF Good
<1>7. CASE m.kind = "face"
  <2>1. u = take_snapshot(t, f)
    BY <1>1, <1>7 DEF face_take
  <2>2. CASE t.task # NoSnapshot
    <3>1. PICK open : open = Done(t.open, "face", f)
      OBVIOUS
    <3>2. u.open = open /\ u.live = t.live /\ u.task = t.task /\ u.misled = t.misled
      BY <2>1, <2>2, <3>1 DEF take_snapshot, FaceTurn
    <3>3. open \in Counts /\ (~t.misled => Good)
      BY <1>2, <1>6, <1>7, <3>1, <3>2
    <3>4. u \in FaceTurn
      BY <2>1, <2>2, <3>1, <3>3 DEF take_snapshot, FaceTurn, Counts
    <3> QED BY <1>1, <1>4, <3>2, <3>3, <3>4
  <2>3. CASE t.task = NoSnapshot
    <3>1. u.open = t.open /\ u.live = t.live /\ u.task = [to |-> f, of |-> f] /\ u.misled = t.misled
      BY <2>1, <2>3 DEF take_snapshot, FaceTurn
    <3>2. u \in FaceTurn
      BY <1>2, <2>1, <2>3 DEF take_snapshot, FaceTurn
    <3>3. ASSUME ~t.misled, NEW k \in FaceKind, NEW c \in FaceClient
          PROVE  u.open[k][c] = rest[k][c] + Owed(u, k, c)
      <4>1. t.open[k][c] = wait[k][c] + Owed(t, k, c) /\ t.task.of # c
        BY <1>5, <2>3, <3>3, Nobody
      <4>2. wait[k][c] = rest[k][c] + (IF k = "face" /\ c = f THEN 1 ELSE 0)
        BY <1>1, <1>7
      <4> QED BY <1>3, <3>1, <4>1, <4>2 DEF Owed
    <3>4. ~t.misled => Good
      BY <3>3 DEF Good
    <3> QED BY <1>1, <1>4, <3>1, <3>2, <3>4
  <2> QED BY <2>2, <2>3
<1>8. CASE m.kind = "cancel"
  <2>1. u = take_cancel(t) /\ \A k \in FaceKind, c \in FaceClient : wait[k][c] = rest[k][c]
    BY <1>1, <1>2, <1>3, <1>8 DEF face_take
  <2>2. CASE t.task # NoSnapshot
    <3>1. PICK open : open = Done(t.open, "face", t.task.of)
      OBVIOUS
    <3>2. t.task.of \in FaceClient
      BY <2>2 DEF FaceTurn
    <3>3. u.open = open /\ u.live = t.live /\ u.task = NoSnapshot /\ u.misled = t.misled
      BY <2>1, <2>2, <3>1 DEF take_cancel, FaceTurn
    <3>4. /\ open \in Counts
          /\ \A l \in FaceKind, d \in FaceClient :
               open[l][d] = t.open[l][d] - (IF l = "face" /\ d = t.task.of THEN 1 ELSE 0)
      <4>1. PICK before, c : before = t.open /\ c = t.task.of
        OBVIOUS
      <4>2. before \in Counts /\ c \in FaceClient /\ "face" \in FaceKind /\ open = Done(before, "face", c)
        BY <1>2, <3>1, <3>2, <4>1
      <4>3. /\ open \in Counts
            /\ \A l \in FaceKind, d \in FaceClient :
                 open[l][d] = before[l][d] - (IF l = "face" /\ d = c THEN 1 ELSE 0)
        BY <4>2, DoneIs
      <4> QED BY <4>1, <4>3
    <3>5. u \in FaceTurn
      BY <2>1, <2>2, <3>1, <3>4 DEF take_cancel, FaceTurn, Counts
    <3>6. ASSUME ~t.misled, NEW k \in FaceKind, NEW c \in FaceClient
          PROVE  u.open[k][c] = rest[k][c] + Owed(u, k, c)
      <4>1. t.open[k][c] = wait[k][c] + Owed(t, k, c) /\ u.task.of # c
        BY <1>5, <3>3, <3>6, Nobody
      <4> QED BY <1>3, <2>1, <3>3, <3>4, <4>1 DEF Owed
    <3>7. ~t.misled => Good
      BY <3>6 DEF Good
    <3> QED BY <1>1, <1>4, <3>3, <3>5, <3>7
  <2>3. CASE t.task = NoSnapshot
    <3>1. u = t
      BY <2>1, <2>3 DEF take_cancel
    <3>2. ~t.misled => Good
      BY <1>5, <2>1, <3>1 DEF Good
    <3> QED BY <1>1, <1>4, <3>1, <3>2
  <2> QED BY <2>2, <2>3
<1>9. CASE m.kind = "register"
  <2>1. u = take_register(t, f)
    BY <1>1, <1>9 DEF face_take
  <2>2. PICK open : open = Done(t.open, "register", f)
    OBVIOUS
  <2>3. PICK task_ : task_ = IF t.task = NoSnapshot THEN t.task ELSE [t.task EXCEPT !.to = f]
    OBVIOUS
  <2>4. task_ \in [to : FaceClient, of : FaceClient] \cup {NoSnapshot} /\ task_.of = t.task.of
    BY <1>2, <2>3 DEF FaceTurn
  <2>5. u.open = open /\ u.live = t.live /\ u.task = task_ /\ u.misled = t.misled
    BY <2>1, <2>2, <2>3 DEF take_register, FaceTurn
  <2>6. open \in Counts /\ (~t.misled => Good)
    BY <1>2, <1>6, <1>9, <2>2, <2>4, <2>5
  <2>7. u \in FaceTurn
    BY <2>1, <2>2, <2>3, <2>4, <2>6 DEF take_register, FaceTurn, Counts
  <2> QED BY <1>1, <1>4, <2>5, <2>6, <2>7
<1>10. CASE m.kind = "live"
  <2>1. u = take_camera_snapshot(t, f)
    BY <1>1, <1>10 DEF face_take
  <2>2. CASE t.live # "none"
    <3>1. PICK open : open = Done(t.open, "live", f)
      OBVIOUS
    <3>2. u.open = open /\ u.live = t.live /\ u.task = t.task /\ u.misled = t.misled
      BY <2>1, <2>2, <3>1 DEF take_camera_snapshot, FaceTurn
    <3>3. open \in Counts /\ (~t.misled => Good)
      BY <1>2, <1>6, <1>10, <3>1, <3>2
    <3>4. u \in FaceTurn
      BY <2>1, <2>2, <3>1, <3>3 DEF take_camera_snapshot, FaceTurn, Counts
    <3> QED BY <1>1, <1>4, <3>2, <3>3, <3>4
  <2>3. CASE t.live = "none"
    <3>1. u.open = t.open /\ u.live = f /\ u.task = t.task /\ u.misled = t.misled
      BY <2>1, <2>3 DEF take_camera_snapshot, FaceTurn
    <3>2. u \in FaceTurn
      BY <1>2, <2>1, <2>3 DEF take_camera_snapshot, FaceTurn
    <3>3. ASSUME ~t.misled, NEW k \in FaceKind, NEW c \in FaceClient
          PROVE  u.open[k][c] = rest[k][c] + Owed(u, k, c)
      <4>1. t.open[k][c] = wait[k][c] + Owed(t, k, c) /\ t.live # c
        BY <1>5, <2>3, <3>3, FaceAssumption
      <4>2. wait[k][c] = rest[k][c] + (IF k = "live" /\ c = f THEN 1 ELSE 0)
        BY <1>1, <1>10
      <4> QED BY <1>3, <3>1, <4>1, <4>2 DEF Owed
    <3>4. ~t.misled => Good
      BY <3>3 DEF Good
    <3> QED BY <1>1, <1>4, <3>1, <3>2, <3>4
  <2> QED BY <2>2, <2>3
<1> QED BY <1>2, <1>7, <1>8, <1>9, <1>10

-------------------------------------------------------------------------------
\* What waits in a queue of the thread.
WaitIn(queue) ==
  [k \in FaceKind |-> [c \in FaceClient |-> Count(queue, [kind |-> k, from |-> c])]]

\* How often each request waits is a count.
LEMMA WaitTyped ==
  ASSUME NEW queue \in Seq(FaceMessage)
  PROVE  WaitIn(queue) \in Counts
<1>1. ASSUME NEW k \in FaceKind, NEW c \in FaceClient PROVE Count(queue, [kind |-> k, from |-> c]) \in Int
  <2>1. PICK x : x = [kind |-> k, from |-> c]
    OBVIOUS
  <2>2. Count(queue, x) \in Nat
    BY PlacesFinite
  <2> QED BY <2>1, <2>2
<1> QED BY <1>1 DEF WaitIn, Counts

\* What the thread holds now is what the lemmas about its turns are about.
LEMMA NowIs ==
  ASSUME FaceTypeOK
  PROVE  Now \in FaceTurn /\ (RequestsAccounted <=> Accounts(Now, WaitIn(face_queue)))
<1>1. Now \in FaceTurn
  BY DEF Now, FaceTurn, FaceTypeOK
<1>2. WaitIn(face_queue) \in Counts
  BY WaitTyped DEF FaceTypeOK
<1>3. ASSUME NEW k \in FaceKind, NEW c \in FaceClient
      PROVE  WaitIn(face_queue)[k][c] = Queued(k, c) /\ Queued(k, c) \in Int
  BY <1>2 DEF WaitIn, Queued, Count, Places, Counts
<1>4. Now.open = face_open /\ Now.task = face_task /\ Now.live = livetask /\ Now.misled = face_misled
  BY DEF Now
<1> QED BY <1>1, <1>3, <1>4 DEF RequestsAccounted, Accounts, Owed

\* A turn after which the accounts are right.
LEMMA TurnDone ==
  ASSUME NEW u \in FaceTurn, TurnOf(u), NEW queue \in Seq(FaceMessage), face_queue' = queue,
         Accounts(u, WaitIn(queue))
  PROVE  /\ RequestsAccounted'
         /\ face_task' = u.task /\ livetask' = u.live
         /\ face_task' \in [to : FaceClient, of : FaceClient] \cup {NoSnapshot}
         /\ livetask' \in FaceClient \cup {"none"}
         /\ face_open' \in [FaceKind -> [FaceClient -> Int]] /\ face_misled' \in BOOLEAN
<1>1. /\ face_task' = u.task /\ livetask' = u.live /\ face_open' = u.open /\ face_misled' = u.misled
  BY DEF TurnOf
<1>2. WaitIn(queue) \in Counts
  BY WaitTyped
<1>3. ASSUME NEW k \in FaceKind, NEW c \in FaceClient
      PROVE  WaitIn(queue)[k][c] = Queued(k, c)' /\ Queued(k, c)' \in Int
  BY <1>2 DEF WaitIn, Queued, Count, Places, Counts
<1>4. RequestsAccounted'
  BY <1>1, <1>3 DEF RequestsAccounted, Accounts, Owed
<1> QED BY <1>1, <1>4 DEF FaceTurn

-------------------------------------------------------------------------------
\* A turn of the loop of the detection.
LEMMA TurnKeepsFaces ==
  ASSUME FaceIInv, NEW fresh \in BOOLEAN, NEW ends \in BOOLEAN, face_turn(fresh, ends)
  PROVE  FaceIInv'
<1>1. /\ face_thread = "runs" /\ face_thread' = "runs"
      /\ UNCHANGED <<startVars, face_thread, face_quitting, cameras, face_sent>>
  BY DEF face_turn
<1>2. FaceTypeOK /\ CamerasInv /\ Now \in FaceTurn /\ Accounts(Now, WaitIn(face_queue))
  BY NowIs DEF FaceIInv
<1>3. PICK queue : queue = face_queue'
  OBVIOUS
<1>4. PICK u \in FaceTurn : TurnOf(u) /\ queue \in Seq(FaceMessage) /\ Accounts(u, WaitIn(queue))
  <2>1. CASE face_queue = <<>>
    <3>1. PICK u : u = Pictured(Now, fresh, ends)
      OBVIOUS
    <3>2. TurnOf(u) /\ queue = face_queue
      BY <1>3, <2>1, <3>1 DEF face_turn
    <3>3. WaitIn(face_queue) \in Counts /\ face_queue \in Seq(FaceMessage)
      BY <1>2, WaitTyped DEF FaceTypeOK
    <3>4. u \in FaceTurn /\ Accounts(u, WaitIn(face_queue))
      BY <1>2, <3>1, <3>3, PicturedKeeps
    <3> QED BY <3>2, <3>3, <3>4
  <2>2. CASE face_queue # <<>>
    <3>1. PICK m, v : m = Head(face_queue) /\ v = face_take(Now, m)
      OBVIOUS
    <3>2. PICK u : u = Pictured(v, fresh, ends)
      OBVIOUS
    <3>3. TurnOf(u) /\ queue = Tail(face_queue)
      BY <1>3, <2>2, <3>1, <3>2 DEF face_turn
    <3>4. PICK q : q = face_queue
      OBVIOUS
    <3>5. q \in Seq(FaceMessage) /\ m \in FaceMessage /\ queue \in Seq(FaceMessage)
      BY <1>2, <2>2, <3>1, <3>3, <3>4, FirstTaken DEF FaceTypeOK
    <3>6. WaitIn(q) \in Counts /\ WaitIn(queue) \in Counts
      BY <3>5, WaitTyped
    <3>7. ASSUME NEW k \in FaceKind, NEW c \in FaceClient
          PROVE  WaitIn(q)[k][c] =
                   WaitIn(queue)[k][c] + (IF m.kind = k /\ m.from = c THEN 1 ELSE 0)
      <4>1. PICK x : x = [kind |-> k, from |-> c]
        OBVIOUS
      <4>2. Count(q, x) = Count(queue, x) + (IF m = x THEN 1 ELSE 0)
        BY <2>2, <3>1, <3>3, <3>4, <3>5, CountTaken
      <4>3. m = x <=> m.kind = k /\ m.from = c
        BY <3>5, <4>1 DEF FaceMessage
      <4> QED BY <4>1, <4>2, <4>3 DEF WaitIn
    <3>8. v \in FaceTurn /\ Accounts(v, WaitIn(queue))
      BY <1>2, <3>1, <3>4, <3>5, <3>6, <3>7, TakeKeeps
    <3>9. u \in FaceTurn /\ Accounts(u, WaitIn(queue))
      BY <3>2, <3>6, <3>8, PicturedKeeps
    <3> QED BY <3>3, <3>5, <3>9
  <2> QED BY <2>1, <2>2
<1>5. /\ RequestsAccounted' /\ face_queue' \in Seq(FaceMessage)
      /\ face_task' \in [to : FaceClient, of : FaceClient] \cup {NoSnapshot}
      /\ livetask' \in FaceClient \cup {"none"}
      /\ face_open' \in [FaceKind -> [FaceClient -> Int]] /\ face_misled' \in BOOLEAN
  BY <1>3, <1>4, TurnDone
<1>6. FaceTypeOK'
  BY <1>1, <1>2, <1>5 DEF FaceTypeOK, startVars, CameraMessage, CameraAnswer
<1>7. CamerasInv'
  BY <1>1, <1>2, CamerasLeft DEF startVars, FaceState, CamerasInv, StatusKnown
<1> QED BY <1>1, <1>5, <1>6, <1>7 DEF FaceIInv, ThreadIdle

\* The thread of the detection ends.
LEMMA ExitKeepsFaces ==
  ASSUME FaceIInv, NEW fresh \in BOOLEAN, NEW ends \in BOOLEAN, face_exits(fresh, ends)
  PROVE  FaceIInv'
<1>1. /\ face_thread = "runs" /\ face_quitting /\ face_thread' = "ended"
      /\ UNCHANGED <<startVars, face_queue, face_quitting, cameras, face_sent>>
  BY DEF face_exits
<1>2. FaceTypeOK /\ CamerasInv /\ Now \in FaceTurn /\ Accounts(Now, WaitIn(face_queue))
  BY NowIs DEF FaceIInv
<1>3. PICK queue, p, u : queue = face_queue /\ p = Pictured(Now, fresh, ends) /\ u = Exited(p)
  OBVIOUS
<1>4. queue \in Seq(FaceMessage) /\ WaitIn(queue) \in Counts
  BY <1>2, <1>3, WaitTyped DEF FaceTypeOK
<1>5. p \in FaceTurn /\ Accounts(p, WaitIn(queue))
  BY <1>2, <1>3, <1>4, PicturedKeeps
<1>6. u \in FaceTurn /\ Accounts(u, WaitIn(queue)) /\ u.task = NoSnapshot /\ u.live = "none"
  BY <1>3, <1>4, <1>5, ExitedKeeps
<1>7. TurnOf(u) /\ face_queue' = queue
  BY <1>1, <1>3 DEF face_exits
<1>8. /\ RequestsAccounted' /\ face_queue' \in Seq(FaceMessage)
      /\ face_task' = NoSnapshot /\ livetask' = "none"
      /\ face_open' \in [FaceKind -> [FaceClient -> Int]] /\ face_misled' \in BOOLEAN
  BY <1>4, <1>6, <1>7, TurnDone
<1>9. FaceTypeOK'
  BY <1>1, <1>2, <1>8 DEF FaceTypeOK, startVars, CameraMessage, CameraAnswer
<1>10. CamerasInv'
  BY <1>1, <1>2, CamerasLeft DEF startVars, FaceState
<1> QED BY <1>8, <1>9, <1>10 DEF FaceIInv, ThreadIdle

\* A client asks, or cancels.
LEMMA RequestKeepsFaces ==
  ASSUME FaceIInv, NEW k \in FaceKind \cup {"cancel"}, NEW c \in FaceClient, face_request(k, c)
  PROVE  FaceIInv'
<1>1. /\ UNCHANGED <<startVars, face_thread, face_task, livetask, face_misled, face_quitting, cameras>>
      /\ face_queue' = Append(face_queue, [kind |-> k, from |-> c])
      /\ face_open' = IF k = "cancel" THEN face_open ELSE [face_open EXCEPT ![k][c] = face_open[k][c] + 1]
  BY DEF face_request
<1>2. FaceTypeOK /\ CamerasInv
  BY DEF FaceIInv
<1>3. PICK q, queue, m : q = face_queue /\ queue = face_queue' /\ m = [kind |-> k, from |-> c]
  OBVIOUS
<1>4. m \in FaceMessage /\ q \in Seq(FaceMessage) /\ queue = Append(q, m)
  BY <1>1, <1>2, <1>3 DEF FaceMessage, FaceTypeOK
<1>5. queue \in Seq(FaceMessage)
  <2> HIDE DEF FaceMessage
  <2> QED BY <1>4, AppendProperties
<1>6. /\ face_open' \in [FaceKind -> [FaceClient -> Int]]
      /\ \A l \in FaceKind, d \in FaceClient :
           face_open'[l][d] = face_open[l][d] + (IF l = k /\ d = c THEN 1 ELSE 0)
  <2>1. "cancel" \notin FaceKind
    BY DEF FaceKind
  <2>2. CASE k = "cancel"
    BY <1>1, <1>2, <2>1, <2>2 DEF FaceTypeOK
  <2>3. CASE k # "cancel"
    BY <1>1, <1>2, <2>3 DEF FaceTypeOK
  <2> QED BY <2>2, <2>3
<1>7. ASSUME NEW l \in FaceKind, NEW d \in FaceClient
      PROVE  Queued(l, d)' = Queued(l, d) + (IF l = k /\ d = c THEN 1 ELSE 0) /\ Queued(l, d) \in Nat
  <2>1. PICK x : x = [kind |-> l, from |-> d]
    OBVIOUS
  <2>2. Count(queue, x) = Count(q, x) + (IF m = x THEN 1 ELSE 0) /\ Count(q, x) \in Nat
    BY <1>4, CountPut, PlacesFinite
  <2>3. m = x <=> l = k /\ d = c
    BY <1>3, <2>1
  <2>4. Queued(l, d) = Count(q, x) /\ Queued(l, d)' = Count(queue, x)
    BY <1>3, <2>1 DEF Queued, Count, Places
  <2> QED BY <2>2, <2>3, <2>4
<1>8. RequestsAccounted'
  <2> SUFFICES ASSUME ~face_misled, NEW l \in FaceKind, NEW d \in FaceClient
               PROVE  face_open'[l][d] = Queued(l, d)'
                        + (IF l = "face" /\ face_task.of = d THEN 1 ELSE 0)
                        + (IF l = "live" /\ livetask = d THEN 1 ELSE 0)
    BY <1>1 DEF RequestsAccounted
  <2>1. face_open[l][d] = Queued(l, d) + (IF l = "face" /\ face_task.of = d THEN 1 ELSE 0)
                                       + (IF l = "live" /\ livetask = d THEN 1 ELSE 0)
    BY DEF FaceIInv, RequestsAccounted
  <2> QED BY <1>6, <1>7, <2>1
<1>9. FaceTypeOK'
  BY <1>1, <1>2, <1>3, <1>5, <1>6 DEF FaceTypeOK, startVars, CameraMessage, CameraAnswer
<1>10. CamerasInv'
  BY <1>1, <1>2, CamerasLeft DEF startVars, FaceState, CamerasInv, StatusKnown
<1>11. ThreadIdle'
  BY <1>1 DEF FaceIInv, ThreadIdle
<1> QED BY <1>8, <1>9, <1>10, <1>11 DEF FaceIInv

\* Steps that leave the requests alone.
LEMMA RequestsLeft ==
  ASSUME FaceIInv, UNCHANGED <<face_queue, livetask, face_open, face_misled>>,
         \/ UNCHANGED face_task
         \/ face_thread # "runs" /\ face_task' = NoSnapshot,
         face_thread' = "runs" \/ face_thread # "runs"
  PROVE  RequestsAccounted' /\ ThreadIdle' /\ face_task' \in [to : FaceClient, of : FaceClient] \cup {NoSnapshot}
<1>1. face_task' = face_task
  BY DEF FaceIInv, ThreadIdle
<1>2. \A k, c : Queued(k, c)' = Queued(k, c)
  BY DEF Queued
<1> QED BY <1>1, <1>2 DEF FaceIInv, RequestsAccounted, ThreadIdle, FaceTypeOK

\* The module handles the answer of a camera.
LEMMA MessageKeepsFaces ==
  ASSUME FaceIInv, NEW ok \in BOOLEAN, camera_message(ok)
  PROVE  FaceIInv'
<1>1. FaceTypeOK /\ CamerasInv
  BY DEF FaceIInv
<1>2. CamerasInv' /\ camera_orders' \in Seq(CameraMessage) /\ camera_results' \subseteq cameras
  BY <1>1, AnswerKeepsCameras
<1>3. /\ UNCHANGED <<camera_reader, camera_overlap, cameras, face_task, livetask, face_misled,
                     face_quitting>>
      /\ message_wait' \in FaceClient \cup {"none"} /\ m_resultcount' \in 0..3
      /\ camera_left' \in BOOLEAN /\ face_status' \in BOOLEAN
      /\ \/ UNCHANGED <<face_queue, face_open, face_thread>>
         \/ ~FaceState /\ clean_message /\ face_thread' = "begins"
  <2>1. PICK a, failed, last :
          /\ a = Head(camera_answers)
          /\ failed = IF a.ok THEN camera_results \ {a.camera} ELSE camera_results \cup {a.camera}
          /\ last = ("nis" \notin cameras \/ m_resultcount = 1)
    OBVIOUS
  <2>2. /\ UNCHANGED <<camera_reader, camera_overlap, cameras, face_task, livetask, face_misled,
                       face_quitting>>
        /\ m_resultcount' = (IF m_resultcount > 2 THEN m_resultcount ELSE m_resultcount + 1)
        /\ IF last THEN message_wait' = "none" ELSE message_wait' = message_wait
    BY <1>1, <2>1, AnswerHandled
  <2>3. /\ camera_left' \in {camera_left, TRUE, FALSE} /\ face_status' \in {face_status, TRUE}
        /\ \/ UNCHANGED <<face_queue, face_open, face_thread>>
           \/ ~FaceState /\ clean_message /\ face_thread' = "begins"
    BY <1>1, <2>1, AnswerHandled
  <2>4. m_resultcount' \in 0..3
    BY <1>1, <2>2 DEF FaceTypeOK
  <2>5. message_wait' \in FaceClient \cup {"none"}
    BY <1>1, <2>2 DEF FaceTypeOK
  <2>6. camera_left' \in BOOLEAN /\ face_status' \in BOOLEAN
    BY <1>1, <2>3 DEF FaceTypeOK
  <2> QED BY <2>2, <2>3, <2>4, <2>5, <2>6
<1>4. camera_answers' \in Seq(CameraAnswer)
  <2>1. camera_answers # <<>> /\ camera_answers' = Tail(camera_answers)
    BY DEF camera_message
  <2> QED BY <1>1, <2>1, FirstTaken DEF FaceTypeOK
<1>5. CASE UNCHANGED <<face_queue, face_open, face_thread>>
  <2>1. RequestsAccounted' /\ ThreadIdle'
    BY <1>3, <1>5 DEF FaceIInv, RequestsAccounted, ThreadIdle, Queued
  <2>2. FaceTypeOK'
    BY <1>1, <1>2, <1>3, <1>4, <1>5 DEF FaceTypeOK, CameraMessage, CameraAnswer
  <2> QED BY <1>2, <2>1, <2>2 DEF FaceIInv
<1>6. CASE ~FaceState /\ clean_message /\ face_thread' = "begins"
  <2>1. face_task = NoSnapshot /\ livetask = "none"
    BY <1>6 DEF FaceIInv, ThreadIdle, FaceState
  <2>2. /\ face_queue' = <<>>
        /\ face_open' = [k \in FaceKind |-> [c \in FaceClient |-> face_open[k][c] - Queued(k, c)]]
    BY <1>6 DEF clean_message
  <2>3. ASSUME NEW k \in FaceKind, NEW c \in FaceClient
        PROVE  Queued(k, c) \in Nat /\ Queued(k, c)' = 0 /\ face_open[k][c] \in Int
    <3>1. PICK x, q, e : x = [kind |-> k, from |-> c] /\ q = face_queue /\ e = face_queue'
      OBVIOUS
    <3>2. q \in Seq(FaceMessage) /\ e \in Seq(FaceMessage) /\ e = <<>>
      BY <1>1, <2>2, <3>1 DEF FaceTypeOK
    <3>3. Count(q, x) \in Nat /\ Count(e, x) = 0
      BY <3>2, PlacesFinite
    <3>4. Queued(k, c) = Count(q, x) /\ Queued(k, c)' = Count(e, x)
      BY <3>1 DEF Queued, Count, Places
    <3> QED BY <1>1, <3>3, <3>4 DEF FaceTypeOK
  <2>4. /\ face_open' \in [FaceKind -> [FaceClient -> Int]]
        /\ \A k \in FaceKind, c \in FaceClient : face_open'[k][c] = face_open[k][c] - Queued(k, c)
    BY <2>2, <2>3
  <2>5. RequestsAccounted'
    <3> SUFFICES ASSUME ~face_misled, NEW l \in FaceKind, NEW d \in FaceClient
                 PROVE  face_open'[l][d] = Queued(l, d)'
                          + (IF l = "face" /\ face_task.of = d THEN 1 ELSE 0)
                          + (IF l = "live" /\ livetask = d THEN 1 ELSE 0)
      BY <1>3 DEF RequestsAccounted
    <3>1. face_open[l][d] = Queued(l, d) + (IF l = "face" /\ face_task.of = d THEN 1 ELSE 0)
                                         + (IF l = "live" /\ livetask = d THEN 1 ELSE 0)
      BY DEF FaceIInv, RequestsAccounted
    <3>2. face_task.of # d /\ livetask # d
      BY <2>1, Nobody, FaceAssumption
    <3> QED BY <2>3, <2>4, <3>1, <3>2
  <2>6. ThreadIdle'
    BY <1>3, <2>1 DEF ThreadIdle
  <2>7. FaceTypeOK'
    <3>1. face_queue' \in Seq(FaceMessage) /\ face_thread' = "begins"
      BY <1>6, <2>2
    <3> QED BY <1>1, <1>2, <1>3, <1>4, <2>4, <3>1 DEF FaceTypeOK, CameraMessage, CameraAnswer
  <2> QED BY <1>2, <2>5, <2>6, <2>7 DEF FaceIInv
<1> QED BY <1>3, <1>5, <1>6

\* The module starts and stops the detection.
LEMMA HandlerKeepsFaces ==
  ASSUME FaceIInv,
         (\E c \in FaceClient : start_detect_task(c)) \/ stop_nothing \/ stop_detect \/ stop_returns
  PROVE  FaceIInv'
<1>1. FaceTypeOK /\ CamerasInv
  BY DEF FaceIInv
<1>2. ASSUME NEW c \in FaceClient, start_detect_task(c) PROVE FaceIInv'
  <2>1. CamerasInv'
    BY <1>1, <1>2, StartKeepsCameras
  <2>2. /\ message_wait' = c /\ camera_results' = {} /\ m_resultcount' = 0
        /\ camera_orders' = camera_orders \o Orders(TRUE)
        /\ camera_overlap' = (camera_overlap \/ Unanswered)
        /\ face_task' = NoSnapshot /\ ~FaceState
        /\ UNCHANGED <<face_status, camera_answers, camera_reader, camera_left, face_thread,
                       face_queue, livetask, face_open, face_misled, face_quitting, cameras>>
    BY <1>2 DEF start_detect_task
  <2>3. camera_orders' \in Seq(CameraMessage)
    BY <1>1, <2>2, OrdersAdded
  <2>4. RequestsAccounted' /\ ThreadIdle'
        /\ face_task' \in [to : FaceClient, of : FaceClient] \cup {NoSnapshot}
    BY <2>2, RequestsLeft DEF FaceState
  <2>5. camera_overlap' \in BOOLEAN
    BY <1>1, <2>2 DEF FaceTypeOK
  <2>6. FaceTypeOK'
    <3>1. /\ message_wait' \in FaceClient \cup {"none"} /\ camera_results' \subseteq cameras'
          /\ m_resultcount' \in 0..3
      BY <1>2, <2>2
    <3> QED BY <1>1, <2>2, <2>3, <2>4, <2>5, <3>1 DEF FaceTypeOK, CameraMessage, CameraAnswer
  <2> QED BY <2>1, <2>4, <2>6 DEF FaceIInv
<1>3. CASE stop_nothing \/ stop_detect
  <2>1. /\ UNCHANGED <<message_wait, camera_orders, camera_answers, camera_results, m_resultcount,
                       camera_reader, camera_overlap, camera_left, threadVars, cameras>>
        /\ face_quitting' \in BOOLEAN /\ face_status' \in BOOLEAN
        /\ \/ ~FaceState /\ face_quitting' = face_quitting
           \/ FaceState /\ face_quitting' = TRUE /\ face_status' = face_status
    BY <1>1, <1>3 DEF stop_nothing, stop_detect, startVars, FaceTypeOK
  <2>2. CamerasInv'
    BY <1>1, <2>1, CamerasLeft DEF threadVars, FaceState, CamerasInv, StatusKnown
  <2>3. RequestsAccounted' /\ ThreadIdle'
    BY <2>1 DEF threadVars, FaceIInv, RequestsAccounted, ThreadIdle, Queued
  <2>4. FaceTypeOK'
    BY <1>1, <2>1 DEF FaceTypeOK, threadVars, CameraMessage, CameraAnswer
  <2> QED BY <2>2, <2>3, <2>4 DEF FaceIInv
<1>4. CASE stop_returns
  <2>1. CamerasInv'
    BY <1>1, <1>4, ReturnKeepsCameras
  <2>2. /\ UNCHANGED <<message_wait, camera_answers, camera_results, m_resultcount, camera_reader,
                       camera_overlap, camera_left, threadVars, cameras>>
        /\ face_quitting' = FALSE /\ face_status' = FALSE
        /\ camera_orders' = camera_orders \o Orders(FALSE)
    BY <1>4 DEF stop_returns
  <2>3. camera_orders' \in Seq(CameraMessage)
    BY <1>1, <2>2, OrdersAdded
  <2>4. RequestsAccounted' /\ ThreadIdle'
    BY <2>2 DEF threadVars, FaceIInv, RequestsAccounted, ThreadIdle, Queued
  <2>5. FaceTypeOK'
    BY <1>1, <2>2, <2>3 DEF FaceTypeOK, threadVars, CameraMessage, CameraAnswer
  <2> QED BY <2>1, <2>4, <2>5 DEF FaceIInv
<1> QED BY <1>2, <1>3, <1>4

\* The thread begins, or fails to and ends.
LEMMA BeginsKeepsFaces ==
  ASSUME FaceIInv, NEW ok \in BOOLEAN, run_begins(ok)
  PROVE  FaceIInv'
<1>1. FaceTypeOK /\ CamerasInv
  BY DEF FaceIInv
<1>2. /\ face_thread = "begins" /\ face_thread' = (IF ok THEN "runs" ELSE "ended")
      /\ camera_left' = (~ok /\ ~face_quitting)
      /\ UNCHANGED <<face_status, message_wait, camera_orders, camera_answers, camera_results,
                     m_resultcount, camera_reader, camera_overlap, face_queue,
                     face_task, livetask, face_open, face_misled, face_quitting, cameras>>
  BY DEF run_begins
<1>3. CamerasInv'
  BY <1>1, <1>2, CamerasLeft DEF FaceState, CamerasInv, StatusKnown
<1>4. RequestsAccounted' /\ ThreadIdle'
  BY <1>2 DEF FaceIInv, RequestsAccounted, ThreadIdle, Queued
<1>5. FaceTypeOK'
  <2>1. camera_left' \in BOOLEAN
    BY <1>2
  <2> QED BY <1>1, <1>2, <2>1 DEF FaceTypeOK, CameraMessage, CameraAnswer
<1> QED BY <1>3, <1>4, <1>5 DEF FaceIInv

\* The camera module takes an order.
LEMMA OrderKeepsFaces ==
  ASSUME FaceIInv, NEW ok \in BOOLEAN, order_taken(ok)
  PROVE  FaceIInv'
<1>1. FaceTypeOK /\ CamerasInv
  BY DEF FaceIInv
<1>2. CamerasInv' /\ camera_answers' \in Seq(CameraAnswer)
  BY <1>1, TakenKeepsCameras
<1>3. /\ camera_orders # <<>> /\ camera_orders' = Tail(camera_orders)
      /\ UNCHANGED <<face_status, message_wait, camera_results, m_resultcount, camera_overlap,
                     camera_left, threadVars, face_quitting, cameras>>
  BY DEF order_taken
<1>4. camera_orders' \in Seq(CameraMessage) /\ Head(camera_orders) \in CameraMessage
  BY <1>1, <1>3, FirstTaken DEF FaceTypeOK
<1>5. camera_reader' \subseteq cameras
  BY <1>1, <1>4 DEF order_taken, FaceTypeOK, CameraMessage
<1>6. RequestsAccounted' /\ ThreadIdle'
  BY <1>3 DEF threadVars, FaceIInv, RequestsAccounted, ThreadIdle, Queued
<1>7. FaceTypeOK'
  BY <1>1, <1>2, <1>3, <1>4, <1>5 DEF FaceTypeOK, threadVars, CameraMessage, CameraAnswer
<1> QED BY <1>2, <1>6, <1>7 DEF FaceIInv

\* Every step of the detection keeps its invariant.
LEMMA FaceStep == FaceIInv /\ [FaceNext]_faceVars => FaceIInv'
<1> SUFFICES ASSUME FaceIInv, [FaceNext]_faceVars PROVE FaceIInv'
  OBVIOUS
<1>1. CASE FaceNext
  BY <1>1, TurnKeepsFaces, ExitKeepsFaces, RequestKeepsFaces, MessageKeepsFaces,
     HandlerKeepsFaces,
     BeginsKeepsFaces, OrderKeepsFaces DEF FaceNext, face_handler, face_run
<1>2. CASE UNCHANGED faceVars
  <2>1. CamerasInv'
    BY <1>2, CamerasLeft DEF faceVars, startVars, threadVars, FaceIInv, FaceState, CamerasInv,
       StatusKnown
  <2>2. RequestsAccounted' /\ ThreadIdle'
    BY <1>2 DEF faceVars, threadVars, FaceIInv, RequestsAccounted, ThreadIdle, Queued
  <2>3. FaceTypeOK'
    BY <1>2 DEF faceVars, startVars, threadVars, FaceIInv, FaceTypeOK, CameraMessage, CameraAnswer
  <2> QED BY <2>1, <2>2, <2>3 DEF FaceIInv
<1> QED BY <1>1, <1>2

LEMMA FaceStart == FaceInit => FaceIInv
<1> SUFFICES ASSUME FaceInit PROVE FaceIInv
  OBVIOUS
<1>1. /\ cameras \in {{"vis"}, {"vis", "nis"}} /\ face_status \in BOOLEAN
      /\ camera_orders = (IF face_status THEN Orders(TRUE) ELSE <<>>)
      /\ camera_answers = <<>> /\ camera_results = {} /\ m_resultcount = 0
      /\ camera_reader = {} /\ camera_overlap = FALSE /\ camera_left = FALSE
      /\ message_wait = "none" /\ face_thread = "ended" /\ face_quitting = FALSE
      /\ face_queue = <<>> /\ face_task = NoSnapshot /\ livetask = "none" /\ face_misled = FALSE
      /\ face_open = [k \in FaceKind |-> [c \in FaceClient |-> 0]]
  BY DEF FaceInit
<1>2. PICK v, w : v = [start |-> TRUE, camera |-> "vis"] /\ w = [start |-> TRUE, camera |-> "nis"]
  OBVIOUS
<1>3. PICK o, n : o = camera_orders /\ n = CameraCount
  OBVIOUS
<1>4. /\ o \in Seq(CameraMessage) /\ n \in {1, 2} /\ ("nis" \in cameras <=> n = 2)
      /\ face_status => Len(o) = n /\ DOMAIN o = 1..n
           /\ \A i \in 1..n : o[i].start = TRUE /\ o[i].camera = CameraAt(i)
      /\ ~face_status => o = <<>> /\ Len(o) = 0 /\ DOMAIN o = {}
  <2>1. CASE ~face_status
    BY <1>1, <1>3, <2>1 DEF CameraCount
  <2>2. CASE face_status /\ cameras = {"vis"}
    <3>1. n = 1 /\ v \in CameraMessage /\ "nis" \notin cameras
      BY <1>2, <1>3, <2>2 DEF CameraCount, CameraMessage
    <3> HIDE DEF CameraMessage
    <3>2. <<v>> \in Seq(CameraMessage) /\ Len(<<v>>) = 1 /\ <<v>>[1] = v
      BY <3>1
    <3>3. o = <<v>> \o <<>>
      BY <1>1, <1>2, <1>3, <2>2, <3>1 DEF Orders
    <3>4. o = <<v>>
      BY <3>2, <3>3, ConcatEmptySeq
    <3>5. DOMAIN o = 1..1
      BY <3>2, <3>4, LenProperties
    <3> QED BY <1>2, <2>2, <3>1, <3>2, <3>4, <3>5 DEF CameraAt
  <2>3. CASE face_status /\ cameras = {"vis", "nis"}
    <3>1. o = <<v>> \o <<w>> /\ n = 2 /\ v \in CameraMessage /\ w \in CameraMessage
      BY <1>1, <1>2, <1>3, <2>3 DEF Orders, CameraCount, CameraMessage
    <3> HIDE DEF CameraMessage
    <3>2. /\ <<v>> \in Seq(CameraMessage) /\ Len(<<v>>) = 1 /\ <<v>>[1] = v
          /\ <<w>> \in Seq(CameraMessage) /\ Len(<<w>>) = 1 /\ <<w>>[1] = w
      BY <3>1
    <3>3. o \in Seq(CameraMessage) /\ Len(o) = 2 /\ o[1] = v /\ o[2] = w
      BY <3>1, <3>2, ConcatProperties
    <3>4. DOMAIN o = 1..2
      BY <3>3, LenProperties
    <3> QED BY <1>2, <2>3, <3>1, <3>3, <3>4 DEF CameraAt
  <2> QED BY <1>1, <2>1, <2>2, <2>3
<1>5. FaceTypeOK
  <2>1. /\ face_queue \in Seq(FaceMessage) /\ camera_answers \in Seq(CameraAnswer)
        /\ face_open \in [FaceKind -> [FaceClient -> Int]]
        /\ camera_results \subseteq cameras /\ camera_reader \subseteq cameras
    BY <1>1
  <2>2. /\ face_quitting \in BOOLEAN /\ face_misled \in BOOLEAN
        /\ camera_overlap \in BOOLEAN /\ camera_left \in BOOLEAN
    BY <1>1
  <2>3. camera_orders \in Seq(CameraMessage)
    BY <1>3, <1>4
  <2>4. /\ face_thread \in {"ended", "begins", "runs"} /\ m_resultcount \in 0..3
        /\ face_task \in [to : FaceClient, of : FaceClient] \cup {NoSnapshot}
        /\ livetask \in FaceClient \cup {"none"} /\ message_wait \in FaceClient \cup {"none"}
    BY <1>1
  <2> QED BY <1>1, <2>1, <2>2, <2>3, <2>4 DEF FaceTypeOK
<1>6. ThreadIdle
  BY <1>1 DEF ThreadIdle
<1>7. RequestsAccounted
  <2> SUFFICES ASSUME NEW k \in FaceKind, NEW c \in FaceClient
               PROVE  face_open[k][c] = Queued(k, c) + (IF k = "face" /\ face_task.of = c THEN 1 ELSE 0)
                                                     + (IF k = "live" /\ livetask = c THEN 1 ELSE 0)
    BY DEF RequestsAccounted
  <2>1. PICK x, q : x = [kind |-> k, from |-> c] /\ q = face_queue
    OBVIOUS
  <2>2. q \in Seq(FaceMessage) /\ q = <<>>
    BY <1>1, <2>1
  <2>3. Count(q, x) = 0
    BY <2>2, PlacesFinite
  <2>4. Queued(k, c) = 0
    BY <2>1, <2>3 DEF Queued, Count, Places
  <2>5. face_task.of # c /\ livetask # c
    BY <1>1, Nobody, FaceAssumption
  <2> QED BY <1>1, <2>4, <2>5
<1>8. WaitKnown /\ StatusKnown /\ ~FaceState /\ ~face_quitting
  BY <1>1 DEF WaitKnown, StatusKnown, FaceState
<1>9. CamerasKnown
  <2> SUFFICES ASSUME NEW c \in cameras, HeldIn(c, o, {}) PROVE AnswersDue
    BY <1>1, <1>3 DEF CamerasKnown, CameraHeld
  <2>1. n = 2 /\ face_status
    BY <1>1, <1>4 DEF HeldIn
  <2>2. 1 \in DOMAIN o /\ 2 \in DOMAIN o /\ o[1].start /\ o[2].start /\ 1 # 2
    BY <1>4, <2>1
  <2>3. TwoDue
    BY <1>3, <2>2 DEF TwoDue
  <2> QED BY <1>1, <1>4, <2>1, <2>3 DEF AnswersDue
<1>10. StartsInTurn
  <2> SUFFICES \E a, b \in 0..2 : RoundOf(a, b, n, o, <<>>, {}, {}, 0)
    BY <1>1, <1>3, <1>8 DEF StartsInTurn
  <2>1. CASE face_status
    <3>1. \A i \in DOMAIN o :
            /\ o[i].start <=> i > Len(o) - (n - 0)
            /\ o[i].start => o[i].camera = CameraAt(i - Len(o) + n)
      <4>1. \A i \in DOMAIN o : i > Len(o) - (n - 0) /\ i - Len(o) + n = i /\ i \in 1..n
        BY <1>4, <2>1
      <4> QED BY <1>4, <2>1, <4>1
    <3>2. /\ Len(o) >= n - 0 /\ 0 <= n /\ 1..0 = {} /\ 0 - 0 = 0 /\ ~(0 > 0) /\ 0 <= 0
          /\ Len(<<>>) = 0 /\ DOMAIN <<>> = {} /\ 0 \in 0..2
      BY <1>4, <2>1
    <3>3. RoundOf(0, 0, n, o, <<>>, {}, {}, 0)
      BY <1>4, <3>1, <3>2 DEF RoundOf
    <3> QED BY <3>2, <3>3
  <2>2. CASE ~face_status
    <3>1. n - n = 0 /\ n \in 0..2 /\ n <= n /\ ~(n < n) /\ Len(o) >= 0 /\ DOMAIN o = {}
      BY <1>4, <2>2
    <3>2. Len(<<>>) = 0 /\ DOMAIN <<>> = {}
      OBVIOUS
    <3>3. RoundOf(n, n, n, o, <<>>, {}, {}, 0)
      BY <3>1, <3>2 DEF RoundOf
    <3> QED BY <3>1, <3>3
  <2> QED BY <2>1, <2>2
<1> QED BY <1>5, <1>6, <1>7, <1>8, <1>9, <1>10 DEF FaceIInv, CamerasInv

\* The inductive invariant contains the one that the run checks.
LEMMA FaceIInv_FaceDetectInv == FaceIInv => FaceDetectInv
<1> SUFFICES ASSUME FaceIInv PROVE FaceDetectInv
  OBVIOUS
<1>1. FaceTypeOK /\ RequestsAccounted /\ CamerasInv
  BY DEF FaceIInv
<1>2. ServiceHasCameras
  BY <1>1 DEF CamerasInv, StartsInTurn, ServiceHasCameras, Unanswered
<1>3. CamerasGivenBack
  <2> SUFFICES ASSUME ~FaceState, ~face_quitting, ~camera_left, camera_orders = <<>>, ~Unanswered,
                      NEW c \in camera_reader
               PROVE  FALSE
    BY DEF CamerasGivenBack
  <2>1. CameraHeld(c) /\ c \in cameras
    BY <1>1 DEF CameraHeld, HeldIn, FaceTypeOK
  <2>2. AnswersDue
    BY <1>1, <2>1 DEF CamerasInv, CamerasKnown
  <2>3. camera_answers = <<>>
    BY DEF Unanswered
  <2>4. ~TwoDue
    BY <2>3 DEF TwoDue
  <2> QED BY <2>2, <2>3, <2>4 DEF AnswersDue
<1>4. StartsEnd
  <2>1. TwoDue => Unanswered
    <3>1. camera_answers = <<>> => ~(Len(camera_answers) >= 2)
      OBVIOUS
    <3> QED BY <3>1 DEF TwoDue, Unanswered
  <2>2. AnswersDue => Unanswered
    BY <2>1 DEF AnswersDue, Unanswered
  <2> QED BY <1>1, <2>2 DEF CamerasInv, WaitKnown, StatusKnown, StartsEnd
<1> QED BY <1>1, <1>2, <1>3, <1>4 DEF FaceDetectInv

-------------------------------------------------------------------------------
\* Whatever clients, starts and requests there are, the readers of cards and the detection
\* of faces answer each request once and hold their devices and cameras where the code
\* takes them to: the invariant the run of MCModules checks.
THEOREM ReadersKept == MCSpec => []ReadersInv
<1>1. MCInit => IcInit /\ IdInit /\ FaceInit
  BY DEF MCInit
<1>2. [MCNext]_<<part, icVars, idVars, faceVars, ttsVars, playerVars>> =>
        [IcNext]_icVars /\ [IdNext]_idVars /\ [FaceNext]_faceVars
  BY DEF MCNext, Only
<1>3. CardReaderInv /\ IdReaderInv /\ FaceIInv => ReadersInv
  BY FaceIInv_FaceDetectInv DEF ReadersInv
<1> QED BY <1>1, <1>2, <1>3, IcStart, IcStep, IdStart, IdStep, FaceStart, FaceStep, PTL DEF MCSpec

\* Whatever channels, texts and bounds there are, a text is on one channel or waits for
\* one and none is lost, and a client is told only of sounds that were played to their
\* end: the invariant the run of MCModules checks.
THEOREM SpeechKept == MCSpec => []SpeechInv
<1>1. MCInit => TtsInit /\ PlayerInit
  BY DEF MCInit
<1>2. [MCNext]_<<part, icVars, idVars, faceVars, ttsVars, playerVars>> =>
        [TtsNext]_ttsVars /\ [PlayerNext]_playerVars
  BY DEF MCNext, Only
<1>3. TtsIInv /\ PlayerIInv => SpeechInv
  BY DEF TtsIInv, Spoken, TtsInv, PlayerIInv, PlayerInv, SpeechInv
<1> QED BY <1>1, <1>2, <1>3, TtsStart, TtsStep, PlayerStart, PlayerStep, PTL DEF MCSpec
===============================================================================
