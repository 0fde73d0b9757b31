------------------------------- MODULE IcReader -------------------------------
(***************************************************************************)
(* The reader of magnetic cards (ICcardmodule): one thread takes requests  *)
(* from its queue and, while a client waits for a card, polls the device.  *)
(* The device keeps a card until the thread moves it out.                  *)
(*                                                                         *)
(* One step is one turn of the loop of run: a message or none, a poll if a *)
(* client waits, and the ejection of a card nobody is to keep.             *)
(***************************************************************************)
EXTENDS Naturals, Sequences, FiniteSets

CONSTANTS
  CardUser,    \* clients
  MaxCardMsg   \* bound: requests

ASSUME IcAssumption == MaxCardMsg \in Nat

VARIABLES
  ic,          \* the reader, see IcState
  ic_queue,    \* requests the thread has not taken
  ic_thread,   \* "new": started, but run has not cleaned the queue yet
  ic_sent,     \* requests so far
  started,     \* client -> waits of its that set the reader to work
  results,     \* client -> results posted to it
  cancelled,   \* client -> waits of its that a cancellation ended
  ic_kept      \* why the card is held without a task: "read", "cancel"

icVars == <<ic, ic_queue, ic_thread, ic_sent, started, results, cancelled, ic_kept>>

\* hCom is never reset: "closed" is a handle that is kept after Close_Device.
IcState ==
  [has_task : BOOLEAN, owner : CardUser \cup {"none"}, need_hold_card : BOOLEAN,
   hCom : {"none", "open", "closed"}, card : {"in", "out"}]

IcMessage == [kind : {"wait", "cancel", "remove"}, from : CardUser]

IcTypeOK ==
  /\ ic \in IcState
  /\ ic_queue \in Seq(IcMessage)
  /\ ic_thread \in {"new", "runs", "ended"}
  /\ started \in [CardUser -> Nat] /\ results \in [CardUser -> Nat]
  /\ cancelled \in [CardUser -> Nat]
  /\ ic_kept \in {"none", "read", "cancel"}

IcInit ==
  /\ ic = [has_task |-> FALSE, owner |-> "none", need_hold_card |-> FALSE,
           hCom |-> "none", card |-> "out"]
  /\ ic_queue = <<>> /\ ic_thread = "new" /\ ic_sent = 0
  /\ started = [c \in CardUser |-> 0] /\ results = started /\ cancelled = started
  /\ ic_kept = "none"

\* message_handler, on the thread of the server's module.
ic_message_handler(m) ==
  /\ ic_thread # "ended" /\ ic_sent < MaxCardMsg
  /\ ic_queue' = Append(ic_queue, m) /\ ic_sent' = ic_sent + 1
  /\ UNCHANGED <<ic, ic_thread, started, results, cancelled, ic_kept>>

\* run cleans the queue when it begins: what came before is dropped.
ic_run_begins ==
  /\ ic_thread = "new"
  /\ ic_thread' = "runs" /\ ic_queue' = <<>>
  /\ UNCHANGED <<ic, ic_sent, started, results, cancelled, ic_kept>>

insert_card ==
  /\ ic.card = "out" /\ ic.hCom = "open"
  /\ ic' = [ic EXCEPT !.card = "in"]
  /\ UNCHANGED <<ic_queue, ic_thread, ic_sent, started, results, cancelled, ic_kept>>

\* Read_BankCD::Init: what becomes of the handle.  Without a version from the device
\* the port is closed, but the next Init takes it for open.
Opened(r) == IF r.hCom = "none" THEN {"none", "open", "closed"} ELSE {r.hCom}
Usable(r, com) == r.hCom # "none" \/ com = "open"

\* Cancel_Card: the card is moved out if the device answers (ok).
Cancel_Card(r, ok) == IF ok /\ r.hCom = "open" THEN [r EXCEPT !.card = "out"] ELSE r

\* Case 0: the reader after a wait of c.  A client that comes while another one
\* waits is told that it waits as well.
ic_wait(r, c, com) ==
  IF r.has_task THEN r
  ELSE IF Usable(r, com)
       THEN [r EXCEPT !.has_task = TRUE, !.owner = c, !.need_hold_card = TRUE, !.hCom = com]
       ELSE [r EXCEPT !.need_hold_card = FALSE, !.hCom = com]

\* Case 1: no matter who asks, and the card stays to be held.
ic_cancel(r) == [r EXCEPT !.has_task = FALSE]

\* Case 2: not while a client waits.
ic_remove(r, com, ok) ==
  IF r.has_task THEN r
  ELSE IF Usable(r, com)
       THEN [Cancel_Card([r EXCEPT !.hCom = com], ok) EXCEPT !.need_hold_card = FALSE]
       ELSE [r EXCEPT !.hCom = com]

ic_handle(r, m, com, ok) ==
  CASE m.kind = "wait"   -> ic_wait(r, m.from, com)
    [] m.kind = "cancel" -> ic_cancel(r)
    [] m.kind = "remove" -> ic_remove(r, com, ok)

\* A turn on its way: the reader, the results posted so far and the last of them.
Turn(r, posts, why) == [r |-> r, posts |-> posts, why |-> why]

\* The poll: no card or an error, data (the card is kept), a card without data.
ic_read(r, ok) ==
  {Turn(r, 0, "none")} \cup
  IF ~r.has_task \/ r.hCom # "open" \/ r.card = "out" THEN {}
  ELSE {Turn([r EXCEPT !.has_task = FALSE], 1, "data"),
        Turn([Cancel_Card(r, ok) EXCEPT !.has_task = FALSE, !.need_hold_card = FALSE], 1, "blank")}

TimedOut(t, ok) ==
  Turn([Cancel_Card(t.r, ok) EXCEPT !.has_task = FALSE, !.need_hold_card = FALSE],
       t.posts + 1, "timeout")

\* The time is up, unless the poll has ended the task.
ic_timeout(t, ok) == IF t.r.has_task THEN {t, TimedOut(t, ok)} ELSE {t}

\* Mutant: a card is moved out on request and when the time is up only.
eject_not(r, ok) == r

\* The end of the loop: getstate and Cancel_Card.
eject(r, ok) == IF r.has_task \/ r.need_hold_card THEN r ELSE Cancel_Card(r, ok)

Plus(f, c, n) == IF n = 0 THEN f ELSE [f EXCEPT ![c] = @ + n]

\* What remains of a turn once the message has made r of the reader.
ic_turn(r, begun, ok) ==
  \E p \in ic_read(r, ok) : \E t \in ic_timeout(p, ok) :
    LET dropped == ic.has_task /\ ~r.has_task
    IN /\ ic' = eject(t.r, ok)
       /\ started' = Plus(started, r.owner, IF begun THEN 1 ELSE 0)
       /\ results' = Plus(results, r.owner, t.posts)
       /\ cancelled' = Plus(cancelled, r.owner, IF dropped THEN 1 ELSE 0)
       /\ ic_kept' = IF t.r.has_task \/ ~t.r.need_hold_card THEN "none"
                     ELSE IF t.why = "data" THEN "read"
                     ELSE IF dropped THEN "cancel" ELSE ic_kept

ic_take(ok) ==
  /\ ic_thread = "runs" /\ ic_queue # <<>>
  /\ ic_queue' = Tail(ic_queue)
  /\ \E com \in Opened(ic) :
       LET m == Head(ic_queue)
           r == ic_handle(ic, m, com, ok)
       IN ic_turn(r, ~ic.has_task /\ r.has_task, ok)
  /\ UNCHANGED <<ic_thread, ic_sent>>

\* getq returns without a message: at once with a task, after five seconds without.
ic_idle(ok) ==
  /\ ic_thread = "runs" /\ ic_queue = <<>>
  /\ ic_turn(ic, FALSE, ok)
  /\ UNCHANGED <<ic_queue, ic_thread, ic_sent>>

\* _EXIT_THREAD_, which quit may put before the requests that wait.
ic_exit ==
  /\ ic_thread = "runs"
  /\ ic_thread' = "ended"
  /\ \E ok \in BOOLEAN :
       ic' = [Cancel_Card(ic, ok) EXCEPT !.need_hold_card = FALSE,
                !.hCom = IF ic.hCom = "none" THEN "none" ELSE "closed"]
  /\ UNCHANGED <<ic_queue, ic_sent, started, results, cancelled, ic_kept>>

IcNext ==
  \/ \E m \in IcMessage : ic_message_handler(m)
  \/ ic_run_begins \/ insert_card
  \/ \E ok \in BOOLEAN : ic_take(ok) \/ ic_idle(ok)
  \/ ic_exit

IcSpec == IcInit /\ [][IcNext]_icVars

\* A wait that set the reader to work ends once, by a result to the client that
\* asked or by a cancellation, and it has not ended while the reader works for it.
\* robot_ICreader_module::run sets and resets has_task at five places.
WaitEndsOnce ==
  \A c \in CardUser :
    started[c] = results[c] + cancelled[c] + (IF ic.has_task /\ ic.owner = c THEN 1 ELSE 0)

\* A card stays in the reader without a task only after its data was given out or
\* after a cancellation; and no card is moved out under a client that waits.
HeldForReason ==
  ic_thread # "ended" =>
    IF ic.has_task THEN ic.need_hold_card ELSE ic.need_hold_card <=> ic_kept # "none"

\* The reader serves one wait at a time, whatever arrives in which order.
CardReaderInv == IcTypeOK /\ WaitEndsOnce /\ HeldForReason

\* The loop comes round every five seconds without a message, and in one turn or
\* another the device answers (ok).
ic_turns == ic_run_begins \/ ic_take(TRUE) \/ ic_idle(TRUE)

IcFairness == WF_icVars(ic_turns)

\* A card that nobody is to keep leaves the reader, unless the thread ends before.
CardReturned ==
  ic.card = "in" /\ ~ic.need_hold_card ~>
    ic.card = "out" \/ ic.need_hold_card \/ ic_thread = "ended"
===============================================================================
