------------------------------- MODULE Expression -------------------------------
(***************************************************************************)
(* The expression module: a request to change the face of the robot is     *)
(* passed to every connected controller, and the client is answered when   *)
(* all of them have answered.  Responses name no request: a response goes  *)
(* to the oldest task that waits for its sender.                           *)
(***************************************************************************)
EXTENDS Integers, Sequences, SequencesExt, FiniteSetsExt

CONSTANTS
  Expresser,   \* guids of expression controllers: integers, in the order of the guids
  Asker,       \* guids of other clients
  MaxExpr,     \* bound: requests
  MaxLeaves    \* bound: disconnects

ASSUME ExpressionAssumption == Expresser \subseteq Nat /\ MaxExpr \in Nat /\ MaxLeaves \in Nat

VARIABLES
  expression_client_list,
  m_tasklist,    \* tasks: [id, from, left], left the controllers it waits for
  posted,        \* controllers each request was passed to
  inbox,         \* requests each controller has not answered
  performed,     \* controllers that have answered each request
  departed,      \* controllers that left while a task waited for them
  answered,      \* requests answered
  forgotten,     \* requests whose task was dropped unanswered
  off_list,      \* the loop over the tasks has run off the list
  leaves

exprVars == <<expression_client_list, m_tasklist, posted, inbox, performed, departed,
              answered, forgotten, off_list, leaves>>

ExprId == 1..MaxExpr

ExprTypeOK ==
  /\ expression_client_list \subseteq Expresser
  /\ m_tasklist \in Seq([id : ExprId, from : Asker, left : SUBSET Expresser])
  /\ posted \in Seq(SUBSET Expresser) /\ Len(posted) <= MaxExpr
  /\ inbox \in [Expresser -> Seq(ExprId)]
  /\ performed \in [ExprId -> SUBSET Expresser] /\ departed \in [ExprId -> SUBSET Expresser]
  /\ answered \subseteq ExprId /\ forgotten \subseteq ExprId
  /\ off_list \in BOOLEAN

ExprInit ==
  /\ expression_client_list = {} /\ m_tasklist = <<>>
  /\ posted = <<>> /\ inbox = [c \in Expresser |-> <<>>]
  /\ performed = [i \in ExprId |-> {}] /\ departed = [i \in ExprId |-> {}]
  /\ answered = {} /\ forgotten = {}
  /\ off_list = FALSE /\ leaves = 0

Ids(tasks) == {tasks[i].id : i \in DOMAIN tasks}

\* remove_overdue, before every message: tasks older than ten seconds go, and the
\* older ones stand in front.  The rest is what the message finds.
remove_overdue(rest) ==
  /\ ~off_list
  /\ \E n \in 0..Len(m_tasklist) : rest = SubSeq(m_tasklist, n + 1, Len(m_tasklist))

Overdue(rest) == Ids(m_tasklist) \ Ids(rest)
Rests == {SubSeq(m_tasklist, n + 1, Len(m_tasklist)) : n \in 0..Len(m_tasklist)}

\* EXPRESSION_CHANGE_REQUEST: without a controller it is refused (336).
change_request(a, rest) ==
  /\ remove_overdue(rest)
  /\ Len(posted) < MaxExpr
  /\ LET id == Len(posted) + 1
         to == expression_client_list
     IN /\ posted' = Append(posted, to)
        /\ inbox' = [c \in Expresser |-> IF c \in to THEN Append(inbox[c], id) ELSE inbox[c]]
        /\ IF to = {} THEN answered' = answered \cup {id} /\ m_tasklist' = rest
           ELSE /\ m_tasklist' = Append(rest, [id |-> id, from |-> a, left |-> to])
                /\ UNCHANGED answered
  /\ forgotten' = forgotten \cup Overdue(rest)
  /\ UNCHANGED <<expression_client_list, performed, departed, off_list, leaves>>

Waiting(tasks, c) == {i \in DOMAIN tasks : c \in tasks[i].left}

\* What is left of the tasks when task i no longer waits for c, and what is answered.
Served(tasks, i, c) ==
  IF tasks[i].left = {c} THEN RemoveAt(tasks, i)
  ELSE [tasks EXCEPT ![i].left = @ \ {c}]

\* EXPRESSION_CHANGE_RESPONSE: controllers answer what they were passed in turn.
change_response(c, rest) ==
  /\ remove_overdue(rest)
  /\ inbox[c] # <<>>
  /\ inbox' = [inbox EXCEPT ![c] = Tail(@)]
  /\ performed' = [performed EXCEPT ![Head(inbox[c])] = @ \cup {c}]
  /\ IF Waiting(rest, c) = {} THEN m_tasklist' = rest /\ UNCHANGED answered
     ELSE LET i == Min(Waiting(rest, c))
          IN /\ m_tasklist' = Served(rest, i, c)
             /\ answered' = answered \cup (Ids(rest) \ Ids(Served(rest, i, c)))
  /\ forgotten' = forgotten \cup Overdue(rest)
  /\ UNCHANGED <<expression_client_list, posted, departed, off_list, leaves>>

\* DISPATCH_CLIENT_CONNECT_NOTIFY of a controller.
client_connect(c, rest) ==
  /\ remove_overdue(rest)
  /\ c \notin expression_client_list
  /\ expression_client_list' = expression_client_list \cup {c}
  /\ m_tasklist' = rest
  /\ forgotten' = forgotten \cup Overdue(rest)
  /\ UNCHANGED <<posted, inbox, performed, departed, answered, off_list, leaves>>

\* The loop over the controllers of a task advances the iterator of the tasks: it
\* ends only when c comes first in every task that waits for anybody.
RunsOff(tasks, c) == \E i \in DOMAIN tasks : tasks[i].left # {} /\ Min(tasks[i].left) # c

\* DISPATCH_CLIENT_DISCONNECT_NOTIFY of a controller: no task waits for it any more.
\* A task that waits for nobody stays until it is overdue.
controller_disconnect(c, rest) ==
  /\ remove_overdue(rest)
  /\ c \in expression_client_list /\ leaves < MaxLeaves
  /\ leaves' = leaves + 1
  /\ expression_client_list' = expression_client_list \ {c}
  /\ inbox' = [inbox EXCEPT ![c] = <<>>]
  /\ departed' = [i \in ExprId |-> IF \E k \in Waiting(rest, c) : rest[k].id = i
                                   THEN departed[i] \cup {c} ELSE departed[i]]
  /\ off_list' = RunsOff(rest, c)
  /\ m_tasklist' = [i \in DOMAIN rest |-> [rest[i] EXCEPT !.left = @ \ {c}]]
  /\ forgotten' = forgotten \cup Overdue(rest)
  /\ UNCHANGED <<posted, performed, answered>>

\* The same of any other client: its tasks go, the others keep their order.
client_disconnect(a, rest) ==
  /\ remove_overdue(rest)
  /\ leaves < MaxLeaves
  /\ leaves' = leaves + 1
  /\ LET kept == {i \in DOMAIN rest : rest[i].from # a}
     IN \E f \in [1..Cardinality(kept) -> kept] :
          /\ \A i, j \in DOMAIN f : i < j => f[i] < f[j]
          /\ m_tasklist' = [i \in DOMAIN f |-> rest[f[i]]]
  /\ forgotten' = forgotten \cup (Ids(m_tasklist) \ Ids(m_tasklist'))
  /\ UNCHANGED <<expression_client_list, posted, inbox, performed, departed, answered, off_list>>

ExprNext == \E rest \in Rests :
  \/ \E a \in Asker : change_request(a, rest) \/ client_disconnect(a, rest)
  \/ \E c \in Expresser :
       change_response(c, rest) \/ client_connect(c, rest) \/ controller_disconnect(c, rest)

ExprSpec == ExprInit /\ [][ExprNext]_exprVars

-------------------------------------------------------------------------------
(* Properties.                                                             *)

\* A client is told that its expression is shown only when every controller it was
\* passed to has shown it or left, but for controllers that still owed an
\* answer to an older task that had been dropped.
AnswerIsOwn ==
  \A i \in answered : \A c \in posted[i] :
    \/ c \in performed[i] \cup departed[i]
    \/ \E d \in forgotten : d < i /\ c \in posted[d]

\* A task waits only for connected controllers that still have its request before them,
\* whatever they answered: no task waits for an answer that cannot come.  It waits for
\* nobody only when one of them left.
WaitsForConnected == ~off_list =>
  \A k \in DOMAIN m_tasklist :
    LET t == m_tasklist[k] IN
    /\ t.left \subseteq expression_client_list /\ t.id \notin answered \cup forgotten
    /\ t.left = {} => departed[t.id] # {}
    /\ \A c \in t.left : \E n \in DOMAIN inbox[c] : inbox[c][n] = t.id

ExpressionInv == ExprTypeOK /\ AnswerIsOwn /\ WaitsForConnected
===============================================================================
