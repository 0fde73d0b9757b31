----------------------------- MODULE ClientSession -----------------------------
(***************************************************************************)
(* What the dispatch server promises about a client connection, without    *)
(* threads, queues or locks: it is opened once, closed at most once, its   *)
(* frames are handled while it is open or while input received before the  *)
(* close is drained, and then everything held for it is released for good. *)
(***************************************************************************)
EXTENDS Naturals

CONSTANT Guid

VARIABLES
  phase,    \* life of each connection
  handled   \* frames handled for each connection

vars == <<phase, handled>>

TypeOK ==
  /\ phase \in [Guid -> {"new", "open", "draining", "gone"}]
  /\ handled \in [Guid -> Nat]

Init ==
  /\ phase = [g \in Guid |-> "new"]
  /\ handled = [g \in Guid |-> 0]

Become(g, from, to) ==
  /\ phase[g] = from
  /\ phase' = [phase EXCEPT ![g] = to]
  /\ UNCHANGED handled

Open(g)    == Become(g, "new", "open")
Close(g)   == Become(g, "open", "draining")
Release(g) == Become(g, "draining", "gone")

HandleFrame(g) ==
  /\ phase[g] \in {"open", "draining"}
  /\ handled' = [handled EXCEPT ![g] = @ + 1]
  /\ UNCHANGED phase

Next == \E g \in Guid : Open(g) \/ Close(g) \/ Release(g) \/ HandleFrame(g)

Spec == Init /\ [][Next]_vars
===============================================================================
