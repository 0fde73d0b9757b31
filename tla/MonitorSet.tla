------------------------------ MODULE MonitorSet ------------------------------
(***************************************************************************)
(* What the directory of name monitors (robot_mcs_monitor) promises: a     *)
(* partial function that says in which mode a module watches a name.  A    *)
(* name is that of a client, of a module or of a message type.             *)
(***************************************************************************)
EXTENDS Naturals

CONSTANTS
  Module,   \* modules that may watch
  Name      \* names that may be watched

Mode == 0..2   \* 0 both ways, 1 "transmit", 2 "receive"

VARIABLE watch   \* from pairs <<module, name>> to modes

Init == watch = [p \in {} |-> 0]

append_name_monitor(m, n, t) ==
  watch' = [p \in DOMAIN watch \cup {<<m, n>>} |-> IF p = <<m, n>> THEN t ELSE watch[p]]

remove_name_monitor(m, n) ==
  watch' = [p \in DOMAIN watch \ {<<m, n>>} |-> watch[p]]

offline_name(n) ==
  watch' = [p \in {q \in DOMAIN watch : q[2] # n} |-> watch[p]]

Next ==
  \/ \E m \in Module, n \in Name, t \in Mode : append_name_monitor(m, n, t)
  \/ \E m \in Module, n \in Name : remove_name_monitor(m, n)
  \/ \E n \in Name : offline_name(n)

Spec == Init /\ [][Next]_watch
===============================================================================
