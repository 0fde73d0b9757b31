------------------------------ MODULE NameMonitor ------------------------------
(***************************************************************************)
(* robot_mcs_monitor keeps the name monitors in two maps, one by name and  *)
(* one by module, under m_maplist_l.  Module threads register and          *)
(* unregister (robot_module_thread::selfhandler), the thread that removes a*)
(* client withdraws its name (robot_client_manager), and every thread that *)
(* passes a message asks who watches it.  The lock makes each call one     *)
(* step.                                                                   *)
(***************************************************************************)
EXTENDS Naturals

CONSTANTS
  Module,   \* modules that watch
  Name,     \* names that are watched
  NoName    \* the empty string: a request without a name, a message without a guid

ASSUME NameMonitorAssumption == NoName \in Name

VARIABLES
  map_list,         \* name -> set of modules
  module_map_type   \* module -> name -> mode

vars == <<map_list, module_map_type>>

Mode == 0..2   \* 0 both ways, 1 "transmit", 2 "receive"

TypeOK ==
  /\ DOMAIN map_list \subseteq Name
  /\ \A n \in DOMAIN map_list : map_list[n] \in (SUBSET Module) \ {{}}
  /\ DOMAIN module_map_type \subseteq Module
  /\ \A m \in DOMAIN module_map_type :
       /\ DOMAIN module_map_type[m] \subseteq Name
       /\ module_map_type[m] \in [DOMAIN module_map_type[m] -> Mode]

Init ==
  /\ map_list = [n \in {} |-> {}]
  /\ module_map_type = [m \in {} |-> <<>>]

-------------------------------------------------------------------------------

\* The value of key k, and what operator[] creates when there is none.
ModulesOf(n) == IF n \in DOMAIN map_list THEN map_list[n] ELSE {}
TypesOf(m) == IF m \in DOMAIN module_map_type THEN module_map_type[m] ELSE [n \in {} |-> 0]

\* f with the value v at k, and f without k.
With(f, k, v) == [x \in DOMAIN f \cup {k} |-> IF x = k THEN v ELSE f[x]]
Without(f, k) == [x \in DOMAIN f \ {k} |-> f[x]]

\* Mutant: the mode is set for every module that watches the name.
append_name_monitor_all(m, n, t) ==
  /\ map_list' = With(map_list, n, ModulesOf(n) \cup {m})
  /\ module_map_type' =
       [x \in DOMAIN module_map_type \cup {m} |->
          IF x \in ModulesOf(n) \cup {m} THEN With(TypesOf(x), n, t) ELSE TypesOf(x)]

\* Registering again replaces the mode.
append_name_monitor(m, n, t) ==
  /\ map_list' = With(map_list, n, ModulesOf(n) \cup {m})
  /\ module_map_type' = With(module_map_type, m, With(TypesOf(m), n, t))

\* Entries that become empty are erased from both maps.
remove_name_monitor(m, n) ==
  /\ map_list' = IF m \notin ModulesOf(n) THEN map_list
                 ELSE IF map_list[n] = {m} THEN Without(map_list, n)
                 ELSE With(map_list, n, map_list[n] \ {m})
  /\ module_map_type' =
       IF n \notin DOMAIN TypesOf(m) THEN module_map_type
       ELSE IF DOMAIN module_map_type[m] = {n} THEN Without(module_map_type, m)
       ELSE With(module_map_type, m, Without(module_map_type[m], n))

\* Mutant: the modes of the name stay.
offline_name_one_map(n) ==
  /\ map_list' = Without(map_list, n)
  /\ UNCHANGED module_map_type

\* The name is erased for every module that watches it; the map of a module may
\* stay behind empty.
offline_name(n) ==
  IF n \notin DOMAIN map_list
  THEN UNCHANGED vars
  ELSE /\ map_list' = Without(map_list, n)
       /\ module_map_type' =
            [m \in DOMAIN module_map_type |->
               IF m \in map_list[n] THEN Without(module_map_type[m], n)
               ELSE module_map_type[m]]

Next ==
  \/ \E m \in Module, n \in Name, t \in Mode : append_name_monitor(m, n, t)
  \/ \E m \in Module, n \in Name : remove_name_monitor(m, n)
  \/ \E n \in Name \ {NoName} : offline_name(n)

Spec == Init /\ [][Next]_vars

-------------------------------------------------------------------------------
(* Queries.                                                                *)

\* What a message is asked about: the module, the client and the message type
\* it involves, and the direction for the first two.
monitor_info ==
  [module_name : Name \ {NoName}, module_type : {1, 2},
   guid : Name, guid_type : 0..2, message_type : Name]

\* Mutant: a mode must be that of the message.
get_name_monitor_list_exact(i) ==
  {m \in UNION {ModulesOf(n) : n \in {i.module_name, i.guid, i.message_type} \ {NoName}} :
     LET t == TypesOf(m) IN
     \/ i.module_name \in DOMAIN t /\ t[i.module_name] = i.module_type
     \/ i.guid \in DOMAIN t /\ t[i.guid] = i.guid_type
     \/ i.message_type \in DOMAIN t}

\* Candidates come from one map, the decision from the other.
get_name_monitor_list(i) ==
  {m \in UNION {ModulesOf(n) : n \in {i.module_name, i.guid, i.message_type} \ {NoName}} :
     LET t == TypesOf(m) IN
     \/ i.module_name \in DOMAIN t /\ t[i.module_name] \in {0, i.module_type}
     \/ i.guid \in DOMAIN t /\ t[i.guid] \in {0, i.guid_type}
     \/ i.message_type \in DOMAIN t}

-------------------------------------------------------------------------------
(* Properties.                                                             *)

\* The directory implements a set of watches: registering, unregistering and a
\* client that goes offline act on both maps as one.
Watch ==
  [p \in {q \in Module \X Name : q[1] \in ModulesOf(q[2])} |-> TypesOf(p[1])[p[2]]]

Abstract == INSTANCE MonitorSet WITH watch <- Watch
AbstractSpec == Abstract!Spec

\* A module is in the list of a name iff it has a mode for the name: what is
\* looked up in one map is always found in the other.
MapsAgree ==
  \A m \in Module, n \in Name : m \in ModulesOf(n) <=> n \in DOMAIN TypesOf(m)

\* What the directory keeps under its lock, call after call.
DirectoryInv == TypeOK /\ MapsAgree

\* Whoever watches a name of a message in its direction is told of it, and who
\* is told watches some part of it; the empty name, which a request without a
\* name registers, never brings a message by itself.
Watches(m, n, t) == <<m, n>> \in DOMAIN Watch /\ (Watch[<<m, n>>] = 0 \/ Watch[<<m, n>>] = t)

ToldWhatIsWatched ==
  \A i \in monitor_info, m \in Module :
    LET byModule == Watches(m, i.module_name, i.module_type)
        byClient == Watches(m, i.guid, i.guid_type)
        byType == <<m, i.message_type>> \in DOMAIN Watch
        told == m \in get_name_monitor_list(i)
    IN /\ byModule \/ (byClient /\ i.guid # NoName) \/ (byType /\ i.message_type # NoName)
            => told
       /\ told => byModule \/ byClient \/ byType
       /\ told => \E n \in {i.module_name, i.guid, i.message_type} \ {NoName} :
                    <<m, n>> \in DOMAIN Watch
===============================================================================
