------------------------------- MODULE ModuleBus -------------------------------
(***************************************************************************)
(* robot_module_manager, robot_module_wrap and robot_module_thread: loading*)
(* of the module libraries, the two routing tables (by message type and by *)
(* binary type) and the messages that clients and modules pass through     *)
(* them.  Every module has a thread with a queue; each message is one step *)
(* of that thread.  Libraries are loaded and initialised by the main       *)
(* thread; a module may post from the moment its Init is called, while the *)
(* ones after it have no thread yet.                                       *)
(*                                                                         *)
(* Monitors are watches of message types in both directions (NameMonitor   *)
(* has the directory in full).  Broadcasts and replies to clients leave    *)
(* this component (Dispatch takes them up).                                *)
(***************************************************************************)
EXTENDS Naturals, Sequences, FiniteSets

CONSTANTS
  Lib,       \* module libraries
  Name,      \* names of modules
  NoName,    \* the empty name
  Type,      \* message types of text messages
  Bin,       \* message types of binary messages
  Msg,       \* messages
  Config,    \* module.config: a sequence of libraries
  NameOf,    \* GetModuleName of each library
  Handles    \* RegisterHandleMessageType of each library

ASSUME ModuleBusAssumption ==
  /\ NoName \notin Name
  /\ Config \in Seq(Lib)
  /\ NameOf \in [Lib -> Name \cup {NoName}]
  /\ Handles \in [Lib -> SUBSET Type]

VARIABLES
  phase,      \* of the main thread: "load", "init", "start", "serve"
  pos,        \* position in the configuration or in the list of names
  names,      \* module_config_namelist
  iface,      \* module_interface: name -> library
  owner,      \* messageType_toModule: type -> name
  inited,     \* names whose Init was called
  thread,     \* module_thread: names with a thread
  loop,       \* name -> "none", "created", "looping": state of the thread
  running,    \* m_run: name -> BOOLEAN
  queue,      \* name -> messages of its thread
  granted,    \* module_messagetype_list: binary type -> name
  watch,      \* <<name, type>>: name watches type
  sent,       \* messages that were sent
  fate,       \* what became of a message
  told,       \* <<name, binary type, error>>: responses to registrations
  copies      \* msg -> name -> copies pushed to a watcher

boot == <<phase, pos, names, iface, owner, inited, thread>>
vars == <<phase, pos, names, iface, owner, inited, thread, loop, running, queue,
          granted, watch, sent, fate, told, copies>>

\* A queued message: its kind, its type and whether the type chose the module.
Item ==
  [id : Msg, kind : {"in", "self", "copy", "binary"}, type : Type \cup Bin, routed : BOOLEAN]

\* "passed": to the thread that sends to clients; "refused": a client got
\* ROBOT_ERROR_RESPONSE; "lost": only a log line.
Fate == {"unsent", "queued", "handled", "passed", "refused", "lost", "misrouted"}

TypeOK ==
  /\ phase \in {"load", "init", "start", "serve"}
  /\ names \in Seq(Name)
  /\ \A n \in DOMAIN iface : n \in Name /\ iface[n] \in Lib
  /\ \A t \in DOMAIN owner : t \in Type /\ owner[t] \in Name
  /\ inited \subseteq Name /\ thread \subseteq inited
  /\ loop \in [Name -> {"none", "created", "looping"}]
  /\ running \in [Name -> BOOLEAN]
  /\ \A n \in Name : loop[n] # "none" => n \in thread
  /\ queue \in [Name -> Seq(Item)]
  /\ \A b \in DOMAIN granted : b \in Bin /\ granted[b] \in thread
  /\ watch \subseteq thread \X Type
  /\ fate \in [Msg -> Fate]
  /\ sent = {m \in Msg : fate[m] # "unsent"}
  /\ told \subseteq Name \X Bin \X {0, 1}
  /\ copies \in [Msg -> [Name -> Nat]]

Init ==
  /\ phase = "load" /\ pos = 1 /\ names = <<>>
  /\ iface = [n \in {} |-> NoName] /\ owner = [t \in {} |-> NoName]
  /\ inited = {} /\ thread = {}
  /\ loop = [n \in Name |-> "none"] /\ running = [n \in Name |-> FALSE]
  /\ queue = [n \in Name |-> <<>>]
  /\ granted = [b \in {} |-> NoName] /\ watch = {}
  /\ sent = {} /\ fate = [m \in Msg |-> "unsent"]
  /\ told = {} /\ copies = [m \in Msg |-> [n \in Name |-> 0]]

With(f, k, v) == [x \in DOMAIN f \cup {k} |-> IF x = k THEN v ELSE f[x]]

-------------------------------------------------------------------------------
(* The main thread: robot_module_manager::Init and Start.                  *)

others == <<loop, running, queue, granted, watch, sent, fate, told, copies>>

\* Claiming all message types of a library for a name.
Claimed(lib, n) ==
  [t \in DOMAIN owner \cup Handles[lib] |-> IF t \in Handles[lib] THEN n ELSE owner[t]]

\* Mutant: types that are taken are taken over.
Accepted_without_conflict_check(lib) ==
  NameOf[lib] # NoName /\ NameOf[lib] \notin DOMAIN iface

\* A library is accepted when it has a name of its own and none of its message
\* types is taken.
Accepted(lib) ==
  /\ NameOf[lib] # NoName
  /\ NameOf[lib] \notin DOMAIN iface
  /\ Handles[lib] \cap DOMAIN owner = {}

\* AppendModule of the next line of module.config; a path seen before is
\* skipped, and a library may fail to load.
AppendModule(loads) ==
  /\ phase = "load" /\ pos <= Len(Config)
  /\ pos' = pos + 1
  /\ LET lib == Config[pos] n == NameOf[lib] IN
     IF loads /\ (\A i \in 1..(pos - 1) : Config[i] # lib) /\ Accepted(lib)
     THEN /\ names' = Append(names, n)
          /\ iface' = With(iface, n, lib)
          /\ owner' = Claimed(lib, n)
     ELSE UNCHANGED <<names, iface, owner>>
  /\ UNCHANGED <<phase, inited, thread>>
  /\ UNCHANGED others

config_end ==
  /\ phase = "load" /\ pos > Len(Config)
  /\ phase' = "init" /\ pos' = 1
  /\ UNCHANGED <<names, iface, owner, inited, thread>>
  /\ UNCHANGED others

\* The next module's Init is called, which gives it the post function.
Init_call ==
  /\ phase = "init" /\ pos <= Len(names) /\ names[pos] \notin inited
  /\ inited' = inited \cup {names[pos]}
  /\ UNCHANGED <<phase, pos, names, iface, owner, thread>>
  /\ UNCHANGED others

\* Init returns; only a module that says so gets a thread.
Init_return(ok) ==
  /\ phase = "init" /\ pos <= Len(names) /\ names[pos] \in inited
  /\ thread' = IF ok THEN thread \cup {names[pos]} ELSE thread
  /\ pos' = pos + 1
  /\ UNCHANGED <<phase, names, iface, owner, inited>>
  /\ UNCHANGED others

Init_end ==
  /\ phase = "init" /\ pos > Len(names)
  /\ phase' = "start" /\ pos' = 1
  /\ UNCHANGED <<names, iface, owner, inited, thread>>
  /\ UNCHANGED others

\* Mutant: the last module is not started.
Start_skips_last ==
  /\ phase = "start"
  /\ IF pos < Len(names)
     THEN /\ pos' = pos + 1
          /\ loop' = IF names[pos] \in thread THEN [loop EXCEPT ![names[pos]] = "created"]
                     ELSE loop
          /\ UNCHANGED phase
     ELSE /\ phase' = "serve"
          /\ UNCHANGED <<pos, loop>>
  /\ UNCHANGED <<names, iface, owner, inited, thread, running, queue, granted, watch,
                 sent, fate, told, copies>>

\* Start creates the threads in the order of the configuration; the server
\* listens for clients afterwards.
Start ==
  /\ phase = "start"
  /\ IF pos <= Len(names)
     THEN /\ pos' = pos + 1
          /\ loop' = IF names[pos] \in thread THEN [loop EXCEPT ![names[pos]] = "created"]
                     ELSE loop
          /\ UNCHANGED phase
     ELSE /\ phase' = "serve"
          /\ UNCHANGED <<pos, loop>>
  /\ UNCHANGED <<names, iface, owner, inited, thread, running, queue, granted, watch,
                 sent, fate, told, copies>>

-------------------------------------------------------------------------------
(* Passing messages.                                                       *)

\* The threads that a type is watched from; each gets one copy pushed.
Watchers(t) == {n \in thread : <<n, t>> \in watch}

Push(q, n, it) == [q EXCEPT ![n] = Append(@, it)]
PushCopies(q, it) ==
  [n \in Name |-> IF n \in Watchers(it.type)
                  THEN Append(q[n], [it EXCEPT !.kind = "copy"]) ELSE q[n]]
CountCopies(it) ==
  [copies EXCEPT ![it.id] = [n \in Name |-> IF n \in Watchers(it.type) THEN @[n] + 1
                                            ELSE @[n]]]

\* MessageRoute and the look-up of CallModuleProcess.
Routes(t) == t \in DOMAIN owner /\ owner[t] \in thread

\* Mutant: the owner is not looked up among the threads.
CallModuleProcess_unchecked(m, t) ==
  /\ phase = "serve" /\ m \notin sent
  /\ sent' = sent \cup {m}
  /\ IF t \in DOMAIN owner
     THEN /\ queue' = Push(queue, owner[t],
                           [id |-> m, kind |-> "in", type |-> t, routed |-> TRUE])
          /\ fate' = [fate EXCEPT ![m] = "queued"]
     ELSE fate' = [fate EXCEPT ![m] = "refused"] /\ UNCHANGED queue
  /\ UNCHANGED boot
  /\ UNCHANGED <<loop, running, granted, watch, told, copies>>

\* A client's text message goes to the owner of its type, or is refused.
CallModuleProcess(m, t) ==
  /\ phase = "serve" /\ m \notin sent
  /\ sent' = sent \cup {m}
  /\ IF Routes(t)
     THEN /\ queue' = Push(queue, owner[t],
                           [id |-> m, kind |-> "in", type |-> t, routed |-> TRUE])
          /\ fate' = [fate EXCEPT ![m] = "queued"]
     ELSE fate' = [fate EXCEPT ![m] = "refused"] /\ UNCHANGED queue
  /\ UNCHANGED boot
  /\ UNCHANGED <<loop, running, granted, watch, told, copies>>

\* A client's binary message goes to the module that registered its type.
CallModuleProcess_binary(m, b) ==
  /\ phase = "serve" /\ m \notin sent
  /\ sent' = sent \cup {m}
  /\ IF b \in DOMAIN granted /\ granted[b] \in thread
     THEN /\ queue' = Push(queue, granted[b],
                           [id |-> m, kind |-> "binary", type |-> b, routed |-> TRUE])
          /\ fate' = [fate EXCEPT ![m] = "queued"]
     ELSE fate' = [fate EXCEPT ![m] = "lost"] /\ UNCHANGED queue
  /\ UNCHANGED boot
  /\ UNCHANGED <<loop, running, granted, watch, told, copies>>

\* ModulePostMessage by module n of a text message to a module by name, or, with
\* to = NoName standing for "unname_dispath", to the owner of the type.  The
\* watchers of the type get their copies last, whether it could be sent or not.
ModulePostMessage(n, m, t, to) ==
  /\ n \in inited /\ m \notin sent
  /\ sent' = sent \cup {m}
  /\ LET byType == to = NoName
         dest == IF byType THEN (IF Routes(t) THEN {owner[t]} ELSE {}) ELSE {to} \cap thread
         it == [id |-> m, kind |-> "in", type |-> t, routed |-> byType]
         q == IF dest = {} THEN queue ELSE Push(queue, CHOOSE d \in dest : TRUE, it)
     IN /\ queue' = PushCopies(q, it)
        /\ copies' = CountCopies(it)
        /\ fate' = [fate EXCEPT ![m] = IF dest = {} THEN "lost" ELSE "queued"]
  /\ UNCHANGED boot
  /\ UNCHANGED <<loop, running, granted, watch, told>>

\* ModulePostMessage to one client or to all.
ModulePostMessage_client(n, m, t) ==
  /\ n \in inited /\ m \notin sent
  /\ sent' = sent \cup {m}
  /\ LET it == [id |-> m, kind |-> "in", type |-> t, routed |-> FALSE]
     IN queue' = PushCopies(queue, it) /\ copies' = CountCopies(it)
  /\ fate' = [fate EXCEPT ![m] = "passed"]
  /\ UNCHANGED boot
  /\ UNCHANGED <<loop, running, granted, watch, told>>

\* ModulePostMessage to the service itself, "dispath_service": a request to watch
\* a type or to register a binary type, queued on the module's own thread.
\* Without a thread it is taken for the name of an unknown module.
ModulePostMessage_self(n, m, x) ==
  /\ n \in inited /\ m \notin sent
  /\ sent' = sent \cup {m}
  /\ IF n \in thread
     THEN /\ queue' = Push(queue, n, [id |-> m, kind |-> "self", type |-> x, routed |-> FALSE])
          /\ fate' = [fate EXCEPT ![m] = "queued"]
     ELSE fate' = [fate EXCEPT ![m] = "lost"] /\ UNCHANGED queue
  /\ UNCHANGED boot
  /\ UNCHANGED <<loop, running, granted, watch, told, copies>>

-------------------------------------------------------------------------------
(* robot_module_thread::run.                                               *)

\* The thread calls the module's Start and remembers whether it succeeded.
Start_call(n, ok) ==
  /\ loop[n] = "created"
  /\ loop' = [loop EXCEPT ![n] = "looping"]
  /\ running' = [running EXCEPT ![n] = ok]
  /\ UNCHANGED boot
  /\ UNCHANGED <<queue, granted, watch, sent, fate, told, copies>>

\* m_SetProcessData is called only when Start succeeded.
Processed(n, it) ==
  IF ~running[n] THEN "lost"
  ELSE IF it.routed /\ it.kind = "in" /\ it.type \notin Handles[iface[n]] THEN "misrouted"
  ELSE "handled"

\* MESSAGE_IN_TYPE: the module, then the watchers once more.
take_in(n) ==
  /\ loop[n] = "looping" /\ queue[n] # <<>> /\ Head(queue[n]).kind = "in"
  /\ LET it == Head(queue[n])
     IN /\ fate' = [fate EXCEPT ![it.id] = Processed(n, it)]
        /\ queue' = PushCopies([queue EXCEPT ![n] = Tail(@)], it)
        /\ copies' = CountCopies(it)
  /\ UNCHANGED boot
  /\ UNCHANGED <<loop, running, granted, watch, sent, told>>

\* MESSAGE_MONITOR_TYPE: the watcher gets its copy.
take_copy(n) ==
  /\ loop[n] = "looping" /\ queue[n] # <<>> /\ Head(queue[n]).kind = "copy"
  /\ queue' = [queue EXCEPT ![n] = Tail(@)]
  /\ UNCHANGED boot
  /\ UNCHANGED <<loop, running, granted, watch, sent, fate, told, copies>>

\* MESSAGE_BINARY_TYPE.
take_binary(n) ==
  /\ loop[n] = "looping" /\ queue[n] # <<>> /\ Head(queue[n]).kind = "binary"
  /\ fate' = [fate EXCEPT ![Head(queue[n]).id] = Processed(n, Head(queue[n]))]
  /\ queue' = [queue EXCEPT ![n] = Tail(@)]
  /\ UNCHANGED boot
  /\ UNCHANGED <<loop, running, granted, watch, sent, told, copies>>

\* The first module to register a binary type keeps it.
AppendMessageTypeModule(n, b) ==
  granted' = IF b \in DOMAIN granted THEN granted ELSE With(granted, b, n)

\* MESSAGE_SLEF_TYPE: selfhandler, then the response to the module if it runs.
\* A watch is registered without a response.
take_self(n) ==
  /\ loop[n] = "looping" /\ queue[n] # <<>> /\ Head(queue[n]).kind = "self"
  /\ LET x == Head(queue[n]).type IN
     IF x \in Type
     THEN watch' = watch \cup {<<n, x>>} /\ UNCHANGED <<granted, told>>
     ELSE /\ AppendMessageTypeModule(n, x)
          /\ told' = IF running[n]
                     THEN told \cup {<<n, x, IF x \in DOMAIN granted THEN 1 ELSE 0>>}
                     ELSE told
          /\ UNCHANGED watch
  /\ fate' = [fate EXCEPT ![Head(queue[n]).id] = "handled"]
  /\ queue' = [queue EXCEPT ![n] = Tail(@)]
  /\ UNCHANGED boot
  /\ UNCHANGED <<loop, running, sent, copies>>

-------------------------------------------------------------------------------

take(n) == take_in(n) \/ take_copy(n) \/ take_binary(n) \/ take_self(n)

main == \E ok \in BOOLEAN : AppendModule(ok) \/ Init_return(ok)
          \/ config_end \/ Init_call \/ Init_end \/ Start

Next ==
  \/ main
  \/ \E m \in Msg :
       \/ \E t \in Type : CallModuleProcess(m, t)
       \/ \E b \in Bin : CallModuleProcess_binary(m, b)
       \/ \E n \in Name, t \in Type, to \in Name \cup {NoName} : ModulePostMessage(n, m, t, to)
       \/ \E n \in Name, t \in Type : ModulePostMessage_client(n, m, t)
       \/ \E n \in Name, x \in Type \cup Bin : ModulePostMessage_self(n, m, x)
  \/ \E n \in Name : take(n) \/ \E ok \in BOOLEAN : Start_call(n, ok)

Spec == Init /\ [][Next]_vars

\* The main thread gets on with its list, and a thread that was started calls
\* Start and takes its messages.
FairSpec ==
  /\ Spec
  /\ WF_vars(main)
  /\ \A n \in Name :
       WF_vars(\E ok \in BOOLEAN : Start_call(n, ok)) /\ WF_vars(take(n))

-------------------------------------------------------------------------------
(* Properties.                                                             *)

\* A library's message types are claimed all or not at all, and never by two
\* modules (AppendModule tests all of them before it writes any).
AllOrNothing ==
  /\ \A n \in DOMAIN iface : \A t \in Handles[iface[n]] : t \in DOMAIN owner /\ owner[t] = n
  /\ \A t \in DOMAIN owner : owner[t] \in DOMAIN iface /\ t \in Handles[iface[owner[t]]]

\* A message that its type routes is handled by a module that listed the type.
NeverMisrouted == \A m \in Msg : fate[m] # "misrouted"

\* Every message is waiting in exactly one queue or has its fate; none waits in
\* the queue of a module that never got a thread.
Waiting(m) ==
  UNION {{n} \X {i \in DOMAIN queue[n] : queue[n][i].id = m /\ queue[n][i].kind # "copy"} :
           n \in Name}

EachAccountedFor ==
  \A m \in Msg :
    /\ Cardinality(Waiting(m)) = (IF fate[m] = "queued" THEN 1 ELSE 0)
    /\ \A w \in Waiting(m) : w[1] \in thread

\* A module told that it owns a binary type owns it from then on, and nobody else
\* is told so (AppendMessageTypeModule under its lock).
GrantIsExclusive ==
  \A r, s \in told :
    /\ r[3] = 0 => granted[r[2]] = r[1]
    /\ r[2] = s[2] /\ r[3] = 0 /\ s[3] = 0 => r[1] = s[1]

\* What loading and the grants keep in every state.
TablesInv == TypeOK /\ AllOrNothing /\ GrantIsExclusive

\* A watcher sees a message at most twice: where it is posted and where it is
\* handled; being shown to a watcher does not show it again.
CopiesBounded == \A m \in Msg, n \in Name : copies[m][n] <= 2

\* No message is lost without a fate, kept twice, shown without bound or given to a
\* module that does not handle it.
DeliveryInv == EachAccountedFor /\ NeverMisrouted /\ CopiesBounded

\* Once the service is up, what was queued is handled or dropped, never kept.
QueuedIsTaken == \A m \in Msg : fate[m] = "queued" ~> fate[m] # "queued"
===============================================================================
