---------------------------- MODULE ModuleBusProofs ----------------------------
(***************************************************************************)
(* For any libraries, configuration and messages: the routing tables stay  *)
(* consistent, each message waits in one queue or has its fate, and no     *)
(* module is given a message it did not list.  For any messages, broken    *)
(* connections and crashes: what the client of the cloud platform takes    *)
(* from the broker is handed over.  For any microphones, clients, cameras, *)
(* readers and applications, and however the engine, the audio module and  *)
(* the network answer: who is logged in, which recognitions run and who is *)
(* owed an answer; a stream runs for its readers only, an application is   *)
(* answered once, and the camera is read for the assistance service while  *)
(* there is a session.                                                     *)
(***************************************************************************)
EXTENDS MCModuleBus, FiniteSetTheorems, SequenceTheorems, TLAPS

\* What may wait in the queue of n: a message that was sent, and, if its type chose the
\* module, one whose type n has claimed.
Due(n) ==
  {it \in Item : /\ it.id \in sent
                 /\ it.routed /\ it.kind = "in" =>
                      n \in DOMAIN iface /\ it.type \in Handles[iface[n]]}

\* The tables and the queues; a grant that was told is in the table.
BusIInv ==
  /\ TablesInv
  /\ NeverMisrouted
  /\ pos \in Nat \ {0}
  /\ \A n \in Name : queue[n] \in Seq(Due(n))
  /\ \A r \in told : r[3] = 0 => r[2] \in DOMAIN granted

\* What is due stays due: messages stay sent and modules keep their types.
LEMMA DueGrows ==
  ASSUME sent \subseteq sent', DOMAIN iface \subseteq DOMAIN iface',
         \A n \in DOMAIN iface : iface'[n] = iface[n],
         NEW n, NEW q \in Seq(Due(n))
  PROVE  q \in Seq(Due(n)')
<1>1. Due(n) \subseteq Due(n)'
  BY DEF Due
<1> QED BY <1>1, SeqMonotonic

\* Steps of the main thread leave the queues and the fates alone.
LEMMA BootKeeps ==
  ASSUME BusIInv, UNCHANGED <<queue, sent, fate, told, granted>>,
         TypeOK', AllOrNothing', pos' \in Nat \ {0},
         DOMAIN iface \subseteq DOMAIN iface', \A n \in DOMAIN iface : iface'[n] = iface[n]
  PROVE  BusIInv'
<1>1. GrantIsExclusive'
  BY DEF BusIInv, TablesInv, GrantIsExclusive
<1>2. NeverMisrouted'
  BY DEF BusIInv, NeverMisrouted
<1>3. \A n \in Name : queue'[n] \in Seq(Due(n)')
  <2> SUFFICES ASSUME NEW n \in Name PROVE queue[n] \in Seq(Due(n)')
    OBVIOUS
  <2>1. queue[n] \in Seq(Due(n))
    BY DEF BusIInv
  <2> QED BY <2>1, DueGrows
<1> QED BY <1>1, <1>2, <1>3 DEF BusIInv, TablesInv

LEMMA AppendKeeps ==
  ASSUME BusIInv, NEW loads \in BOOLEAN, AppendModule(loads)
  PROVE  BusIInv'
<1> USE ModuleBusAssumption
<1> DEFINE lib == Config[pos]
           n == NameOf[lib]
<1>1. CASE loads /\ (\A i \in 1..(pos - 1) : Config[i] # lib) /\ Accepted(lib)
  <2>1. /\ lib \in Lib /\ n \in Name /\ n \notin DOMAIN iface
        /\ Handles[lib] \subseteq Type /\ Handles[lib] \cap DOMAIN owner = {}
    BY <1>1 DEF AppendModule, BusIInv, Accepted
  <2>2. /\ names' = Append(names, n)
        /\ iface' = [x \in DOMAIN iface \cup {n} |-> IF x = n THEN lib ELSE iface[x]]
        /\ owner' = [t \in DOMAIN owner \cup Handles[lib] |->
                       IF t \in Handles[lib] THEN n ELSE owner[t]]
        /\ pos' = pos + 1
        /\ UNCHANGED <<phase, inited, thread, loop, running, queue, granted, watch, sent, fate,
                       told, copies>>
    BY <1>1 DEF AppendModule, With, Claimed, others
  <2>3. TypeOK'
    <3>1. names' \in Seq(Name)
      BY <2>1, <2>2 DEF BusIInv, TablesInv, TypeOK
    <3>2. /\ \A x \in DOMAIN iface' : x \in Name /\ iface'[x] \in Lib
          /\ \A t \in DOMAIN owner' : t \in Type /\ owner'[t] \in Name
      BY <2>1, <2>2, SMTT(30) DEF BusIInv, TablesInv, TypeOK
    <3> QED BY <2>2, <3>1, <3>2 DEF BusIInv, TablesInv, TypeOK
  <2>4. AllOrNothing'
    BY <2>1, <2>2 DEF BusIInv, TablesInv, TypeOK, AllOrNothing
  <2>5. pos' \in Nat \ {0}
    BY <2>2 DEF BusIInv
  <2>6. DOMAIN iface \subseteq DOMAIN iface' /\ \A x \in DOMAIN iface : iface'[x] = iface[x]
    BY <2>1, <2>2
  <2> QED BY <2>2, <2>3, <2>4, <2>5, <2>6, BootKeeps
<1>2. CASE ~(loads /\ (\A i \in 1..(pos - 1) : Config[i] # lib) /\ Accepted(lib))
  <2>1. /\ pos' = pos + 1
        /\ UNCHANGED <<names, iface, owner, phase, inited, thread, loop, running, queue,
                       granted, watch, sent, fate, told, copies>>
    BY <1>2 DEF AppendModule, others
  <2>2. TypeOK' /\ AllOrNothing' /\ pos' \in Nat \ {0}
    BY <2>1 DEF BusIInv, TablesInv, TypeOK, AllOrNothing
  <2> QED BY <2>1, <2>2, BootKeeps
<1> QED BY <1>1, <1>2

\* The rest of loading and starting.
LEMMA MainKeeps ==
  ASSUME BusIInv, main
  PROVE  BusIInv'
<1>1. CASE \E loads \in BOOLEAN : AppendModule(loads)
  BY <1>1, AppendKeeps
<1>2. CASE config_end
  <2>1. TypeOK' /\ AllOrNothing' /\ pos' \in Nat \ {0}
    BY <1>2 DEF config_end, others, BusIInv, TablesInv, TypeOK, AllOrNothing
  <2> QED BY <1>2, <2>1, BootKeeps DEF config_end, others
<1>3. CASE Init_call
  <2>1. names[pos] \in Name
    BY <1>3 DEF Init_call, BusIInv, TablesInv, TypeOK
  <2>2. TypeOK'
    BY <1>3, <2>1 DEF Init_call, others, BusIInv, TablesInv, TypeOK
  <2>3. AllOrNothing' /\ pos' \in Nat \ {0}
    BY <1>3 DEF Init_call, others, BusIInv, TablesInv, AllOrNothing
  <2> QED BY <1>3, <2>2, <2>3, BootKeeps DEF Init_call, others
<1>4. CASE \E ok \in BOOLEAN : Init_return(ok)
  <2> PICK ok \in BOOLEAN : Init_return(ok)
    BY <1>4
  <2>1. TypeOK'
    <3>1. thread \subseteq thread' /\ thread' \subseteq inited
      BY DEF Init_return, BusIInv, TablesInv, TypeOK
    <3> QED BY <3>1 DEF Init_return, others, BusIInv, TablesInv, TypeOK
  <2>2. AllOrNothing' /\ pos' \in Nat \ {0}
    BY DEF Init_return, others, BusIInv, TablesInv, AllOrNothing
  <2> QED BY <2>1, <2>2, BootKeeps DEF Init_return, others
<1>5. CASE Init_end
  <2>1. TypeOK' /\ AllOrNothing' /\ pos' \in Nat \ {0}
    BY <1>5 DEF Init_end, others, BusIInv, TablesInv, TypeOK, AllOrNothing
  <2> QED BY <1>5, <2>1, BootKeeps DEF Init_end, others
<1>6. CASE Start
  <2>1. loop' \in [Name -> {"none", "created", "looping"}]
        /\ \A n \in Name : loop'[n] # "none" => n \in thread
    BY <1>6 DEF Start, BusIInv, TablesInv, TypeOK
  <2>2. phase' \in {"load", "init", "start", "serve"} /\ pos' \in Nat \ {0}
    BY <1>6 DEF Start, BusIInv, TablesInv, TypeOK
  <2>3. UNCHANGED <<names, iface, owner, inited, thread, running, queue, granted, watch, sent,
                    fate, told, copies>>
    BY <1>6 DEF Start
  <2>4. TypeOK' /\ AllOrNothing'
    BY <2>1, <2>2, <2>3 DEF BusIInv, TablesInv, TypeOK, AllOrNothing
  <2> QED BY <2>2, <2>3, <2>4, BootKeeps
<1> QED BY <1>1, <1>2, <1>3, <1>4, <1>5, <1>6 DEF main

\* Steps of clients and modules leave what was loaded alone.  What is left to show of each:
\* the queues, the fates, the copies and the grants.
LEMMA PassingKeeps ==
  ASSUME BusIInv, UNCHANGED boot,
         loop' \in [Name -> {"none", "created", "looping"}],
         \A n \in Name : loop'[n] # "none" => n \in thread,
         running' \in [Name -> BOOLEAN],
         queue' = [n \in Name |-> queue'[n]],
         \A n \in Name : queue'[n] \in Seq(Due(n)'),
         \A b \in DOMAIN granted' : b \in Bin /\ granted'[b] \in thread,
         watch' \subseteq thread \X Type,
         fate' \in [Msg -> Fate], sent' = {m \in Msg : fate'[m] # "unsent"},
         told' \subseteq Name \X Bin \X {0, 1},
         copies' \in [Msg -> [Name -> Nat]],
         NeverMisrouted', GrantIsExclusive',
         \A r \in told' : r[3] = 0 => r[2] \in DOMAIN granted'
  PROVE  BusIInv'
<1>1. queue' \in [Name -> Seq(Item)]
  <2>1. \A n \in Name : queue'[n] \in Seq(Item)
    <3> SUFFICES ASSUME NEW n \in Name PROVE queue'[n] \in Seq(Item)
      OBVIOUS
    <3>1. Due(n)' \subseteq Item /\ queue'[n] \in Seq(Due(n)')
      BY DEF Due
    <3> QED BY <3>1, SeqMonotonic
  <2> QED BY <2>1
<1>2. TypeOK'
  BY <1>1 DEF BusIInv, TablesInv, TypeOK, boot
<1>3. AllOrNothing' /\ pos' \in Nat \ {0}
  BY DEF BusIInv, TablesInv, AllOrNothing, boot
<1> QED BY <1>2, <1>3 DEF BusIInv, TablesInv

\* A copy may wait anywhere, and is counted where it does.
LEMMA Copied ==
  ASSUME BusIInv, NEW it \in Item, it.id \in sent',
         NEW q \in [Name -> Seq(Item)], \A n \in Name : q[n] \in Seq(Due(n)')
  PROVE  /\ PushCopies(q, it) = [n \in Name |-> PushCopies(q, it)[n]]
         /\ \A n \in Name : PushCopies(q, it)[n] \in Seq(Due(n)')
         /\ CountCopies(it) \in [Msg -> [Name -> Nat]]
<1> DEFINE c == [it EXCEPT !.kind = "copy"]
<1>1. \A n \in Name : c \in Due(n)'
  BY DEF Due, Item
<1>2. \A n \in Name : PushCopies(q, it)[n] \in Seq(Due(n)')
  <2> SUFFICES ASSUME NEW n \in Name PROVE PushCopies(q, it)[n] \in Seq(Due(n)')
    OBVIOUS
  <2>1. q[n] \in Seq(Due(n)') /\ c \in Due(n)'
    BY <1>1
  <2>2. Append(q[n], c) \in Seq(Due(n)')
    BY <2>1
  <2>3. PushCopies(q, it)[n] = Append(q[n], c) \/ PushCopies(q, it)[n] = q[n]
    BY DEF PushCopies
  <2> QED BY <2>1, <2>2, <2>3
<1>3. CountCopies(it) \in [Msg -> [Name -> Nat]]
  BY DEF CountCopies, BusIInv, TablesInv, TypeOK, Item
<1> QED BY <1>2, <1>3 DEF PushCopies

\* The queues that nothing was pushed to.
LEMMA StillDue ==
  ASSUME BusIInv, UNCHANGED iface, sent \subseteq sent'
  PROVE  /\ queue \in [Name -> Seq(Item)]
         /\ queue = [n \in Name |-> queue[n]]
         /\ \A n \in Name : queue[n] \in Seq(Due(n)')
<1>1. \A n \in Name : queue[n] \in Seq(Due(n)')
  <2> SUFFICES ASSUME NEW n \in Name PROVE queue[n] \in Seq(Due(n)')
    OBVIOUS
  <2>1. queue[n] \in Seq(Due(n))
    BY DEF BusIInv
  <2> QED BY <2>1, DueGrows
<1> QED BY <1>1 DEF BusIInv, TablesInv, TypeOK

\* A message sent to one queue.
LEMMA Pushed ==
  ASSUME BusIInv, UNCHANGED iface, sent \subseteq sent',
         NEW d \in Name, NEW it \in Due(d)'
  PROVE  /\ Push(queue, d, it) \in [Name -> Seq(Item)]
         /\ Push(queue, d, it) = [n \in Name |-> Push(queue, d, it)[n]]
         /\ \A n \in Name : Push(queue, d, it)[n] \in Seq(Due(n)')
<1>1. \A n \in Name : queue[n] \in Seq(Due(n)')
  BY StillDue
<1>2. queue \in [Name -> Seq(Item)] /\ it \in Item
  BY DEF BusIInv, TablesInv, TypeOK, Due
<1>3. Append(queue[d], it) \in Seq(Due(d)') /\ Append(queue[d], it) \in Seq(Item)
  BY <1>1, <1>2
<1> QED BY <1>1, <1>2, <1>3 DEF Push

\* The new message m has its fate.
LEMMA Sent ==
  ASSUME BusIInv, NEW m \in Msg, NEW f \in Fate \ {"unsent", "misrouted"},
         sent' = sent \cup {m}, fate' = [fate EXCEPT ![m] = f]
  PROVE  /\ fate' \in [Msg -> Fate] /\ sent' = {x \in Msg : fate'[x] # "unsent"}
         /\ NeverMisrouted'
<1>1. fate' \in [Msg -> Fate]
  BY DEF BusIInv, TablesInv, TypeOK
<1>2. sent' = {x \in Msg : fate'[x] # "unsent"}
  BY DEF BusIInv, TablesInv, TypeOK
<1>3. NeverMisrouted'
  BY DEF BusIInv, TablesInv, TypeOK, NeverMisrouted
<1> QED BY <1>1, <1>2, <1>3

\* What the other steps of passing leave alone.
LEMMA Alone ==
  ASSUME BusIInv, UNCHANGED <<granted, told>>
  PROVE  /\ \A b \in DOMAIN granted' : b \in Bin /\ granted'[b] \in thread
         /\ told' \subseteq Name \X Bin \X {0, 1}
         /\ GrantIsExclusive'
         /\ \A r \in told' : r[3] = 0 => r[2] \in DOMAIN granted'
BY DEF BusIInv, TablesInv, TypeOK, GrantIsExclusive

LEMMA ClientKeeps ==
  ASSUME BusIInv, NEW m \in Msg, NEW t \in Type, CallModuleProcess(m, t)
  PROVE  BusIInv'
<1>1. /\ UNCHANGED boot /\ UNCHANGED <<loop, running, granted, watch, told, copies>>
      /\ sent' = sent \cup {m}
  BY DEF CallModuleProcess
<1>2. /\ loop' \in [Name -> {"none", "created", "looping"}]
      /\ \A n \in Name : loop'[n] # "none" => n \in thread
      /\ running' \in [Name -> BOOLEAN]
      /\ watch' \subseteq thread \X Type
      /\ copies' \in [Msg -> [Name -> Nat]]
  BY <1>1 DEF BusIInv, TablesInv, TypeOK
<1>3. CASE Routes(t)
  <2> DEFINE it == [id |-> m, kind |-> "in", type |-> t, routed |-> TRUE]
  <2> PICK d \in Name : d = owner[t]
    BY <1>3 DEF Routes, BusIInv, TablesInv, TypeOK
  <2>1. d \in DOMAIN iface /\ t \in Handles[iface[d]] /\ iface' = iface
    BY <1>1, <1>3 DEF Routes, BusIInv, TablesInv, TypeOK, AllOrNothing, boot
  <2>2. it \in Item /\ it \in Due(d)'
    BY <1>1, <2>1 DEF Due, Item
  <2>3. queue' = Push(queue, d, it) /\ fate' = [fate EXCEPT ![m] = "queued"]
    BY <1>3 DEF CallModuleProcess
  <2>4. /\ queue' = [n \in Name |-> queue'[n]]
        /\ \A n \in Name : queue'[n] \in Seq(Due(n)')
    BY <1>1, <2>1, <2>2, <2>3, Pushed
  <2>5. /\ fate' \in [Msg -> Fate] /\ sent' = {x \in Msg : fate'[x] # "unsent"}
        /\ NeverMisrouted'
    BY <1>1, <2>3, Sent DEF Fate
  <2> QED BY <1>1, <1>2, <2>4, <2>5, Alone, PassingKeeps
<1>4. CASE ~Routes(t)
  <2>1. fate' = [fate EXCEPT ![m] = "refused"] /\ queue' = queue
    BY <1>4 DEF CallModuleProcess
  <2>2. /\ fate' \in [Msg -> Fate] /\ sent' = {x \in Msg : fate'[x] # "unsent"}
        /\ NeverMisrouted'
    BY <1>1, <2>1, Sent DEF Fate
  <2>3. /\ queue' = [n \in Name |-> queue'[n]]
        /\ \A n \in Name : queue'[n] \in Seq(Due(n)')
    BY <1>1, <2>1, StillDue DEF boot
  <2> QED BY <1>1, <1>2, <2>2, <2>3, Alone, PassingKeeps
<1> QED BY <1>3, <1>4

LEMMA ClientBinaryKeeps ==
  ASSUME BusIInv, NEW m \in Msg, NEW b \in Bin, CallModuleProcess_binary(m, b)
  PROVE  BusIInv'
<1>1. /\ UNCHANGED boot /\ UNCHANGED <<loop, running, granted, watch, told, copies>>
      /\ sent' = sent \cup {m}
  BY DEF CallModuleProcess_binary
<1>2. /\ loop' \in [Name -> {"none", "created", "looping"}]
      /\ \A n \in Name : loop'[n] # "none" => n \in thread
      /\ running' \in [Name -> BOOLEAN]
      /\ watch' \subseteq thread \X Type
      /\ copies' \in [Msg -> [Name -> Nat]]
  BY <1>1 DEF BusIInv, TablesInv, TypeOK
<1>3. CASE b \in DOMAIN granted /\ granted[b] \in thread
  <2> DEFINE it == [id |-> m, kind |-> "binary", type |-> b, routed |-> TRUE]
  <2> PICK d \in Name : d = granted[b]
    BY <1>3 DEF BusIInv, TablesInv, TypeOK
  <2>1. it \in Due(d)'
    BY <1>1 DEF Due, Item
  <2>2. queue' = Push(queue, d, it) /\ fate' = [fate EXCEPT ![m] = "queued"]
    BY <1>3 DEF CallModuleProcess_binary
  <2>3. /\ queue' = [n \in Name |-> queue'[n]]
        /\ \A n \in Name : queue'[n] \in Seq(Due(n)')
    BY <1>1, <2>1, <2>2, Pushed DEF boot
  <2>4. /\ fate' \in [Msg -> Fate] /\ sent' = {x \in Msg : fate'[x] # "unsent"}
        /\ NeverMisrouted'
    BY <1>1, <2>2, Sent DEF Fate
  <2> QED BY <1>1, <1>2, <2>3, <2>4, Alone, PassingKeeps
<1>4. CASE ~(b \in DOMAIN granted /\ granted[b] \in thread)
  <2>1. fate' = [fate EXCEPT ![m] = "lost"] /\ queue' = queue
    BY <1>4 DEF CallModuleProcess_binary
  <2>2. /\ fate' \in [Msg -> Fate] /\ sent' = {x \in Msg : fate'[x] # "unsent"}
        /\ NeverMisrouted'
    BY <1>1, <2>1, Sent DEF Fate
  <2>3. /\ queue' = [n \in Name |-> queue'[n]]
        /\ \A n \in Name : queue'[n] \in Seq(Due(n)')
    BY <1>1, <2>1, StillDue DEF boot
  <2> QED BY <1>1, <1>2, <2>2, <2>3, Alone, PassingKeeps
<1> QED BY <1>3, <1>4

LEMMA PostKeeps ==
  ASSUME BusIInv, NEW n \in Name, NEW m \in Msg, NEW t \in Type, NEW to \in Name \cup {NoName},
         ModulePostMessage(n, m, t, to)
  PROVE  BusIInv'
<1> DEFINE byType == to = NoName
           dest == IF byType THEN (IF Routes(t) THEN {owner[t]} ELSE {}) ELSE {to} \cap thread
           it == [id |-> m, kind |-> "in", type |-> t, routed |-> byType]
<1>1. /\ UNCHANGED boot /\ UNCHANGED <<loop, running, granted, watch, told>>
      /\ sent' = sent \cup {m}
  BY DEF ModulePostMessage
<1>2. /\ loop' \in [Name -> {"none", "created", "looping"}]
      /\ \A x \in Name : loop'[x] # "none" => x \in thread
      /\ running' \in [Name -> BOOLEAN]
      /\ watch' \subseteq thread \X Type
  BY <1>1 DEF BusIInv, TablesInv, TypeOK
<1>3. it \in Item /\ it.id \in sent'
  BY <1>1 DEF Item
<1>4. \E q \in [Name -> Seq(Item)] :
        /\ \A x \in Name : q[x] \in Seq(Due(x)')
        /\ queue' = PushCopies(q, it) /\ copies' = CountCopies(it)
  <2>1. CASE dest = {}
    <3>1. queue' = PushCopies(queue, it) /\ copies' = CountCopies(it)
      BY <2>1 DEF ModulePostMessage
    <3> QED BY <1>1, <3>1, StillDue DEF boot
  <2>2. CASE dest # {}
    <3> PICK d \in Name : dest = {d} /\ (byType => Routes(t) /\ d = owner[t])
      <4>1. CASE byType
        <5>1. Routes(t) /\ dest = {owner[t]}
          BY <2>2, <4>1
        <5>2. owner[t] \in Name
          BY <5>1 DEF Routes, BusIInv, TablesInv, TypeOK
        <5> QED BY <5>1, <5>2
      <4>2. CASE ~byType
        <5>1. to \in thread /\ dest = {to}
          BY <2>2, <4>2
        <5>2. to \in Name
          BY <4>2
        <5> QED BY <4>2, <5>1, <5>2
      <4> QED BY <4>1, <4>2
    <3>1. queue' = PushCopies(Push(queue, d, it), it) /\ copies' = CountCopies(it)
      BY DEF ModulePostMessage
    <3>2. byType => d \in DOMAIN iface /\ t \in Handles[iface[d]]
      BY DEF Routes, BusIInv, TablesInv, AllOrNothing
    <3>3. it \in Due(d)'
      BY <1>1, <1>3, <3>2 DEF Due, boot
    <3> QED BY <1>1, <3>1, <3>3, Pushed DEF boot
  <2> QED BY <2>1, <2>2
<1>5. /\ queue' = [x \in Name |-> queue'[x]]
      /\ \A x \in Name : queue'[x] \in Seq(Due(x)')
      /\ copies' \in [Msg -> [Name -> Nat]]
  BY <1>3, <1>4, Copied
<1>6. /\ fate' \in [Msg -> Fate] /\ sent' = {x \in Msg : fate'[x] # "unsent"}
      /\ NeverMisrouted'
  <2>1. fate' = [fate EXCEPT ![m] = "lost"] \/ fate' = [fate EXCEPT ![m] = "queued"]
    BY DEF ModulePostMessage
  <2> QED BY <1>1, <2>1, Sent DEF Fate
<1> QED BY <1>1, <1>2, <1>5, <1>6, Alone, PassingKeeps

LEMMA PostClientKeeps ==
  ASSUME BusIInv, NEW n \in Name, NEW m \in Msg, NEW t \in Type,
         ModulePostMessage_client(n, m, t)
  PROVE  BusIInv'
<1> DEFINE it == [id |-> m, kind |-> "in", type |-> t, routed |-> FALSE]
<1>1. /\ UNCHANGED boot /\ UNCHANGED <<loop, running, granted, watch, told>>
      /\ sent' = sent \cup {m} /\ fate' = [fate EXCEPT ![m] = "passed"]
      /\ queue' = PushCopies(queue, it) /\ copies' = CountCopies(it)
  BY DEF ModulePostMessage_client
<1>2. /\ loop' \in [Name -> {"none", "created", "looping"}]
      /\ \A x \in Name : loop'[x] # "none" => x \in thread
      /\ running' \in [Name -> BOOLEAN]
      /\ watch' \subseteq thread \X Type
  BY <1>1 DEF BusIInv, TablesInv, TypeOK
<1>3. it \in Item /\ it.id \in sent'
  BY <1>1 DEF Item
<1>4. \E q \in [Name -> Seq(Item)] :
        /\ \A x \in Name : q[x] \in Seq(Due(x)')
        /\ queue' = PushCopies(q, it) /\ copies' = CountCopies(it)
  BY <1>1, StillDue DEF boot
<1>5. /\ queue' = [x \in Name |-> queue'[x]]
      /\ \A x \in Name : queue'[x] \in Seq(Due(x)')
      /\ copies' \in [Msg -> [Name -> Nat]]
  BY <1>3, <1>4, Copied
<1>6. /\ fate' \in [Msg -> Fate] /\ sent' = {x \in Msg : fate'[x] # "unsent"}
      /\ NeverMisrouted'
  BY <1>1, Sent DEF Fate
<1> QED BY <1>1, <1>2, <1>5, <1>6, Alone, PassingKeeps

LEMMA PostSelfKeeps ==
  ASSUME BusIInv, NEW n \in Name, NEW m \in Msg, NEW x \in Type \cup Bin,
         ModulePostMessage_self(n, m, x)
  PROVE  BusIInv'
<1>1. /\ UNCHANGED boot /\ UNCHANGED <<loop, running, granted, watch, told, copies>>
      /\ sent' = sent \cup {m}
  BY DEF ModulePostMessage_self
<1>2. /\ loop' \in [Name -> {"none", "created", "looping"}]
      /\ \A k \in Name : loop'[k] # "none" => k \in thread
      /\ running' \in [Name -> BOOLEAN]
      /\ watch' \subseteq thread \X Type
      /\ copies' \in [Msg -> [Name -> Nat]]
  BY <1>1 DEF BusIInv, TablesInv, TypeOK
<1>3. CASE n \in thread
  <2> DEFINE it == [id |-> m, kind |-> "self", type |-> x, routed |-> FALSE]
  <2>1. it \in Due(n)'
    BY <1>1 DEF Due, Item
  <2>2. queue' = Push(queue, n, it) /\ fate' = [fate EXCEPT ![m] = "queued"]
    BY <1>3 DEF ModulePostMessage_self
  <2>3. /\ queue' = [k \in Name |-> queue'[k]]
        /\ \A k \in Name : queue'[k] \in Seq(Due(k)')
    BY <1>1, <2>1, <2>2, Pushed DEF boot
  <2>4. /\ fate' \in [Msg -> Fate] /\ sent' = {k \in Msg : fate'[k] # "unsent"}
        /\ NeverMisrouted'
    BY <1>1, <2>2, Sent DEF Fate
  <2> QED BY <1>1, <1>2, <2>3, <2>4, Alone, PassingKeeps
<1>4. CASE n \notin thread
  <2>1. fate' = [fate EXCEPT ![m] = "lost"] /\ queue' = queue
    BY <1>4 DEF ModulePostMessage_self
  <2>2. /\ fate' \in [Msg -> Fate] /\ sent' = {k \in Msg : fate'[k] # "unsent"}
        /\ NeverMisrouted'
    BY <1>1, <2>1, Sent DEF Fate
  <2>3. /\ queue' = [k \in Name |-> queue'[k]]
        /\ \A k \in Name : queue'[k] \in Seq(Due(k)')
    BY <1>1, <2>1, StillDue DEF boot
  <2> QED BY <1>1, <1>2, <2>2, <2>3, Alone, PassingKeeps
<1> QED BY <1>3, <1>4

\* The thread calls Start.
LEMMA StartCallKeeps ==
  ASSUME BusIInv, NEW n \in Name, NEW ok \in BOOLEAN, Start_call(n, ok)
  PROVE  BusIInv'
<1>1. /\ UNCHANGED boot /\ UNCHANGED <<queue, granted, watch, sent, fate, told, copies>>
      /\ loop[n] = "created"
      /\ loop' = [loop EXCEPT ![n] = "looping"] /\ running' = [running EXCEPT ![n] = ok]
  BY DEF Start_call
<1>2. /\ loop' \in [Name -> {"none", "created", "looping"}]
      /\ \A k \in Name : loop'[k] # "none" => k \in thread
      /\ running' \in [Name -> BOOLEAN]
      /\ watch' \subseteq thread \X Type
      /\ copies' \in [Msg -> [Name -> Nat]]
      /\ fate' \in [Msg -> Fate] /\ sent' = {m \in Msg : fate'[m] # "unsent"}
      /\ NeverMisrouted'
  BY <1>1 DEF BusIInv, TablesInv, TypeOK, NeverMisrouted
<1>3. /\ queue' = [k \in Name |-> queue'[k]]
      /\ \A k \in Name : queue'[k] \in Seq(Due(k)')
  BY <1>1, StillDue DEF boot
<1> QED BY <1>1, <1>2, <1>3, Alone, PassingKeeps

\* The first message of a queue is due there, and so is the rest.
LEMMA Taken ==
  ASSUME BusIInv, UNCHANGED <<iface, sent>>, NEW n \in Name, queue[n] # <<>>
  PROVE  /\ Head(queue[n]) \in Due(n) /\ Head(queue[n]) \in Item
         /\ Head(queue[n]).id \in sent /\ sent \subseteq Msg
         /\ [queue EXCEPT ![n] = Tail(@)] \in [Name -> Seq(Item)]
         /\ \A k \in Name : [queue EXCEPT ![n] = Tail(@)][k] \in Seq(Due(k)')
<1>1. queue[n] \in Seq(Due(n))
  BY DEF BusIInv
<1>2. Head(queue[n]) \in Due(n)
  BY <1>1
<1>3. queue \in [Name -> Seq(Item)] /\ sent \subseteq Msg
  BY DEF BusIInv, TablesInv, TypeOK
<1>4. Tail(queue[n]) \in Seq(Item)
  BY <1>3
<1>5. \A k \in Name : queue[k] \in Seq(Due(k)')
  BY StillDue
<1>6. Tail(queue[n]) \in Seq(Due(n)')
  BY <1>5
<1> QED BY <1>2, <1>3, <1>4, <1>5, <1>6 DEF Due

\* A module that runs is never asked to handle a type that it did not list.
LEMMA ProcessedWell ==
  ASSUME BusIInv, NEW n \in Name, NEW it \in Due(n)
  PROVE  Processed(n, it) \in Fate \ {"unsent", "misrouted"}
BY DEF Processed, Due, Fate

LEMMA TakeInKeeps ==
  ASSUME BusIInv, NEW n \in Name, take_in(n)
  PROVE  BusIInv'
<1> DEFINE it == Head(queue[n])
           rest == [queue EXCEPT ![n] = Tail(@)]
<1>1. /\ UNCHANGED boot /\ UNCHANGED <<loop, running, granted, watch, sent, told>>
      /\ UNCHANGED <<iface, sent>> /\ queue[n] # <<>>
      /\ fate' = [fate EXCEPT ![it.id] = Processed(n, it)]
      /\ queue' = PushCopies(rest, it) /\ copies' = CountCopies(it)
  BY DEF take_in, boot
<1>2. /\ loop' \in [Name -> {"none", "created", "looping"}]
      /\ \A k \in Name : loop'[k] # "none" => k \in thread
      /\ running' \in [Name -> BOOLEAN]
      /\ watch' \subseteq thread \X Type
  BY <1>1 DEF BusIInv, TablesInv, TypeOK
<1>3. /\ it \in Due(n) /\ it \in Item /\ it.id \in sent /\ it.id \in Msg
      /\ rest \in [Name -> Seq(Item)]
      /\ \A k \in Name : rest[k] \in Seq(Due(k)')
  BY <1>1, Taken
<1>4. \E i \in Item, q \in [Name -> Seq(Item)] :
        /\ i.id \in sent' /\ \A k \in Name : q[k] \in Seq(Due(k)')
        /\ queue' = PushCopies(q, i) /\ copies' = CountCopies(i)
  BY <1>1, <1>3
<1>5. /\ queue' = [k \in Name |-> queue'[k]]
      /\ \A k \in Name : queue'[k] \in Seq(Due(k)')
      /\ copies' \in [Msg -> [Name -> Nat]]
  BY <1>4, Copied
<1>6. /\ fate' \in [Msg -> Fate] /\ sent' = {k \in Msg : fate'[k] # "unsent"}
      /\ NeverMisrouted'
  <2> PICK m \in Msg, f \in Fate \ {"unsent", "misrouted"} :
        m = it.id /\ f = Processed(n, it)
    BY <1>3, ProcessedWell
  <2>1. sent' = sent \cup {m} /\ fate' = [fate EXCEPT ![m] = f]
    BY <1>1, <1>3
  <2> QED BY <2>1, Sent
<1> QED BY <1>1, <1>2, <1>5, <1>6, Alone, PassingKeeps

LEMMA TakeCopyKeeps ==
  ASSUME BusIInv, NEW n \in Name, take_copy(n)
  PROVE  BusIInv'
<1>1. /\ UNCHANGED boot
      /\ UNCHANGED <<loop, running, granted, watch, sent, fate, told, copies>>
      /\ UNCHANGED <<iface, sent>> /\ queue[n] # <<>>
      /\ queue' = [queue EXCEPT ![n] = Tail(@)]
  BY DEF take_copy, boot
<1>2. /\ loop' \in [Name -> {"none", "created", "looping"}]
      /\ \A k \in Name : loop'[k] # "none" => k \in thread
      /\ running' \in [Name -> BOOLEAN]
      /\ watch' \subseteq thread \X Type
      /\ copies' \in [Msg -> [Name -> Nat]]
      /\ fate' \in [Msg -> Fate] /\ sent' = {m \in Msg : fate'[m] # "unsent"}
      /\ NeverMisrouted'
  BY <1>1 DEF BusIInv, TablesInv, TypeOK, NeverMisrouted
<1>3. /\ queue' = [k \in Name |-> queue'[k]]
      /\ \A k \in Name : queue'[k] \in Seq(Due(k)')
  BY <1>1, Taken
<1> QED BY <1>1, <1>2, <1>3, Alone, PassingKeeps

LEMMA TakeBinaryKeeps ==
  ASSUME BusIInv, NEW n \in Name, take_binary(n)
  PROVE  BusIInv'
<1>1. /\ UNCHANGED boot /\ UNCHANGED <<loop, running, granted, watch, sent, told, copies>>
      /\ UNCHANGED <<iface, sent>> /\ queue[n] # <<>>
      /\ fate' = [fate EXCEPT ![Head(queue[n]).id] = Processed(n, Head(queue[n]))]
      /\ queue' = [queue EXCEPT ![n] = Tail(@)]
  BY DEF take_binary, boot
<1>2. /\ loop' \in [Name -> {"none", "created", "looping"}]
      /\ \A k \in Name : loop'[k] # "none" => k \in thread
      /\ running' \in [Name -> BOOLEAN]
      /\ watch' \subseteq thread \X Type
      /\ copies' \in [Msg -> [Name -> Nat]]
  BY <1>1 DEF BusIInv, TablesInv, TypeOK
<1>3. /\ queue' = [k \in Name |-> queue'[k]]
      /\ \A k \in Name : queue'[k] \in Seq(Due(k)')
  BY <1>1, Taken
<1>4. /\ fate' \in [Msg -> Fate] /\ sent' = {k \in Msg : fate'[k] # "unsent"}
      /\ NeverMisrouted'
  <2> PICK m \in Msg, f \in Fate \ {"unsent", "misrouted"} :
        m = Head(queue[n]).id /\ f = Processed(n, Head(queue[n]))
    BY <1>1, Taken, ProcessedWell
  <2>1. sent' = sent \cup {m} /\ fate' = [fate EXCEPT ![m] = f]
    BY <1>1, Taken
  <2> QED BY <2>1, Sent
<1> QED BY <1>1, <1>2, <1>3, <1>4, Alone, PassingKeeps

\* Registering a binary type: the table keeps what it has, and only the first is told.
LEMMA GrantKeeps ==
  ASSUME BusIInv, NEW n \in thread, NEW b \in Bin, AppendMessageTypeModule(n, b),
         \/ UNCHANGED told
         \/ told' = told \cup {<<n, b, IF b \in DOMAIN granted THEN 1 ELSE 0>>}
  PROVE  /\ \A x \in DOMAIN granted' : x \in Bin /\ granted'[x] \in thread
         /\ told' \subseteq Name \X Bin \X {0, 1}
         /\ GrantIsExclusive'
         /\ \A r \in told' : r[3] = 0 => r[2] \in DOMAIN granted'
<1>1. \A x \in DOMAIN granted : x \in Bin /\ granted[x] \in thread
  BY DEF BusIInv, TablesInv, TypeOK
<1>2. /\ \A x \in DOMAIN granted' : x \in Bin /\ granted'[x] \in thread
      /\ \A x \in DOMAIN granted : x \in DOMAIN granted' /\ granted'[x] = granted[x]
      /\ b \in DOMAIN granted' /\ (b \notin DOMAIN granted => granted'[b] = n)
  BY <1>1 DEF AppendMessageTypeModule, With
<1>3. told' \subseteq Name \X Bin \X {0, 1}
  BY DEF BusIInv, TablesInv, TypeOK
<1>4. \A r \in told : r[3] = 0 => r[2] \in DOMAIN granted /\ granted[r[2]] = r[1]
  BY DEF BusIInv, TablesInv, GrantIsExclusive
<1>5. \A r \in told' : r[3] = 0 => r[2] \in DOMAIN granted' /\ granted'[r[2]] = r[1]
  <2> SUFFICES ASSUME NEW r \in told', r[3] = 0
               PROVE  r[2] \in DOMAIN granted' /\ granted'[r[2]] = r[1]
    OBVIOUS
  <2>1. CASE r \in told
    BY <1>2, <1>4, <2>1
  <2>2. CASE r = <<n, b, IF b \in DOMAIN granted THEN 1 ELSE 0>>
    BY <1>2, <2>2
  <2> QED BY <2>1, <2>2
<1> QED BY <1>2, <1>3, <1>5 DEF GrantIsExclusive

LEMMA TakeSelfKeeps ==
  ASSUME BusIInv, NEW n \in Name, take_self(n)
  PROVE  BusIInv'
<1> DEFINE x == Head(queue[n]).type
<1>1. /\ UNCHANGED boot /\ UNCHANGED <<loop, running, sent, copies>>
      /\ UNCHANGED <<iface, sent>> /\ queue[n] # <<>> /\ loop[n] = "looping"
      /\ fate' = [fate EXCEPT ![Head(queue[n]).id] = "handled"]
      /\ queue' = [queue EXCEPT ![n] = Tail(@)]
  BY DEF take_self, boot
<1>2. n \in thread /\ x \in Type \cup Bin
  BY <1>1, Taken DEF BusIInv, TablesInv, TypeOK, Item
<1>3. /\ loop' \in [Name -> {"none", "created", "looping"}]
      /\ \A k \in Name : loop'[k] # "none" => k \in thread
      /\ running' \in [Name -> BOOLEAN]
      /\ copies' \in [Msg -> [Name -> Nat]]
  BY <1>1 DEF BusIInv, TablesInv, TypeOK
<1>4. /\ queue' = [k \in Name |-> queue'[k]]
      /\ \A k \in Name : queue'[k] \in Seq(Due(k)')
  BY <1>1, Taken
<1>5. /\ fate' \in [Msg -> Fate] /\ sent' = {k \in Msg : fate'[k] # "unsent"}
      /\ NeverMisrouted'
  <2> PICK m \in Msg : m = Head(queue[n]).id
    BY <1>1, Taken
  <2>1. sent' = sent \cup {m} /\ fate' = [fate EXCEPT ![m] = "handled"]
    BY <1>1, Taken
  <2> QED BY <2>1, Sent DEF Fate
<1>6. watch' \subseteq thread \X Type
  BY <1>2 DEF take_self, BusIInv, TablesInv, TypeOK
<1>7. CASE x \in Type
  <2>1. UNCHANGED <<granted, told>>
    BY <1>7 DEF take_self
  <2> QED BY <1>1, <1>3, <1>4, <1>5, <1>6, <2>1, Alone, PassingKeeps
<1>8. CASE x \notin Type
  <2> PICK b \in Bin : b = x
    BY <1>2, <1>8
  <2>1. /\ AppendMessageTypeModule(n, b)
        /\ \/ UNCHANGED told
           \/ told' = told \cup {<<n, b, IF b \in DOMAIN granted THEN 1 ELSE 0>>}
    BY <1>8 DEF take_self
  <2>2. /\ \A k \in DOMAIN granted' : k \in Bin /\ granted'[k] \in thread
        /\ told' \subseteq Name \X Bin \X {0, 1}
        /\ GrantIsExclusive'
        /\ \A r \in told' : r[3] = 0 => r[2] \in DOMAIN granted'
    BY <1>2, <2>1, GrantKeeps
  <2> QED BY <1>1, <1>3, <1>4, <1>5, <1>6, <2>2, PassingKeeps
<1> QED BY <1>7, <1>8

LEMMA BusInit == Init => BusIInv
<1> SUFFICES ASSUME Init PROVE BusIInv
  OBVIOUS
<1>1. TypeOK
  BY DEF Init, TypeOK, Fate
<1>2. AllOrNothing /\ GrantIsExclusive /\ NeverMisrouted
  BY DEF Init, AllOrNothing, GrantIsExclusive, NeverMisrouted
<1> QED BY <1>1, <1>2 DEF Init, BusIInv, TablesInv

LEMMA BusStep == BusIInv /\ [Next]_vars => BusIInv'
<1> SUFFICES ASSUME BusIInv, [Next]_vars PROVE BusIInv'
  OBVIOUS
<1>1. CASE main
  BY <1>1, MainKeeps
<1>2. ASSUME NEW m \in Msg, NEW t \in Type, CallModuleProcess(m, t) PROVE BusIInv'
  BY <1>2, ClientKeeps
<1>3. ASSUME NEW m \in Msg, NEW b \in Bin, CallModuleProcess_binary(m, b) PROVE BusIInv'
  BY <1>3, ClientBinaryKeeps
<1>4. ASSUME NEW m \in Msg, NEW n \in Name, NEW t \in Type, NEW to \in Name \cup {NoName},
             ModulePostMessage(n, m, t, to)
      PROVE  BusIInv'
  BY <1>4, PostKeeps
<1>5. ASSUME NEW m \in Msg, NEW n \in Name, NEW t \in Type, ModulePostMessage_client(n, m, t)
      PROVE  BusIInv'
  BY <1>5, PostClientKeeps
<1>6. ASSUME NEW m \in Msg, NEW n \in Name, NEW x \in Type \cup Bin,
             ModulePostMessage_self(n, m, x)
      PROVE  BusIInv'
  BY <1>6, PostSelfKeeps
<1>7. ASSUME NEW n \in Name, take(n) PROVE BusIInv'
  BY <1>7, TakeInKeeps, TakeCopyKeeps, TakeBinaryKeeps, TakeSelfKeeps DEF take
<1>8. ASSUME NEW n \in Name, NEW ok \in BOOLEAN, Start_call(n, ok) PROVE BusIInv'
  BY <1>8, StartCallKeeps
<1>9. CASE UNCHANGED vars
  <2>1. /\ UNCHANGED <<queue, sent, fate, told, granted, iface>>
        /\ TypeOK' /\ AllOrNothing' /\ pos' \in Nat \ {0}
    BY <1>9 DEF vars, BusIInv, TablesInv, TypeOK, AllOrNothing
  <2> QED BY <2>1, BootKeeps
<1> QED BY <1>1, <1>2, <1>3, <1>4, <1>5, <1>6, <1>7, <1>8, <1>9 DEF Next

LEMMA BusInductive == Spec => []BusIInv
BY BusInit, BusStep, PTL DEF Spec

\* Whatever libraries are configured and however they fail to load or to start: a
\* library's message types are claimed all or not at all and by one module, and a module
\* told that it owns a binary type owns it from then on (AppendModule, Init,
\* AppendMessageTypeModule).
THEOREM TablesKept == Spec => []TablesInv
<1>1. BusIInv => TablesInv
  BY DEF BusIInv
<1> QED BY <1>1, BusInductive, PTL

\* No module is given a message of a type it did not list, for any interleaving of
\* loading, posting and handling (MessageRoute, CallModuleProcess, ModulePostMessage).
THEOREM NeverMisroutedKept == Spec => []NeverMisrouted
<1>1. BusIInv => NeverMisrouted
  BY DEF BusIInv
<1> QED BY <1>1, BusInductive, PTL

(***************************************************************************)
(* Delivery                                                                *)
(***************************************************************************)

\* Message m itself, and not a copy for a watcher, is at place i of a queue.
At(q, m, i) == i \in DOMAIN q /\ q[i].id = m /\ q[i].kind # "copy"
Rank == Nat \ {0}

\* What is queued is in one place, and in the queue of a thread.
QueuesInv ==
  /\ \A m \in Msg, n \in Name, i \in Rank :
       At(queue[n], m, i) => fate[m] = "queued" /\ n \in thread
  /\ \A m \in Msg, n, k \in Name, i, j \in Rank :
       At(queue[n], m, i) /\ At(queue[k], m, j) => n = k /\ i = j
  /\ \A m \in Msg : fate[m] = "queued" => \E n \in Name, i \in Rank : At(queue[n], m, i)

\* A message is shown where it is posted and where it is taken.
Shown(m) == CASE fate[m] = "unsent" -> 0 [] fate[m] = "queued" -> 1 [] OTHER -> 2
CopiesInv == \A m \in Msg, n \in Name : copies[m][n] <= Shown(m)

DeliveryIInv == BusIInv /\ QueuesInv /\ CopiesInv

LEMMA AccountedFor ==
  ASSUME DeliveryIInv
  PROVE  DeliveryInv
<1>0. TypeOK /\ QueuesInv /\ CopiesInv /\ NeverMisrouted
  BY DEF DeliveryIInv, BusIInv, TablesInv
<1>1. ASSUME NEW m \in Msg
      PROVE  Waiting(m) = {w \in Name \X Rank : At(queue[w[1]], m, w[2])}
  <2>1. ASSUME NEW n \in Name, NEW i \in DOMAIN queue[n] PROVE i \in Rank
    BY <1>0, <2>1 DEF TypeOK, Rank
  <2> QED BY <2>1 DEF Waiting, At
<1>2. ASSUME NEW m \in Msg
      PROVE  /\ Cardinality(Waiting(m)) = (IF fate[m] = "queued" THEN 1 ELSE 0)
             /\ \A w \in Waiting(m) : w[1] \in thread
  <2>1. \A w \in Waiting(m) : w[1] \in thread /\ fate[m] = "queued"
    BY <1>0, <1>1, <1>2 DEF QueuesInv
  <2>2. CASE fate[m] = "queued"
    <3>1. PICK n \in Name, i \in Rank : At(queue[n], m, i)
      BY <1>0, <2>2 DEF QueuesInv
    <3>2. Waiting(m) = {<<n, i>>}
      BY <1>0, <1>1, <1>2, <3>1 DEF QueuesInv
    <3> QED BY <2>1, <2>2, <3>2, FS_Singleton
  <2>3. CASE fate[m] # "queued"
    <3>1. Waiting(m) = {}
      BY <2>1, <2>3
    <3> QED BY <2>1, <2>3, <3>1, FS_EmptySet
  <2> QED BY <2>2, <2>3
<1>3. CopiesBounded
  <2> SUFFICES ASSUME NEW m \in Msg, NEW n \in Name PROVE copies[m][n] <= 2
    BY DEF CopiesBounded
  <2>1. copies[m][n] \in Nat /\ Shown(m) \in {0, 1, 2} /\ copies[m][n] <= Shown(m)
    BY <1>0 DEF TypeOK, Shown, CopiesInv
  <2> QED BY <2>1
<1> QED BY <1>0, <1>2, <1>3 DEF DeliveryInv, EachAccountedFor

\* Steps that neither queue nor take a message.
LEMMA QueuesStay ==
  ASSUME QueuesInv, fate' = fate, thread \subseteq thread',
         \A m \in Msg, n \in Name, i \in Rank : At(queue'[n], m, i) <=> At(queue[n], m, i)
  PROVE  QueuesInv'
  BY DEF QueuesInv, At

\* A message that is not queued.
LEMMA NotQueued ==
  ASSUME TypeOK, QueuesInv, NEW m \in Msg, NEW f, f # "queued", fate[m] # "queued",
         fate' = [fate EXCEPT ![m] = f], thread' = thread,
         \A k \in Msg, n \in Name, i \in Rank : At(queue'[n], k, i) <=> At(queue[n], k, i)
  PROVE  QueuesInv'
<1>1. \A k \in Msg : fate'[k] = IF k = m THEN f ELSE fate[k]
  BY DEF TypeOK
<1>2. \A n \in Name, i \in Rank : ~At(queue[n], m, i)
  BY DEF QueuesInv
<1> QED BY <1>1, <1>2 DEF QueuesInv, At

\* The first of the queue of d is taken.
LEMMA IsTaken ==
  ASSUME TypeOK, QueuesInv, NEW m \in Msg, NEW f, f # "queued", NEW d \in Name,
         At(queue[d], m, 1), fate' = [fate EXCEPT ![m] = f], thread' = thread,
         \A k \in Msg, n \in Name, i \in Rank :
           At(queue'[n], k, i) <=> At(queue[n], k, IF n = d THEN i + 1 ELSE i)
  PROVE  QueuesInv'
<1>1. \A k \in Msg : fate'[k] = IF k = m THEN f ELSE fate[k]
  BY DEF TypeOK
<1>2. \A n \in Name, i \in Rank : At(queue[n], m, i) => n = d /\ i = 1
  <2>1. 1 \in Rank
    BY DEF Rank
  <2> QED BY <2>1 DEF QueuesInv
<1>3. \A i \in Rank : i + 1 \in Rank /\ i + 1 # 1
  BY DEF Rank
<1>4. \A i, j \in Rank : i + 1 = j + 1 => i = j
  BY DEF Rank
<1>5. \A n \in Name, i \in Rank : ~At(queue'[n], m, i)
  BY <1>2, <1>3
<1>6. ASSUME NEW k \in Msg, k # m, fate[k] = "queued"
      PROVE  \E n \in Name, i \in Rank : At(queue'[n], k, i)
  <2>1. PICK n \in Name, i \in Rank : At(queue[n], k, i)
    BY <1>6 DEF QueuesInv
  <2>2. CASE n = d
    <3>1. i # 1
      BY <1>6, <2>1, <2>2 DEF At
    <3>2. i - 1 \in Rank /\ (i - 1) + 1 = i
      BY <3>1 DEF Rank
    <3>3. PICK j \in Rank : j + 1 = i
      BY <3>2
    <3> QED BY <2>1, <2>2, <3>3
  <2>3. CASE n # d
    BY <2>1, <2>3
  <2> QED BY <2>2, <2>3
<1>7. ASSUME NEW k \in Msg, NEW n \in Name, NEW i \in Rank, At(queue'[n], k, i)
      PROVE  k # m /\ fate[k] = "queued" /\ n \in thread
  BY <1>3, <1>5, <1>7 DEF QueuesInv
<1>8. ASSUME NEW k \in Msg, NEW n \in Name, NEW p \in Name, NEW i \in Rank, NEW j \in Rank,
             At(queue'[n], k, i), At(queue'[p], k, j)
      PROVE  n = p /\ i = j
  <2>1. n = p /\ (IF n = d THEN i + 1 ELSE i) = (IF p = d THEN j + 1 ELSE j)
    BY <1>3, <1>8 DEF QueuesInv
  <2> QED BY <1>4, <2>1
<1> QED BY <1>1, <1>6, <1>7, <1>8 DEF QueuesInv, At

\* A copy is taken.
LEMMA CopyTaken ==
  ASSUME TypeOK, QueuesInv, NEW d \in Name, \A k \in Msg : ~At(queue[d], k, 1),
         fate' = fate, thread' = thread,
         \A k \in Msg, n \in Name, i \in Rank :
           At(queue'[n], k, i) <=> At(queue[n], k, IF n = d THEN i + 1 ELSE i)
  PROVE  QueuesInv'
<1>3. \A i \in Rank : i + 1 \in Rank /\ i + 1 # 1
  BY DEF Rank
<1>4. \A i, j \in Rank : i + 1 = j + 1 => i = j
  BY DEF Rank
<1>6. ASSUME NEW k \in Msg, fate[k] = "queued"
      PROVE  \E n \in Name, i \in Rank : At(queue'[n], k, i)
  <2>1. PICK n \in Name, i \in Rank : At(queue[n], k, i)
    BY <1>6 DEF QueuesInv
  <2>2. CASE n = d
    <3>1. i # 1
      BY <2>1, <2>2
    <3>2. i - 1 \in Rank /\ (i - 1) + 1 = i
      BY <3>1 DEF Rank
    <3>3. PICK j \in Rank : j + 1 = i
      BY <3>2
    <3> QED BY <2>1, <2>2, <3>3
  <2>3. CASE n # d
    BY <2>1, <2>3
  <2> QED BY <2>2, <2>3
<1>7. ASSUME NEW k \in Msg, NEW n \in Name, NEW i \in Rank, At(queue'[n], k, i)
      PROVE  fate[k] = "queued" /\ n \in thread
  BY <1>3, <1>7 DEF QueuesInv
<1>8. ASSUME NEW k \in Msg, NEW n \in Name, NEW p \in Name, NEW i \in Rank, NEW j \in Rank,
             At(queue'[n], k, i), At(queue'[p], k, j)
      PROVE  n = p /\ i = j
  <2>1. n = p /\ (IF n = d THEN i + 1 ELSE i) = (IF p = d THEN j + 1 ELSE j)
    BY <1>3, <1>8 DEF QueuesInv
  <2> QED BY <1>4, <2>1
<1> QED BY <1>6, <1>7, <1>8 DEF QueuesInv, At

\* Where messages are after a push, for watchers and others, and a take.
LEMMA Places ==
  ASSUME NEW q \in Seq(Item), NEW it \in Item, NEW m \in Msg, NEW i \in Rank
  PROVE  /\ Len(q) + 1 \in Rank
         /\ At(Append(q, it), m, i) <=>
              At(q, m, i) \/ (it.kind # "copy" /\ m = it.id /\ i = Len(q) + 1)
         /\ q # <<>> => (At(Tail(q), m, i) <=> At(q, m, i + 1))
         /\ q # <<>> => (At(q, m, 1) <=> m = Head(q).id /\ Head(q).kind # "copy")
<1>1. Len(q) \in Nat /\ DOMAIN q = 1..Len(q)
  BY LenProperties
<1>2. At(Append(q, it), m, i) <=>
        At(q, m, i) \/ (it.kind # "copy" /\ m = it.id /\ i = Len(q) + 1)
  <2>1. /\ DOMAIN Append(q, it) = 1..(Len(q) + 1)
        /\ \A j \in 1..Len(q) : Append(q, it)[j] = q[j]
        /\ Append(q, it)[Len(q) + 1] = it
    OBVIOUS
  <2>2. CASE i = Len(q) + 1
    <3>1. i \notin DOMAIN q /\ i \in DOMAIN Append(q, it) /\ Append(q, it)[i] = it
      BY <1>1, <2>1, <2>2
    <3> QED BY <2>2, <3>1 DEF At
  <2>3. CASE i # Len(q) + 1
    <3>1. i \in DOMAIN Append(q, it) <=> i \in DOMAIN q
      BY <1>1, <2>1, <2>3 DEF Rank
    <3>2. i \in DOMAIN q => Append(q, it)[i] = q[i]
      BY <1>1, <2>1
    <3> QED BY <2>3, <3>1, <3>2 DEF At
  <2> QED BY <2>2, <2>3
<1>3. ASSUME q # <<>>
      PROVE  /\ At(Tail(q), m, i) <=> At(q, m, i + 1)
             /\ At(q, m, 1) <=> m = Head(q).id /\ Head(q).kind # "copy"
  <2>1. /\ DOMAIN Tail(q) = 1..(Len(q) - 1)
        /\ \A j \in 1..(Len(q) - 1) : Tail(q)[j] = q[j + 1]
        /\ 1 \in DOMAIN q /\ q[1] = Head(q)
    BY <1>1, <1>3
  <2>2. i \in DOMAIN Tail(q) <=> i + 1 \in DOMAIN q
    BY <1>1, <2>1 DEF Rank
  <2>3. i \in DOMAIN Tail(q) => Tail(q)[i] = q[i + 1]
    BY <2>1
  <2> QED BY <2>1, <2>2, <2>3 DEF At
<1> QED BY <1>1, <1>2, <1>3 DEF Rank

LEMMA CopiesAreNot ==
  ASSUME NEW q \in [Name -> Seq(Item)], NEW it \in Item, NEW m \in Msg, NEW n \in Name,
         NEW i \in Rank
  PROVE  At(PushCopies(q, it)[n], m, i) <=> At(q[n], m, i)
<1> DEFINE c == [it EXCEPT !.kind = "copy"]
<1>1. c \in Item /\ c.kind = "copy"
  BY DEF Item
<1>2. PushCopies(q, it)[n] = Append(q[n], c) \/ PushCopies(q, it)[n] = q[n]
  BY DEF PushCopies
<1>3. q[n] \in Seq(Item)
  OBVIOUS
<1> HIDE DEF c
<1>4. At(Append(q[n], c), m, i) <=> At(q[n], m, i)
  BY <1>1, <1>3, Places
<1> QED BY <1>2, <1>4

LEMMA PushIs ==
  ASSUME NEW q \in [Name -> Seq(Item)], NEW d \in Name, NEW it \in Item, it.kind # "copy"
  PROVE  /\ Push(q, d, it) \in [Name -> Seq(Item)]
         /\ Len(q[d]) + 1 \in Rank
         /\ \A k \in Msg, n \in Name, i \in Rank :
              At(Push(q, d, it)[n], k, i) <=>
                At(q[n], k, i) \/ (k = it.id /\ n = d /\ i = Len(q[d]) + 1)
<1>1. q[d] \in Seq(Item) /\ Append(q[d], it) \in Seq(Item)
  OBVIOUS
<1>2. /\ Push(q, d, it) \in [Name -> Seq(Item)]
      /\ \A n \in Name : Push(q, d, it)[n] = IF n = d THEN Append(q[d], it) ELSE q[n]
  BY <1>1 DEF Push
<1>3. Len(q[d]) + 1 \in Rank
  BY <1>1, LenProperties DEF Rank
<1>4. ASSUME NEW k \in Msg, NEW i \in Rank
      PROVE  At(Append(q[d], it), k, i) <=> At(q[d], k, i) \/ (k = it.id /\ i = Len(q[d]) + 1)
  BY <1>1, Places
<1> QED BY <1>2, <1>3, <1>4

\* The copies of a message are counted once more.
LEMMA Counts ==
  ASSUME TypeOK, NEW it \in Item
  PROVE  \A m \in Msg, n \in Name :
           /\ CountCopies(it)[m][n] \in Nat
           /\ CountCopies(it)[m][n] <= copies[m][n] + (IF m = it.id THEN 1 ELSE 0)
<1>1. copies \in [Msg -> [Name -> Nat]]
  BY DEF TypeOK
<1> QED BY <1>1 DEF CountCopies

\* A message that is posted, or taken from a queue, is shown once more or not at all.
LEMMA ShownOnceMore ==
  ASSUME TypeOK, CopiesInv, NEW m \in Msg, NEW f,
         fate' = [fate EXCEPT ![m] = f],
         \/ fate[m] = "unsent" /\ f # "unsent"
         \/ fate[m] = "queued" /\ f \notin {"unsent", "queued"},
         \/ copies' = copies
         \/ \E it \in Item : it.id = m /\ copies' = CountCopies(it)
  PROVE  CopiesInv'
<1>1. ASSUME NEW k \in Msg, NEW n \in Name PROVE copies'[k][n] <= Shown(k)'
  <2>1. /\ copies'[k][n] <= copies[k][n] + (IF k = m THEN 1 ELSE 0)
        /\ copies'[k][n] \in Nat /\ copies[k][n] \in Nat
    <3>1. copies[k][n] \in Nat
      BY DEF TypeOK
    <3>2. CASE copies' = copies
      BY <3>1, <3>2
    <3>3. CASE \E it \in Item : it.id = m /\ copies' = CountCopies(it)
      BY <3>1, <3>3, Counts
    <3> QED BY <3>2, <3>3
  <2>2. fate'[k] = IF k = m THEN f ELSE fate[k]
    BY DEF TypeOK
  <2>3. copies[k][n] <= Shown(k) /\ Shown(k) \in {0, 1, 2} /\ Shown(k)' \in {0, 1, 2}
    BY DEF CopiesInv, Shown
  <2>4. CASE k = m
    <3>1. Shown(k)' >= Shown(k) + 1
      BY <2>2, <2>4 DEF Shown
    <3> QED BY <2>1, <2>3, <2>4, <3>1
  <2>5. CASE k # m
    <3>1. Shown(k)' = Shown(k)
      BY <2>2, <2>5 DEF Shown
    <3> QED BY <2>1, <2>3, <2>5, <3>1
  <2> QED BY <2>4, <2>5
<1> QED BY <1>1 DEF CopiesInv

\* A message that was not sent is posted to d, or to nobody, and shown to the watchers or not.
LEMMA Posted ==
  ASSUME DeliveryIInv, UNCHANGED boot, NEW m \in Msg \ sent,
         NEW it \in Item, it.id = m, it.kind # "copy",
         \/ queue' = queue \/ queue' = PushCopies(queue, it),
         NEW f \in Fate \ {"unsent", "queued"}, fate' = [fate EXCEPT ![m] = f],
         copies' = copies \/ copies' = CountCopies(it)
  PROVE  QueuesInv' /\ CopiesInv'
<1>1. TypeOK /\ QueuesInv /\ CopiesInv /\ fate[m] = "unsent" /\ queue \in [Name -> Seq(Item)]
  BY DEF DeliveryIInv, BusIInv, TablesInv, TypeOK
<1>2. \A k \in Msg, n \in Name, i \in Rank : At(queue'[n], k, i) <=> At(queue[n], k, i)
  BY <1>1, CopiesAreNot
<1>3. thread' = thread
  BY DEF boot
<1>4. QueuesInv'
  <2>1. f # "queued" /\ fate[m] # "queued" /\ m \in Msg
    BY <1>1
  <2> QED BY <1>1, <1>2, <1>3, <2>1, NotQueued
<1>5. CopiesInv'
  BY <1>1, ShownOnceMore
<1> QED BY <1>4, <1>5

LEMMA PostedTo ==
  ASSUME DeliveryIInv, UNCHANGED boot, NEW m \in Msg \ sent,
         NEW it \in Item, it.id = m, it.kind # "copy",
         NEW d \in Name, d \in thread,
         \/ queue' = Push(queue, d, it) \/ queue' = PushCopies(Push(queue, d, it), it),
         fate' = [fate EXCEPT ![m] = "queued"],
         copies' = copies \/ copies' = CountCopies(it)
  PROVE  QueuesInv' /\ CopiesInv'
<1>1. TypeOK /\ QueuesInv /\ CopiesInv /\ fate[m] = "unsent" /\ queue \in [Name -> Seq(Item)]
  BY DEF DeliveryIInv, BusIInv, TablesInv, TypeOK
<1> DEFINE q == Push(queue, d, it)
           l == Len(queue[d]) + 1
<1>2. /\ q \in [Name -> Seq(Item)] /\ l \in Rank
      /\ \A k \in Msg, n \in Name, i \in Rank :
           At(q[n], k, i) <=> At(queue[n], k, i) \/ (k = m /\ n = d /\ i = l)
  BY <1>1, PushIs, SMTT(30)
<1> HIDE DEF q, l
<1>3. \A k \in Msg, n \in Name, i \in Rank : At(queue'[n], k, i) <=> At(q[n], k, i)
  BY <1>2, CopiesAreNot DEF q
<1>4. thread' = thread
  BY DEF boot
<1>5. QueuesInv'
  <2> PICK p \in Rank : p = l
    BY <1>2
  <2>1. \A k \in Msg, n \in Name, i \in Rank :
          At(queue'[n], k, i) <=> At(queue[n], k, i) \/ (k = m /\ n = d /\ i = p)
    BY <1>2, <1>3
  <2>2. \A n \in Name, i \in Rank : ~At(queue[n], m, i)
    BY <1>1 DEF QueuesInv
  <2>3. \A k \in Msg : fate'[k] = IF k = m THEN "queued" ELSE fate[k]
    BY <1>1 DEF TypeOK
  <2> QED BY <1>1, <1>4, <2>1, <2>2, <2>3 DEF QueuesInv, At
<1>6. CopiesInv'
  BY <1>1, ShownOnceMore
<1> QED BY <1>5, <1>6

\* The first of a queue is taken, with its fate, and shown to the watchers or not.
LEMMA FirstTaken ==
  ASSUME DeliveryIInv, UNCHANGED boot, NEW d \in Name, queue[d] # <<>>,
         Head(queue[d]).kind # "copy",
         NEW f, f \notin {"unsent", "queued"}, fate' = [fate EXCEPT ![Head(queue[d]).id] = f],
         \/ queue' = [queue EXCEPT ![d] = Tail(@)]
         \/ queue' = PushCopies([queue EXCEPT ![d] = Tail(@)], Head(queue[d])),
         copies' = copies \/ copies' = CountCopies(Head(queue[d]))
  PROVE  QueuesInv' /\ CopiesInv'
<1>1. TypeOK /\ QueuesInv /\ CopiesInv /\ queue \in [Name -> Seq(Item)] /\ thread' = thread
  BY DEF DeliveryIInv, BusIInv, TablesInv, TypeOK, boot
<1> DEFINE q == [queue EXCEPT ![d] = Tail(@)]
<1>2. queue[d] \in Seq(Item) /\ Tail(queue[d]) \in Seq(Item) /\ Head(queue[d]) \in Item
  BY <1>1
<1>3. q \in [Name -> Seq(Item)] /\ \A n \in Name : q[n] = IF n = d THEN Tail(queue[d]) ELSE queue[n]
  BY <1>1, <1>2
<1>4. PICK m \in Msg : m = Head(queue[d]).id
  BY <1>2 DEF Item
<1> HIDE DEF q
<1>5. \A k \in Msg, n \in Name, i \in Rank : At(queue'[n], k, i) <=> At(q[n], k, i)
  BY <1>2, <1>3, CopiesAreNot DEF q
<1>6. \A k \in Msg, i \in Rank : At(Tail(queue[d]), k, i) <=> At(queue[d], k, i + 1)
  BY <1>2, Places
<1>7. At(queue[d], m, 1) /\ 1 \in Rank
  <2>1. 1 \in Rank
    BY DEF Rank
  <2> QED BY <1>2, <1>4, <2>1, Places, SMTT(30)
<1>8. \A k \in Msg, n \in Name, i \in Rank :
        At(queue'[n], k, i) <=> At(queue[n], k, IF n = d THEN i + 1 ELSE i)
  BY <1>3, <1>5, <1>6
<1>9. QueuesInv'
  BY <1>1, <1>4, <1>7, <1>8, IsTaken
<1>10. fate[m] = "queued"
  BY <1>1, <1>7 DEF QueuesInv
<1>11. CopiesInv'
  BY <1>1, <1>2, <1>4, <1>10, ShownOnceMore
<1> QED BY <1>9, <1>11

LEMMA PostDelivers ==
  ASSUME DeliveryIInv, NEW n \in Name, NEW m \in Msg, NEW t \in Type, NEW to \in Name \cup {NoName},
         ModulePostMessage(n, m, t, to)
  PROVE  QueuesInv' /\ CopiesInv'
<1> DEFINE byType == to = NoName
           dest == IF byType THEN (IF Routes(t) THEN {owner[t]} ELSE {}) ELSE {to} \cap thread
           it == [id |-> m, kind |-> "in", type |-> t, routed |-> byType]
<1>1. it \in Item /\ it.id = m /\ it.kind # "copy"
  BY DEF Item
<1>2. m \notin sent /\ UNCHANGED boot /\ copies' = CountCopies(it)
  BY DEF ModulePostMessage
<1>3. CASE dest = {}
  <2>1. queue' = PushCopies(queue, it) /\ fate' = [fate EXCEPT ![m] = "lost"]
    BY <1>3 DEF ModulePostMessage
  <2> HIDE DEF it
  <2> QED BY <1>1, <1>2, <2>1, Posted DEF Fate
<1>4. CASE dest # {}
  <2>1. dest \subseteq thread \cap Name
    <3>1. thread \subseteq Name
      BY DEF DeliveryIInv, BusIInv, TablesInv, TypeOK
    <3> QED BY <3>1 DEF Routes
  <2>2. PICK d \in dest : d = CHOOSE x \in dest : TRUE
    BY <1>4
  <2>3. /\ queue' = PushCopies(Push(queue, d, it), it)
        /\ fate' = [fate EXCEPT ![m] = "queued"]
    BY <1>4, <2>2 DEF ModulePostMessage
  <2> HIDE DEF it, dest
  <2> QED BY <1>1, <1>2, <2>1, <2>3, PostedTo
<1> QED BY <1>3, <1>4

LEMMA DeliveryStep == DeliveryIInv /\ [Next]_vars => DeliveryIInv'
<1> SUFFICES ASSUME DeliveryIInv, [Next]_vars PROVE DeliveryIInv'
  OBVIOUS
<1>0. BusIInv'
  BY BusStep DEF DeliveryIInv
<1> SUFFICES QueuesInv' /\ CopiesInv'
  BY <1>0 DEF DeliveryIInv
<1>1. TypeOK /\ QueuesInv /\ CopiesInv
  BY DEF DeliveryIInv, BusIInv, TablesInv
<1>2. ASSUME UNCHANGED <<queue, fate, copies>>, thread \subseteq thread'
      PROVE  QueuesInv' /\ CopiesInv'
  <2>1. QueuesInv'
    BY <1>1, <1>2, QueuesStay
  <2> QED BY <1>1, <1>2, <2>1 DEF CopiesInv, Shown
<1>3. CASE main
  BY <1>2, <1>3
     DEF main, AppendModule, Init_return, config_end, Init_call, Init_end, Start, others
<1>4. ASSUME NEW m \in Msg, NEW t \in Type, CallModuleProcess(m, t)
      PROVE  QueuesInv' /\ CopiesInv'
  <2> DEFINE it == [id |-> m, kind |-> "in", type |-> t, routed |-> TRUE]
  <2>1. it \in Item /\ it.id = m /\ it.kind # "copy"
    BY DEF Item
  <2>2. m \notin sent /\ UNCHANGED boot /\ copies' = copies
    BY <1>4 DEF CallModuleProcess
  <2>3. CASE Routes(t)
    <3>1. queue' = Push(queue, owner[t], it) /\ fate' = [fate EXCEPT ![m] = "queued"]
      BY <1>4, <2>3 DEF CallModuleProcess
    <3>2. owner[t] \in Name /\ owner[t] \in thread
      BY <1>1, <2>3 DEF Routes, TypeOK
    <3> HIDE DEF it
    <3> QED BY <2>1, <2>2, <3>1, <3>2, PostedTo
  <2>4. CASE ~Routes(t)
    <3>1. queue' = queue /\ fate' = [fate EXCEPT ![m] = "refused"]
      BY <1>4, <2>4 DEF CallModuleProcess
    <3> HIDE DEF it
    <3> QED BY <2>1, <2>2, <3>1, Posted DEF Fate
  <2> QED BY <2>3, <2>4
<1>5. ASSUME NEW m \in Msg, NEW b \in Bin, CallModuleProcess_binary(m, b)
      PROVE  QueuesInv' /\ CopiesInv'
  <2> DEFINE it == [id |-> m, kind |-> "binary", type |-> b, routed |-> TRUE]
  <2>1. it \in Item /\ it.id = m /\ it.kind # "copy"
    BY DEF Item
  <2>2. m \notin sent /\ UNCHANGED boot /\ copies' = copies
    BY <1>5 DEF CallModuleProcess_binary
  <2>3. CASE b \in DOMAIN granted /\ granted[b] \in thread
    <3>1. queue' = Push(queue, granted[b], it) /\ fate' = [fate EXCEPT ![m] = "queued"]
      BY <1>5, <2>3 DEF CallModuleProcess_binary
    <3>2. granted[b] \in Name
      BY <1>1, <2>3 DEF TypeOK
    <3> HIDE DEF it
    <3> QED BY <2>1, <2>2, <2>3, <3>1, <3>2, PostedTo
  <2>4. CASE ~(b \in DOMAIN granted /\ granted[b] \in thread)
    <3>1. queue' = queue /\ fate' = [fate EXCEPT ![m] = "lost"]
      BY <1>5, <2>4 DEF CallModuleProcess_binary
    <3> HIDE DEF it
    <3> QED BY <2>1, <2>2, <3>1, Posted DEF Fate
  <2> QED BY <2>3, <2>4
<1>6. ASSUME NEW m \in Msg, NEW n \in Name, NEW t \in Type, NEW to \in Name \cup {NoName},
             ModulePostMessage(n, m, t, to)
      PROVE  QueuesInv' /\ CopiesInv'
  BY <1>6, PostDelivers
<1>7. ASSUME NEW m \in Msg, NEW n \in Name, NEW t \in Type, ModulePostMessage_client(n, m, t)
      PROVE  QueuesInv' /\ CopiesInv'
  <2> DEFINE it == [id |-> m, kind |-> "in", type |-> t, routed |-> FALSE]
  <2>1. it \in Item /\ it.id = m /\ it.kind # "copy"
    BY DEF Item
  <2>2. /\ m \notin sent /\ UNCHANGED boot /\ copies' = CountCopies(it)
        /\ queue' = PushCopies(queue, it) /\ fate' = [fate EXCEPT ![m] = "passed"]
    BY <1>7 DEF ModulePostMessage_client
  <2> HIDE DEF it
  <2> QED BY <2>1, <2>2, Posted DEF Fate
<1>8. ASSUME NEW m \in Msg, NEW n \in Name, NEW x \in Type \cup Bin,
             ModulePostMessage_self(n, m, x)
      PROVE  QueuesInv' /\ CopiesInv'
  <2> DEFINE it == [id |-> m, kind |-> "self", type |-> x, routed |-> FALSE]
  <2>1. it \in Item /\ it.id = m /\ it.kind # "copy"
    BY DEF Item
  <2>2. m \notin sent /\ UNCHANGED boot /\ copies' = copies
    BY <1>8 DEF ModulePostMessage_self
  <2>3. CASE n \in thread
    <3>1. queue' = Push(queue, n, it) /\ fate' = [fate EXCEPT ![m] = "queued"]
      BY <1>8, <2>3 DEF ModulePostMessage_self
    <3> HIDE DEF it
    <3> QED BY <2>1, <2>2, <2>3, <3>1, PostedTo
  <2>4. CASE n \notin thread
    <3>1. queue' = queue /\ fate' = [fate EXCEPT ![m] = "lost"]
      BY <1>8, <2>4 DEF ModulePostMessage_self
    <3> HIDE DEF it
    <3> QED BY <2>1, <2>2, <3>1, Posted DEF Fate
  <2> QED BY <2>3, <2>4
<1>9. ASSUME NEW n \in Name, take_in(n) \/ take_binary(n) \/ take_self(n)
      PROVE  QueuesInv' /\ CopiesInv'
  <2>1. /\ UNCHANGED boot /\ queue[n] # <<>> /\ Head(queue[n]).kind # "copy"
        /\ \/ queue' = [queue EXCEPT ![n] = Tail(@)]
           \/ queue' = PushCopies([queue EXCEPT ![n] = Tail(@)], Head(queue[n]))
        /\ copies' = copies \/ copies' = CountCopies(Head(queue[n]))
    BY <1>9 DEF take_in, take_binary, take_self
  <2>2. PICK f : /\ f \notin {"unsent", "queued"}
                 /\ fate' = [fate EXCEPT ![Head(queue[n]).id] = f]
    <3>1. /\ Processed(n, Head(queue[n])) \notin {"unsent", "queued"}
          /\ "handled" \notin {"unsent", "queued"}
      BY DEF Processed
    <3> QED BY <1>9, <3>1 DEF take_in, take_binary, take_self
  <2> QED BY <2>1, <2>2, FirstTaken
<1>10. ASSUME NEW n \in Name, take_copy(n) PROVE QueuesInv' /\ CopiesInv'
  <2>1. /\ UNCHANGED <<fate, copies>> /\ thread' = thread /\ queue[n] \in Seq(Item)
        /\ queue[n] # <<>> /\ Head(queue[n]).kind = "copy" /\ queue \in [Name -> Seq(Item)]
        /\ queue' = [queue EXCEPT ![n] = Tail(@)]
    BY <1>1, <1>10 DEF take_copy, boot, TypeOK
  <2>2. PICK it \in Item : it = Head(queue[n])
    BY <2>1
  <2>3. \A k \in Msg : ~At(queue[n], k, 1)
    <3>1. 1 \in Rank
      BY DEF Rank
    <3> QED BY <2>1, <2>2, <3>1, Places
  <2>4. \A k \in Msg, i \in Rank : At(Tail(queue[n]), k, i) <=> At(queue[n], k, i + 1)
    BY <2>1, <2>2, Places
  <2>5. \A k \in Msg, d \in Name, i \in Rank :
          At(queue'[d], k, i) <=> At(queue[d], k, IF d = n THEN i + 1 ELSE i)
    BY <2>1, <2>4
  <2>6. QueuesInv'
    BY <1>1, <2>1, <2>3, <2>5, CopyTaken
  <2> QED BY <1>1, <2>1, <2>6 DEF CopiesInv, Shown
<1>11. ASSUME NEW n \in Name, NEW ok \in BOOLEAN, Start_call(n, ok)
       PROVE  QueuesInv' /\ CopiesInv'
  BY <1>2, <1>11 DEF Start_call, boot
<1>12. CASE UNCHANGED vars
  BY <1>2, <1>12 DEF vars
<1> QED
  BY <1>3, <1>4, <1>5, <1>6, <1>7, <1>8, <1>9, <1>10, <1>11, <1>12 DEF Next, take

\* For any libraries and messages: each message is waiting in one queue, of a module with a
\* thread, or has its fate; none goes to a module that did not list its type; and watchers see
\* it twice at most (ModulePostMessage, robot_module_thread::run).
THEOREM DeliveryKept == Spec => []DeliveryInv
<1>1. Init => DeliveryIInv
  <2> SUFFICES ASSUME Init PROVE QueuesInv /\ CopiesInv
    BY BusInit DEF DeliveryIInv
  <2> QED BY DEF Init, QueuesInv, CopiesInv, At, Shown
<1> QED BY <1>1, AccountedFor, DeliveryStep, PTL DEF Spec

(***************************************************************************)
(* The client of the cloud platform                                        *)
(***************************************************************************)

\* What the broker still has, in the order in which it was published.
Pending == unacked \o mq_queue
AtBroker == SetOf(Pending)

\* The broker: it has messages that were published, each once and in order, one of them
\* delivered.
BrokerInv ==
  /\ AtBroker \subseteq DOMAIN kinds
  /\ \A i, j \in DOMAIN Pending : i < j => Pending[i] < Pending[j]
  /\ \A m \in MsgId : handed[m] > 0 => m \in DOMAIN kinds

\* Q: the message it works on is the oldest that the broker has, or older.
HandsInv ==
  /\ q_at \in {"ack", "acked"} => q_msg \in DOMAIN kinds
  /\ q_at = "ack" =>
       /\ Pending # <<>> /\ Pending[1] = q_msg
       /\ alive => unacked = <<q_msg>>
       /\ ~alive => unacked = <<>>
  /\ q_at = "acked" =>
       /\ unacked = <<>>
       /\ \A m \in AtBroker : q_msg <= m
       /\ handed[q_msg] > 0 \/ q_msg \in AtBroker => q_msg \in resent

\* The connection: R waits for the end of Q only after it was told of it, unless it stops.
ConnInv ==
  /\ ConnectionServed
  /\ r_last => r_at \in {"exits", "ended"}
  /\ r_at = "exits" /\ ~r_last => twos = 0 /\ q_at = "ended"

\* The offline tasks: they are in the order of their publication, whatever was delivered
\* twice, and what was passed to the modules is a first part of them.
TasksInv ==
  /\ \A i, j \in DOMAIN m_offline_task : i < j => m_offline_task[i].id <= m_offline_task[j].id
  /\ \A i \in DOMAIN m_offline_task :
       /\ \A m \in AtBroker : m_offline_task[i].id <= m
       /\ q_at = "acked" => m_offline_task[i].id <= q_msg
       /\ m_offline_task[i].finish => i = 1
       /\ m_offline_task[i].id \in DOMAIN kinds
  /\ \A i, k \in DOMAIN m_offline_task :
       m_offline_task[i].id \in passed /\ m_offline_task[k].id <= m_offline_task[i].id =>
         m_offline_task[k].id \in passed
  /\ \A m \in passed : \E i \in DOMAIN m_offline_task : m_offline_task[i].id = m
  /\ IF m_offline_task # <<>> /\ m_offline_task[1].finish
     THEN m_offline_task[1].id \in passed
     ELSE passed = {}

CloudIInv ==
  CloudTypeOK /\ BrokerInv /\ HandsInv /\ TakenOnce /\ ConnInv /\ RequestsKept /\ TasksInv

LEMMA Listed ==
  ASSUME NEW T, NEW s \in Seq(T)
  PROVE  /\ \A i \in DOMAIN s : s[i] \in T
         /\ \A x \in T : Append(s, x) \in Seq(T)
  OBVIOUS

LEMMA Joined ==
  ASSUME NEW S, NEW s \in Seq(S), NEW t \in Seq(S)
  PROVE  /\ SetOf(s \o t) = SetOf(s) \cup SetOf(t)
         /\ s \o t \in Seq(S)
<1>1. /\ s \o t \in Seq(S)
      /\ Len(s \o t) = Len(s) + Len(t)
      /\ \A i \in 1 .. Len(s) + Len(t) : (s \o t)[i] = IF i <= Len(s) THEN s[i] ELSE t[i - Len(s)]
  BY ConcatProperties
<1>2. \A i \in 1..Len(t) : Len(s) + i \in 1..(Len(s) + Len(t)) /\ ~(Len(s) + i <= Len(s))
                           /\ (Len(s) + i) - Len(s) = i
  BY LenProperties
<1>3. \A i \in 1..(Len(s) + Len(t)) : i <= Len(s) \/ i - Len(s) \in 1..Len(t)
  BY LenProperties
<1>4. \A i \in 1..Len(s) : i \in 1..(Len(s) + Len(t)) /\ i <= Len(s)
  BY LenProperties
<1>5. SetOf(s \o t) \subseteq SetOf(s) \cup SetOf(t)
  BY <1>1, <1>3 DEF SetOf
<1>6. SetOf(s) \subseteq SetOf(s \o t)
  BY <1>1, <1>4 DEF SetOf
<1>7. SetOf(t) \subseteq SetOf(s \o t)
  <2> SUFFICES ASSUME NEW i \in 1..Len(t) PROVE t[i] \in SetOf(s \o t)
    BY DEF SetOf
  <2>1. PICK j \in DOMAIN (s \o t) : j = Len(s) + i
    BY <1>1, <1>2
  <2>2. (s \o t)[j] = t[i]
    BY <1>1, <1>2, <2>1
  <2> QED BY <2>1, <2>2 DEF SetOf
<1> QED BY <1>1, <1>5, <1>6, <1>7

\* The messages at the broker, however they are put together.
LEMMA BrokerHas ==
  ASSUME NEW q \in Seq(MsgId), NEW u \in Seq(MsgId)
  PROVE  /\ u \o q \in Seq(MsgId)
         /\ SetOf(q \o u) = SetOf(u \o q)
         /\ SetOf(u \o q) = SetOf(u) \cup SetOf(q)
         /\ SetOf(u \o q) \subseteq MsgId
<1>1. u \o q \in Seq(MsgId)
  BY ConcatProperties
<1>2. /\ SetOf(u \o q) = SetOf(u) \cup SetOf(q)
      /\ SetOf(q \o u) = SetOf(q) \cup SetOf(u)
  BY Joined
<1>3. SetOf(u \o q) \subseteq MsgId
  BY <1>1 DEF SetOf
<1> QED BY <1>1, <1>2, <1>3

\* What TakenOnce says of a message.
LEMMA TakenMeans ==
  ASSUME CloudTypeOK
  PROVE  TakenOnce <=>
           \A i \in DOMAIN kinds :
             /\ i \notin AtBroker =>
                  handed[i] > 0 \/ i \in crash_lost \/ (q_at = "acked" /\ q_msg = i)
             /\ handed[i] > 1 => i \in resent
             /\ handed[i] > 0 /\ i \in AtBroker => i \in resent
<1>1. mq_queue \in Seq(MsgId) /\ unacked \in Seq(MsgId)
  BY DEF CloudTypeOK
<1>2. SetOf(mq_queue \o unacked) = AtBroker
  BY <1>1, BrokerHas DEF AtBroker, Pending
<1> QED BY <1>2 DEF TakenOnce

LEMMA TakenMeans_ ==
  ASSUME CloudTypeOK',
         \A i \in DOMAIN kinds' :
           /\ i \notin AtBroker' =>
                handed'[i] > 0 \/ i \in crash_lost' \/ (q_at' = "acked" /\ q_msg' = i)
           /\ handed'[i] > 1 => i \in resent'
           /\ handed'[i] > 0 /\ i \in AtBroker' => i \in resent'
  PROVE  TakenOnce'
<1>1. mq_queue' \in Seq(MsgId) /\ unacked' \in Seq(MsgId)
  BY DEF CloudTypeOK
<1>2. SetOf(mq_queue' \o unacked') = AtBroker'
  BY <1>1, BrokerHas DEF AtBroker, Pending
<1> QED BY <1>2 DEF TakenOnce

\* The task that is passed to the modules, and what is marked.
LEMMA Passing ==
  ASSUME CloudIInv, tasklink_handler
  PROVE  LET k == IF m_offline_task[1].finish THEN 2 ELSE 1
         IN /\ 1 \in DOMAIN m_offline_task /\ k \in DOMAIN m_offline_task
            /\ passed' = passed \cup {m_offline_task[k].id}
            /\ m_offline_task' \in Seq([id : MsgId, finish : BOOLEAN])
            /\ DOMAIN m_offline_task' = DOMAIN m_offline_task
            /\ \A i \in DOMAIN m_offline_task :
                 /\ m_offline_task'[i].id = m_offline_task[i].id
                 /\ m_offline_task'[i].finish <=> m_offline_task[i].finish \/ i = 1
<1> DEFINE k == IF m_offline_task[1].finish THEN 2 ELSE 1
<1>1. m_offline_task \in Seq([id : MsgId, finish : BOOLEAN])
  BY DEF CloudIInv, CloudTypeOK
<1>2. \A i \in DOMAIN m_offline_task : m_offline_task[i].finish => i = 1
  BY DEF CloudIInv, TasksInv
<1>3. PICK u \in Unfinished : TRUE
  BY DEF tasklink_handler
<1>4. u \in 1..Len(m_offline_task) /\ 1 \in DOMAIN m_offline_task
  BY <1>1, <1>3 DEF Unfinished
<1>5. k \in Unfinished
  BY <1>1, <1>2, <1>3, <1>4 DEF Unfinished
<1>6. \A j \in Unfinished : k <= j
  BY <1>1, <1>2, <1>4 DEF Unfinished
<1>7. Min1(Unfinished) = k
  <2>1. \A i \in Unfinished : i \in Int
    BY <1>1 DEF Unfinished
  <2>2. \A i \in Unfinished : (\A j \in Unfinished : i <= j) => i = k
    BY <1>5, <1>6, <2>1
  <2> HIDE DEF k
  <2> QED BY <1>5, <1>6, <2>2 DEF Min1
<1>8. [id |-> m_offline_task[1].id, finish |-> TRUE] \in [id : MsgId, finish : BOOLEAN]
  <2>1. m_offline_task[1] \in [id : MsgId, finish : BOOLEAN]
    BY <1>1, <1>4, Listed, Zenon
  <2> QED BY <2>1
<1>9. /\ passed' = passed \cup {m_offline_task[k].id}
      /\ m_offline_task' =
           [m_offline_task EXCEPT ![1] = [id |-> m_offline_task[1].id, finish |-> TRUE]]
  BY <1>7 DEF tasklink_handler
<1>10. /\ m_offline_task' \in Seq([id : MsgId, finish : BOOLEAN])
       /\ DOMAIN m_offline_task' = DOMAIN m_offline_task
  BY <1>1, <1>4, <1>8, <1>9
<1>11. ASSUME NEW i \in DOMAIN m_offline_task
       PROVE  /\ m_offline_task'[i].id = m_offline_task[i].id
              /\ m_offline_task'[i].finish <=> m_offline_task[i].finish \/ i = 1
  <2>1. CASE i = 1
    BY <1>1, <1>4, <1>9, <2>1
  <2>2. CASE i # 1
    BY <1>1, <1>4, <1>9, <2>2
  <2> QED BY <2>1, <2>2
<1> QED BY <1>4, <1>5, <1>9, <1>10, <1>11 DEF Unfinished

LEMMA CloudTypeKept ==
  ASSUME CloudIInv, [CloudNext]_cloudVars
  PROVE  CloudTypeOK'
<1> USE CloudAssumption DEF CloudTypeOK
<1>0. CloudTypeOK
  BY DEF CloudIInv
<1>1. ASSUME NEW kind \in {"task", "offline", "request"}, publish(kind) PROVE CloudTypeOK'
  <2>1. Len(kinds) + 1 \in MsgId
    BY <1>0, <1>1 DEF publish, MsgId
  <2> QED BY <1>0, <1>1, <2>1 DEF publish, rState, qState, fates, offline, remote
<1>2. ASSUME Requeued PROVE /\ mq_queue' \in Seq(MsgId) /\ unacked' \in Seq(MsgId)
                            /\ alive' \in BOOLEAN
  <2>1. unacked \o mq_queue \in Seq(MsgId)
    BY <1>0, ConcatProperties
  <2>2. mq_queue' = unacked \o mq_queue /\ unacked' = <<>> /\ alive' = FALSE
    BY <1>2 DEF Requeued
  <2>3. mq_queue' \in Seq(MsgId) BY <2>1, <2>2
  <2>4. unacked' \in Seq(MsgId) BY <2>2
  <2>5. alive' \in BOOLEAN BY <2>2
  <2> QED BY <2>3, <2>4, <2>5
<1>3. CASE connection_breaks
  BY <1>0, <1>2, <1>3 DEF connection_breaks, rState, qState, fates, offline, remote
<1>4. CASE crash
  <2>1. crash_lost' \subseteq MsgId
    BY <1>0, <1>4 DEF crash, CloudIInv, HandsInv, MsgId
  <2>2. Requeued
    BY <1>4 DEF crash
  <2>3. m_offline_task' \in Seq([id : MsgId, finish : BOOLEAN])
    BY <1>4 DEF crash
  <2>4. kinds' = kinds /\ handed' = handed /\ resent' = resent /\ passed' = {}
    BY <1>4 DEF crash
  <2>5. /\ m_conn' = FALSE /\ r_at' = "check" /\ r_last' = FALSE /\ twos' = 0
        /\ q_at' = "none" /\ q_exit' = FALSE /\ q_msg' = 0 /\ isOffline' = FALSE
        /\ m_map_remote' = 0 /\ m_error_retry_list' = 0 /\ requests' = 0 /\ settled' = 0
    BY <1>4 DEF crash
  <2>6. /\ m_conn' \in BOOLEAN /\ r_last' \in BOOLEAN /\ q_exit' \in BOOLEAN /\ isOffline' \in BOOLEAN
    BY <2>5
  <2>7. mq_queue' \in Seq(MsgId) /\ unacked' \in Seq(MsgId) /\ alive' \in BOOLEAN
    BY <1>2, <2>2
  <2> QED BY <1>0, <2>1, <2>3, <2>4, <2>5, <2>6, <2>7
<1>5. CASE check_connect_cloud
  <2>1. UNCHANGED <<kinds, mq_queue, unacked, r_last, twos, handed, resent, crash_lost, isOffline,
                    m_offline_task, passed, m_map_remote, m_error_retry_list, requests, settled>>
    BY <1>5 DEF check_connect_cloud, fates, offline, remote
  <2>2. CASE UNCHANGED <<m_conn, alive, q_at, q_exit, q_msg>>
    BY <1>0, <1>5, <2>1, <2>2 DEF check_connect_cloud
  <2>3. CASE /\ m_conn' = TRUE /\ alive' = TRUE
             /\ q_at' = "consume" /\ q_exit' = FALSE /\ q_msg' = 0
    <3>1. m_conn' \in BOOLEAN /\ alive' \in BOOLEAN /\ q_exit' \in BOOLEAN
      BY <2>3
    <3>2. r_at' = "getq"
      BY <1>5 DEF check_connect_cloud
    <3> QED BY <1>0, <2>1, <2>3, <3>1, <3>2
  <2> QED BY <1>5, <2>2, <2>3 DEF check_connect_cloud, qState
<1>6. CASE R_getq
  <2>1. UNCHANGED <<kinds, mq_queue, unacked, alive, m_conn, r_last, q_at, q_msg, handed, resent,
                    crash_lost, isOffline, m_offline_task, passed, m_map_remote,
                    m_error_retry_list, requests, settled>>
    BY <1>6 DEF R_getq, broker, fates, offline, remote
  <2>2. twos' \in Nat /\ r_at' \in {"clean", "exits"} /\ (q_exit' = TRUE \/ q_exit' = q_exit)
    BY <1>0, <1>6 DEF R_getq
  <2>3. q_exit' \in BOOLEAN
    BY <1>0, <2>2
  <2> QED BY <1>0, <2>1, <2>2, <2>3
<1>7. CASE R_exit
  BY <1>0, <1>7 DEF R_exit, broker, fates, offline, remote
<1>8. CASE MQ_Exit
  BY <1>0, <1>2, <1>8 DEF MQ_Exit, fates, offline, remote
<1>9. CASE \E overdue \in 0..m_map_remote, left \in 0..(m_map_remote + m_error_retry_list) :
             clean_delay(overdue, left)
  BY <1>0, <1>9 DEF clean_delay, broker, qState, fates, offline
<1>10. CASE Q_consume
  <2>1. Head(mq_queue) \in MsgId /\ Tail(mq_queue) \in Seq(MsgId)
    BY <1>0, <1>10 DEF Q_consume
  <2>2. <<Head(mq_queue)>> \in Seq(MsgId) /\ Head(mq_queue) \in 0..MaxPublished
    BY <2>1 DEF MsgId
  <2> QED BY <1>0, <1>10, <2>1, <2>2 DEF Q_consume, rState, fates, offline, remote
<1>11. CASE Q_ack
  <2>1. q_msg \in MsgId
    <3>1. q_msg \in DOMAIN kinds
      BY <1>11 DEF Q_ack, CloudIInv, HandsInv
    <3> QED BY <1>0, <3>1 DEF MsgId
  <2>2. /\ resent' = resent \/ resent' = resent \cup {q_msg}
        /\ unacked' = unacked \/ unacked' = <<>>
        /\ q_at' \in {"acked", "quits"}
    BY <1>11 DEF Q_ack
  <2>3. resent' \subseteq MsgId
    BY <1>0, <2>1, <2>2
  <2>4. unacked' \in Seq(MsgId)
    <3>1. <<>> \in Seq(MsgId) /\ unacked \in Seq(MsgId)
      BY <1>0
    <3> QED BY <2>2, <3>1, Zenon
  <2> QED BY <1>0, <1>11, <2>2, <2>3, <2>4 DEF Q_ack, rState, offline, remote
<1>12. CASE MessageIn
  <2>1. q_msg \in MsgId /\ q_msg \in DOMAIN kinds
    BY <1>0, <1>12 DEF MessageIn, CloudIInv, HandsInv, MsgId
  <2>2. handed' \in [MsgId -> Nat]
    BY <1>0, <1>12, <2>1 DEF MessageIn
  <2>3. m_offline_task' \in Seq([id : MsgId, finish : BOOLEAN])
    <3> HIDE DEF CloudTypeOK
    <3>0. m_offline_task \in Seq([id : MsgId, finish : BOOLEAN])
      BY <1>0 DEF CloudTypeOK
    <3>1. [id |-> q_msg, finish |-> FALSE] \in [id : MsgId, finish : BOOLEAN]
      BY <2>1
    <3>2. m_offline_task' = Append(m_offline_task, [id |-> q_msg, finish |-> FALSE])
          \/ m_offline_task' = m_offline_task
      BY <1>12 DEF MessageIn
    <3>3. Append(m_offline_task, [id |-> q_msg, finish |-> FALSE])
            \in Seq([id : MsgId, finish : BOOLEAN])
      BY <3>0, <3>1, Listed, Zenon
    <3> QED BY <3>0, <3>2, <3>3, Zenon
  <2>4. isOffline' \in BOOLEAN
    BY <1>12, Zenon DEF MessageIn
  <2> QED BY <1>0, <1>12, <2>2, <2>3, <2>4 DEF MessageIn, broker, rState
<1>13. CASE Q_leaves
  BY <1>0, <1>13 DEF Q_leaves, broker, rState, fates, offline, remote
<1>14. CASE ThreadQuit
  BY <1>0, <1>14 DEF ThreadQuit, broker, fates, offline, remote
<1>15. CASE tasklink_handler
  <2>1. passed' \subseteq MsgId /\ m_offline_task' \in Seq([id : MsgId, finish : BOOLEAN])
    <3> DEFINE k == IF m_offline_task[1].finish THEN 2 ELSE 1
    <3>1. /\ k \in DOMAIN m_offline_task /\ passed' = passed \cup {m_offline_task[k].id}
          /\ m_offline_task' \in Seq([id : MsgId, finish : BOOLEAN])
      BY <1>15, Passing
    <3>2. m_offline_task[k] \in [id : MsgId, finish : BOOLEAN]
      <4>1. m_offline_task \in Seq([id : MsgId, finish : BOOLEAN])
        BY <1>0
      <4> HIDE DEF CloudTypeOK, k
      <4> QED BY <3>1, <4>1, Listed, Zenon
    <3> QED BY <1>0, <3>1, <3>2
  <2> QED BY <1>0, <1>15, <2>1 DEF tasklink_handler, broker, rState, qState, fates, remote
<1>16. CASE RPC_handler
  BY <1>0, <1>16 DEF RPC_handler, broker, rState, qState, fates, offline
<1>17. CASE UNCHANGED cloudVars
  BY <1>0, <1>17 DEF cloudVars
<1> QED
  BY <1>1, <1>3, <1>4, <1>5, <1>6, <1>7, <1>8, <1>9, <1>10, <1>11, <1>12, <1>13, <1>14, <1>15, <1>16,
     <1>17 DEF CloudNext, R_next, Q_next

-------------------------------------------------------------------------------
\* What the steps do to the messages at the broker.
LEMMA RequeuedKeeps ==
  ASSUME CloudTypeOK, Requeued
  PROVE  Pending' = Pending /\ unacked' = <<>> /\ alive' = FALSE
<1>1. Pending \in Seq(MsgId)
  BY BrokerHas DEF CloudTypeOK, Pending
<1>2. mq_queue' = Pending /\ unacked' = <<>> /\ alive' = FALSE
  BY DEF Requeued, Pending
<1>3. Pending' = <<>> \o mq_queue'
  BY <1>2 DEF Pending
<1> QED BY <1>1, <1>2, <1>3, ConcatEmptySeq

LEMMA PublishAdds ==
  ASSUME NEW q \in Seq(MsgId), NEW u \in Seq(MsgId), NEW n \in MsgId
  PROVE  u \o Append(q, n) = Append(u \o q, n)
<1>1. q \o <<n>> = Append(q, n) /\ (u \o q) \o <<n>> = Append(u \o q, n)
  BY ConcatProperties, AppendIsConcat
<1>2. <<n>> \in Seq(MsgId)
  OBVIOUS
<1> QED BY <1>1, <1>2, ConcatAssociative

\* A step that leaves the broker its messages, and hands none over.
LEMMA TakenStays ==
  ASSUME CloudTypeOK, CloudTypeOK', TakenOnce, UNCHANGED <<kinds, handed>>, Pending' = Pending,
         resent \subseteq resent', crash_lost \subseteq crash_lost',
         q_at = "acked" => q_msg \in crash_lost' \/ (q_at' = "acked" /\ q_msg' = q_msg)
  PROVE  TakenOnce'
<1>1. AtBroker' = AtBroker
  BY DEF AtBroker
<1> QED BY <1>1, TakenMeans, TakenMeans_

LEMMA BrokerStays ==
  ASSUME BrokerInv, UNCHANGED <<kinds, handed>>, Pending' = Pending
  PROVE  BrokerInv' /\ AtBroker' = AtBroker
  BY DEF BrokerInv, AtBroker

\* What is at the head of the queue is older than the rest.
LEMMA HeadIsOldest ==
  ASSUME CloudTypeOK, BrokerInv, Pending # <<>>
  PROVE  /\ Pending[1] \in AtBroker /\ Pending[1] \in DOMAIN kinds
         /\ \A m \in AtBroker : Pending[1] <= m
<1>1. Pending \in Seq(MsgId)
  BY BrokerHas DEF CloudTypeOK, Pending
<1>2. 1 \in DOMAIN Pending
  BY <1>1
<1>3. ASSUME NEW i \in DOMAIN Pending PROVE Pending[1] <= Pending[i]
  <2>1. Pending[1] \in Nat /\ i \in 1..Len(Pending)
    <3>1. Pending[1] \in MsgId
      BY <1>1, <1>2
    <3> QED BY <1>1, <3>1 DEF MsgId
  <2>2. CASE i = 1
    BY <2>1, <2>2
  <2>3. CASE i # 1
    <3>1. Pending[1] < Pending[i]
      BY <1>2, <1>3, <2>1, <2>3 DEF BrokerInv
    <3>2. Pending[i] \in Nat
      <4>1. Pending[i] \in MsgId
        BY <1>1
      <4> QED BY <4>1 DEF MsgId
    <3> QED BY <2>1, <3>1, <3>2
  <2> QED BY <2>2, <2>3
<1> QED BY <1>2, <1>3 DEF AtBroker, SetOf, BrokerInv

LEMMA PublishKeeps ==
  ASSUME CloudIInv, CloudTypeOK', NEW kind \in {"task", "offline", "request"}, publish(kind)
  PROVE  BrokerInv' /\ HandsInv' /\ TakenOnce' /\ AtBroker' = AtBroker \cup {Len(kinds) + 1}
         /\ DOMAIN kinds = 1..Len(kinds)
<1> DEFINE n == Len(kinds) + 1
<1>0. CloudTypeOK /\ n \in MsgId /\ n \in Nat
  <2>1. CloudTypeOK /\ kinds \in Seq({"task", "offline", "request"}) /\ Len(kinds) < MaxPublished
    BY DEF CloudIInv, CloudTypeOK, publish
  <2>2. Len(kinds) \in Nat
    BY <2>1, LenProperties
  <2> QED BY <2>1, <2>2, CloudAssumption DEF MsgId
<1>1. Pending \in Seq(MsgId) /\ Pending' = Append(Pending, n)
  <2>1. unacked \in Seq(MsgId) /\ mq_queue \in Seq(MsgId)
    BY <1>0 DEF CloudTypeOK
  <2>2. unacked' = unacked /\ mq_queue' = Append(mq_queue, n)
    BY DEF publish
  <2> HIDE DEF n
  <2>3. Pending' = Append(Pending, n)
    BY <1>0, <2>1, <2>2, PublishAdds DEF Pending
  <2> QED BY <2>1, <2>3, BrokerHas DEF Pending
<1>2. /\ kinds' = Append(kinds, kind) /\ DOMAIN kinds = 1..Len(kinds) /\ Len(kinds) \in Nat
      /\ DOMAIN kinds' = 1..n /\ n \notin DOMAIN kinds /\ DOMAIN kinds \subseteq DOMAIN kinds'
      /\ \A i \in DOMAIN kinds' : i \in DOMAIN kinds \/ i = n
  <2>1. kinds \in Seq({"task", "offline", "request"}) /\ kinds' = Append(kinds, kind)
    BY <1>0 DEF publish, CloudTypeOK
  <2>2. /\ DOMAIN kinds = 1..Len(kinds) /\ Len(kinds) \in Nat
        /\ DOMAIN kinds' = 1..(Len(kinds) + 1)
    BY <2>1
  <2> QED BY <2>1, <2>2
<1>3. UNCHANGED <<unacked, alive, q_at, q_msg, handed, resent, crash_lost>>
  BY DEF publish, qState, fates
<1>4. AtBroker' = AtBroker \cup {n}
  <2>1. /\ DOMAIN Pending' = 1..(Len(Pending) + 1) /\ DOMAIN Pending = 1..Len(Pending)
        /\ Len(Pending) \in Nat
        /\ \A i \in DOMAIN Pending' : Pending'[i] = IF i \in DOMAIN Pending THEN Pending[i] ELSE n
    BY <1>1
  <2>2. Len(Pending) + 1 \in DOMAIN Pending' /\ Len(Pending) + 1 \notin DOMAIN Pending
        /\ DOMAIN Pending \subseteq DOMAIN Pending'
    BY <2>1
  <2> HIDE DEF n
  <2>3. n \in AtBroker'
    BY <2>1, <2>2 DEF AtBroker, SetOf
  <2> QED BY <2>1, <2>2, <2>3 DEF AtBroker, SetOf
<1>5. AtBroker \subseteq DOMAIN kinds
  BY DEF CloudIInv, BrokerInv
<1>6. BrokerInv'
  <2>1. AtBroker' \subseteq DOMAIN kinds'
    BY <1>2, <1>4, <1>5
  <2>2. ASSUME NEW i \in DOMAIN Pending', NEW j \in DOMAIN Pending', i < j
        PROVE  Pending'[i] < Pending'[j]
    <3>1. /\ i \in DOMAIN Pending /\ Pending'[i] = Pending[i] /\ Pending[i] \in AtBroker
          /\ Pending[i] \in 1..Len(kinds)
      <4>1. i \in DOMAIN Pending
        BY <1>1, <2>2
      <4>2. Pending'[i] = Pending[i]
        BY <1>1, <4>1
      <4> QED BY <1>2, <1>5, <4>1, <4>2 DEF AtBroker, SetOf
    <3>2. CASE j \in DOMAIN Pending
      <4>1. Pending'[j] = Pending[j]
        BY <1>1, <3>2
      <4> QED BY <2>2, <3>1, <3>2, <4>1 DEF CloudIInv, BrokerInv
    <3>3. CASE j \notin DOMAIN Pending
      <4>1. Pending'[j] = n
        BY <1>1, <3>3
      <4> QED BY <1>2, <3>1, <4>1
    <3> QED BY <3>2, <3>3
  <2>3. \A m \in MsgId : handed'[m] > 0 => m \in DOMAIN kinds'
    BY <1>2, <1>3 DEF CloudIInv, BrokerInv
  <2> QED BY <2>1, <2>2, <2>3 DEF BrokerInv
<1>7. HandsInv'
  <2>1. q_at = "ack" => Pending' # <<>> /\ Pending'[1] = q_msg
    BY <1>1 DEF CloudIInv, HandsInv
  <2>2. q_at = "acked" => q_msg <= n /\ q_msg # n
    BY <1>2 DEF CloudIInv, HandsInv
  <2> HIDE DEF n
  <2> QED BY <1>2, <1>3, <1>4, <2>1, <2>2 DEF CloudIInv, HandsInv
<1>8. TakenOnce'
  <2>1. ~(handed[n] > 0) /\ ~(handed[n] > 1)
    <3>1. ~(handed[n] > 0)
      BY <1>0, <1>2 DEF CloudIInv, BrokerInv
    <3>2. handed[n] \in Nat
      BY <1>0 DEF CloudTypeOK
    <3> QED BY <3>1, <3>2
  <2> HIDE DEF n
  <2> QED BY <1>0, <1>2, <1>3, <1>4, <2>1, TakenMeans, TakenMeans_ DEF CloudIInv
<1> QED BY <1>2, <1>4, <1>6, <1>7, <1>8

LEMMA MessageInKeeps ==
  ASSUME CloudIInv, CloudTypeOK', MessageIn
  PROVE  BrokerInv' /\ HandsInv' /\ TakenOnce' /\ AtBroker' = AtBroker
<1>0. CloudTypeOK /\ BrokerInv /\ HandsInv /\ TakenOnce
  BY DEF CloudIInv
<1>1. /\ UNCHANGED <<kinds, resent, crash_lost>> /\ Pending' = Pending
      /\ q_at = "acked" /\ q_at' = "consume"
      /\ handed' = [handed EXCEPT ![q_msg] = @ + 1]
  BY DEF MessageIn, broker, Pending
<1>2. /\ q_msg \in DOMAIN kinds /\ q_msg \in MsgId /\ AtBroker' = AtBroker
      /\ handed[q_msg] > 0 \/ q_msg \in AtBroker => q_msg \in resent
  BY <1>0, <1>1 DEF HandsInv, CloudTypeOK, MsgId, AtBroker
<1>3. /\ \A m \in MsgId : m # q_msg => handed'[m] = handed[m]
      /\ handed'[q_msg] = handed[q_msg] + 1 /\ handed[q_msg] \in Nat
  BY <1>0, <1>1, <1>2 DEF CloudTypeOK
<1>4. BrokerInv'
  BY <1>0, <1>1, <1>2, <1>3 DEF BrokerInv
<1>5. HandsInv'
  BY <1>1 DEF HandsInv
<1>6. TakenOnce'
  <2>1. ASSUME NEW i \in DOMAIN kinds
        PROVE  /\ i \notin AtBroker => handed'[i] > 0 \/ i \in crash_lost
               /\ handed'[i] > 1 => i \in resent
               /\ handed'[i] > 0 /\ i \in AtBroker => i \in resent
    <3>1. CASE i = q_msg
      BY <1>2, <1>3, <3>1
    <3>2. CASE i # q_msg
      <4>1. i \in MsgId
        <5>1. kinds \in Seq({"task", "offline", "request"}) /\ Len(kinds) <= MaxPublished
          BY <1>0 DEF CloudTypeOK
        <5>2. DOMAIN kinds = 1..Len(kinds) /\ Len(kinds) \in Nat
          BY <5>1, LenProperties
        <5> QED BY <5>1, <5>2, CloudAssumption DEF MsgId
      <4>2. handed'[i] = handed[i]
        BY <1>3, <3>2, <4>1
      <4> QED BY <1>0, <3>2, <4>2, TakenMeans
    <3> QED BY <3>1, <3>2
  <2> QED BY <1>1, <1>2, <2>1, TakenMeans_
<1> QED BY <1>2, <1>4, <1>5, <1>6

LEMMA AckKeeps ==
  ASSUME CloudIInv, CloudTypeOK', Q_ack
  PROVE  BrokerInv' /\ HandsInv' /\ TakenOnce' /\ AtBroker' \subseteq AtBroker
         /\ q_msg \in AtBroker
<1>0. CloudTypeOK /\ BrokerInv /\ HandsInv /\ TakenOnce
  BY DEF CloudIInv
<1>1. /\ q_at = "ack" /\ UNCHANGED <<kinds, mq_queue, alive, q_msg, handed, crash_lost>>
      /\ Pending # <<>> /\ Pending[1] = q_msg
  BY <1>0 DEF Q_ack, HandsInv
<1>2. /\ q_msg \in AtBroker /\ q_msg \in DOMAIN kinds /\ q_msg \in MsgId
      /\ \A m \in AtBroker : q_msg <= m
      /\ handed[q_msg] > 0 => q_msg \in resent
  <2>1. q_msg \in AtBroker /\ q_msg \in DOMAIN kinds /\ \A m \in AtBroker : q_msg <= m
    BY <1>0, <1>1, HeadIsOldest
  <2>2. q_msg \in MsgId
    BY <1>0, <2>1, BrokerHas DEF AtBroker, Pending, CloudTypeOK
  <2> QED BY <1>0, <2>1, <2>2, TakenMeans
<1>3. CASE /\ alive /\ unacked' = <<>> /\ q_at' = "acked" /\ resent' = resent
  <2>1. /\ unacked = <<q_msg>> /\ mq_queue \in Seq(MsgId) /\ Pending = <<q_msg>> \o mq_queue
        /\ Pending' = mq_queue
    <3>1. unacked = <<q_msg>> /\ mq_queue \in Seq(MsgId)
      BY <1>0, <1>1, <1>3 DEF HandsInv, CloudTypeOK
    <3>2. Pending' = <<>> \o mq_queue /\ Pending = unacked \o mq_queue
      BY <1>1, <1>3 DEF Pending
    <3>3. <<>> \o mq_queue = mq_queue
      BY <3>1, ConcatEmptySeq
    <3> QED BY <3>1, <3>2, <3>3
  <2>2. /\ Len(Pending) = Len(Pending') + 1 /\ Len(Pending') \in Nat
        /\ \A i \in 1..Len(Pending') : Pending'[i] = Pending[i + 1]
        /\ Pending \in Seq(MsgId) /\ Pending' \in Seq(MsgId)
    <3>1. <<q_msg>> \in Seq(MsgId) /\ Len(<<q_msg>>) = 1
      BY <1>2
    <3> QED BY <2>1, <3>1, ConcatProperties
  <2>3. ASSUME NEW i \in DOMAIN Pending'
        PROVE  /\ i + 1 \in DOMAIN Pending /\ i \in Nat /\ Pending'[i] = Pending[i + 1]
               /\ q_msg < Pending'[i]
    <3>1. i \in 1..Len(Pending') /\ i + 1 \in 1..Len(Pending) /\ 1 \in DOMAIN Pending
      BY <2>2, <2>3
    <3>2. Pending'[i] = Pending[i + 1]
      BY <2>2, <3>1
    <3>3. \A k \in DOMAIN Pending : 1 < k => q_msg < Pending[k]
      BY <1>0, <1>1, <3>1 DEF BrokerInv
    <3> QED BY <2>2, <3>1, <3>2, <3>3
  <2>4. AtBroker' \subseteq AtBroker /\ q_msg \notin AtBroker'
    <3>1. AtBroker' \subseteq AtBroker
      <4> SUFFICES ASSUME NEW i \in DOMAIN Pending' PROVE Pending'[i] \in AtBroker
        BY DEF AtBroker, SetOf
      <4> QED BY <2>3 DEF AtBroker, SetOf
    <3>2. \A i \in DOMAIN Pending' : Pending'[i] # q_msg
      <4>1. q_msg \in Nat
        BY <1>2 DEF MsgId
      <4> QED BY <2>3, <4>1
    <3> QED BY <3>1, <3>2 DEF AtBroker, SetOf
  <2>5. \A m \in AtBroker : m = q_msg \/ m \in AtBroker'
    <3> SUFFICES ASSUME NEW j \in DOMAIN Pending, Pending[j] # q_msg
                 PROVE  Pending[j] \in AtBroker'
      BY DEF AtBroker, SetOf
    <3>1. j \in 1..Len(Pending) /\ j # 1
      BY <1>1, <2>2
    <3>2. PICK i \in 1..Len(Pending') : i + 1 = j
      <4>1. j - 1 \in 1..Len(Pending') /\ (j - 1) + 1 = j
        BY <2>2, <3>1
      <4> QED BY <4>1
    <3>3. i \in DOMAIN Pending' /\ Pending'[i] = Pending[j]
      BY <2>2, <3>2
    <3> QED BY <3>3 DEF AtBroker, SetOf
  <2>6. BrokerInv'
    <3>1. ASSUME NEW i \in DOMAIN Pending', NEW j \in DOMAIN Pending', i < j
          PROVE  Pending'[i] < Pending'[j]
      <4>1. i + 1 \in DOMAIN Pending /\ j + 1 \in DOMAIN Pending /\ i + 1 < j + 1
        BY <2>3, <3>1
      <4>2. Pending[i + 1] < Pending[j + 1]
        BY <1>0, <4>1 DEF BrokerInv
      <4> QED BY <2>3, <4>2
    <3> QED BY <1>0, <1>1, <2>4, <3>1 DEF BrokerInv
  <2>7. HandsInv'
    BY <1>1, <1>2, <1>3, <2>4 DEF HandsInv
  <2>8. TakenOnce'
    BY <1>0, <1>1, <1>2, <1>3, <2>4, <2>5, TakenMeans, TakenMeans_
  <2> QED BY <1>2, <2>4, <2>6, <2>7, <2>8
<1>4. CASE /\ unacked' = unacked /\ resent \subseteq resent'
           /\ q_at' = "acked" => ~alive /\ q_msg \in resent'
           /\ q_at' \in {"acked", "quits"}
  <2>1. Pending' = Pending
    BY <1>1, <1>4 DEF Pending
  <2>2. BrokerInv' /\ AtBroker' = AtBroker
    BY <1>0, <1>1, <2>1, BrokerStays
  <2>3. HandsInv'
    BY <1>0, <1>1, <1>2, <1>4, <2>2 DEF HandsInv
  <2>4. TakenOnce'
    BY <1>0, <1>1, <1>4, <2>1, TakenStays
  <2> QED BY <1>2, <2>2, <2>3, <2>4
<1> QED BY <1>3, <1>4 DEF Q_ack

\* The messages: the broker, Q, and what became of what was taken.
MessagesInv == BrokerInv /\ HandsInv /\ TakenOnce

LEMMA MessagesKept ==
  ASSUME CloudIInv, CloudTypeOK', [CloudNext]_cloudVars
  PROVE  MessagesInv'
<1> USE DEF MessagesInv
<1>0. CloudTypeOK /\ BrokerInv /\ HandsInv /\ TakenOnce /\ ConnInv
  BY DEF CloudIInv
<1>1. ASSUME UNCHANGED <<kinds, mq_queue, unacked, alive, q_at, q_msg, handed, resent, crash_lost>>
      PROVE  MessagesInv'
  <2>1. Pending' = Pending
    BY <1>1 DEF Pending
  <2>2. BrokerInv' /\ AtBroker' = AtBroker
    BY <1>0, <1>1, <2>1, BrokerStays
  <2>3. HandsInv'
    BY <1>0, <1>1, <2>1, <2>2 DEF HandsInv
  <2> QED BY <1>0, <1>1, <2>1, <2>2, <2>3, TakenStays
<1>2. ASSUME UNCHANGED <<kinds, handed>>, Pending' = Pending, resent' = resent,
             crash_lost \subseteq crash_lost', q_at' \notin {"ack", "acked"},
             q_at = "acked" => q_msg \in crash_lost'
      PROVE  MessagesInv'
  <2>1. BrokerInv' /\ TakenOnce'
    BY <1>0, <1>2, BrokerStays, TakenStays
  <2>2. HandsInv'
    BY <1>2 DEF HandsInv
  <2> QED BY <2>1, <2>2
<1>3. ASSUME NEW kind \in {"task", "offline", "request"}, publish(kind)
      PROVE  MessagesInv'
  BY <1>3, PublishKeeps
<1>4. CASE connection_breaks
  <2>1. /\ UNCHANGED <<kinds, q_at, q_msg, handed, resent, crash_lost>>
        /\ Pending' = Pending /\ unacked' = <<>> /\ alive' = FALSE
    BY <1>0, <1>4, RequeuedKeeps DEF connection_breaks, qState, fates
  <2>2. BrokerInv' /\ AtBroker' = AtBroker /\ TakenOnce'
    BY <1>0, <2>1, BrokerStays, TakenStays
  <2>3. HandsInv'
    BY <1>0, <2>1, <2>2 DEF HandsInv
  <2> QED BY <2>2, <2>3
<1>5. CASE crash
  BY <1>0, <1>2, <1>5, RequeuedKeeps DEF crash
<1>6. CASE check_connect_cloud
  <2>1. CASE UNCHANGED <<m_conn, alive, qState>>
    BY <1>1, <1>6, <2>1 DEF check_connect_cloud, qState, fates
  <2>2. CASE ~m_conn /\ q_at' = "consume"
    <3>1. q_at # "acked"
      BY <1>0, <1>6, <2>2 DEF check_connect_cloud, ConnInv, ConnectionServed
    <3> QED BY <1>2, <1>6, <2>2, <3>1 DEF check_connect_cloud, fates, Pending
  <2> QED BY <1>6, <2>1, <2>2 DEF check_connect_cloud
<1>7. CASE R_getq \/ R_exit
  BY <1>1, <1>7 DEF R_getq, R_exit, broker, fates
<1>8. CASE MQ_Exit
  BY <1>0, <1>2, <1>8, RequeuedKeeps DEF MQ_Exit, fates
<1>9. CASE \E overdue \in 0..m_map_remote, left \in 0..(m_map_remote + m_error_retry_list) :
             clean_delay(overdue, left)
  BY <1>1, <1>9 DEF clean_delay, broker, qState, fates
<1>10. CASE Q_consume
  <2>1. /\ UNCHANGED <<kinds, alive, handed, resent, crash_lost>> /\ alive /\ q_at = "consume"
        /\ q_at' = "ack" /\ q_msg' = Head(mq_queue) /\ unacked' = <<q_msg'>>
    BY <1>10 DEF Q_consume, fates
  <2>2. Pending = mq_queue /\ Pending' = mq_queue /\ mq_queue \in Seq(MsgId) /\ mq_queue # <<>>
    <3>1. mq_queue \in Seq(MsgId) /\ mq_queue # <<>> /\ unacked = <<>>
          /\ mq_queue' = Tail(mq_queue) /\ unacked' = <<Head(mq_queue)>>
      BY <1>0, <1>10 DEF CloudTypeOK, Q_consume
    <3>2. <<>> \o mq_queue = mq_queue
      BY <3>1, ConcatEmptySeq
    <3>3. <<Head(mq_queue)>> \o Tail(mq_queue) = mq_queue
      BY <3>1, ConcatProperties
    <3> QED BY <3>1, <3>2, <3>3 DEF Pending
  <2>3. BrokerInv' /\ TakenOnce'
    BY <1>0, <2>1, <2>2, BrokerStays, TakenStays
  <2>4. q_msg' = Pending[1] /\ q_msg' \in DOMAIN kinds
    BY <1>0, <2>1, <2>2, HeadIsOldest
  <2> QED BY <2>1, <2>2, <2>3, <2>4 DEF HandsInv
<1>11. CASE Q_ack
  BY <1>11, AckKeeps
<1>12. CASE MessageIn
  BY <1>12, MessageInKeeps
<1>13. CASE Q_leaves
  BY <1>2, <1>13 DEF Q_leaves, broker, fates, Pending
<1>14. CASE ThreadQuit
  BY <1>2, <1>14 DEF ThreadQuit, broker, fates, Pending
<1>15. CASE tasklink_handler \/ RPC_handler
  BY <1>1, <1>15 DEF tasklink_handler, RPC_handler, broker, qState, fates
<1>16. CASE UNCHANGED cloudVars
  BY <1>1, <1>16 DEF cloudVars
<1> QED
  BY <1>3, <1>4, <1>5, <1>6, <1>7, <1>8, <1>9, <1>10, <1>11, <1>12, <1>13, <1>14, <1>15, <1>16
     DEF CloudNext, R_next, Q_next

LEMMA ConnKept ==
  ASSUME CloudIInv, [CloudNext]_cloudVars
  PROVE  ConnInv'
<1>0. ConnInv /\ twos \in Nat
  BY DEF CloudIInv, CloudTypeOK
<1>1. ASSUME UNCHANGED <<m_conn, r_at, r_last, twos, q_at>> PROVE ConnInv'
  BY <1>0, <1>1 DEF ConnInv, ConnectionServed
<1>2. ASSUME NEW kind \in {"task", "offline", "request"}, publish(kind) PROVE ConnInv'
  BY <1>1, <1>2 DEF publish, rState, qState
<1>3. CASE connection_breaks
  BY <1>1, <1>3 DEF connection_breaks, rState, qState
<1>4. CASE crash
  BY <1>4 DEF crash, ConnInv, ConnectionServed
<1>5. CASE check_connect_cloud
  BY <1>0, <1>5 DEF check_connect_cloud, qState, ConnInv, ConnectionServed
<1>6. CASE R_getq
  BY <1>0, <1>6 DEF R_getq, ConnInv, ConnectionServed
<1>7. CASE R_exit
  BY <1>0, <1>7 DEF R_exit, ConnInv, ConnectionServed
<1>8. CASE MQ_Exit
  BY <1>0, <1>8 DEF MQ_Exit, ConnInv, ConnectionServed
<1>9. CASE \E overdue \in 0..m_map_remote, left \in 0..(m_map_remote + m_error_retry_list) :
             clean_delay(overdue, left)
  BY <1>0, <1>9 DEF clean_delay, qState, ConnInv, ConnectionServed
<1>10. CASE Q_consume \/ Q_ack \/ MessageIn \/ Q_leaves
  BY <1>0, <1>10
     DEF Q_consume, Q_ack, MessageIn, Q_leaves, rState, ConnInv, ConnectionServed
<1>11. CASE ThreadQuit
  BY <1>0, <1>11 DEF ThreadQuit, ConnInv, ConnectionServed
<1>12. CASE tasklink_handler \/ RPC_handler
  BY <1>1, <1>12 DEF tasklink_handler, RPC_handler, rState, qState
<1>13. CASE UNCHANGED cloudVars
  BY <1>1, <1>13 DEF cloudVars
<1> QED
  BY <1>2, <1>3, <1>4, <1>5, <1>6, <1>7, <1>8, <1>9, <1>10, <1>11, <1>12, <1>13
     DEF CloudNext, R_next, Q_next

LEMMA RequestsStay ==
  ASSUME CloudIInv, [CloudNext]_cloudVars
  PROVE  RequestsKept'
<1>0. /\ RequestsKept /\ requests \in Nat /\ settled \in Nat /\ m_map_remote \in Nat
      /\ m_error_retry_list \in Nat
  BY DEF CloudIInv, CloudTypeOK
<1>1. CASE UNCHANGED remote
  BY <1>0, <1>1 DEF remote, RequestsKept
<1>2. CASE crash
  BY <1>2 DEF crash, RequestsKept
<1>3. CASE \E overdue \in 0..m_map_remote, left \in 0..(m_map_remote + m_error_retry_list) :
             clean_delay(overdue, left)
  BY <1>0, <1>3 DEF clean_delay, RequestsKept
<1>4. CASE MessageIn
  <2>1. settled' = settled /\ m_error_retry_list' = m_error_retry_list
    BY <1>4 DEF MessageIn
  <2>2. \/ m_map_remote' = m_map_remote + 1 /\ requests' = requests + 1
        \/ m_map_remote' = m_map_remote + 0 /\ requests' = requests + 0
    BY <1>4 DEF MessageIn
  <2> QED BY <1>0, <2>1, <2>2 DEF RequestsKept
<1>5. CASE RPC_handler
  BY <1>0, <1>5 DEF RPC_handler, RequestsKept
<1> QED
  BY <1>1, <1>2, <1>3, <1>4, <1>5
     DEF CloudNext, R_next, Q_next, cloudVars, remote, publish, connection_breaks,
         check_connect_cloud, R_getq, R_exit, MQ_Exit, Q_consume, Q_ack, Q_leaves, ThreadQuit,
         tasklink_handler

LEMMA TaskAdded ==
  ASSUME CloudIInv, CloudTypeOK', kinds' = kinds, q_at = "acked", q_at' # "acked",
         AtBroker' = AtBroker, passed' = passed,
         m_offline_task' = Append(m_offline_task, [id |-> q_msg, finish |-> FALSE])
  PROVE  TasksInv'
<1> DEFINE t == m_offline_task
           n == Len(t) + 1
<1>0. CloudTypeOK /\ HandsInv /\ TasksInv
  BY DEF CloudIInv
<1>1. /\ \A i \in DOMAIN t : i \in Nat /\ i < n /\ t'[i] = t[i] /\ t[i].id \in Nat
      /\ DOMAIN t' = DOMAIN t \cup {n} /\ n \in Nat /\ n \notin DOMAIN t
      /\ t'[n].id = q_msg /\ t'[n].finish = FALSE
  <2>1. t \in Seq([id : MsgId, finish : BOOLEAN])
    BY <1>0 DEF CloudTypeOK
  <2>2. \A i \in DOMAIN t : t[i] \in [id : MsgId, finish : BOOLEAN]
    BY <2>1, Listed, Zenon
  <2>3. \A i \in DOMAIN t : t[i].id \in Nat
    BY <2>2 DEF MsgId
  <2>4. DOMAIN t = 1..Len(t) /\ Len(t) \in Nat /\ DOMAIN t' = 1..n
    BY <2>1
  <2> QED BY <2>1, <2>3, <2>4
<1>2. /\ \A i \in DOMAIN t : t[i].id <= q_msg
      /\ \A m \in AtBroker : q_msg <= m
      /\ q_msg \in Nat
  BY <1>0 DEF HandsInv, TasksInv, CloudTypeOK
<1>3. q_msg \in passed => \A i \in DOMAIN t : t[i].id \in passed
  BY <1>0, <1>2 DEF TasksInv
<1> HIDE DEF n
<1>4. \A i, j \in DOMAIN t' : i < j => t'[i].id <= t'[j].id
  BY <1>0, <1>1, <1>2 DEF TasksInv
<1>5. \A i \in DOMAIN t' : \A m \in AtBroker' : t'[i].id <= m
  BY <1>0, <1>1, <1>2 DEF TasksInv
<1>6. n = 1 <=> t = <<>>
  <2>1. t \in Seq([id : MsgId, finish : BOOLEAN])
    BY <1>0 DEF CloudTypeOK
  <2>2. Len(<<>>) = 0 /\ (t # <<>> => Len(t) \in Nat \ {0})
    BY <2>1, EmptySeq
  <2> QED BY <2>2 DEF n
<1>7. \A i \in DOMAIN t' : t'[i].finish => i = 1
  BY <1>0, <1>1 DEF TasksInv
<1>11. \A i \in DOMAIN t' : t'[i].id \in DOMAIN kinds'
  BY <1>0, <1>1 DEF TasksInv, HandsInv
<1>8. \A i, k \in DOMAIN t' : t'[i].id \in passed /\ t'[k].id <= t'[i].id => t'[k].id \in passed
  <2> SUFFICES ASSUME NEW i \in DOMAIN t', NEW k \in DOMAIN t', t'[i].id \in passed,
                      t'[k].id <= t'[i].id
               PROVE  t'[k].id \in passed
    OBVIOUS
  <2>1. CASE i = n
    BY <1>1, <1>3, <2>1
  <2>2. CASE i # n /\ k = n
    <3>1. i \in DOMAIN t /\ t'[i] = t[i] /\ t[i].id <= q_msg /\ t'[k].id = q_msg
      BY <1>1, <1>2, <2>2
    <3>2. t[i].id = q_msg
      BY <1>1, <1>2, <3>1
    <3> QED BY <3>1, <3>2
  <2>3. CASE i # n /\ k # n
    BY <1>0, <1>1, <2>3 DEF TasksInv
  <2> QED BY <2>1, <2>2, <2>3
<1>9. \A m \in passed : \E i \in DOMAIN t' : t'[i].id = m
  BY <1>0, <1>1 DEF TasksInv
<1>10. IF t' # <<>> /\ t'[1].finish THEN t'[1].id \in passed ELSE passed = {}
  <2>1. CASE t = <<>>
    BY <1>0, <1>1, <1>6, <2>1 DEF TasksInv
  <2>2. CASE t # <<>>
    <3>1. 1 \in DOMAIN t
      BY <1>0, <2>2, SMTT(20) DEF CloudTypeOK
    <3> QED BY <1>0, <1>1, <2>2, <3>1 DEF TasksInv
  <2> QED BY <2>1, <2>2
<1> QED
  BY <1>4, <1>5, <1>7, <1>8, <1>9, <1>10, <1>11 DEF TasksInv

LEMMA TaskPassed ==
  ASSUME CloudIInv, CloudTypeOK', tasklink_handler
  PROVE  TasksInv'
<1> DEFINE t == m_offline_task
           k == IF t[1].finish THEN 2 ELSE 1
<1>0. CloudTypeOK /\ TasksInv
  BY DEF CloudIInv
<1>1. /\ 1 \in DOMAIN t /\ k \in DOMAIN t /\ passed' = passed \cup {t[k].id}
      /\ DOMAIN t' = DOMAIN t
      /\ \A i \in DOMAIN t : /\ t'[i].id = t[i].id
                             /\ t'[i].finish <=> t[i].finish \/ i = 1
  BY Passing
<1>2. AtBroker' = AtBroker /\ q_at' = q_at /\ q_msg' = q_msg /\ kinds' = kinds
  BY DEF tasklink_handler, broker, qState, AtBroker, Pending
<1>3. \A i \in DOMAIN t : i \in Nat /\ i >= 1 /\ t[i].id \in Nat
  <2>1. t \in Seq([id : MsgId, finish : BOOLEAN])
    BY <1>0 DEF CloudTypeOK
  <2>2. \A i \in DOMAIN t : t[i] \in [id : MsgId, finish : BOOLEAN]
    BY <2>1, Listed, Zenon
  <2>3. \A i \in DOMAIN t : t[i].id \in Nat
    BY <2>2 DEF MsgId
  <2> QED BY <2>1, <2>3
<1>4. ASSUME NEW i \in DOMAIN t, t[i].id <= t[k].id
      PROVE  t[i].id \in passed \/ t[i].id = t[k].id
  <2>1. CASE i >= k
    <3>1. t[k].id <= t[i].id
      BY <1>0, <1>1, <1>3, <2>1 DEF TasksInv
    <3> QED BY <1>1, <1>3, <1>4, <3>1
  <2>2. CASE i < k
    <3>1. t[1].finish /\ i = 1
      BY <1>3, <2>2
    <3>2. t # <<>>
      BY <1>1
    <3> QED BY <1>0, <3>1, <3>2 DEF TasksInv
  <2> QED BY <1>1, <1>3, <2>1, <2>2
<1> HIDE DEF k
<1>5. \A i, j \in DOMAIN t' : i < j => t'[i].id <= t'[j].id
  BY <1>0, <1>1 DEF TasksInv
<1>6. \A i \in DOMAIN t' :
        /\ \A m \in AtBroker' : t'[i].id <= m
        /\ q_at' = "acked" => t'[i].id <= q_msg'
        /\ t'[i].finish => i = 1
        /\ t'[i].id \in DOMAIN kinds'
  BY <1>0, <1>1, <1>2 DEF TasksInv
<1>7. \A i, j \in DOMAIN t' :
        t'[i].id \in passed' /\ t'[j].id <= t'[i].id => t'[j].id \in passed'
  <2> SUFFICES ASSUME NEW i \in DOMAIN t, NEW j \in DOMAIN t, t[i].id \in passed',
                      t[j].id <= t[i].id
               PROVE  t[j].id \in passed'
    BY <1>1
  <2>1. CASE t[i].id \in passed
    BY <1>0, <1>1, <2>1 DEF TasksInv
  <2>2. CASE t[i].id = t[k].id
    BY <1>1, <1>4, <2>2
  <2> QED BY <1>1, <2>1, <2>2
<1>8. \A m \in passed' : \E i \in DOMAIN t' : t'[i].id = m
  BY <1>0, <1>1 DEF TasksInv
<1>9. t'[1].finish /\ t'[1].id \in passed'
  <2>1. t'[1].finish
    BY <1>1
  <2>2. t'[1].id = t[1].id
    BY <1>1
  <2>3. CASE t[1].finish
    <3>1. t # <<>>
      BY <1>1
    <3> QED BY <1>0, <1>1, <2>2, <2>3, <3>1 DEF TasksInv
  <2>4. CASE ~t[1].finish
    BY <1>1, <2>2, <2>4 DEF k
  <2> QED BY <2>1, <2>2, <2>3, <2>4
<1>10. t' # <<>>
  BY <1>1
<1> QED BY <1>5, <1>6, <1>7, <1>8, <1>9, <1>10 DEF TasksInv

LEMMA TasksKept ==
  ASSUME CloudIInv, CloudTypeOK', [CloudNext]_cloudVars
  PROVE  TasksInv'
<1> DEFINE T == [id : MsgId, finish : BOOLEAN]
<1>0. /\ CloudTypeOK /\ BrokerInv /\ HandsInv /\ TasksInv /\ m_offline_task \in Seq(T)
  BY DEF CloudIInv, CloudTypeOK
<1>1. ASSUME UNCHANGED <<kinds, m_offline_task, passed>>, AtBroker' \subseteq AtBroker,
             q_at' = "acked" => (q_at = "acked" /\ q_msg' = q_msg) \/ q_msg' \in AtBroker
      PROVE  TasksInv'
  BY <1>0, <1>1 DEF TasksInv
<1>2. ASSUME UNCHANGED <<kinds, m_offline_task, passed>>, Pending' = Pending,
             q_at' = "acked" => q_at = "acked" /\ q_msg' = q_msg
      PROVE  TasksInv'
  BY <1>1, <1>2 DEF AtBroker
<1>3. ASSUME NEW kind \in {"task", "offline", "request"}, publish(kind) PROVE TasksInv'
  <2> DEFINE n == Len(kinds) + 1
  <2>1. /\ UNCHANGED <<m_offline_task, passed, q_at, q_msg>> /\ AtBroker' = AtBroker \cup {n}
        /\ DOMAIN kinds = 1..Len(kinds)
    BY <1>0, <1>3, PublishKeeps DEF publish, offline, qState
  <2>2. ASSUME NEW i \in DOMAIN m_offline_task PROVE m_offline_task[i].id <= n
    <3>1. m_offline_task[i].id \in 1..Len(kinds)
      BY <1>0, <2>1, <2>2 DEF TasksInv
    <3>2. Len(kinds) \in Nat
      BY <1>0 DEF CloudTypeOK
    <3> QED BY <3>1, <3>2
  <2>3. DOMAIN kinds \subseteq DOMAIN kinds'
    <3>1. kinds' = Append(kinds, kind)
      BY <1>3 DEF publish
    <3>2. kinds \in Seq({"task", "offline", "request"})
      BY <1>0 DEF CloudTypeOK
    <3>3. Len(kinds) \in Nat /\ DOMAIN kinds' = 1..(Len(kinds) + 1)
      BY <3>1, <3>2
    <3> QED BY <2>1, <3>3
  <2> HIDE DEF n
  <2> QED BY <1>0, <2>1, <2>2, <2>3 DEF TasksInv
<1>4. CASE connection_breaks
  BY <1>0, <1>2, <1>4, RequeuedKeeps DEF connection_breaks, qState, offline
<1>5. CASE crash
  BY <1>5 DEF crash, TasksInv
<1>6. CASE check_connect_cloud
  BY <1>2, <1>6 DEF check_connect_cloud, qState, offline, Pending
<1>7. CASE R_getq \/ R_exit
  BY <1>2, <1>7 DEF R_getq, R_exit, broker, offline, Pending
<1>8. CASE MQ_Exit
  BY <1>0, <1>2, <1>8, RequeuedKeeps DEF MQ_Exit, offline
<1>9. CASE \E overdue \in 0..m_map_remote, left \in 0..(m_map_remote + m_error_retry_list) :
             clean_delay(overdue, left)
  BY <1>2, <1>9 DEF clean_delay, broker, qState, offline, Pending
<1>10. CASE Q_consume
  <2>1. <<>> \o mq_queue = mq_queue /\ <<Head(mq_queue)>> \o Tail(mq_queue) = mq_queue
    BY <1>0, <1>10, ConcatEmptySeq, ConcatProperties, SMTT(30) DEF CloudTypeOK, Q_consume
  <2>2. Pending' = Pending
    BY <1>10, <2>1 DEF Q_consume, Pending
  <2> QED BY <1>2, <1>10, <2>2 DEF Q_consume, offline
<1>11. CASE Q_ack
  <2>1. AtBroker' \subseteq AtBroker /\ q_msg \in AtBroker
    BY <1>11, AckKeeps
  <2>2. UNCHANGED <<kinds, m_offline_task, passed, q_msg>>
    BY <1>11 DEF Q_ack, offline
  <2> QED BY <1>1, <2>1, <2>2
<1>12. CASE MessageIn
  <2>1. AtBroker' = AtBroker /\ q_at = "acked" /\ q_at' = "consume" /\ passed' = passed
        /\ kinds' = kinds
    BY <1>12, MessageInKeeps DEF MessageIn, broker
  <2>2. CASE m_offline_task' = m_offline_task
    BY <1>1, <2>1, <2>2
  <2>3. CASE m_offline_task' = Append(m_offline_task, [id |-> q_msg, finish |-> FALSE])
    BY <1>12, <2>1, <2>3, TaskAdded
  <2> QED BY <1>12, <2>2, <2>3 DEF MessageIn
<1>13. CASE Q_leaves
  BY <1>2, <1>13 DEF Q_leaves, broker, offline, Pending
<1>14. CASE ThreadQuit
  BY <1>2, <1>14 DEF ThreadQuit, broker, offline, Pending
<1>15. CASE tasklink_handler
  BY <1>15, TaskPassed
<1>16. CASE RPC_handler
  BY <1>2, <1>16 DEF RPC_handler, broker, qState, offline, Pending
<1>17. CASE UNCHANGED cloudVars
  BY <1>2, <1>17 DEF cloudVars, Pending
<1> QED
  BY <1>3, <1>4, <1>5, <1>6, <1>7, <1>8, <1>9, <1>10, <1>11, <1>12, <1>13, <1>14, <1>15, <1>16, <1>17
     DEF CloudNext, R_next, Q_next

LEMMA CloudInitially == CloudInit => CloudIInv
<1> SUFFICES ASSUME CloudInit PROVE CloudIInv
  OBVIOUS
<1>1. /\ kinds = <<>> /\ mq_queue = <<>> /\ unacked = <<>> /\ q_msg = 0
      /\ m_offline_task = <<>> /\ passed = {} /\ resent = {} /\ crash_lost = {}
      /\ q_at = "none" /\ r_at = "check" /\ twos = 0
      /\ m_map_remote = 0 /\ m_error_retry_list = 0 /\ requests = 0 /\ settled = 0
      /\ handed = [i \in MsgId |-> 0]
  BY DEF CloudInit
<1>2. /\ alive = FALSE /\ m_conn = FALSE /\ r_last = FALSE /\ q_exit = FALSE
      /\ isOffline = FALSE
  BY DEF CloudInit
<1>3. CloudTypeOK
  <2>1. /\ alive \in BOOLEAN /\ m_conn \in BOOLEAN /\ r_last \in BOOLEAN /\ q_exit \in BOOLEAN
        /\ isOffline \in BOOLEAN
    BY <1>2
  <2>2. /\ m_offline_task \in Seq([id : MsgId, finish : BOOLEAN])
        /\ kinds \in Seq({"task", "offline", "request"}) /\ Len(kinds) = 0
        /\ mq_queue \in Seq(MsgId) /\ unacked \in Seq(MsgId)
    BY <1>1
  <2>3. handed \in [MsgId -> Nat] /\ 0 \in 0..MaxPublished /\ 0 <= MaxPublished
    BY <1>1, CloudAssumption
  <2> QED BY <1>1, <2>1, <2>2, <2>3 DEF CloudTypeOK
<1>4. Pending = <<>>
  <2>1. <<>> \o <<>> = <<>>
    BY ConcatEmptySeq, <<>> \in Seq(Nat)
  <2> QED BY <1>1, <2>1 DEF Pending
<1>5. DOMAIN kinds = {} /\ DOMAIN Pending = {} /\ DOMAIN m_offline_task = {} /\ AtBroker = {}
  BY <1>1, <1>4 DEF AtBroker, SetOf
<1>6. BrokerInv
  BY <1>1, <1>5 DEF BrokerInv
<1>7. HandsInv /\ TasksInv /\ RequestsKept
  BY <1>1, <1>5 DEF HandsInv, TasksInv, RequestsKept
<1>8. TakenOnce
  BY <1>5 DEF TakenOnce
<1>9. ConnInv
  BY <1>1, <1>2 DEF ConnInv, ConnectionServed
<1> QED BY <1>3, <1>6, <1>7, <1>8, <1>9 DEF CloudIInv

\* What is passed on goes in the order in which it was published.
LEMMA InOrderOfPublication ==
  ASSUME CloudTypeOK, TasksInv
  PROVE  OfflineInOrder
<1> SUFFICES ASSUME NEW i \in DOMAIN m_offline_task, m_offline_task[i].id \in passed,
                    NEW j \in 1..(i - 1)
             PROVE  m_offline_task[j].id \in passed
  BY DEF OfflineInOrder
<1>1. j \in DOMAIN m_offline_task /\ j < i
  BY DEF CloudTypeOK
<1>2. m_offline_task[j].id <= m_offline_task[i].id
  BY <1>1 DEF TasksInv
<1> QED BY <1>1, <1>2 DEF TasksInv

LEMMA CloudStep == CloudIInv /\ [CloudNext]_cloudVars => CloudIInv'
<1> SUFFICES ASSUME CloudIInv, [CloudNext]_cloudVars PROVE CloudIInv'
  OBVIOUS
<1>1. CloudTypeOK'
  BY CloudTypeKept
<1>2. MessagesInv' /\ ConnInv' /\ RequestsKept' /\ TasksInv'
  BY <1>1, MessagesKept, ConnKept, RequestsStay, TasksKept
<1> QED BY <1>1, <1>2 DEF CloudIInv, MessagesInv

\* For any number of messages, broken connections and crashes: a message that the broker gave
\* away is handed over, and once unless its acknowledgement was lost; a connection is served or
\* given up; a request is in one place; and offline tasks are passed on in their order.
THEOREM CloudKept == CloudSpec => []CloudInv
<1>1. CloudIInv => CloudInv
  BY InOrderOfPublication DEF CloudIInv, CloudInv, ConnInv
<1> QED BY <1>1, CloudInitially, CloudStep, PTL DEF CloudSpec

-------------------------------------------------------------------------------
(* Recognition.                                                            *)

Recog ==
  [at : {"off", "top", "handle", "tail", "tail2"},
   message : Speaker \cup {nobody}, loop : BOOLEAN, mode : Mode,
   ctrol : 0..2, notify : 0..2, session : BOOLEAN,
   heard : {"nothing", "something", "text"}, errors : 0..MaxErrors]

Listens(m) == isr[m].at \in {"handle", "tail", "tail2"}

\* The login: nobody is registered twice, so that the counter says who is left.
EngineInv ==
  /\ {ability, logged_in, login_failed} \subseteq BOOLEAN
  /\ tts_init \subseteq Mic /\ isr_init \subseteq Mic
  /\ m_register \subseteq Mic \cup {"ability"} /\ register_cnt \in Nat
  /\ IsFiniteSet(m_register) /\ register_cnt >= Cardinality(m_register)
  /\ ~login_failed => m_register = isr_init \cup (IF ability THEN {"ability"} ELSE {})
  /\ LoginInv

\* The threads: one that listens has a session of its own and may still fail once.
ThreadInv ==
  /\ isr \in [Mic -> Recog]
  /\ media \subseteq isr_init /\ isr_init \subseteq Mic /\ forsaken \subseteq Mic
  /\ RunInv
  /\ \A m \in Mic : Listens(m) => isr[m].errors < MaxErrors /\ m \notin forsaken

\* What is asked for and stopped: two answers are awaited only where answers are mixed up.
AskInv ==
  /\ audioq \in Seq(Mic)
  /\ h_waits \in [for : {"nothing", "stop", "service"}, mic : Mic]
  /\ owed \in [Speaker -> Int] /\ mixed \in BOOLEAN
  /\ unwanted \subseteq Mic /\ late \subseteq Mic
  /\ ~mixed => Len(audioq) <= 1
  /\ StoppedInv /\ StartsInv

IsrIInv == EngineInv /\ ThreadInv /\ AskInv

(***************************************************************************)
(* The login                                                               *)
(***************************************************************************)
LEMMA Counted ==
  ASSUME EngineInv, NEW who \in SUBSET (Mic \cup {"ability"}), IsFiniteSet(who),
         Register_Init(who)
  PROVE  /\ m_register' \subseteq Mic \cup {"ability"} /\ register_cnt' \in Nat
         /\ IsFiniteSet(m_register') /\ register_cnt' >= Cardinality(m_register')
         /\ who \cap m_register = {} /\ register_cnt = Cardinality(m_register) =>
              register_cnt' = Cardinality(m_register')
         /\ (register_cnt = 0) => m_register = {}
<1>1. /\ Cardinality(who) \in Nat /\ Cardinality(m_register) \in Nat
      /\ Cardinality(who \cap m_register) \in Nat
      /\ IsFiniteSet(m_register \cup who)
      /\ Cardinality(m_register \cup who)
           = Cardinality(m_register) + Cardinality(who) - Cardinality(m_register \cap who)
      /\ Cardinality(m_register \cap who) \in Nat
  BY FS_CardinalityType, FS_Union, FS_Intersection DEF EngineInv
<1>2. who \cap m_register = {} => Cardinality(m_register \cap who) = 0
  BY FS_EmptySet
<1>3. register_cnt = 0 => m_register = {}
  BY <1>1, FS_EmptySet DEF EngineInv
<1> QED BY <1>1, <1>2, <1>3 DEF EngineInv, Register_Init

LEMMA StartEngine ==
  ASSUME EngineInv, NEW m \in Mic, start_voice_service(m)
  PROVE  EngineInv' /\ isr_init \subseteq isr_init'
<1> USE RecognitionAssumption
<1>1. CASE /\ Register_Init((IF ability THEN {} ELSE {"ability"}) \cup ({m} \ isr_init))
           /\ ability' = TRUE
           /\ tts_init' = tts_init \cup {m} /\ isr_init' = isr_init \cup {m}
           /\ logged_in' = (logged_in \/ register_cnt = 0)
           /\ UNCHANGED login_failed
  <2> DEFINE who == (IF ability THEN {} ELSE {"ability"}) \cup ({m} \ isr_init)
  <2>1. IsFiniteSet(who) /\ who \in SUBSET (Mic \cup {"ability"}) /\ "ability" \notin Mic
    <3>1. IsFiniteSet({}) /\ IsFiniteSet({"ability"}) /\ IsFiniteSet({m})
      BY FS_EmptySet, FS_Singleton
    <3>2. IsFiniteSet(IF ability THEN {} ELSE {"ability"}) /\ IsFiniteSet({m} \ isr_init)
      BY <3>1, FS_Difference
    <3> QED BY <3>2, FS_Union
  <2>2. /\ m_register' \subseteq Mic \cup {"ability"} /\ register_cnt' \in Nat
        /\ IsFiniteSet(m_register') /\ register_cnt' >= Cardinality(m_register')
        /\ who \cap m_register = {} /\ register_cnt = Cardinality(m_register) =>
             register_cnt' = Cardinality(m_register')
        /\ (register_cnt = 0) => m_register = {}
    BY <1>1, <2>1, Counted
  <2>3. m_register' = m_register \cup who
    BY <1>1 DEF Register_Init
  <2>4. /\ {ability', logged_in', login_failed'} \subseteq BOOLEAN
        /\ tts_init' \subseteq Mic /\ isr_init' \subseteq Mic
    BY <1>1 DEF EngineInv
  <2>5. isr_init' \subseteq m_register' /\ "ability" \in m_register'
    BY <1>1, <2>3 DEF EngineInv, LoginInv
  <2>6. ASSUME ~login_failed'
        PROVE  /\ m_register' = isr_init' \cup {"ability"}
               /\ register_cnt' = Cardinality(m_register')
               /\ logged_in'
    <3>1. /\ m_register = isr_init \cup (IF ability THEN {"ability"} ELSE {})
          /\ register_cnt = Cardinality(m_register) /\ (logged_in <=> m_register # {})
      BY <1>1, <2>6 DEF EngineInv, LoginInv
    <3>2. who \cap m_register = {}
      BY <2>1, <3>1 DEF EngineInv
    <3>3. m_register = {} => register_cnt = 0
      BY <3>1, FS_EmptySet
    <3> QED BY <1>1, <2>2, <2>3, <3>1, <3>2, <3>3 DEF EngineInv
  <2> QED BY <1>1, <2>2, <2>4, <2>5, <2>6 DEF EngineInv, LoginInv
<1>2. CASE /\ ~ability /\ register_cnt = 0
           /\ Register_Init({"ability"})
           /\ login_failed' = TRUE
           /\ UNCHANGED <<ability, tts_init, isr_init, logged_in>>
  <2>1. IsFiniteSet({"ability"}) /\ {"ability"} \in SUBSET (Mic \cup {"ability"})
    BY FS_Singleton
  <2>2. /\ m_register' \subseteq Mic \cup {"ability"} /\ register_cnt' \in Nat
        /\ IsFiniteSet(m_register') /\ register_cnt' >= Cardinality(m_register')
    BY <1>2, <2>1, Counted
  <2> QED BY <1>2, <2>2 DEF EngineInv, LoginInv, Register_Init
<1> QED BY <1>1, <1>2 DEF start_voice_service

LEMMA UnInitEngine ==
  ASSUME EngineInv, NEW m \in Mic, UnInit(m)
  PROVE  EngineInv'
<1> DEFINE who == ({m} \cap isr_init) \cup (IF ability THEN {"ability"} ELSE {})
           gone == who \cap m_register
<1>1. /\ m_register' = m_register \ who
      /\ register_cnt' = register_cnt - Cardinality(gone)
      /\ logged_in' = (logged_in /\ (gone = {} \/ register_cnt' # 0))
      /\ isr_init' = isr_init \ {m} /\ tts_init' = tts_init \ {m} /\ ability' = FALSE
      /\ UNCHANGED login_failed
  BY DEF UnInit, UnRegister_Uninit
<1>2. /\ IsFiniteSet(m_register \ who)
      /\ Cardinality(m_register \ who) = Cardinality(m_register) - Cardinality(gone)
      /\ Cardinality(m_register \ who) \in Nat /\ Cardinality(gone) \in Nat
      /\ Cardinality(m_register) \in Nat
  <2>1. m_register \cap who = gone
    OBVIOUS
  <2>2. IsFiniteSet(gone)
    BY <2>1, FS_Intersection DEF EngineInv
  <2>3. IsFiniteSet(m_register)
    BY DEF EngineInv
  <2>4. /\ IsFiniteSet(m_register \ who)
        /\ Cardinality(m_register \ who) = Cardinality(m_register) - Cardinality(m_register \cap who)
    BY <2>3, FS_Difference
  <2> QED BY <2>1, <2>2, <2>3, <2>4, FS_CardinalityType
<1>3. register_cnt' \in Nat /\ register_cnt' >= Cardinality(m_register')
  BY <1>1, <1>2 DEF EngineInv
<1>4. {ability', logged_in', login_failed'} \subseteq BOOLEAN
  BY <1>1 DEF EngineInv
<1>5. isr_init' \subseteq m_register'
  BY <1>1, RecognitionAssumption DEF EngineInv, LoginInv
<1>6. ASSUME ~login_failed'
      PROVE  /\ m_register' = isr_init'
             /\ register_cnt' = Cardinality(m_register')
             /\ logged_in' <=> m_register' # {}
  <2>1. /\ m_register = isr_init \cup (IF ability THEN {"ability"} ELSE {})
        /\ register_cnt = Cardinality(m_register) /\ (logged_in <=> m_register # {})
    BY <1>1, <1>6 DEF EngineInv, LoginInv
  <2>6. logged_in \in BOOLEAN /\ logged_in' \in BOOLEAN
    BY <1>4 DEF EngineInv
  <2>2. m_register' = isr_init'
    BY <1>1, <2>1, RecognitionAssumption DEF EngineInv
  <2>3. register_cnt' = Cardinality(m_register')
    BY <1>1, <1>2, <2>1
  <2>4. register_cnt' # 0 <=> m_register' # {}
    BY <1>1, <1>2, <2>3, FS_EmptySet
  <2>5. gone = {} => m_register' = m_register
    BY <1>1
  <2> QED BY <1>1, <2>1, <2>2, <2>3, <2>4, <2>5, <2>6
<1> QED BY <1>1, <1>2, <1>3, <1>4, <1>5, <1>6 DEF EngineInv, LoginInv

(***************************************************************************)
(* The threads                                                             *)
(***************************************************************************)
\* A round ends with its session closed, and counts at most one error.
LEMMA RoundEnds ==
  ASSUME NEW r \in Recog, r.errors < MaxErrors, NEW ret \in {"found", "failed", "ended"}
  PROVE  /\ Round(r, ret) \in Recog
         /\ ~Round(r, ret).session /\ Round(r, ret).at \in {"off", "top"}
         /\ Round(r, ret).message = r.message
<1> DEFINE spoken == ret = "found" /\ r.heard = "text"
           no == IF spoken THEN 0 ELSE r.notify
           er == IF ret = "failed" THEN r.errors + 1
                 ELSE IF ret = "found" /\ r.heard # "nothing" THEN 0 ELSE r.errors
           pl == IF ret = "ended" \/ (spoken /\ ~r.loop) THEN "off" ELSE "top"
<1>1. /\ r.errors \in 0..MaxErrors /\ r.errors + 1 \in 0..MaxErrors /\ 0 \in 0..MaxErrors
  BY RecognitionAssumption DEF Recog
<1>2. r.notify \in 0..2 /\ 0 \in 0..2
  BY DEF Recog
<1>3. no \in 0..2 /\ er \in 0..MaxErrors /\ pl \in {"off", "top"}
  BY <1>1, <1>2
<1>4. Round(r, ret) = [r EXCEPT !.session = FALSE, !.heard = "nothing", !.notify = no,
                                !.errors = er, !.at = pl]
  BY DEF Round
<1> HIDE DEF no, er, pl
<1> PICK se \in BOOLEAN, he \in {"nothing", "something", "text"} : ~se /\ he = "nothing"
  OBVIOUS
<1> PICK x : x = Round(r, ret)
  OBVIOUS
<1>5. x = [r EXCEPT !.session = se, !.heard = he, !.notify = no, !.errors = er, !.at = pl]
  BY <1>4
<1>6. pl \in {"off", "top", "handle", "tail", "tail2"}
  BY <1>3
<1>7. x \in Recog /\ x.session = se /\ x.at = pl /\ x.message = r.message
  BY <1>3, <1>5, <1>6 DEF Recog
<1> QED BY <1>3, <1>7

LEMMA HeardIs ==
  ASSUME NEW r \in Recog, NEW h \in Heard(r)
  PROVE  /\ h \in Recog /\ h.at = r.at /\ h.session = r.session /\ h.errors = r.errors
         /\ h.message = r.message
BY DEF Heard, Recog

\* What a step of R may do to its own record.
Goes(m, r) ==
  /\ r \in Recog /\ r.message = isr[m].message
  /\ isr' = [isr EXCEPT ![m] = r]
  /\ r.at \in {"off", "top"} =>
       \/ forsaken' = forsaken /\ (r.session <=> m \in forsaken)
       \/ forsaken' = forsaken \cup {m} /\ r.session
       \/ forsaken' = forsaken \ {m} /\ ~r.session
  /\ r.at \in {"handle", "tail", "tail2"} =>
       /\ r.session /\ r.errors < MaxErrors
       /\ m \notin forsaken' /\ forsaken' = forsaken \ {m}

LEMMA RestartGoes ==
  ASSUME ThreadInv, NEW m \in Mic, NEW ok \in BOOLEAN, isr_restart(m, ok)
  PROVE  \E r : Goes(m, r)
<1> DEFINE r == isr[m]
<1>1. r \in Recog /\ r.at = "top" /\ (r.session <=> m \in forsaken)
  BY DEF ThreadInv, RunInv, isr_restart
<1>2. CASE r.ctrol # 0
  <2> DEFINE s == [r EXCEPT !.at = "off"]
  <2>1. isr' = [isr EXCEPT ![m] = s] /\ forsaken' = forsaken
    BY <1>2 DEF isr_restart, ThreadInv
  <2>2. s \in Recog /\ s.message = r.message /\ s.at = "off" /\ s.session = r.session
    BY <1>1 DEF Recog
  <2> QED BY <1>1, <2>1, <2>2 DEF Goes
<1>3. CASE r.ctrol = 0 /\ r.errors >= MaxErrors
  <2> DEFINE s == [r EXCEPT !.at = "off", !.session = ok]
  <2>1. /\ isr' = [isr EXCEPT ![m] = s]
        /\ forsaken' = IF ok THEN forsaken \cup {m} ELSE forsaken \ {m}
    BY <1>3 DEF isr_restart, ThreadInv
  <2>2. s \in Recog /\ s.message = r.message /\ s.at = "off" /\ s.session = ok
    BY <1>1 DEF Recog
  <2> QED BY <1>1, <2>1, <2>2 DEF Goes
<1>4. CASE r.ctrol = 0 /\ ~(r.errors >= MaxErrors) /\ ok
  <2> DEFINE s == [r EXCEPT !.at = "handle", !.session = TRUE, !.heard = "nothing", !.notify = 1]
  <2>1. isr' = [isr EXCEPT ![m] = s] /\ forsaken' = forsaken \ {m}
    BY <1>4 DEF isr_restart, ThreadInv
  <2>2. /\ s \in Recog /\ s.message = r.message /\ s.at = "handle" /\ s.session
        /\ s.errors = r.errors
    <3>1. 1 \in 0..2
      OBVIOUS
    <3> QED BY <1>1, <3>1 DEF Recog
  <2>3. s.errors < MaxErrors
    BY <1>1, <1>4, <2>2, RecognitionAssumption DEF Recog
  <2> QED BY <2>1, <2>2, <2>3 DEF Goes
<1>5. CASE r.ctrol = 0 /\ ~(r.errors >= MaxErrors) /\ ~ok
  <2> DEFINE s == [r EXCEPT !.session = FALSE, !.errors = @ + 1]
  <2>1. isr' = [isr EXCEPT ![m] = s] /\ forsaken' = forsaken \ {m}
    BY <1>5 DEF isr_restart, ThreadInv
  <2>2. r.errors + 1 \in 0..MaxErrors
    BY <1>1, <1>5, RecognitionAssumption DEF Recog
  <2>3. s \in Recog /\ s.message = r.message /\ s.at = "top" /\ ~s.session
    BY <1>1, <2>2 DEF Recog
  <2> QED BY <2>1, <2>3 DEF Goes
<1> QED BY <1>2, <1>3, <1>4, <1>5

\* One that listens goes on listening or ends its round.
LEMMA RoundGoes ==
  ASSUME ThreadInv, NEW m \in Mic, Listens(m), UNCHANGED forsaken,
         NEW h \in Heard(isr[m]), NEW ret \in {"found", "failed", "ended"},
         isr' = [isr EXCEPT ![m] = Round(h, ret)]
  PROVE  \E r : Goes(m, r)
<1>1. isr[m] \in Recog /\ isr[m].errors < MaxErrors /\ m \notin forsaken
  BY DEF ThreadInv
<1>2. h \in Recog /\ h.errors < MaxErrors /\ h.message = isr[m].message
  BY <1>1, HeardIs
<1>3. /\ Round(h, ret) \in Recog /\ ~Round(h, ret).session
      /\ Round(h, ret).at \in {"off", "top"} /\ Round(h, ret).message = h.message
  BY <1>2, RoundEnds
<1> QED BY <1>1, <1>2, <1>3 DEF Goes

LEMMA ListensGoes ==
  ASSUME ThreadInv, NEW m \in Mic, Listens(m), UNCHANGED forsaken,
         NEW r \in Recog, r.at \in {"handle", "tail", "tail2"}, r.session = isr[m].session,
         r.errors = isr[m].errors, r.message = isr[m].message,
         isr' = [isr EXCEPT ![m] = r]
  PROVE  \E x : Goes(m, x)
<1>1. isr[m].session /\ isr[m].errors < MaxErrors /\ m \notin forsaken
  BY DEF ThreadInv, RunInv, Listens
<1> QED BY <1>1 DEF Goes

LEMMA HandlerGoes ==
  ASSUME ThreadInv, NEW m \in Mic, msg_handler(m)
  PROVE  \E r : Goes(m, r)
<1>1. isr[m] \in Recog /\ isr[m].at = "handle" /\ Listens(m) /\ UNCHANGED forsaken
  BY DEF ThreadInv, msg_handler, Listens
<1> PICK h \in Heard(isr[m]) :
       \/ isr' = [isr EXCEPT ![m] = Round(h, "failed")]
       \/ isr' = [isr EXCEPT ![m] = [h EXCEPT !.at = "tail"]]
       \/ isr' = [isr EXCEPT ![m] = Round(h, Result(h))]
       \/ isr' = [isr EXCEPT ![m] = h]
       \/ isr' = [isr EXCEPT ![m] = Round(h, "ended")]
  BY DEF msg_handler
<1>2. /\ h \in Recog /\ h.at = "handle" /\ h.session = isr[m].session
      /\ h.errors = isr[m].errors /\ h.message = isr[m].message
  BY <1>1, HeardIs
<1>3. CASE isr' = [isr EXCEPT ![m] = Round(h, "failed")]
  BY <1>1, <1>3, RoundGoes
<1>4. CASE isr' = [isr EXCEPT ![m] = [h EXCEPT !.at = "tail"]]
  <2> DEFINE r == [h EXCEPT !.at = "tail"]
  <2>1. /\ r \in Recog /\ r.at = "tail" /\ r.session = isr[m].session
        /\ r.errors = isr[m].errors /\ r.message = isr[m].message
    BY <1>2 DEF Recog
  <2> QED BY <1>1, <1>4, <2>1, ListensGoes
<1>5. CASE isr' = [isr EXCEPT ![m] = Round(h, Result(h))]
  <2>1. Result(h) \in {"found", "failed", "ended"}
    BY DEF Result
  <2> QED BY <1>1, <1>5, <2>1, RoundGoes
<1>6. CASE isr' = [isr EXCEPT ![m] = h]
  BY <1>1, <1>2, <1>6, ListensGoes
<1>7. CASE isr' = [isr EXCEPT ![m] = Round(h, "ended")]
  BY <1>1, <1>7, RoundGoes
<1> QED BY <1>3, <1>4, <1>5, <1>6, <1>7

LEMMA TailGoes ==
  ASSUME ThreadInv, NEW m \in Mic, get_tail_result(m)
  PROVE  \E r : Goes(m, r)
<1>1. /\ isr[m] \in Recog /\ isr[m].at \in {"tail", "tail2"} /\ Listens(m)
      /\ UNCHANGED forsaken /\ isr[m] \in Heard(isr[m])
  BY DEF ThreadInv, get_tail_result, Listens, Heard
<1> PICK h \in Heard(isr[m]) :
       \/ isr' = [isr EXCEPT ![m] = Round(isr[m], "found")]
       \/ isr' = [isr EXCEPT ![m] = Round(h, "ended")]
       \/ isr' = [isr EXCEPT ![m] = [h EXCEPT !.at = "tail2",
                                              !.notify = IF @ = 1 THEN 2 ELSE @]]
       \/ isr' = [isr EXCEPT ![m] = Round(h, Result(h))]
  BY <1>1 DEF get_tail_result
<1>2. /\ h \in Recog /\ h.session = isr[m].session
      /\ h.errors = isr[m].errors /\ h.message = isr[m].message
  BY <1>1, HeardIs
<1>3. CASE isr' = [isr EXCEPT ![m] = Round(isr[m], "found")]
  BY <1>1, <1>3, RoundGoes
<1>4. CASE isr' = [isr EXCEPT ![m] = Round(h, "ended")]
  BY <1>1, <1>4, RoundGoes
<1>5. CASE isr' = [isr EXCEPT ![m] = [h EXCEPT !.at = "tail2",
                                               !.notify = IF @ = 1 THEN 2 ELSE @]]
  <2> DEFINE r == [h EXCEPT !.at = "tail2", !.notify = IF @ = 1 THEN 2 ELSE @]
  <2>1. /\ r \in Recog /\ r.at = "tail2" /\ r.session = isr[m].session
        /\ r.errors = isr[m].errors /\ r.message = isr[m].message
    <3> DEFINE no == IF h.notify = 1 THEN 2 ELSE h.notify
    <3>1. no \in 0..2
      BY <1>2 DEF Recog
    <3>2. r = [h EXCEPT !.at = "tail2", !.notify = no]
      OBVIOUS
    <3> HIDE DEF no
    <3> QED BY <1>2, <3>1, <3>2 DEF Recog
  <2> QED BY <1>1, <1>5, <2>1, ListensGoes
<1>6. CASE isr' = [isr EXCEPT ![m] = Round(h, Result(h))]
  <2>1. Result(h) \in {"found", "failed", "ended"}
    BY DEF Result
  <2> QED BY <1>1, <1>6, <2>1, RoundGoes
<1> QED BY <1>3, <1>4, <1>5, <1>6

LEMMA RecogniserGoes ==
  ASSUME ThreadInv, NEW m \in Mic, recogniser(m)
  PROVE  /\ \E r : Goes(m, r)
         /\ Runs(m)
         /\ UNCHANGED <<engineVars, media, audioq, h_waits, switches, listens, askVars>>
<1>1. Runs(m) /\ UNCHANGED <<engineVars, media, audioq, h_waits, switches, listens, askVars>>
  BY DEF recogniser, Runs, isr_restart, msg_handler, get_tail_result
<1> QED BY <1>1, RestartGoes, HandlerGoes, TailGoes DEF recogniser

LEMMA RecogniserKeeps ==
  ASSUME IsrIInv, NEW m \in Mic, recogniser(m)
  PROVE  IsrIInv'
<1>1. ThreadInv /\ AskInv /\ EngineInv
  BY DEF IsrIInv
<1>2. /\ Runs(m)
      /\ UNCHANGED <<engineVars, media, audioq, h_waits, switches, listens, askVars>>
  BY <1>1, RecogniserGoes
<1> PICK r : Goes(m, r)
  BY <1>1, RecogniserGoes
<1>3. /\ r \in Recog /\ r.message = isr[m].message
      /\ isr' \in [Mic -> Recog] /\ isr'[m] = r
      /\ \A k \in Mic \ {m} : isr'[k] = isr[k] /\ (k \in forsaken' <=> k \in forsaken)
      /\ forsaken' \subseteq Mic
      /\ r.at \in {"off", "top", "handle", "tail", "tail2"}
  BY <1>1 DEF Goes, ThreadInv, Recog
<1>4. EngineInv'
  BY <1>1, <1>2 DEF EngineInv, engineVars, LoginInv
<1>5. RunInv'
  <2> SUFFICES ASSUME NEW k \in Mic
               PROVE  /\ Runs(k)' => k \in isr_init' /\ k \in media'
                      /\ isr'[k].session <=>
                           isr'[k].at \in {"handle", "tail", "tail2"} \/ k \in forsaken'
                      /\ media' \subseteq isr_init'
    BY DEF RunInv
  <2>1. media' \subseteq isr_init' /\ isr_init' = isr_init /\ media' = media
    BY <1>1, <1>2 DEF ThreadInv, engineVars
  <2>2. CASE k = m
    <3>1. m \in isr_init /\ m \in media
      BY <1>1, <1>2 DEF ThreadInv, RunInv
    <3>2. r.session <=> r.at \in {"handle", "tail", "tail2"} \/ m \in forsaken'
      BY <1>3 DEF Goes, Recog
    <3> QED BY <1>3, <2>1, <2>2, <3>1, <3>2
  <2>3. CASE k # m
    BY <1>1, <1>3, <2>1, <2>3 DEF ThreadInv, RunInv, Runs
  <2> QED BY <2>2, <2>3
<1>6. ThreadInv'
  <2>1. \A k \in Mic : Listens(k)' => isr'[k].errors < MaxErrors /\ k \notin forsaken'
    <3> SUFFICES ASSUME NEW k \in Mic, Listens(k)'
                 PROVE  isr'[k].errors < MaxErrors /\ k \notin forsaken'
      OBVIOUS
    <3>1. CASE k = m
      BY <1>3, <3>1 DEF Listens, Goes
    <3>2. CASE k # m
      BY <1>1, <1>3, <3>2 DEF Listens, ThreadInv
    <3> QED BY <3>1, <3>2
  <2> QED BY <1>1, <1>2, <1>3, <1>5, <2>1 DEF ThreadInv, engineVars
<1>7. \A k \in Mic : isr'[k].message = isr[k].message /\ (Runs(k)' => Runs(k))
  BY <1>2, <1>3 DEF Runs
<1>8. StoppedInv'
  BY <1>1, <1>2, <1>7 DEF AskInv, StoppedInv, askVars
<1>9. StartsInv'
  BY <1>1, <1>2, <1>7, RecognitionAssumption DEF AskInv, StartsInv, askVars
<1>10. AskInv'
  BY <1>1, <1>2, <1>8, <1>9 DEF AskInv, askVars
<1> QED BY <1>4, <1>6, <1>10 DEF IsrIInv

(***************************************************************************)
(* The thread of the module                                                *)
(***************************************************************************)
LEMMA StartServiceKeeps ==
  ASSUME IsrIInv, NEW m \in Mic, start_voice_service(m)
  PROVE  IsrIInv'
<1>1. EngineInv' /\ isr_init \subseteq isr_init' /\ isr_init' \subseteq Mic
  BY StartEngine DEF IsrIInv, EngineInv
<1>2. UNCHANGED <<media, isr, audioq, h_waits, listens, owed, mixed, unwanted, late, forsaken>>
  BY DEF start_voice_service, askVars
<1>3. ThreadInv'
  BY <1>1, <1>2 DEF IsrIInv, ThreadInv, RunInv, Runs, Listens
<1>4. AskInv'
  BY <1>2 DEF IsrIInv, AskInv, StoppedInv, StartsInv, Runs
<1> QED BY <1>1, <1>3, <1>4 DEF IsrIInv

\* Giving up a service whose recognition has ended.
LEMMA UnInitKeeps ==
  ASSUME IsrIInv, NEW m \in Mic, UnInit(m), ~Runs(m) \/ m \notin isr_init,
         h_waits = Idle \/ h_waits.mic = m,
         UNCHANGED <<isr, audioq, listens, owed, mixed, unwanted, late, forsaken>>
  PROVE  IsrIInv'
<1>1. EngineInv'
  BY UnInitEngine DEF IsrIInv
<1>2. ~Runs(m)
  BY DEF IsrIInv, ThreadInv, RunInv
<1>3. /\ isr_init' = isr_init \ {m} /\ h_waits' = Idle
      /\ media' = IF m \in isr_init THEN media \ {m} ELSE media
  BY DEF UnInit
<1>4. media' = media \ {m} /\ media' \subseteq isr_init' /\ isr_init' \subseteq Mic
  BY <1>3 DEF IsrIInv, ThreadInv
<1>5. ThreadInv'
  BY <1>2, <1>3, <1>4 DEF IsrIInv, ThreadInv, RunInv, Runs, Listens
<1>6. h_waits' \in [for : {"nothing", "stop", "service"}, mic : Mic]
  BY <1>3, RecognitionAssumption DEF Idle
<1>7. StoppedInv'
  BY <1>2, <1>3 DEF IsrIInv, AskInv, StoppedInv, Runs
<1>8. AskInv'
  BY <1>6, <1>7 DEF IsrIInv, AskInv, StartsInv, Runs
<1> QED BY <1>1, <1>5, <1>8 DEF IsrIInv

\* Telling R to end changes nothing but m_ctrol.
LEMMA CancelKeeps ==
  ASSUME ThreadInv, NEW m \in Mic, CancelISR(m)
  PROVE  /\ isr' \in [Mic -> Recog]
         /\ \A k \in Mic : /\ isr'[k].at = isr[k].at /\ isr'[k].session = isr[k].session
                           /\ isr'[k].errors = isr[k].errors
                           /\ isr'[k].message = isr[k].message
<1> DEFINE c == IF isr[m].mode = 0 THEN 1 ELSE IF isr[m].mode = 1 THEN 2 ELSE isr[m].ctrol
           r == [isr[m] EXCEPT !.ctrol = c]
<1>1. isr \in [Mic -> Recog] /\ isr[m] \in Recog
  BY DEF ThreadInv
<1>2. c \in 0..2
  BY <1>1 DEF Recog
<1>3. isr' = [isr EXCEPT ![m] = r]
  BY DEF CancelISR
<1> HIDE DEF c
<1>4. /\ r \in Recog /\ r.at = isr[m].at /\ r.session = isr[m].session
      /\ r.errors = isr[m].errors /\ r.message = isr[m].message
  BY <1>1, <1>2 DEF Recog
<1> HIDE DEF r
<1> QED BY <1>1, <1>3, <1>4

\* Cancelling, before H waits for R.
LEMMA WaitKeeps ==
  ASSUME IsrIInv, NEW m \in Mic, CancelISR(m), NEW why \in {"stop", "service"},
         h_waits = Idle, h_waits' = [for |-> why, mic |-> m],
         UNCHANGED <<engineVars, media, audioq, owed, mixed, forsaken>>,
         \/ UNCHANGED <<unwanted, late>>
         \/ unwanted' = unwanted \cup {m} /\ late' = late \ {m}
  PROVE  IsrIInv'
<1>1. /\ isr' \in [Mic -> Recog]
      /\ \A k \in Mic : /\ isr'[k].at = isr[k].at /\ isr'[k].session = isr[k].session
                        /\ isr'[k].errors = isr[k].errors /\ isr'[k].message = isr[k].message
  BY CancelKeeps DEF IsrIInv
<1>2. EngineInv'
  BY DEF IsrIInv, EngineInv, LoginInv, engineVars
<1>3. ThreadInv'
  BY <1>1 DEF IsrIInv, ThreadInv, RunInv, Runs, Listens, engineVars
<1>4. StoppedInv'
  <2>1. h_waits' # Idle /\ h_waits'.mic = m
    BY DEF Idle
  <2>2. \A k \in Mic : Runs(k)' <=> Runs(k)
    BY <1>1 DEF Runs
  <2> QED BY <2>1, <2>2 DEF IsrIInv, AskInv, StoppedInv
<1>5. StartsInv'
  BY <1>1, RecognitionAssumption DEF IsrIInv, AskInv, StartsInv
<1>6. AskInv'
  BY <1>4, <1>5 DEF IsrIInv, AskInv
<1> QED BY <1>2, <1>3, <1>6 DEF IsrIInv

LEMMA StopServiceKeeps ==
  ASSUME IsrIInv, NEW m \in Mic, stop_voice_service(m)
  PROVE  IsrIInv'
<1>1. CASE m \in isr_init /\ Runs(m)
  BY <1>1, WaitKeeps DEF stop_voice_service, askVars
<1>2. CASE ~(m \in isr_init /\ Runs(m))
  BY <1>2, UnInitKeeps DEF stop_voice_service, askVars
<1> QED BY <1>1, <1>2

LEMMA StopIsrKeeps ==
  ASSUME IsrIInv, NEW m \in Mic, stop_isr(m)
  PROVE  IsrIInv'
<1>1. CASE m \in isr_init /\ Runs(m)
  BY <1>1, WaitKeeps DEF stop_isr
<1>2. CASE ~(m \in isr_init /\ Runs(m))
  <2>1. /\ unwanted' = unwanted \cup {m} /\ late' = late \ {m}
        /\ UNCHANGED <<isr, h_waits, engineVars, media, audioq, owed, mixed, forsaken>>
    BY <1>2 DEF stop_isr
  <2>2. ~Runs(m)
    BY <1>2 DEF IsrIInv, ThreadInv, RunInv
  <2>3. EngineInv'
    BY <2>1 DEF IsrIInv, EngineInv, LoginInv, engineVars
  <2>4. ThreadInv'
    BY <2>1 DEF IsrIInv, ThreadInv, RunInv, Runs, Listens, engineVars
  <2>5. AskInv'
    BY <2>1, <2>2 DEF IsrIInv, AskInv, StoppedInv, StartsInv, Runs
  <2> QED BY <2>3, <2>4, <2>5 DEF IsrIInv
<1> QED BY <1>1, <1>2

LEMMA QuitKeeps ==
  ASSUME IsrIInv, isr_quit
  PROVE  IsrIInv'
<1>1. h_waits.mic \in Mic /\ ~Runs(h_waits.mic)
  BY DEF isr_quit, IsrIInv, AskInv
<1>2. CASE h_waits.for = "service"
  <2> PICK m \in Mic : m = h_waits.mic
    BY <1>1
  <2> QED BY <1>1, <1>2, UnInitKeeps DEF isr_quit, askVars
<1>3. CASE h_waits.for # "service"
  <2>1. /\ h_waits' = Idle
        /\ UNCHANGED <<engineVars, media, isr, audioq, owed, mixed, unwanted, late, forsaken>>
    BY <1>3 DEF isr_quit, askVars
  <2>2. EngineInv'
    BY <2>1 DEF IsrIInv, EngineInv, LoginInv, engineVars
  <2>3. ThreadInv'
    BY <2>1 DEF IsrIInv, ThreadInv, RunInv, Runs, Listens, engineVars
  <2>4. h_waits' \in [for : {"nothing", "stop", "service"}, mic : Mic]
    BY <2>1, RecognitionAssumption DEF Idle
  <2>5. StoppedInv'
    BY <1>1, <2>1 DEF IsrIInv, AskInv, StoppedInv, Runs
  <2>6. AskInv'
    BY <2>1, <2>4, <2>5 DEF IsrIInv, AskInv, StartsInv
  <2> QED BY <2>2, <2>3, <2>6 DEF IsrIInv
<1> QED BY <1>2, <1>3

LEMMA StartIsrKeeps ==
  ASSUME IsrIInv, NEW m \in Mic, NEW c \in Speaker, NEW again \in BOOLEAN, NEW mode \in Mode,
         start_isr(m, c, again, mode)
  PROVE  IsrIInv'
<1>1. UNCHANGED <<engineVars, media, h_waits, forsaken>>
  BY DEF start_isr
<1>2. EngineInv'
  BY <1>1 DEF IsrIInv, EngineInv, LoginInv, engineVars
<1>3. CASE m \notin isr_init \/ Runs(m)
  <2>1. UNCHANGED <<isr, audioq, owed, mixed, unwanted, late>>
    BY <1>3 DEF start_isr, askVars
  <2>2. ThreadInv' /\ AskInv'
    BY <1>1, <2>1 DEF IsrIInv, ThreadInv, RunInv, Runs, Listens, AskInv, StoppedInv, StartsInv,
                      engineVars
  <2> QED BY <1>2, <2>2 DEF IsrIInv
<1>4. CASE ~(m \notin isr_init \/ Runs(m))
  <2> DEFINE lo == again /\ mode # 1
             r == [isr[m] EXCEPT !.message = c, !.mode = mode, !.loop = lo]
  <2>1. /\ isr' = [isr EXCEPT ![m] = r]
        /\ audioq' = Append(audioq, m)
        /\ mixed' = (mixed \/ audioq # <<>> \/ m # MainMic)
        /\ unwanted' = unwanted \ {m} /\ late' = late \ {m}
        /\ owed' = [owed EXCEPT ![c] = @ + 1]
    BY <1>4 DEF start_isr, IsrIInv, ThreadInv
  <2>2. isr \in [Mic -> Recog] /\ isr[m] \in Recog /\ lo \in BOOLEAN
    BY DEF IsrIInv, ThreadInv
  <2> HIDE DEF lo
  <2>3. /\ r \in Recog /\ r.at = isr[m].at /\ r.session = isr[m].session
        /\ r.errors = isr[m].errors /\ r.message = c
    BY <2>2 DEF Recog
  <2> HIDE DEF r
  <2>4. /\ isr' \in [Mic -> Recog]
        /\ \A k \in Mic : /\ isr'[k].at = isr[k].at /\ isr'[k].session = isr[k].session
                          /\ isr'[k].errors = isr[k].errors
        /\ isr'[m].message = c
    BY <2>1, <2>2, <2>3
  <2>5. ThreadInv'
    BY <1>1, <2>4 DEF IsrIInv, ThreadInv, RunInv, Runs, Listens, engineVars
  <2>6. StoppedInv'
    BY <1>1, <2>1, <2>4 DEF IsrIInv, AskInv, StoppedInv, Runs
  <2>7. /\ audioq \in Seq(Mic) /\ audioq' \in Seq(Mic) /\ audioq' # <<>>
        /\ Len(audioq') = Len(audioq) + 1 /\ Len(audioq) \in Nat
        /\ audioq = <<>> => Len(audioq) = 0
    BY <2>1 DEF IsrIInv, AskInv
  <2>8. mixed \in BOOLEAN /\ mixed' \in BOOLEAN /\ owed \in [Speaker -> Int]
    BY <2>1 DEF IsrIInv, AskInv
  <2>9. StartsInv'
    <3> SUFFICES ASSUME ~mixed', NEW d \in Speaker
                 PROVE  owed'[d] = IF audioq' # <<>> /\ isr'[MainMic].message = d THEN 1 ELSE 0
      BY DEF StartsInv
    <3>1. ~mixed /\ audioq = <<>> /\ m = MainMic
      BY <2>1, <2>8
    <3>2. owed[d] = 0
      BY <3>1 DEF IsrIInv, AskInv, StartsInv
    <3> QED BY <2>1, <2>4, <2>7, <2>8, <3>1, <3>2
  <2>10. owed' \in [Speaker -> Int] /\ (~mixed' => Len(audioq') <= 1)
    <3>1. ~mixed' => audioq = <<>>
      BY <2>1, <2>8
    <3>2. owed' \in [Speaker -> Int]
      BY <2>1, <2>8
    <3> QED BY <2>7, <3>1, <3>2
  <2>11. AskInv'
    BY <1>1, <2>1, <2>6, <2>7, <2>8, <2>9, <2>10 DEF IsrIInv, AskInv
  <2> QED BY <1>2, <2>5, <2>11 DEF IsrIInv
<1> QED BY <1>3, <1>4

LEMMA AnswerKeeps ==
  ASSUME IsrIInv, NEW ok \in BOOLEAN, NEW read \in BOOLEAN, start_isr_write_status(ok, read)
  PROVE  IsrIInv'
<1> DEFINE starts == ok /\ MainMic \in isr_init /\ ~Runs(MainMic) /\ (MainMic \in media \/ read)
<1>1. /\ UNCHANGED <<engineVars, h_waits, mixed, unwanted, forsaken>> /\ h_waits = Idle
      /\ audioq # <<>> /\ audioq' = Tail(audioq) /\ MainMic \in Mic
      /\ owed' = IF isr[MainMic].message = nobody THEN owed
                 ELSE [owed EXCEPT ![isr[MainMic].message] = @ - 1]
  BY RecognitionAssumption DEF start_isr_write_status
<1>2. EngineInv'
  BY <1>1 DEF IsrIInv, EngineInv, LoginInv, engineVars
<1>3. isr \in [Mic -> Recog] /\ isr[MainMic] \in Recog
  BY <1>1 DEF IsrIInv, ThreadInv
<1>4. /\ ThreadInv' /\ StoppedInv' /\ late' \subseteq Mic
      /\ isr'[MainMic].message = isr[MainMic].message
  <2>1. CASE starts
    <3> DEFINE r == [isr[MainMic] EXCEPT !.at = "top", !.ctrol = 0, !.errors = 0]
    <3>1. /\ isr' = [isr EXCEPT ![MainMic] = r]
          /\ media' = media \cup {MainMic}
          /\ late' = late \cup ({MainMic} \cap unwanted)
      BY <1>3, <2>1 DEF start_isr_write_status
    <3>2. 0 \in 0..2 /\ 0 \in 0..MaxErrors
      BY RecognitionAssumption
    <3>3. /\ r \in Recog /\ r.at = "top" /\ r.session = isr[MainMic].session
          /\ r.message = isr[MainMic].message
      BY <1>3, <3>2 DEF Recog
    <3> HIDE DEF r
    <3>4. /\ isr' \in [Mic -> Recog] /\ isr'[MainMic] = r
          /\ \A k \in Mic \ {MainMic} : isr'[k] = isr[k]
      BY <1>1, <1>3, <3>1, <3>3
    <3>5. isr[MainMic].session <=> MainMic \in forsaken
      BY <1>1, <2>1 DEF IsrIInv, ThreadInv, RunInv, Runs
    <3>6. media' \subseteq isr_init' /\ isr_init' = isr_init /\ MainMic \in media'
      BY <1>1, <2>1, <3>1 DEF IsrIInv, ThreadInv, engineVars
    <3>7. RunInv'
      <4> SUFFICES ASSUME NEW k \in Mic
                   PROVE  /\ Runs(k)' => k \in isr_init' /\ k \in media'
                          /\ isr'[k].session <=>
                               isr'[k].at \in {"handle", "tail", "tail2"} \/ k \in forsaken'
                          /\ media' \subseteq isr_init'
        BY DEF RunInv
      <4>1. CASE k = MainMic
        BY <1>1, <3>3, <3>4, <3>5, <3>6, <4>1
      <4>2. CASE k # MainMic
        BY <1>1, <3>1, <3>4, <3>6, <4>2 DEF IsrIInv, ThreadInv, RunInv, Runs
      <4> QED BY <4>1, <4>2
    <3>8. \A k \in Mic : Listens(k)' => isr'[k].errors < MaxErrors /\ k \notin forsaken'
      BY <1>1, <3>3, <3>4 DEF IsrIInv, ThreadInv, Listens
    <3>9. ThreadInv'
      BY <1>1, <3>4, <3>6, <3>7, <3>8 DEF IsrIInv, ThreadInv
    <3>10. StoppedInv' /\ late' \subseteq Mic
      BY <1>1, <3>1, <3>4 DEF IsrIInv, AskInv, StoppedInv, Runs
    <3> QED BY <3>3, <3>4, <3>9, <3>10
  <2>2. CASE ~starts
    <3>1. UNCHANGED <<isr, media, late>>
      BY <2>2 DEF start_isr_write_status
    <3> QED BY <1>1, <3>1 DEF IsrIInv, ThreadInv, RunInv, Runs, Listens, AskInv, StoppedInv,
                              engineVars
  <2> QED BY <2>1, <2>2
<1>5. /\ audioq \in Seq(Mic) /\ audioq' \in Seq(Mic) /\ Len(audioq') = Len(audioq) - 1
      /\ Len(audioq) \in Nat /\ Len(audioq') \in Nat
  BY <1>1 DEF IsrIInv, AskInv
<1>6. owed \in [Speaker -> Int] /\ owed' \in [Speaker -> Int]
  BY <1>1, <1>3 DEF IsrIInv, AskInv, Recog
<1>7. StartsInv'
  <2> SUFFICES ASSUME ~mixed', NEW d \in Speaker
               PROVE  owed'[d] = IF audioq' # <<>> /\ isr'[MainMic].message = d THEN 1 ELSE 0
    BY DEF StartsInv
  <2>1. ~mixed /\ Len(audioq) <= 1
    BY <1>1 DEF IsrIInv, AskInv
  <2>2. audioq' = <<>>
    BY <1>5, <2>1
  <2>3. owed[d] = IF isr[MainMic].message = d THEN 1 ELSE 0
    BY <1>1, <2>1 DEF IsrIInv, AskInv, StartsInv
  <2>4. CASE isr[MainMic].message = d
    BY <1>1, <1>6, <2>2, <2>3, <2>4, RecognitionAssumption
  <2>5. CASE isr[MainMic].message # d
    BY <1>1, <1>6, <2>2, <2>3, <2>5
  <2> QED BY <2>4, <2>5
<1>8. AskInv'
  BY <1>1, <1>4, <1>5, <1>6, <1>7 DEF IsrIInv, AskInv
<1> QED BY <1>2, <1>4, <1>8 DEF IsrIInv

\* Two different things make a finite set of two.
LEMMA Pair ==
  ASSUME NEW a, NEW b, a # b PROVE IsFiniteSet({a, b}) /\ Cardinality({a, b}) = 2
<1>1. IsFiniteSet({a}) /\ Cardinality({a}) = 1
  BY FS_Singleton
<1>2. IsFiniteSet({a} \cup {b}) /\ Cardinality({a} \cup {b}) = Cardinality({a}) + 1
  <2>1. b \notin {a}
    OBVIOUS
  <2> QED BY <1>1, <2>1, FS_AddElement
<1>3. {a} \cup {b} = {a, b}
  OBVIOUS
<1>4. Cardinality({a} \cup {b}) = 2
  BY <1>1, <1>2
<1> QED BY ONLY <1>2, <1>3, <1>4

LEMMA IsrInit_IsrIInv == IsrInit => IsrIInv
<1> SUFFICES ASSUME IsrInit PROVE IsrIInv
  OBVIOUS
<1> USE RecognitionAssumption
<1> PICK resumed \in BOOLEAN :
      /\ ability = resumed /\ logged_in = resumed
      /\ tts_init = IF resumed THEN {MainMic} ELSE {}
      /\ isr_init = tts_init
      /\ m_register = IF resumed THEN {"ability", MainMic} ELSE {}
      /\ register_cnt = IF resumed THEN 2 ELSE 0
      /\ audioq = IF resumed THEN <<MainMic>> ELSE <<>>
      /\ isr = [m \in Mic |->
                  [at |-> "off", message |-> nobody, loop |-> resumed, mode |-> 0, ctrol |-> 0,
                   notify |-> 0, session |-> FALSE, heard |-> "nothing", errors |-> 0]]
      /\ media = {} /\ h_waits = Idle
      /\ owed = [c \in Speaker |-> 0]
      /\ login_failed = FALSE /\ mixed = FALSE /\ unwanted = {} /\ late = {} /\ forsaken = {}
  BY DEF IsrInit
<1>1. IsFiniteSet(m_register) /\ Cardinality(m_register) = register_cnt
  <2>1. IsFiniteSet({}) /\ Cardinality({}) = 0
    BY FS_EmptySet
  <2>2. IsFiniteSet({"ability", MainMic}) /\ Cardinality({"ability", MainMic}) = 2
    <3>1. "ability" # MainMic
      OBVIOUS
    <3> HIDE RecognitionAssumption
    <3> QED BY ONLY <3>1, Pair
  <2> QED BY <2>1, <2>2
<1>2. EngineInv
  <2>1. /\ {ability, logged_in, login_failed} \subseteq BOOLEAN
        /\ tts_init \subseteq Mic /\ isr_init \subseteq Mic
        /\ m_register \subseteq Mic \cup {"ability"} /\ register_cnt \in Nat
        /\ m_register = isr_init \cup (IF ability THEN {"ability"} ELSE {})
    OBVIOUS
  <2>2. (logged_in <=> m_register # {}) /\ (ability => "ability" \in m_register)
    OBVIOUS
  <2> QED BY <1>1, <2>1, <2>2 DEF EngineInv, LoginInv
<1>3. isr \in [Mic -> Recog]
  <2>1. 0 \in 0..2 /\ 0 \in 0..MaxErrors /\ 0 \in Mode
    BY DEF Mode
  <2> QED BY <2>1 DEF Recog
<1>4. ThreadInv
  BY <1>3 DEF ThreadInv, RunInv, Runs, Listens
<1>5. audioq \in Seq(Mic) /\ Len(audioq) <= 1
  OBVIOUS
<1>6. h_waits \in [for : {"nothing", "stop", "service"}, mic : Mic]
  BY DEF Idle
<1>7. StartsInv
  <2>1. isr[MainMic].message = nobody
    OBVIOUS
  <2> QED BY <2>1 DEF StartsInv
<1>8. /\ owed \in [Speaker -> Int] /\ mixed \in BOOLEAN
      /\ unwanted \subseteq Mic /\ late \subseteq Mic
  <2>1. mixed \in BOOLEAN
    OBVIOUS
  <2>2. unwanted \subseteq Mic /\ late \subseteq Mic
    OBVIOUS
  <2>3. owed \in [Speaker -> Int]
    OBVIOUS
  <2> QED BY <2>1, <2>2, <2>3
<1>9. StoppedInv
  BY DEF StoppedInv
<1>10. AskInv
  BY <1>5, <1>6, <1>7, <1>8, <1>9 DEF AskInv
<1> QED BY <1>2, <1>4, <1>10 DEF IsrIInv

LEMMA IsrStep == IsrIInv /\ [IsrNext]_isrVars => IsrIInv'
<1> SUFFICES ASSUME IsrIInv, [IsrNext]_isrVars PROVE IsrIInv'
  OBVIOUS
<1>1. ASSUME NEW m \in Mic, start_voice_service(m) PROVE IsrIInv'
  BY <1>1, StartServiceKeeps
<1>2. ASSUME NEW m \in Mic, stop_voice_service(m) PROVE IsrIInv'
  BY <1>2, StopServiceKeeps
<1>3. ASSUME NEW m \in Mic, NEW c \in Speaker, NEW again \in BOOLEAN, NEW mode \in Mode,
             start_isr(m, c, again, mode)
      PROVE  IsrIInv'
  BY <1>3, StartIsrKeeps
<1>4. ASSUME NEW m \in Mic, stop_isr(m) PROVE IsrIInv'
  BY <1>4, StopIsrKeeps
<1>5. ASSUME NEW m \in Mic, recogniser(m) PROVE IsrIInv'
  BY <1>5, RecogniserKeeps
<1>6. CASE isr_quit
  BY <1>6, QuitKeeps
<1>7. ASSUME NEW ok \in BOOLEAN, NEW read \in BOOLEAN, start_isr_write_status(ok, read)
      PROVE  IsrIInv'
  BY <1>7, AnswerKeeps
<1>8. CASE UNCHANGED isrVars
  BY <1>8 DEF isrVars, engineVars, askVars, IsrIInv, EngineInv, ThreadInv, AskInv, LoginInv,
              RunInv, StoppedInv, StartsInv, Runs, Listens
<1> QED BY <1>1, <1>2, <1>3, <1>4, <1>5, <1>6, <1>7, <1>8 DEF IsrNext

\* The engine is logged in exactly while somebody uses it, a recognition runs only with its
\* service, its sound and a session of its own, one that was stopped starts again only by a
\* late answer, and each start is answered once: each but for the cases that it names.
THEOREM RecognitionKept == IsrSpec => []IsrInv
<1>1. IsrIInv => IsrInv
  BY DEF IsrIInv, EngineInv, ThreadInv, AskInv, IsrInv, IsrTypeOK, Recog
<1> QED BY <1>1, IsrInit_IsrIInv, IsrStep, PTL DEF IsrSpec

-------------------------------------------------------------------------------
(* The ring through which the recognition gets its sound. *)

\* How many pieces the reader would find behind the one it holds: a ring that looks empty to
\* one who holds a piece is full.
Behind == IF listener = "holds" /\ m_media_inindex = m_media_outindex THEN CacheSize ELSE Found

\* What makes InOrder inductive: nothing is newer than the last piece recorded, and while a
\* piece is held the ones behind it are newer and in order, also when the ring is full.
RingIInv ==
  /\ RingTypeOK
  /\ InOrder
  /\ \A i \in Index : m_media_cache[i] <= stamp
  /\ hand <= stamp /\ last <= stamp
  /\ ~skewed /\ listener = "holds" =>
       /\ \A k \in 1 .. Behind - 1 : m_media_cache[Place(k)] > hand
       /\ \A j, k \in 0 .. Behind - 1 : j < k => m_media_cache[Place(j)] < m_media_cache[Place(k)]

\* The places of the pieces in the ring differ, and the first is in front.
LEMMA RingPlaces ==
  ASSUME RingTypeOK
  PROVE  /\ Found \in 0 .. CacheSize - 1
         /\ \A k \in Index : Place(k) \in Index
         /\ \A j, k \in Index : j # k => Place(j) # Place(k)
         /\ Place(0) = m_media_outindex
         /\ Found \in Index /\ Place(Found) = m_media_inindex
BY RingAssumption DEF RingTypeOK, Found, Place, Index

LEMMA AfterInIndex ==
  ASSUME NEW i \in Index
  PROVE  After(i) \in Index
BY RingAssumption DEF After, Index

LEMMA RingTypeKept == RingTypeOK /\ [RingNext]_ringVars => RingTypeOK'
<1> SUFFICES ASSUME RingTypeOK, [RingNext]_ringVars PROVE RingTypeOK'
  OBVIOUS
<1> USE RingAssumption, AfterInIndex DEF RingTypeOK
<1>1. CASE StartISR_Rec
  BY <1>1 DEF StartISR_Rec
<1>2. CASE inFlush
  BY <1>2 DEF inFlush, Index
<1>3. CASE inData
  BY <1>3 DEF inData
<1>4. CASE getHeadMedia
  BY <1>4 DEF getHeadMedia
<1>5. CASE Mediadone
  BY <1>5 DEF Mediadone
<1>6. CASE not_written
  BY <1>6 DEF not_written
<1>7. CASE recognition_ends
  BY <1>7 DEF recognition_ends
<1>8. CASE service_ends
  BY <1>8 DEF service_ends
<1>9. CASE UNCHANGED ringVars
  BY <1>9 DEF ringVars
<1> QED
  BY <1>1, <1>2, <1>3, <1>4, <1>5, <1>6, <1>7, <1>8, <1>9 DEF RingNext

\* Steps that leave the ring, its indices and what was done alone.
LEMMA RingAlone ==
  ASSUME RingIInv, RingTypeOK',
         UNCHANGED <<m_media_cache, m_media_inindex, m_media_outindex, hand, stamp, last, skewed>>,
         listener' = "holds" => listener = "holds"
  PROVE  RingIInv'
<1>1. InOrder'
  BY DEF RingIInv, InOrder, Found, Place
<1>2. QED
  BY <1>1 DEF RingIInv, Behind, Found, Place

\* A new piece is newer than all that are found, and behind them.
LEMMA RingWritten ==
  ASSUME RingIInv, RingTypeOK', inData
  PROVE  RingIInv'
<1> USE RingAssumption
<1> DEFINE at == m_media_inindex
           F == Found
<1>1. RingTypeOK
  BY DEF RingIInv
<1>2. /\ m_media_cache'[at] = stamp + 1
      /\ \A i \in Index : i # at => m_media_cache'[i] = m_media_cache[i]
      /\ stamp' = stamp + 1 /\ stamp \in Nat
  BY <1>1 DEF inData, RingTypeOK
<1>3. \A i \in Index : m_media_cache'[i] <= stamp' /\ m_media_cache[i] \in Nat
  BY <1>1, <1>2 DEF RingIInv, RingTypeOK
<1>4. \A k \in Index : Place(k)' = Place(k)
  BY DEF inData, Place
<1>5. \/ m_media_inindex' # m_media_outindex /\ Found' = F + 1
      \/ m_media_inindex' = m_media_outindex /\ Found' = 0 /\ F = CacheSize - 1
  BY <1>1 DEF inData, Found, After, RingTypeOK, Index
<1>6. /\ F \in Index /\ Place(F) = at
      /\ \A k \in Index : Place(k) \in Index
      /\ \A k \in Index : k # F => Place(k) # at
  BY <1>1, RingPlaces
<1>7. \A k \in 0 .. F - 1 : k \in Index /\ m_media_cache'[Place(k)'] = m_media_cache[Place(k)]
  BY <1>2, <1>4, <1>6 DEF Index
<1>8. \A k \in Index : k = F => m_media_cache'[Place(k)'] = stamp + 1
  BY <1>2, <1>4, <1>6
<1>9. UNCHANGED <<m_media_outindex, listener, hand, last, skewed>>
  BY DEF inData
<1>10. ASSUME ~skewed
       PROVE  /\ \A k \in 0 .. F : m_media_cache'[Place(k)'] > last
              /\ \A j, k \in 0 .. F : j < k => m_media_cache'[Place(j)'] < m_media_cache'[Place(k)']
  <2>1. /\ \A k \in 0 .. F - 1 : m_media_cache[Place(k)] > last
        /\ \A j, k \in 0 .. F - 1 : j < k => m_media_cache[Place(j)] < m_media_cache[Place(k)]
        /\ \A k \in 0 .. F - 1 : m_media_cache[Place(k)] <= stamp
        /\ last <= stamp
    BY <1>6, <1>7, <1>10 DEF RingIInv, InOrder
  <2>2. /\ F \in Nat /\ last \in Nat /\ F \in Index
        /\ \A k \in 0 .. F - 1 : m_media_cache[Place(k)] \in Nat
    <3>1. F \in Nat /\ last \in Nat /\ F \in Index
      BY <1>1, <1>6 DEF RingTypeOK, Index
    <3>2. QED
      BY <1>3, <1>6, <1>7, <3>1
  <2>3. \A k \in 0 .. F : k = F \/ k \in 0 .. F - 1
    BY <2>2
  <2>4. ASSUME NEW k \in 0 .. F
        PROVE  m_media_cache'[Place(k)'] > last
    <3>1. CASE k = F
      BY <1>2, <1>8, <2>1, <2>2, <3>1
    <3>2. CASE k \in 0 .. F - 1
      BY <1>7, <2>1, <3>2
    <3>3. QED
      BY <2>3, <3>1, <3>2
  <2>5. ASSUME NEW j \in 0 .. F, NEW k \in 0 .. F, j < k
        PROVE  m_media_cache'[Place(j)'] < m_media_cache'[Place(k)']
    <3>1. j \in 0 .. F - 1
      BY <2>2, <2>5
    <3>2. CASE k = F
      <4>1. m_media_cache'[Place(k)'] = stamp + 1
        BY <1>8, <2>2, <3>2
      <4>2. /\ m_media_cache'[Place(j)'] = m_media_cache[Place(j)]
            /\ m_media_cache[Place(j)] <= stamp /\ m_media_cache[Place(j)] \in Nat
        BY <1>7, <2>1, <2>2, <3>1
      <4>3. QED
        BY <1>2, <4>1, <4>2
    <3>3. CASE k \in 0 .. F - 1
      BY <1>7, <2>1, <2>5, <3>1, <3>3
    <3>4. QED
      BY <2>3, <3>2, <3>3
  <2>6. QED
    BY <2>4, <2>5
<1>11. InOrder'
  BY <1>1, <1>5, <1>6, <1>9, <1>10 DEF RingIInv, InOrder, Index
<1>12. ASSUME ~skewed, listener = "holds"
       PROVE  /\ \A k \in 1 .. Behind' - 1 : m_media_cache'[Place(k)'] > hand
              /\ \A j, k \in 0 .. Behind' - 1 : j < k => m_media_cache'[Place(j)'] < m_media_cache'[Place(k)']
  <2>1. Behind' = F + 1
    <3>1. CASE m_media_inindex' # m_media_outindex
      BY <1>5, <1>9, <3>1 DEF Behind
    <3>2. CASE m_media_inindex' = m_media_outindex
      <4>1. Behind' = CacheSize /\ F = CacheSize - 1
        BY <1>5, <1>9, <1>12, <3>2 DEF Behind
      <4>2. QED
        BY <4>1
    <3>3. QED
      BY <3>1, <3>2
  <2>2. \A k \in 1 .. F - 1 : m_media_cache[Place(k)] > hand
    <3>1. F = 0 \/ F = Behind
      <4>1. CASE m_media_inindex = m_media_outindex
        BY <1>1, <4>1 DEF Found, RingTypeOK, Index
      <4>2. CASE m_media_inindex # m_media_outindex
        BY <4>2 DEF Behind
      <4>3. QED
        BY <4>1, <4>2
    <3>2. QED
      BY <1>6, <1>12, <3>1 DEF RingIInv, Index
  <2>3. stamp + 1 > hand /\ F \in Nat
    BY <1>1, <1>6 DEF RingIInv, RingTypeOK, Index
  <2>4. ASSUME NEW k \in 1 .. F
        PROVE  m_media_cache'[Place(k)'] > hand
    <3>1. CASE k = F
      BY <1>6, <1>8, <2>3, <3>1
    <3>2. CASE k # F
      <4>1. k \in 1 .. F - 1 /\ k \in 0 .. F - 1
        BY <2>3, <3>2
      <4>2. QED
        BY <1>7, <2>2, <4>1
    <3>3. QED
      BY <3>1, <3>2
  <2>5. QED
    BY <1>10, <1>12, <2>1, <2>3, <2>4
<1>13. hand' <= stamp' /\ last' <= stamp'
  BY <1>1, <1>2, <1>9 DEF RingIInv, RingTypeOK
<1>14. QED
  BY <1>3, <1>9, <1>11, <1>12, <1>13 DEF RingIInv

\* The piece taken is in front, and the ring has one at least.
LEMMA RingTaken ==
  ASSUME RingIInv, RingTypeOK', getHeadMedia
  PROVE  RingIInv'
<1> USE RingAssumption
<1>1. RingTypeOK
  BY DEF RingIInv
<1>2. /\ Found' = Found /\ \A k \in Index : Place(k)' = Place(k)
      /\ Behind' = Found /\ Found >= 1
      /\ UNCHANGED <<m_media_cache, stamp, last, skewed>>
      /\ hand' = m_media_cache[Place(0)]
      /\ listener' = "holds"
  BY <1>1, RingPlaces DEF getHeadMedia, Found, Place, Behind, RingTypeOK, Index
<1>3. Found \in Index /\ 0 \in Index /\ Place(0) \in Index
  BY <1>1, RingPlaces DEF Index
<1>4. \A k \in 0 .. Found - 1 : k \in Index
  BY <1>3 DEF Index
<1>5. ~skewed => hand' > last'
  BY <1>2, <1>3 DEF RingIInv, InOrder, Index
<1>6. InOrder'
  BY <1>2, <1>4, <1>5 DEF RingIInv, InOrder
<1>7. ASSUME ~skewed
      PROVE  /\ \A k \in 1 .. Behind' - 1 : m_media_cache'[Place(k)'] > hand'
             /\ \A j, k \in 0 .. Behind' - 1 : j < k => m_media_cache'[Place(j)'] < m_media_cache'[Place(k)']
  <2>1. \A j, k \in 0 .. Found - 1 : j < k => m_media_cache[Place(j)] < m_media_cache[Place(k)]
    BY <1>7 DEF RingIInv, InOrder
  <2>2. \A k \in 1 .. Found - 1 : m_media_cache[Place(k)] > m_media_cache[Place(0)]
    <3>1. ASSUME NEW k \in 1 .. Found - 1 PROVE m_media_cache[Place(k)] > m_media_cache[Place(0)]
      <4>1. 0 \in 0 .. Found - 1 /\ k \in 0 .. Found - 1 /\ 0 < k /\ k \in Index
        BY <1>3, <1>4 DEF Index
      <4>2. m_media_cache[Place(0)] < m_media_cache[Place(k)]
        BY <2>1, <4>1
      <4>3. m_media_cache[Place(0)] \in Nat /\ m_media_cache[Place(k)] \in Nat
        BY <1>1, <1>3, <4>1, RingPlaces DEF RingTypeOK
      <4>4. QED
        BY <4>2, <4>3
    <3>2. QED
      BY <3>1
  <2>3. QED
    BY <1>2, <1>4, <2>1, <2>2, <1>3 DEF Index
<1>8. \A i \in Index : m_media_cache'[i] <= stamp'
  BY <1>2 DEF RingIInv
<1>9. hand' <= stamp' /\ last' <= stamp'
  BY <1>2, <1>3 DEF RingIInv
<1>10. QED
  BY <1>2, <1>6, <1>7, <1>8, <1>9 DEF RingIInv

\* When a piece is done, those behind it are what is found; that is a whole ring but one, if
\* the writer has come round.
LEMMA RingDone ==
  ASSUME RingIInv, RingTypeOK', Mediadone
  PROVE  RingIInv'
<1> USE RingAssumption
<1>1. RingTypeOK
  BY DEF RingIInv
<1>2. /\ listener = "holds" /\ listener' = "waits" /\ last' = hand
      /\ UNCHANGED <<m_media_cache, hand, stamp>>
  BY DEF Mediadone
<1>3. /\ Found' = Behind - 1
      /\ \A k \in 0 .. CacheSize - 2 : k + 1 \in Index /\ Place(k)' = Place(k + 1)
      /\ Behind \in 1 .. CacheSize
  BY <1>1, <1>2 DEF Mediadone, Found, Place, Behind, After, RingTypeOK, Index
<1>4. ASSUME ~skewed'
      PROVE  /\ \A k \in 0 .. Found' - 1 : m_media_cache'[Place(k)'] > last'
             /\ \A j, k \in 0 .. Found' - 1 : j < k => m_media_cache'[Place(j)'] < m_media_cache'[Place(k)']
  <2>1. CASE skewed
    <3>1. m_media_outindex' = m_media_inindex'
      BY <1>4, <2>1, Zenon DEF Mediadone
    <3>2. m_media_inindex' \in Int
      BY DEF RingTypeOK, Index
    <3>3. \A i, o \in Int : o = i => /\ i >= o /\ i - o = 0
      OBVIOUS
    <3>4. Found' = 0
      BY <3>1, <3>2, <3>3, Zenon DEF Found
    <3>5. QED
      BY <3>4
  <2>2. CASE ~skewed
    <3>1. /\ \A k \in 1 .. Behind - 1 : m_media_cache[Place(k)] > hand
          /\ \A j, k \in 0 .. Behind - 1 : j < k => m_media_cache[Place(j)] < m_media_cache[Place(k)]
      BY <1>2, <2>2 DEF RingIInv
    <3>2. \A k \in 0 .. Found' - 1 :
            k + 1 \in 1 .. Behind - 1 /\ k + 1 \in 0 .. Behind - 1 /\ Place(k)' = Place(k + 1)
      BY <1>3
    <3>3. \A j, k \in 0 .. Found' - 1 : j < k => j + 1 < k + 1
      OBVIOUS
    <3>4. QED
      BY <1>2, <3>1, <3>2, <3>3
  <2>3. QED
    BY <2>1, <2>2
<1>5. InOrder'
  BY <1>2, <1>4 DEF InOrder
<1>6. QED
  BY <1>2, <1>5 DEF RingIInv

LEMMA RingFlushed ==
  ASSUME RingIInv, RingTypeOK', inFlush
  PROVE  RingIInv'
<1>1. Found' = 0
  BY RingAssumption DEF inFlush, Found
<1>2. UNCHANGED <<m_media_cache, hand, stamp, last>>
  BY DEF inFlush
<1>3. ~(~skewed' /\ listener' = "holds")
  BY Zenon DEF inFlush
<1>4. InOrder'
  BY <1>1, <1>3 DEF InOrder
<1>5. QED
  BY <1>2, <1>3, <1>4 DEF RingIInv

\* RingIInv is inductive.
LEMMA RingKept == RingIInv /\ [RingNext]_ringVars => RingIInv'
<1> SUFFICES ASSUME RingIInv, [RingNext]_ringVars PROVE RingIInv'
  OBVIOUS
<1>1. RingTypeOK'
  BY RingTypeKept DEF RingIInv
<1>2. CASE StartISR_Rec
  BY <1>1, <1>2, RingAlone DEF StartISR_Rec
<1>3. CASE inFlush
  BY <1>1, <1>3, RingFlushed
<1>4. CASE inData
  BY <1>1, <1>4, RingWritten
<1>5. CASE getHeadMedia
  BY <1>1, <1>5, RingTaken
<1>6. CASE Mediadone
  BY <1>1, <1>6, RingDone
<1>7. CASE not_written
  BY <1>1, <1>7, RingAlone DEF not_written
<1>8. CASE recognition_ends
  BY <1>1, <1>8, RingAlone DEF recognition_ends
<1>9. CASE service_ends
  BY <1>1, <1>9, RingAlone DEF service_ends
<1>10. CASE UNCHANGED ringVars
  BY <1>1, <1>10, RingAlone DEF ringVars
<1>11. QED
  BY <1>2, <1>3, <1>4, <1>5, <1>6, <1>7, <1>8, <1>9, <1>10 DEF RingNext

\* The pieces that are missed: whole laps, and while a piece is held it is still to be done.
Laps == WholeLaps /\ (~skewed /\ listener = "holds" => unread >= 1)

\* Multiples of c.
LEMMA Multiples ==
  ASSUME NEW c \in Nat \ {0}, NEW a \in Int, a % c = 0
  PROVE  (a + c) % c = 0 /\ (a - c) % c = 0 /\ (a > 0 => a >= c)
<1> DEFINE q == a \div c
<1>1. q \in Int /\ a = q * c BY DEF q
<1>2. \A k \in Int : (k * c) % c = 0 OBVIOUS
<1>3. (q + 1) * c = a + c /\ (q - 1) * c = a - c BY <1>1
<1>4. ((q + 1) * c) % c = 0 /\ ((q - 1) * c) % c = 0 /\ q + 1 \in Int /\ q - 1 \in Int BY <1>1, <1>2
<1>5. ASSUME a > 0 PROVE a >= c
  <2>1. q \in Nat \ {0} BY <1>1, <1>5
  <2>2. \A x \in Nat \ {0} : x * c >= c OBVIOUS
  <2> QED BY <2>1, <2>2, <1>1
<1> HIDE DEF q
<1> QED BY <1>3, <1>4, <1>5

LEMMA LapsKept == RingTypeOK /\ Laps /\ [RingNext]_ringVars => Laps'
<1> SUFFICES ASSUME RingTypeOK, Laps, [RingNext]_ringVars PROVE Laps'
  OBVIOUS
<1>0. /\ CacheSize \in Nat \ {0} /\ unread \in Int /\ unread' \in Int
      /\ Found \in 0 .. CacheSize - 1 /\ Found' \in 0 .. CacheSize - 1
  <2>1. Found \in 0 .. CacheSize - 1 BY RingPlaces
  <2>2. RingTypeOK' BY RingTypeKept
  <2>3. Found' \in 0 .. CacheSize - 1
    <3>1. m_media_inindex' \in 0 .. CacheSize - 1 /\ m_media_outindex' \in 0 .. CacheSize - 1
      BY <2>2 DEF RingTypeOK, Index
    <3>2. \A i, o \in 0 .. CacheSize - 1 :
            (IF i >= o THEN i - o ELSE i - o + CacheSize) \in 0 .. CacheSize - 1
      BY RingAssumption
    <3> QED BY <3>1, <3>2 DEF Found
  <2>4. unread \in Int /\ unread' \in Int BY <2>2 DEF RingTypeOK
  <2> QED BY <2>1, <2>3, <2>4, RingAssumption
<1>1. CASE UNCHANGED <<m_media_inindex, m_media_outindex, unread, skewed>> /\ (listener' = "holds" => listener = "holds")
  <2>1. Found' = Found BY <1>1 DEF Found
  <2> QED BY <1>1, <2>1, <1>0 DEF Laps, WholeLaps
<1>2. CASE inFlush
  <2>0. ~(~skewed' /\ listener' = "holds") BY <1>2, Zenon DEF inFlush
  <2>1. Found' = 0 /\ unread' = 0 /\ (~skewed' => listener' # "holds")
    BY <1>2, <2>0, RingAssumption DEF inFlush, Found
  <2>2. 0 % CacheSize = 0 BY <1>0
  <2> QED BY <2>1, <2>2, <1>0 DEF Laps, WholeLaps
<1>3. CASE inData
  <2>1. /\ unread' = unread + 1 /\ skewed' = skewed
        /\ Found' = Found + 1 \/ (Found' = 0 /\ Found = CacheSize - 1)
    BY <1>3, RingAssumption DEF inData, Found, After, RingTypeOK, Index
  <2>2. ASSUME ~skewed PROVE (unread' - Found') % CacheSize = 0 /\ unread' >= Found' /\ unread' >= 1
    <3>1. (unread - Found) % CacheSize = 0 /\ unread >= Found BY <2>2 DEF Laps, WholeLaps
    <3>2. CASE Found' = Found + 1
      <4>1. unread' - Found' = unread - Found BY <2>1, <3>2, <1>0
      <4> QED BY <4>1, <3>1, <3>2, <2>1, <1>0
    <3>3. CASE Found' = 0 /\ Found = CacheSize - 1
      <4> DEFINE d == unread - Found
      <4>0. d \in Int /\ d % CacheSize = 0 BY <3>1, <1>0
      <4>1. unread' - Found' = d + CacheSize BY <2>1, <3>3, <1>0
      <4> HIDE DEF d
      <4>2. (d + CacheSize) % CacheSize = 0 BY <4>0, <1>0, Multiples
      <4> QED BY <4>1, <4>2, <3>1, <3>3, <2>1, <1>0
    <3> QED BY <3>2, <3>3, <2>1
  <2> QED BY <2>1, <2>2 DEF Laps, WholeLaps
<1>4. CASE getHeadMedia
  <2>1. Found' = Found /\ Found >= 1 /\ unread' = unread /\ skewed' = skewed
    BY <1>4, RingAssumption DEF getHeadMedia, Found, RingTypeOK, Index
  <2> QED BY <2>1, <1>0 DEF Laps, WholeLaps
<1>5. CASE Mediadone
  <2>1. /\ listener = "holds" /\ listener' = "waits"
        /\ skewed' = (skewed /\ m_media_outindex' # m_media_inindex)
        /\ unread' = IF skewed /\ ~skewed' THEN 0 ELSE unread - 1
    BY <1>5 DEF Mediadone
  <2>2. CASE ~skewed /\ Found # 0
    <3>1. Found' = Found - 1
      BY <1>5, <2>2, RingAssumption DEF Mediadone, Found, After, RingTypeOK, Index
    <3>2. unread' - Found' = unread - Found BY <2>1, <2>2, <3>1, <1>0
    <3> QED BY <2>1, <2>2, <3>1, <3>2, <1>0 DEF Laps, WholeLaps
  <2>3. CASE ~skewed /\ Found = 0
    <3>1. Found' = CacheSize - 1
      BY <1>5, <2>3, RingAssumption DEF Mediadone, Found, After, RingTypeOK, Index
    <3>2. unread >= 1 /\ (unread - Found) % CacheSize = 0 /\ unread - Found = unread
      BY <2>1, <2>3, <1>0 DEF Laps, WholeLaps
    <3>3. unread >= CacheSize /\ (unread - CacheSize) % CacheSize = 0
      BY <3>2, <1>0, Multiples
    <3>4. unread' - Found' = unread - CacheSize BY <2>1, <2>3, <3>1, <1>0
    <3> QED BY <2>1, <3>1, <3>3, <3>4, <1>0, <2>3 DEF Laps, WholeLaps
  <2>4. CASE skewed /\ ~skewed'
    <3>1. m_media_outindex' = m_media_inindex'
      BY <1>5, <2>4, Zenon DEF Mediadone
    <3>2. Found' = 0
      <4>1. RingTypeOK' BY RingTypeKept
      <4>2. m_media_outindex' \in Int BY <4>1 DEF RingTypeOK, Index
      <4>3. \A i \in Int : i >= i /\ i - i = 0 OBVIOUS
      <4> QED BY <3>1, <4>2, <4>3 DEF Found
    <3>3. unread' = 0 BY <2>1, <2>4
    <3>4. 0 % CacheSize = 0 BY <1>0
    <3> QED BY <2>1, <3>2, <3>3, <3>4 DEF Laps, WholeLaps
  <2>5. CASE skewed' BY <2>5, <2>1 DEF Laps, WholeLaps
  <2> QED BY <2>1, <2>2, <2>3, <2>4, <2>5
<1> QED
  BY <1>1, <1>2, <1>3, <1>4, <1>5 DEF RingNext, ringVars, StartISR_Rec, not_written, recognition_ends, service_ends

LEMMA RingInitially == RingInit => RingIInv /\ Laps
<1> SUFFICES ASSUME RingInit PROVE RingIInv /\ Laps
  OBVIOUS
<1>1. RingTypeOK /\ Found = 0 /\ \A i \in Index : m_media_cache[i] = 0
  <2>1. /\ 0 \in Index /\ m_media_inindex = 0 /\ m_media_outindex = 0
        /\ m_media_cache = [i \in Index |-> 0]
    BY RingAssumption DEF RingInit, Index
  <2>2. Found = 0
    BY <2>1 DEF Found
  <2>3. m_media_cache \in [Index -> Nat]
    BY <2>1
  <2>4. skewed \in BOOLEAN
    BY Zenon DEF RingInit
  <2>5. QED
    BY <2>1, <2>2, <2>3, <2>4 DEF RingInit, RingTypeOK
<1>2. listener = "off" /\ hand = 0 /\ last = 0 /\ stamp = 0 /\ unread = 0
  BY DEF RingInit
<1>3. InOrder
  BY <1>1, <1>2 DEF InOrder
<1>4. Laps
  <2>1. 0 % CacheSize = 0 BY RingAssumption
  <2> QED BY <1>1, <1>2, <2>1 DEF Laps, WholeLaps
<1> QED
  BY <1>1, <1>2, <1>3, <1>4 DEF RingIInv

\* For a ring of any size: unless it was emptied while a piece was held, the reader goes
\* through the sound in the order of the recording, takes no piece again, and misses whole laps
\* only (inData, getHeadMedia and Mediadone, which do not know of each other).
THEOREM SoundInOrder == RingSpec => []RingInv
<1>1. RingInit => RingIInv /\ Laps
  BY RingInitially
<1>2. RingIInv /\ Laps /\ [RingNext]_ringVars => RingIInv' /\ Laps'
  BY RingKept, LapsKept DEF RingIInv
<1>3. RingIInv /\ Laps => RingInv
  BY DEF RingIInv, Laps, RingInv
<1> QED
  BY <1>1, <1>2, <1>3, PTL DEF RingSpec

-------------------------------------------------------------------------------
(* The parts together: a behaviour of MCModuleBus is one of each part, which stutters where it does
   not move. *)

\* Where the parts run beside each other, the threads of the recognitions and the ring keep their
\* promises.
THEOREM RecognitionComposed == MCSpec => []RecognitionInv
<1>1. MCInit => IsrInit /\ RingInit
  BY DEF MCInit
<1>2. [MCNext]_<<part, vars, cloudVars, sessionVars, audioVars, isrVars, ringVars>> =>
        [IsrNext]_isrVars /\ [RingNext]_ringVars
  BY DEF MCNext, Only
<1>3. MCSpec => []IsrIInv
  BY <1>1, <1>2, IsrInit_IsrIInv, IsrStep, PTL DEF MCSpec
<1>4. MCSpec => []RingInv
  <2>1. MCSpec => RingSpec
    BY <1>1, <1>2, PTL DEF MCSpec, RingSpec
  <2> QED
    BY <2>1, SoundInOrder, PTL
<1>5. IsrIInv /\ RingInv => RecognitionInv
  BY DEF IsrIInv, EngineInv, ThreadInv, AskInv, IsrInv, IsrTypeOK, Recog, RecognitionInv
<1> QED
  BY <1>3, <1>4, <1>5, PTL

-------------------------------------------------------------------------------
(* Media.                                                                  *)

\* The cameras, also while the handler waits for threads: what runs on is read, and what is
\* read runs on or is lent.
CameraIInv ==
  /\ CameraTypeOK
  /\ stopping \subseteq streaming /\ opened \subseteq streaming
  /\ \A s \in Stream : s \in streaming \ stopping => Listened(s)
  /\ \A s \in Stream : Listened(s) => s \in (streaming \ stopping) \cup lent

\* The applications: those to come have no answers.
ApplicationInv ==
  /\ m_map_remote_apply \in 0..applies
  /\ AppliesAnsweredOnce
  /\ \A i \in 1..MaxApplies : i > applies => answers[i] = 0

NoStart == \A i \in DOMAIN to_camera : to_camera[i] = "stop"
OneStart ==
  \E i \in DOMAIN to_camera :
    /\ to_camera[i] = "start"
    /\ \A j \in DOMAIN to_camera : j # i => to_camera[j] = "stop"

\* As long as no answer was given up, one answer of the camera is to come to who waits for
\* it, and none to who does not.
OneAnswer ==
  ~given_up =>
    IF psyche_state \in CameraWaits
    THEN \/ from_camera = <<>> /\ OneStart
         \/ Len(from_camera) = 1 /\ NoStart
    ELSE from_camera = <<>> /\ NoStart

\* The service is called for one application at a time, and only over an open websocket.
ServiceCalled ==
  /\ websocket # "open" => calls = 0
  /\ ~given_up =>
       /\ calls <= 1
       /\ calls = 1 => m_map_remote_apply # 0 /\ psyche_state # "wait_camera"

Watching == psychesystem \in m_listenlist[psyche_stream]

\* Nothing follows the request of who waits for the camera, who is not in a channel, and
\* what was read before it is closed by then.  In a channel the camera is read; out of it, it
\* is closed or will be.
CameraForSession ==
  ~given_up /\ ~called_over =>
    IF psyche_state \in CameraWaits
    THEN /\ ~in_channel
         /\ from_camera = <<>> => to_camera[Len(to_camera)] = "start"
         /\ from_camera # <<>> => to_camera = <<>> /\ (Head(from_camera) = 0 => Watching)
    ELSE IF in_channel THEN to_camera = <<>> /\ Watching
                       ELSE to_camera # <<>> \/ ~Watching

ChannelInv == m_run_rtc => in_channel

SessionIInv ==
  /\ PsycheTypeOK /\ CameraIInv /\ ApplicationInv /\ OneAnswer /\ ServiceCalled
  /\ WaitsServed /\ ChannelInv /\ CameraForSession

(***************************************************************************)
(* The microphone                                                          *)
(***************************************************************************)

\* The microphone records exactly while somebody reads it (AudioManager).
LEMMA AudioStep == AudioInv /\ [AudioNext]_audioVars => AudioInv'
<1> SUFFICES ASSUME AudioInv, [AudioNext]_audioVars PROVE AudioInv'
  OBVIOUS
<1>1. CASE UNCHANGED audioVars
  BY <1>1 DEF AudioInv, audioVars
<1>2. CASE AudioNext
  <2>1. PICK r \in Listener : AUDIO_START(r) \/ AUDIO_STOP(r)
    BY <1>2 DEF AudioNext
  <2>2. CASE AUDIO_START(r)
    BY <2>2 DEF AudioInv, AUDIO_START, capture_start
  <2>3. CASE AUDIO_STOP(r)
    BY <2>3 DEF AudioInv, AUDIO_STOP, capture_stop, close_recorder
  <2> QED
    BY <2>1, <2>2, <2>3
<1> QED
  BY <1>1, <1>2

(***************************************************************************)
(* The cameras                                                             *)
(***************************************************************************)
LEMMA CameraStep ==
  ASSUME CameraIInv, [CameraNext]_cameraVars
  PROVE CameraIInv'
<1> USE DEF CameraIInv, CameraTypeOK, Listened
<1>1. CASE UNCHANGED cameraVars
  BY <1>1 DEF cameraVars
<1>2. CASE update_device
  BY <1>2 DEF update_device
<1>3. ASSUME NEW s \in Stream, NEW r \in Reader, NEW error \in {0, 1},
             START_STREAMNAME(s, r, error)
      PROVE CameraIInv'
  BY <1>3 DEF START_STREAMNAME, video_start
<1>4. ASSUME NEW s \in Stream, NEW r \in Reader, STOP_STREAMNAME(s, r)
      PROVE CameraIInv'
  BY <1>4 DEF STOP_STREAMNAME, Unread
<1>5. ASSUME NEW s \in Stream, CHANGE_USER(s) PROVE CameraIInv'
  BY <1>5 DEF CHANGE_USER
<1>6. ASSUME NEW s \in Stream, RESUME_USER(s) PROVE CameraIInv'
  BY <1>6 DEF RESUME_USER, video_start
<1>7. ASSUME NEW c \in Client, CLIENT_DISCONNECT(c) PROVE CameraIInv'
  BY <1>7 DEF CLIENT_DISCONNECT, Unread
<1>8. ASSUME NEW s \in Stream, frame_fails(s) \/ opens_again(s) \/ stream_quits(s)
      PROVE CameraIInv'
  BY <1>8 DEF frame_fails, opens_again, stream_quits
<1> QED
  BY <1>1, <1>2, <1>3, <1>4, <1>5, <1>6, <1>7, <1>8 DEF CameraNext

(***************************************************************************)
(* The applications                                                        *)
(***************************************************************************)
LEMMA Passed ==
  ASSUME PsycheTypeOK, ApplicationInv, applies < MaxApplies, m_map_remote_apply = 0,
         m_map_remote_apply' = applies + 1, applies' = applies + 1, answers' = answers
  PROVE ApplicationInv'
BY PsycheAssumption DEF PsycheTypeOK, ApplicationInv, AppliesAnsweredOnce

LEMMA ApplicationAnswered ==
  ASSUME PsycheTypeOK, ApplicationInv, applies' = applies, Reply \/ Keep
  PROVE /\ ApplicationInv'
        /\ m_map_remote_apply' \in 0..MaxApplies /\ answers' \in [1..MaxApplies -> Nat]
<1>1. CASE Keep
  BY <1>1 DEF PsycheTypeOK, ApplicationInv, AppliesAnsweredOnce, Keep
<1>2. CASE Reply
  BY <1>2, PsycheAssumption DEF PsycheTypeOK, ApplicationInv, AppliesAnsweredOnce, Reply
<1> QED
  BY <1>1, <1>2

(***************************************************************************)
(* The session                                                             *)
(***************************************************************************)
LEMMA Empty == ASSUME NEW T, NEW s \in Seq(T) PROVE (Len(s) = 0) = (s = <<>>)
OBVIOUS

LEMMA Appended ==
  ASSUME NEW T, NEW s \in Seq(T), NEW e \in T
  PROVE  /\ Append(s, e) \in Seq(T) /\ Append(s, e) # <<>>
         /\ Len(Append(s, e)) = Len(s) + 1 /\ DOMAIN Append(s, e) = 1..(Len(s) + 1)
         /\ Append(s, e)[Len(s) + 1] = e
         /\ \A i \in 1..Len(s) : Append(s, e)[i] = s[i]
         /\ Len(s) \in Nat /\ DOMAIN s = 1..Len(s) /\ (Len(s) = 0) = (s = <<>>)
OBVIOUS

LEMMA TailOf ==
  ASSUME NEW T, NEW s \in Seq(T), s # <<>>
  PROVE  /\ Tail(s) \in Seq(T) /\ Len(s) \in Nat /\ Len(s) >= 1
         /\ Len(Tail(s)) = Len(s) - 1 /\ DOMAIN Tail(s) = 1..(Len(s) - 1)
         /\ \A i \in 1..(Len(s) - 1) : Tail(s)[i] = s[i + 1]
         /\ Head(s) = s[1] /\ DOMAIN s = 1..Len(s)
         /\ (Len(s) = 1) = (Tail(s) = <<>>)
<1>1. Tail(s) \in Seq(T) /\ Len(s) \in Nat /\ Len(s) >= 1
  OBVIOUS
<1>2. Len(Tail(s)) = Len(s) - 1 /\ DOMAIN Tail(s) = 1..(Len(s) - 1) /\ DOMAIN s = 1..Len(s)
  OBVIOUS
<1>3. \A i \in 1..(Len(s) - 1) : Tail(s)[i] = s[i + 1]
  OBVIOUS
<1>4. (Len(Tail(s)) = 0) = (Tail(s) = <<>>)
  BY <1>1, Empty
<1> QED
  BY <1>1, <1>2, <1>3, <1>4

\* What a message for the video module does to the messages that wait.
LEMMA StopQueued ==
  ASSUME PsycheTypeOK, close_camera
  PROVE  /\ to_camera' \in Seq({"start", "stop"}) /\ to_camera' # <<>>
         /\ NoStart => NoStart'
         /\ OneStart => OneStart'
         /\ (\E i \in DOMAIN to_camera : to_camera[i] = "start")
              => \E i \in DOMAIN to_camera' : to_camera'[i] = "start"
<1>1. to_camera \in Seq({"start", "stop"}) /\ to_camera' = Append(to_camera, "stop")
  BY DEF PsycheTypeOK, close_camera
<1> QED
  BY <1>1, Appended DEF NoStart, OneStart

LEMMA StartQueued ==
  ASSUME PsycheTypeOK, open_camera
  PROVE  /\ to_camera' \in Seq({"start", "stop"}) /\ to_camera' # <<>>
         /\ NoStart => OneStart'
         /\ \E i \in DOMAIN to_camera' : to_camera'[i] = "start"
         /\ to_camera'[Len(to_camera')] = "start"
<1>1. to_camera \in Seq({"start", "stop"}) /\ to_camera' = Append(to_camera, "start")
  BY DEF PsycheTypeOK, open_camera
<1> QED
  BY <1>1, Appended DEF NoStart, OneStart

LEMMA StartTaken ==
  ASSUME PsycheTypeOK, to_camera # <<>>, Head(to_camera) = "start",
         to_camera' = Tail(to_camera)
  PROVE  /\ to_camera' \in Seq({"start", "stop"}) /\ ~NoStart
         /\ OneStart => NoStart'
         /\ OneStart /\ to_camera[Len(to_camera)] = "start" => to_camera' = <<>>
<1>1. to_camera \in Seq({"start", "stop"})
  BY DEF PsycheTypeOK
<1> QED
  BY <1>1, TailOf DEF NoStart, OneStart

LEMMA StopTaken ==
  ASSUME PsycheTypeOK, to_camera # <<>>, Head(to_camera) = "stop",
         to_camera' = Tail(to_camera)
  PROVE  /\ to_camera' \in Seq({"start", "stop"})
         /\ NoStart => NoStart'
         /\ OneStart => OneStart'
         /\ (\E i \in DOMAIN to_camera : to_camera[i] = "start")
              => \E i \in DOMAIN to_camera' : to_camera'[i] = "start"
         /\ to_camera[Len(to_camera)] = "start" => to_camera'[Len(to_camera')] = "start"
<1>1. to_camera \in Seq({"start", "stop"})
  BY DEF PsycheTypeOK
<1>2. /\ to_camera' \in Seq({"start", "stop"})
      /\ NoStart => NoStart'
      /\ to_camera[Len(to_camera)] = "start" => to_camera'[Len(to_camera')] = "start"
  BY <1>1, TailOf DEF NoStart
<1>3. \A i \in DOMAIN to_camera : to_camera[i] = "start" =>
        /\ i - 1 \in DOMAIN to_camera' /\ to_camera'[i - 1] = "start"
  BY <1>1, TailOf
<1>4. \A j \in DOMAIN to_camera' : j + 1 \in DOMAIN to_camera /\ to_camera'[j] = to_camera[j + 1]
  BY <1>1, TailOf
<1>5. DOMAIN to_camera \subseteq Nat /\ DOMAIN to_camera' \subseteq Nat
  BY <1>1, TailOf
<1>6. ASSUME OneStart PROVE OneStart'
  <2>1. PICK i \in DOMAIN to_camera :
          /\ to_camera[i] = "start"
          /\ \A j \in DOMAIN to_camera : j # i => to_camera[j] = "stop"
    BY <1>6 DEF OneStart
  <2>2. \A j \in DOMAIN to_camera' : j # i - 1 => to_camera'[j] = "stop"
    BY <2>1, <1>4, <1>5
  <2> QED
    BY <2>1, <2>2, <1>3 DEF OneStart
<1> QED
  BY <1>2, <1>3, <1>6

LEMMA AnswerTaken ==
  ASSUME PsycheTypeOK, from_camera # <<>>, from_camera' = Tail(from_camera)
  PROVE  /\ from_camera' \in Seq({0, 1})
         /\ Len(from_camera) = 1 => from_camera' = <<>>
         /\ Head(from_camera) \in {0, 1}
BY TailOf DEF PsycheTypeOK

LEMMA AnswerQueued ==
  ASSUME PsycheTypeOK, NEW error \in {0, 1}, from_camera' = Append(from_camera, error)
  PROVE  /\ from_camera' \in Seq({0, 1}) /\ from_camera' # <<>>
         /\ from_camera = <<>> => Len(from_camera') = 1 /\ Head(from_camera') = error
BY Appended DEF PsycheTypeOK

\* A step is one of the camera's, or leaves the camera alone.
LEMMA SessionCamera ==
  ASSUME CameraIInv, [SessionNext]_sessionVars
  PROVE CameraIInv'
<1>1. [CameraNext]_cameraVars
  BY PsycheAssumption
     DEF SessionNext, sessionVars, APPLYFOR_INTERVENTION, ABANDON_INTERVENTION, build_call,
         join_monitor, web_leave, psyche_run, onOpen, link_lost, onDisconnect, onRtcError,
         onLeaveChannel, camera_start, camera_stop, camera_others, camera_opens, camera_quits,
         handle_camera_response, CameraNext
<1> QED
  BY <1>1, CameraStep

\* What others do with the camera is no business of the session's.
LEMMA OthersWatch ==
  ASSUME CameraTypeOK, camera_others \/ camera_opens \/ camera_quits
  PROVE Watching' = Watching
<1> USE PsycheAssumption DEF CameraTypeOK, Watching
<1>1. CASE camera_opens \/ camera_quits
  BY <1>1 DEF camera_opens, camera_quits, opens_again, stream_quits
<1>2. CASE camera_others
  <2>1. CASE update_device
    BY <2>1 DEF update_device
  <2>2. ASSUME NEW s \in Stream, NEW r \in Reader \ {psychesystem}, STOP_STREAMNAME(s, r)
        PROVE Watching' = Watching
    BY <2>2 DEF STOP_STREAMNAME
  <2>3. ASSUME NEW s \in Stream, NEW r \in Reader \ {psychesystem}, NEW error \in {0, 1},
               START_STREAMNAME(s, r, error)
        PROVE Watching' = Watching
    BY <2>3 DEF START_STREAMNAME
  <2>4. ASSUME NEW s \in Stream, CHANGE_USER(s) \/ RESUME_USER(s) \/ frame_fails(s)
        PROVE Watching' = Watching
    BY <2>4 DEF CHANGE_USER, RESUME_USER, frame_fails
  <2>5. ASSUME NEW c \in Client, CLIENT_DISCONNECT(c) PROVE Watching' = Watching
    BY <2>5 DEF CLIENT_DISCONNECT
  <2> QED
    BY <1>2, <2>1, <2>2, <2>3, <2>4, <2>5 DEF camera_others
<1> QED
  BY <1>1, <1>2

LEMMA SessionInit_SessionIInv == SessionInit => SessionIInv
<1> SUFFICES ASSUME SessionInit PROVE SessionIInv
  OBVIOUS
<1> USE PsycheAssumption DEF SessionInit, PsycheInit, CameraInit
<1>1. PsycheTypeOK /\ ApplicationInv
  <2>1. ApplicationInv
    BY DEF ApplicationInv, AppliesAnsweredOnce
  <2>2. to_camera \in Seq({"start", "stop"}) /\ from_camera \in Seq({0, 1})
    OBVIOUS
  <2>3. /\ m_map_remote_apply \in 0..MaxApplies /\ applies \in 0..MaxApplies
        /\ answers \in [1..MaxApplies -> Nat]
    OBVIOUS
  <2> QED
    BY <2>1, <2>2, <2>3 DEF PsycheTypeOK
<1>2. CameraIInv
  BY DEF CameraIInv, CameraTypeOK, Listened
<1>3. /\ OneAnswer /\ ServiceCalled /\ WaitsServed /\ ChannelInv /\ CameraForSession
  BY DEF OneAnswer, NoStart, ServiceCalled, WaitsServed, CameraWaits, ChannelInv,
         CameraForSession, Watching
<1> QED
  BY <1>1, <1>2, <1>3 DEF SessionIInv

\* The invariant but for that of the cameras.
SessionRest ==
  /\ PsycheTypeOK /\ ApplicationInv /\ OneAnswer /\ ServiceCalled
  /\ WaitsServed /\ ChannelInv /\ CameraForSession

\* Who leaves a session has it closed; the answer of the camera that was awaited is given up.
LEMMA Abandoned ==
  ASSUME SessionIInv, LeaveSession, GiveUp, Keep, psyche_state' = "ide",
         UNCHANGED <<applies, web_calls, breaks, websocket, calls, from_camera, called_over,
                     cameraVars>>
  PROVE SessionRest'
<1> USE DEF SessionIInv, SessionRest, cameraVars
<1>1. ApplicationInv'
  BY ApplicationAnswered
<1>2. /\ to_camera' \in Seq({"start", "stop"})
      /\ NoStart => NoStart'
      /\ ~m_run_rtc => to_camera' = to_camera
      /\ m_run_rtc => to_camera' # <<>>
  <2>1. CASE m_run_rtc
    BY <2>1, StopQueued DEF LeaveSession
  <2>2. CASE ~m_run_rtc
    BY <2>2 DEF LeaveSession, PsycheTypeOK, NoStart
  <2> QED
    BY <2>1, <2>2
<1>3. /\ m_run_rtc' \in BOOLEAN /\ in_channel' \in BOOLEAN /\ leave_callbacks' \in Nat
      /\ m_run_rtc' => in_channel'
      /\ m_run_rtc => ~in_channel'
      /\ ~m_run_rtc => in_channel' = in_channel
  <2>1. CASE m_run_rtc
    <3>1. m_run_rtc' = FALSE /\ in_channel' = FALSE /\ leave_callbacks' \in Nat
      BY <2>1 DEF LeaveSession, Leave, PsycheTypeOK
    <3> QED
      BY <2>1, <3>1
  <2>2. CASE ~m_run_rtc
    BY <2>2 DEF LeaveSession, PsycheTypeOK, rtc
  <2> QED
    BY <2>1, <2>2
<1>4. given_up' \in BOOLEAN
  BY DEF GiveUp, PsycheTypeOK
<1>5. PsycheTypeOK'
  BY <1>2, <1>3, <1>4 DEF PsycheTypeOK, Keep
<1>6. ~given_up' => ~given_up /\ psyche_state \notin CameraWaits
  BY DEF GiveUp
<1>7. OneAnswer' /\ ServiceCalled'
  BY <1>2, <1>6 DEF OneAnswer, ServiceCalled, Keep, CameraWaits
<1>8. WaitsServed' /\ ChannelInv'
  BY <1>3 DEF WaitsServed, CameraWaits, ChannelInv
<1>9. CameraForSession'
  BY <1>2, <1>3, <1>6 DEF CameraForSession, CameraWaits, Watching, PsycheTypeOK
<1> QED
  BY <1>1, <1>5, <1>7, <1>8, <1>9

LEMMA ClientSteps ==
  ASSUME SessionIInv, APPLYFOR_INTERVENTION \/ ABANDON_INTERVENTION
  PROVE SessionRest'
<1> USE DEF SessionIInv, SessionRest
<1>1. CASE APPLYFOR_INTERVENTION
  <2>1. PsycheTypeOK' /\ ApplicationInv'
    <3>1. ApplicationInv'
      BY <1>1, Passed DEF APPLYFOR_INTERVENTION
    <3>2. m_map_remote_apply' \in 0..MaxApplies /\ applies' \in 0..MaxApplies /\ calls' \in Nat
      BY <1>1, PsycheAssumption DEF APPLYFOR_INTERVENTION, PsycheTypeOK
    <3>3. PsycheTypeOK'
      BY <1>1, <3>2 DEF APPLYFOR_INTERVENTION, PsycheTypeOK, rtc, mail, slips
    <3> QED
      BY <3>1, <3>3
  <2>2. OneAnswer' /\ ServiceCalled' /\ WaitsServed' /\ ChannelInv' /\ CameraForSession'
    BY <1>1 DEF APPLYFOR_INTERVENTION, PsycheTypeOK, rtc, mail, slips, cameraVars, OneAnswer,
         NoStart, ServiceCalled, WaitsServed, StartPending, CameraWaits, ChannelInv,
         CameraForSession, Watching, ApplicationInv
  <2> QED
    BY <2>1, <2>2
<1>2. CASE ABANDON_INTERVENTION
  BY <1>2, Abandoned DEF ABANDON_INTERVENTION
<1> QED
  BY <1>1, <1>2

LEMMA ServiceSteps ==
  ASSUME SessionIInv, build_call \/ join_monitor \/ web_leave
  PROVE SessionRest'
<1> USE DEF SessionIInv, SessionRest, cameraVars
<1>1. CASE web_leave
  BY <1>1, Abandoned DEF web_leave
<1>2. CASE join_monitor
  <2>1. /\ to_camera' \in Seq({"start", "stop"})
        /\ NoStart => OneStart'
        /\ to_camera' # <<>> /\ to_camera'[Len(to_camera')] = "start"
        /\ \E i \in DOMAIN to_camera' : to_camera'[i] = "start"
    BY <1>2, StartQueued DEF join_monitor
  <2>2. ApplicationInv'
    BY <1>2, ApplicationAnswered DEF join_monitor
  <2>3. called_over' = (called_over \/ in_channel)
    BY <1>2 DEF join_monitor, open_camera
  <2>4. PsycheTypeOK'
    <3>1. called_over' \in BOOLEAN
      BY <2>3
    <3> QED
      BY <1>2, <2>1, <3>1 DEF join_monitor, PsycheTypeOK, Keep, rtc
  <2>5. OneAnswer' /\ ServiceCalled' /\ WaitsServed' /\ ChannelInv'
    <3>1. OneAnswer'
      BY <1>2, <2>1 DEF join_monitor, OneAnswer, CameraWaits
    <3>2. ServiceCalled' /\ ChannelInv'
      BY <1>2 DEF join_monitor, ServiceCalled, ChannelInv, Keep, rtc
    <3>3. WaitsServed'
      BY <1>2, <2>1 DEF join_monitor, WaitsServed, StartPending
    <3> QED
      BY <3>1, <3>2, <3>3
  <2>6. CameraForSession'
    BY <1>2, <2>1, <2>3 DEF join_monitor, CameraForSession, CameraWaits, OneAnswer, Watching, rtc
  <2> QED
    BY <2>2, <2>4, <2>5, <2>6
<1>3. CASE build_call
  <2>1. ApplicationInv' /\ m_map_remote_apply' \in 0..MaxApplies /\ answers' \in [1..MaxApplies -> Nat]
    BY <1>3, ApplicationAnswered DEF build_call
  <2>2. calls' = calls - 1 /\ calls' \in Nat
    BY <1>3 DEF build_call, PsycheTypeOK
  <2>3. CASE ~open_camera
    <3>1. PsycheTypeOK'
      BY <1>3, <2>1, <2>2, <2>3 DEF build_call, PsycheTypeOK, rtc
    <3>2. OneAnswer' /\ ServiceCalled'
      BY <1>3, <2>2, <2>3 DEF build_call, OneAnswer, NoStart, OneStart, ServiceCalled,
         CameraWaits, rtc, Keep, Reply,
        PsycheTypeOK
    <3>3. WaitsServed' /\ ChannelInv'
      BY <1>3, <2>2, <2>3 DEF build_call, WaitsServed, ServiceCalled, ChannelInv, CameraWaits,
         rtc, Keep, Reply,
        PsycheTypeOK, StartPending
    <3>4. CameraForSession'
      BY <1>3, <2>3 DEF build_call, CameraForSession, CameraWaits, Watching, rtc
    <3> QED
      BY <2>1, <3>1, <3>2, <3>3, <3>4
  <2>4. CASE open_camera
    <3>1. /\ to_camera' \in Seq({"start", "stop"})
          /\ NoStart => OneStart'
          /\ to_camera' # <<>> /\ to_camera'[Len(to_camera')] = "start"
          /\ \E i \in DOMAIN to_camera' : to_camera'[i] = "start"
          /\ to_camera' # to_camera
      BY <2>4, StartQueued DEF open_camera, PsycheTypeOK
    <3>2. /\ m_map_remote_apply # 0 /\ psyche_state = "wait_ws" /\ psyche_state' = "wait_camera"
          /\ Keep /\ called_over' = (called_over \/ in_channel)
      BY <1>3, <2>4, <3>1 DEF build_call, open_camera
    <3>3. UNCHANGED <<applies, web_calls, breaks, websocket, rtc, from_camera, given_up, cameraVars>>
      BY <1>3 DEF build_call
    <3>4. PsycheTypeOK'
      <4>1. called_over' \in BOOLEAN
        BY <3>2
      <4> QED
        BY <2>1, <2>2, <3>1, <3>2, <3>3, <4>1 DEF PsycheTypeOK, rtc
    <3>5. OneAnswer' /\ ServiceCalled' /\ WaitsServed' /\ ChannelInv'
      <4>1. OneAnswer'
        BY <3>1, <3>2, <3>3 DEF OneAnswer, CameraWaits
      <4>2. ServiceCalled'
        BY <1>3, <2>2, <3>2, <3>3 DEF build_call, ServiceCalled, PsycheTypeOK
      <4>3. WaitsServed' /\ ChannelInv'
        BY <3>1, <3>2, <3>3 DEF WaitsServed, StartPending, ChannelInv, Keep, rtc
      <4> QED
        BY <4>1, <4>2, <4>3
    <3>6. CameraForSession'
      BY <3>1, <3>2, <3>3 DEF CameraForSession, CameraWaits, OneAnswer, Watching, rtc
    <3> QED
      BY <2>1, <3>4, <3>5, <3>6
  <2> QED
    BY <2>3, <2>4
<1> QED
  BY <1>1, <1>2, <1>3

LEMMA SocketSteps ==
  ASSUME SessionIInv, psyche_run \/ onOpen \/ link_lost
  PROVE SessionRest'
<1>1. /\ websocket' \in {"off", "opening", "open", "closing"} /\ breaks' \in Nat
      /\ calls' \in {0, calls} /\ (websocket' # "open" => calls' = 0)
      /\ psyche_state = "wait_ws" /\ ~given_up => calls' > 0 \/ websocket' = "closing"
  BY DEF psyche_run, onOpen, link_lost, SessionIInv, PsycheTypeOK, ServiceCalled, WaitsServed
<1>2. UNCHANGED <<own, web_calls, rtc, mail, slips, cameraVars>>
  BY DEF psyche_run, onOpen, link_lost
<1> QED
  BY <1>1, <1>2
     DEF SessionIInv, SessionRest, PsycheTypeOK, ApplicationInv, AppliesAnsweredOnce,
         OneAnswer, NoStart, OneStart, ServiceCalled, WaitsServed, StartPending, CameraWaits,
         ChannelInv, CameraForSession, Watching, own, rtc, mail, slips, cameraVars

\* Whoever waits for the camera is in no channel, unless it was called over one.
LEMMA LeftOver ==
  ASSUME SessionIInv, LeaveSession,
         UNCHANGED <<applies, web_calls, from_camera, slips, cameraVars>>
  PROVE  /\ to_camera' \in Seq({"start", "stop"})
         /\ m_run_rtc' \in BOOLEAN /\ in_channel' \in BOOLEAN /\ leave_callbacks' \in Nat
         /\ ChannelInv'
         /\ psyche_state' = psyche_state => OneAnswer' /\ CameraForSession'
         /\ psyche_state = "wait_ws" /\ psyche_state' = "ide" => OneAnswer' /\ CameraForSession'
         /\ StartPending => StartPending'
<1> USE DEF SessionIInv, slips, cameraVars
<1>1. CASE m_run_rtc
  <2>1. /\ to_camera' \in Seq({"start", "stop"}) /\ to_camera' # <<>>
        /\ NoStart => NoStart'
        /\ OneStart => OneStart'
        /\ StartPending => StartPending'
    BY <1>1, StopQueued DEF LeaveSession, StartPending
  <2>2. /\ m_run_rtc' = FALSE /\ in_channel' = FALSE /\ leave_callbacks' \in Nat
    BY <1>1 DEF LeaveSession, Leave, PsycheTypeOK
  <2>3. in_channel
    BY <1>1 DEF ChannelInv
  <2>4. psyche_state' = psyche_state \/ (psyche_state = "wait_ws" /\ psyche_state' = "ide")
          => OneAnswer' /\ CameraForSession'
    BY <2>1, <2>2, <2>3 DEF OneAnswer, CameraForSession, CameraWaits
  <2> QED
    BY <2>1, <2>2, <2>4 DEF ChannelInv
<1>2. CASE ~m_run_rtc
  <2>1. UNCHANGED <<rtc, to_camera>>
    BY <1>2 DEF LeaveSession
  <2>2. psyche_state' = psyche_state \/ (psyche_state = "wait_ws" /\ psyche_state' = "ide")
          => OneAnswer' /\ CameraForSession'
    BY <2>1 DEF OneAnswer, NoStart, OneStart, CameraForSession, CameraWaits, Watching, rtc
  <2> QED
    BY <2>1, <2>2 DEF PsycheTypeOK, ChannelInv, StartPending, rtc
<1> QED
  BY <1>1, <1>2

LEMMA DisconnectSteps ==
  ASSUME SessionIInv, onDisconnect \/ onRtcError \/ onLeaveChannel
  PROVE SessionRest'
<1> USE DEF SessionIInv, SessionRest
<1>1. CASE onDisconnect
  <2>1. ApplicationInv' /\ m_map_remote_apply' \in 0..MaxApplies /\ answers' \in [1..MaxApplies -> Nat]
    BY <1>1, ApplicationAnswered DEF onDisconnect
  <2>2. psyche_state' = psyche_state \/ (psyche_state = "wait_ws" /\ psyche_state' = "ide")
    BY <1>1 DEF onDisconnect
  <2>3. /\ to_camera' \in Seq({"start", "stop"})
        /\ m_run_rtc' \in BOOLEAN /\ in_channel' \in BOOLEAN /\ leave_callbacks' \in Nat
        /\ ChannelInv' /\ OneAnswer' /\ CameraForSession'
        /\ StartPending => StartPending'
    BY <1>1, <2>2, LeftOver DEF onDisconnect
  <2>4. PsycheTypeOK'
    BY <1>1, <2>1, <2>2, <2>3 DEF onDisconnect, PsycheTypeOK, slips
  <2>5. calls = 0 /\ calls' = 0
    BY <1>1 DEF onDisconnect, ServiceCalled
  <2>6. ServiceCalled' /\ WaitsServed'
    BY <1>1, <2>3, <2>5 DEF onDisconnect, ServiceCalled, WaitsServed, CameraWaits, Keep, Reply,
       slips
  <2> QED
    BY <2>1, <2>3, <2>4, <2>6
<1>2. CASE onRtcError
  <2>1. /\ to_camera' \in Seq({"start", "stop"})
        /\ m_run_rtc' \in BOOLEAN /\ in_channel' \in BOOLEAN /\ leave_callbacks' \in Nat
        /\ ChannelInv' /\ OneAnswer' /\ CameraForSession'
        /\ StartPending => StartPending'
    BY <1>2, LeftOver DEF onRtcError, own
  <2>2. PsycheTypeOK' /\ ApplicationInv'
    BY <1>2, <2>1 DEF onRtcError, PsycheTypeOK, ApplicationInv, AppliesAnsweredOnce, own, slips
  <2>3. ServiceCalled' /\ WaitsServed'
    BY <1>2, <2>1 DEF onRtcError, ServiceCalled, WaitsServed, own, slips
  <2> QED
    BY <2>1, <2>2, <2>3
<1>3. CASE onLeaveChannel
  <2>1. leave_callbacks' \in Nat /\ m_run_rtc' = FALSE
    BY <1>3 DEF onLeaveChannel, PsycheTypeOK
  <2>2. UNCHANGED <<own, web_calls, breaks, websocket, calls, in_channel, mail, slips, cameraVars>>
    BY <1>3 DEF onLeaveChannel
  <2>3. PsycheTypeOK'
    BY <2>1, <2>2 DEF PsycheTypeOK, own, mail, slips
  <2>4. ApplicationInv' /\ OneAnswer' /\ ServiceCalled' /\ WaitsServed' /\ ChannelInv' /\ CameraForSession'
    BY <2>1, <2>2
       DEF ApplicationInv, AppliesAnsweredOnce, OneAnswer, NoStart, OneStart, ServiceCalled,
           WaitsServed, StartPending, CameraWaits, ChannelInv, CameraForSession, Watching, own,
           mail, slips, cameraVars
  <2> QED
    BY <2>3, <2>4
<1> QED
  BY <1>1, <1>2, <1>3

LEMMA CameraSteps ==
  ASSUME SessionIInv, camera_start \/ camera_stop \/ camera_others \/ camera_opens \/ camera_quits
  PROVE SessionRest'
<1> USE DEF SessionIInv, SessionRest
<1>1. CASE camera_others \/ camera_opens \/ camera_quits
  <2>1. UNCHANGED psycheVars
    BY <1>1 DEF camera_others, camera_opens, camera_quits
  <2>2. Watching' = Watching
    BY <1>1, OthersWatch DEF CameraIInv
  <2>3. PsycheTypeOK' /\ ApplicationInv' /\ OneAnswer' /\ ServiceCalled'
    BY <2>1 DEF PsycheTypeOK, ApplicationInv, AppliesAnsweredOnce, OneAnswer, NoStart, OneStart,
         ServiceCalled, CameraWaits, psycheVars
  <2>4. WaitsServed' /\ ChannelInv' /\ CameraForSession'
    BY <2>1, <2>2 DEF WaitsServed, StartPending, CameraWaits, ChannelInv, CameraForSession,
       psycheVars
  <2> QED
    BY <2>3, <2>4
<1>2. CASE camera_start
  <2>1. PICK error \in {0, 1} :
          /\ START_STREAMNAME(psyche_stream, psychesystem, error)
          /\ from_camera' = Append(from_camera, error)
    BY <1>2 DEF camera_start
  <2>2. /\ to_camera' \in Seq({"start", "stop"}) /\ ~NoStart
        /\ OneStart => NoStart'
        /\ OneStart /\ to_camera[Len(to_camera)] = "start" => to_camera' = <<>>
    BY <1>2, StartTaken DEF camera_start
  <2>3. /\ from_camera' \in Seq({0, 1}) /\ from_camera' # <<>>
        /\ from_camera = <<>> => Len(from_camera') = 1 /\ Head(from_camera') = error
    BY <2>1, AnswerQueued
  <2>4. error = 0 => Watching'
    BY <2>1, PsycheAssumption DEF START_STREAMNAME, Watching, CameraIInv, CameraTypeOK
  <2>5. UNCHANGED <<own, web_calls, breaks, websocket, calls, rtc, slips>>
    BY <1>2 DEF camera_start
  <2>6. PsycheTypeOK' /\ ApplicationInv'
    BY <2>2, <2>3, <2>5 DEF PsycheTypeOK, ApplicationInv, AppliesAnsweredOnce, own, rtc, slips
  <2>7. OneAnswer'
    BY <2>2, <2>3, <2>5 DEF OneAnswer, own, slips
  <2>8. ServiceCalled' /\ WaitsServed' /\ ChannelInv'
    BY <2>3, <2>5 DEF ServiceCalled, WaitsServed, StartPending, ChannelInv, own, rtc, slips
  <2>9. CameraForSession'
    BY <2>2, <2>3, <2>4, <2>5 DEF CameraForSession, OneAnswer, own, rtc, slips
  <2> QED
    BY <2>6, <2>7, <2>8, <2>9
<1>3. CASE camera_stop
  <2>1. /\ to_camera' \in Seq({"start", "stop"})
        /\ NoStart => NoStart'
        /\ OneStart => OneStart'
        /\ StartPending => StartPending'
        /\ to_camera[Len(to_camera)] = "start" => to_camera'[Len(to_camera')] = "start"
    BY <1>3, StopTaken DEF camera_stop, StartPending
  <2>2. ~Watching'
    BY <1>3, PsycheAssumption DEF camera_stop, STOP_STREAMNAME, Watching, CameraIInv, CameraTypeOK
  <2>3. UNCHANGED <<own, web_calls, breaks, websocket, calls, rtc, from_camera, slips>> /\ to_camera # <<>>
    BY <1>3 DEF camera_stop
  <2>4. PsycheTypeOK' /\ ApplicationInv'
    BY <2>1, <2>3 DEF PsycheTypeOK, ApplicationInv, AppliesAnsweredOnce, own, rtc, slips
  <2>5. OneAnswer'
    BY <2>1, <2>3 DEF OneAnswer, own, slips
  <2>6. ServiceCalled' /\ WaitsServed' /\ ChannelInv'
    BY <2>1, <2>3 DEF ServiceCalled, WaitsServed, ChannelInv, own, rtc, slips
  <2>7. CameraForSession'
    BY <2>1, <2>2, <2>3 DEF CameraForSession, own, rtc, slips
  <2> QED
    BY <2>4, <2>5, <2>6, <2>7
<1> QED
  BY <1>1, <1>2, <1>3

LEMMA ResponseStep ==
  ASSUME SessionIInv, handle_camera_response
  PROVE SessionRest'
<1> USE DEF SessionIInv, SessionRest
<1>1. /\ from_camera' \in Seq({0, 1})
      /\ Len(from_camera) = 1 => from_camera' = <<>>
      /\ Head(from_camera) \in {0, 1}
  BY AnswerTaken DEF handle_camera_response
<1>2. ApplicationInv' /\ m_map_remote_apply' \in 0..MaxApplies /\ answers' \in [1..MaxApplies -> Nat]
  BY ApplicationAnswered DEF handle_camera_response
<1>3. UNCHANGED <<applies, web_calls, breaks, websocket, calls, slips, cameraVars>>
  BY DEF handle_camera_response
<1>4. psyche_state' = IF psyche_state \in CameraWaits THEN "ide" ELSE psyche_state
  BY DEF handle_camera_response
<1>5. ~given_up => psyche_state \in CameraWaits /\ Len(from_camera) = 1 /\ NoStart
  BY DEF handle_camera_response, OneAnswer
<1>a. psyche_state \in CameraWaits =>
        \E ok \in BOOLEAN : /\ ok => Head(from_camera) = 0
                            /\ Join(ok)
                            /\ IF ok THEN UNCHANGED to_camera ELSE close_camera
  BY DEF handle_camera_response, CameraWaits
<1>b. psyche_state \notin CameraWaits =>
        UNCHANGED rtc /\ (to_camera' = to_camera \/ close_camera)
  BY DEF handle_camera_response, CameraWaits, PsycheTypeOK
<1>6. /\ to_camera' = to_camera \/ close_camera
      /\ to_camera' \in Seq({"start", "stop"})
      /\ NoStart => NoStart'
  <2>1. to_camera' = to_camera \/ close_camera
    BY <1>a, <1>b
  <2> QED
    BY <2>1, StopQueued DEF PsycheTypeOK, NoStart
<1>7. /\ m_run_rtc' \in BOOLEAN /\ in_channel' \in BOOLEAN /\ leave_callbacks' \in Nat
      /\ ChannelInv'
  <2>1. CASE psyche_state \in CameraWaits
    <3>1. PICK ok \in BOOLEAN : Join(ok)
      BY <1>a, <2>1
    <3>2. ok \in {TRUE, FALSE}
      BY <3>1
    <3>3. CASE ok = TRUE
      <4>1. m_run_rtc' = TRUE /\ in_channel' = TRUE /\ leave_callbacks' = leave_callbacks
        BY <3>1, <3>3 DEF Join
      <4> QED
        BY <4>1 DEF ChannelInv, PsycheTypeOK
    <3>4. CASE ok = FALSE
      <4>1. m_run_rtc' = m_run_rtc /\ in_channel' = in_channel /\ leave_callbacks' = leave_callbacks
        BY <3>1, <3>4 DEF Join, PsycheTypeOK
      <4> QED
        BY <4>1 DEF ChannelInv, PsycheTypeOK
    <3> QED
      BY <3>2, <3>3, <3>4
  <2>2. CASE psyche_state \notin CameraWaits
    <3>1. UNCHANGED rtc
      BY <1>b, <2>2
    <3> QED
      BY <3>1 DEF ChannelInv, PsycheTypeOK, rtc
  <2> QED
    BY <2>1, <2>2
<1>8. PsycheTypeOK'
  BY <1>1, <1>2, <1>3, <1>4, <1>6, <1>7 DEF PsycheTypeOK, slips
<1>9. psyche_state' \notin CameraWaits
  BY <1>4 DEF CameraWaits
<1>10. OneAnswer' /\ ServiceCalled' /\ WaitsServed'
  <2>1. OneAnswer'
    BY <1>1, <1>3, <1>5, <1>6, <1>9 DEF OneAnswer, slips
  <2>2. psyche_state = "by_remote" => Keep
    BY DEF handle_camera_response
  <2>3. ServiceCalled'
    BY <1>3, <1>4, <1>5, <2>2 DEF ServiceCalled, CameraWaits, Keep, slips, PsycheTypeOK
  <2>4. WaitsServed'
    BY <1>3, <1>4, <1>5, <1>9 DEF WaitsServed, CameraWaits, slips
  <2> QED
    BY <2>1, <2>3, <2>4
<1>11. CameraForSession'
  <2> SUFFICES ASSUME ~given_up, ~called_over
               PROVE IF in_channel' THEN to_camera' = <<>> /\ Watching'
                                    ELSE to_camera' # <<>> \/ ~Watching'
    BY <1>3, <1>9 DEF CameraForSession, slips
  <2>1. ~in_channel /\ to_camera = <<>> /\ (Head(from_camera) = 0 => Watching)
    BY <1>5 DEF CameraForSession, handle_camera_response
  <2>2. Watching' = Watching
    BY <1>3 DEF Watching, cameraVars
  <2>3. PICK ok \in BOOLEAN : /\ ok => Head(from_camera) = 0
                             /\ Join(ok)
                             /\ IF ok THEN UNCHANGED to_camera ELSE close_camera
    BY <1>a, <1>5
  <2>4. CASE ok
    BY <2>1, <2>2, <2>3, <2>4 DEF Join
  <2>5. CASE ~ok
    <3>1. to_camera' # <<>>
      BY <2>3, <2>5, StopQueued
    <3>2. ~in_channel'
      BY <2>1, <2>3, <2>5 DEF Join
    <3> QED
      BY <3>1, <3>2
  <2> QED
    BY <2>4, <2>5
<1> QED
  BY <1>2, <1>7, <1>8, <1>10, <1>11

LEMMA SessionStep == SessionIInv /\ [SessionNext]_sessionVars => SessionIInv'
<1> SUFFICES ASSUME SessionIInv, [SessionNext]_sessionVars PROVE SessionIInv'
  OBVIOUS
<1>1. CameraIInv'
  BY SessionCamera DEF SessionIInv
<1>2. CASE UNCHANGED sessionVars
  BY <1>2 DEF SessionIInv, PsycheTypeOK, CameraIInv, CameraTypeOK, Listened, ApplicationInv,
       AppliesAnsweredOnce, OneAnswer, NoStart, OneStart, ServiceCalled, WaitsServed,
       StartPending, CameraWaits, ChannelInv, CameraForSession, Watching, sessionVars,
       psycheVars, cameraVars
<1>3. CASE SessionNext
  <2>1. SessionRest'
    BY <1>3, ClientSteps, ServiceSteps, SocketSteps, DisconnectSteps, CameraSteps, ResponseStep
       DEF SessionNext
  <2> QED
    BY <1>1, <2>1 DEF SessionIInv, SessionRest
<1> QED
  BY <1>2, <1>3

LEMMA SessionIInv_SessionInv == SessionIInv => SessionInv
<1> SUFFICES ASSUME SessionIInv PROVE SessionInv
  OBVIOUS
<1>1. PsycheTypeOK /\ AppliesAnsweredOnce /\ WaitsServed
  BY DEF SessionIInv, ApplicationInv
<1>2. CameraInv
  BY DEF SessionIInv, CameraIInv, CameraInv, CameraFollowsReaders
<1>3. CameraFollowsSession
  BY <1>1 DEF SessionIInv, CameraFollowsSession, CameraForSession, ChannelInv, Watching,
     WaitsServed, StartPending, PsycheTypeOK
<1> QED
  BY <1>1, <1>2, <1>3 DEF SessionInv

\* A stream runs while somebody reads it and no longer; an application for assistance is
\* answered once; who waits for the camera or the service has an answer to come; and the
\* camera is read for a session while there is one (VideoManager, AudioManager and
\* PsycheManager).
THEOREM MediaKept == MCSpec => []MediaInv
<1>1. MCInit => SessionInit /\ AudioInit
  BY DEF MCInit
<1>2. [MCNext]_<<part, vars, cloudVars, sessionVars, audioVars, isrVars, ringVars>> =>
        [SessionNext]_sessionVars /\ [AudioNext]_audioVars
  BY DEF MCNext, Only
<1>3. AudioInit => AudioInv
  BY DEF AudioInit, AudioInv
<1>4. SessionIInv /\ AudioInv => MediaInv
  BY SessionIInv_SessionInv DEF MediaInv
<1> QED
  BY <1>1, <1>2, <1>3, <1>4, SessionInit_SessionIInv, SessionStep, AudioStep, PTL DEF MCSpec
===============================================================================
