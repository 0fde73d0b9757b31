---------------------------- MODULE MainAppProofs -----------------------------
(***************************************************************************)
(* For any modules in any order, any operator and any traffic: a teardown  *)
(* by one closer strands no reply and leaves no thread behind.             *)
(***************************************************************************)
EXTENDS MainApp, SequenceTheorems, TLAPS

-------------------------------------------------------------------------------
(* The order in which close_service quits the threads.                     *)

Threads == Len(ModuleOrder) + 3

\* Each thread is quit once, the handler last.
LEMMA QuitOrderIs ==
  /\ Threads \in Nat /\ Threads >= 3 /\ Len(QuitOrder) = Threads
  /\ QuitOrder[Threads] = "handler"
  /\ \A j \in 1..Threads : QuitOrder[j] \in Worker
  /\ \A j, k \in 1..Threads : QuitOrder[j] = QuitOrder[k] => j = k
  /\ \A w \in Worker : \E j \in 1..Threads : QuitOrder[j] = w
<1>1. PICK n, r : n = Len(ModuleOrder) /\ r = Reverse(ModuleOrder)
  OBVIOUS
<1>2. /\ n \in Nat /\ ModuleOrder \in Seq(Module) /\ DOMAIN ModuleOrder = 1..n
      /\ \A j \in 1..n : ModuleOrder[j] \in Module
  BY <1>1, MainAppAssumption, LenProperties
<1>3. /\ r \in Seq(Module) /\ Len(r) = n
      /\ \A j \in 1..n : r[j] = ModuleOrder[(n - j) + 1]
  <2>1. r = [j \in 1..n |-> ModuleOrder[(n - j) + 1]]
    BY <1>1 DEF Reverse
  <2>2. \A j \in 1..n : (n - j) + 1 \in 1..n
    BY <1>2
  <2>3. r \in [1..n -> Module]
    BY <1>2, <2>1, <2>2
  <2>4. r \in Seq(Module) /\ Len(r) = n
    BY <1>2, <2>3
  <2> QED BY <2>1, <2>4
<1>4. PICK s, t : s = <<"server">> \o r /\ t = <<"dispatch", "handler">>
  OBVIOUS
<1>5. /\ Module \subseteq Worker /\ {"server", "dispatch", "handler"} \subseteq Worker
      /\ Worker = {"server", "dispatch", "handler"} \cup Module
  BY DEF Worker
<1>6. /\ s \in Seq(Worker) /\ Len(s) = n + 1 /\ s[1] = "server"
      /\ \A j \in 2..(n + 1) : s[j] = r[j - 1]
  <2>1. <<"server">> \in Seq(Worker) /\ Len(<<"server">>) = 1 /\ r \in Seq(Worker)
    BY <1>3, <1>5
  <2>2. /\ s \in Seq(Worker) /\ Len(s) = Len(<<"server">>) + Len(r)
        /\ \A j \in 1..(Len(<<"server">>) + Len(r)) :
             s[j] = IF j <= Len(<<"server">>) THEN <<"server">>[j] ELSE r[j - Len(<<"server">>)]
    BY <1>4, <2>1, ConcatProperties
  <2> QED BY <1>2, <1>3, <2>1, <2>2
<1>7. /\ QuitOrder \in Seq(Worker) /\ Len(QuitOrder) = n + 3
      /\ \A j \in 1..(n + 1) : QuitOrder[j] = s[j]
      /\ QuitOrder[n + 2] = "dispatch" /\ QuitOrder[n + 3] = "handler"
  <2>1. t \in Seq(Worker) /\ Len(t) = 2 /\ t[1] = "dispatch" /\ t[2] = "handler"
    BY <1>4, <1>5
  <2>2. QuitOrder = s \o t
    BY <1>1, <1>4 DEF QuitOrder
  <2>3. /\ QuitOrder \in Seq(Worker) /\ Len(QuitOrder) = Len(s) + Len(t)
        /\ \A j \in 1..(Len(s) + Len(t)) :
             QuitOrder[j] = IF j <= Len(s) THEN s[j] ELSE t[j - Len(s)]
    BY <1>6, <2>1, <2>2, ConcatProperties
  <2>4. Len(QuitOrder) = n + 3 /\ \A j \in 1..(n + 3) : QuitOrder[j] = IF j <= n + 1 THEN s[j] ELSE t[j - (n + 1)]
    BY <1>2, <1>6, <2>1, <2>3
  <2>5. \A j \in 1..(n + 1) : QuitOrder[j] = s[j]
    BY <1>2, <2>4
  <2>6. QuitOrder[n + 2] = t[1] /\ QuitOrder[n + 3] = t[2]
    BY <1>2, <2>4
  <2> QED BY <2>1, <2>3, <2>4, <2>5, <2>6
\* What stands where.
<1>8. /\ QuitOrder[1] = "server"
      /\ \A j \in 2..(n + 1) : (n + 2) - j \in 1..n /\ QuitOrder[j] = ModuleOrder[(n + 2) - j]
  <2>1. QuitOrder[1] = "server"
    BY <1>2, <1>6, <1>7
  <2>2. ASSUME NEW j \in 2..(n + 1)
        PROVE  (n + 2) - j \in 1..n /\ QuitOrder[j] = ModuleOrder[(n + 2) - j]
    <3>1. j \in 1..(n + 1) /\ j - 1 \in 1..n /\ (n - (j - 1)) + 1 = (n + 2) - j /\ (n + 2) - j \in 1..n
      BY <1>2
    <3>2. QuitOrder[j] = r[j - 1]
      BY <1>6, <1>7, <3>1
    <3>3. r[j - 1] = ModuleOrder[(n - (j - 1)) + 1]
      BY <1>3, <3>1
    <3> QED BY <3>1, <3>2, <3>3
  <2> QED BY <2>1, <2>2
<1>9. ASSUME NEW w \in Worker PROVE \E j \in 1..(n + 3) : QuitOrder[j] = w
  <2>1. CASE w \in Module
    <3>1. PICK k \in 1..n : w = ModuleOrder[k]
      BY <1>2, <2>1 DEF Module
    <3>2. (n + 2) - k \in 2..(n + 1) /\ (n + 2) - ((n + 2) - k) = k
      BY <1>2
    <3>3. QuitOrder[(n + 2) - k] = w
      BY <1>8, <3>1, <3>2
    <3>4. (n + 2) - k \in 1..(n + 3)
      BY <1>2, <3>2
    <3> QED BY <3>3, <3>4
  <2>2. CASE w \notin Module
    <3>1. {1, n + 2, n + 3} \subseteq 1..(n + 3)
      BY <1>2
    <3> QED BY <1>5, <1>7, <1>8, <2>2, <3>1
  <2> QED BY <2>1, <2>2
<1>10. ASSUME NEW j \in 1..(n + 3), NEW k \in 1..(n + 3), QuitOrder[j] = QuitOrder[k]
       PROVE  j = k
  <2>1. \A l \in 1..(n + 3) : l = 1 \/ l = n + 2 \/ l = n + 3 \/ l \in 2..(n + 1)
    BY <1>2
  <2>2. ASSUME NEW l \in 2..(n + 1)
        PROVE  QuitOrder[l] \in Module /\ QuitOrder[l] \notin {"server", "dispatch", "handler"}
    BY <1>2, <1>8, MainAppAssumption
  <2>3. CASE j \in 2..(n + 1)
    <3>1. k \in 2..(n + 1)
      BY <1>7, <1>8, <1>10, <2>1, <2>2, <2>3
    <3>2. (n + 2) - j \in 1..n /\ (n + 2) - k \in 1..n
      BY <1>8, <2>3, <3>1
    <3>3. ModuleOrder[(n + 2) - j] = ModuleOrder[(n + 2) - k]
      BY <1>8, <1>10, <2>3, <3>1
    <3>4. (n + 2) - j = (n + 2) - k
      BY <1>2, <3>2, <3>3, MainAppAssumption
    <3> QED BY <1>2, <3>4
  <2>4. CASE j \notin 2..(n + 1)
    <3>1. k \notin 2..(n + 1)
      BY <1>7, <1>8, <1>10, <2>1, <2>2, <2>4
    <3> QED BY <1>7, <1>8, <1>10, <2>1, <2>4, <3>1
  <2> QED BY <2>3, <2>4
<1>11. Threads = n + 3 /\ n + 3 >= 3 /\ n + 3 \in Nat
  BY <1>1, <1>2 DEF Threads
<1>12. \A j \in 1..Threads : QuitOrder[j] \in Worker
  BY <1>7, <1>11, LenProperties
<1>13. \A j, k \in 1..Threads : QuitOrder[j] = QuitOrder[k] => j = k
  BY <1>10, <1>11
<1>14. \A w \in Worker : \E j \in 1..Threads : QuitOrder[j] = w
  BY <1>9, <1>11
<1> QED BY <1>7, <1>11, <1>12, <1>13, <1>14

-------------------------------------------------------------------------------
(* The inductive invariant.                                                *)

\* A closer alone: the other one has not begun.
Alone(c) == \A d \in Closer : d # c => cpc[d] = "idle"

\* The handler's thread is the last one that c quits, and it was told to.
QuitsHandler(c) == cpc[c] = "join" /\ stage[c] = Threads - 1

\* What any number of closers keeps.
ClosersInv ==
  /\ apc # "close" => cpc["main"] = "idle"
  /\ close_flag => \E c \in Closer : cpc[c] \in {"notify", "post", "join", "done"}
  /\ exited => \E c \in Closer : cpc[c] = "done"
  /\ \A c \in Closer :
       /\ cpc[c] \in {"idle", "test", "set", "notify"} => stage[c] = 0
       /\ cpc[c] \in {"post", "join"} => stage[c] < Threads
       /\ \A j \in 1..stage[c] : QuitOrder[j] \notin live

\* What a closer alone keeps: it quits every thread, and the handler has nothing behind
\* its order to exit.
AloneInv(c) ==
  /\ cpc[c] = "done" => stage[c] = Threads
  /\ \A j \in DOMAIN q["handler"] :
       q["handler"][j] = "exit" => j = Len(q["handler"]) /\ QuitsHandler(c)
  /\ "handler" \notin live =>
       q["handler"] = <<>> /\ live = {} /\ (QuitsHandler(c) \/ cpc[c] = "done")

IInv == TypeOK /\ ClosersInv /\ \A c \in Closer : Alone(c) => AloneInv(c)

\* When the handler's thread is told to end, the other ones have gone.
LEMMA OthersGone ==
  ASSUME TypeOK, ClosersInv, NEW c \in Closer, QuitsHandler(c)
  PROVE  live \subseteq {"handler"}
<1>1. \A j \in 1..stage[c] : QuitOrder[j] \notin live
  BY DEF ClosersInv
<1>2. ASSUME NEW w \in live PROVE w = "handler"
  <2>1. w \in Worker
    BY DEF TypeOK
  <2>2. PICK j \in 1..Threads : QuitOrder[j] = w
    BY <2>1, QuitOrderIs
  <2>3. j \notin 1..(Threads - 1)
    BY <1>1, <2>2 DEF QuitsHandler
  <2>4. j = Threads
    BY <2>2, <2>3, QuitOrderIs
  <2> QED BY <2>2, <2>4, QuitOrderIs
<1> QED BY <1>2

LEMMA AllGone ==
  ASSUME TypeOK, ClosersInv, NEW c \in Closer, stage[c] = Threads
  PROVE  live = {}
<1>1. \A j \in 1..Threads : QuitOrder[j] \notin live
  BY DEF ClosersInv
<1>2. ASSUME NEW w \in live PROVE FALSE
  <2>1. w \in Worker
    BY DEF TypeOK
  <2>2. PICK j \in 1..Threads : QuitOrder[j] = w
    BY <2>1, QuitOrderIs
  <2> QED BY <1>1, <2>2
<1> QED BY <1>2

-------------------------------------------------------------------------------
(* Types.                                                                  *)

LEMMA InitType == Init => TypeOK
<1> SUFFICES ASSUME Init PROVE TypeOK
  OBVIOUS
<1>1. MaxKeys \in Nat /\ MaxFrames \in Nat /\ MaxRequests \in Nat /\ Threads \in Nat
  BY MainAppAssumption, QuitOrderIs
<1>2. stage \in [Closer -> 0..Threads]
  BY <1>1 DEF Init
<1>3. keys \in 0..MaxKeys /\ received \in 0..MaxFrames /\ requests \in 0..MaxRequests
  BY <1>1 DEF Init
<1>4. q \in [Worker -> Seq(Msg)]
  BY DEF Init
<1>5. cpc \in [Closer -> {"idle", "test", "set", "notify", "post", "join", "done"}]
  BY DEF Init, Closer
<1>6. live \in SUBSET Worker /\ apc \in {"wait", "check", "clear", "close"}
  BY DEF Init
<1> QED BY <1>2, <1>3, <1>4, <1>5, <1>6 DEF Init, TypeOK, Threads

\* A worker's queue with a message more, or without the first one.
LEMMA QueueType ==
  ASSUME TypeOK, NEW w \in Worker
  PROVE  /\ q[w] \in Seq(Msg)
         /\ \A m \in Msg : Append(q[w], m) \in Seq(Msg)
         /\ q[w] # <<>> => Tail(q[w]) \in Seq(Msg)
<1>1. q[w] \in Seq(Msg)
  BY DEF TypeOK
<1> QED BY <1>1, AppendProperties, HeadTailProperties

LEMMA StageType ==
  ASSUME TypeOK, ClosersInv, NEW c \in Closer, cpc[c] \in {"post", "join"}
  PROVE  /\ stage[c] \in Nat /\ stage[c] + 1 \in 1..Threads
         /\ QuitOrder[stage[c] + 1] \in Worker
         /\ Threads = Len(ModuleOrder) + 3
<1>1. stage[c] \in 0..Threads /\ stage[c] < Threads
  BY DEF TypeOK, ClosersInv, Threads
<1> QED BY <1>1, QuitOrderIs DEF Threads

LEMMA WorkerNames ==
  /\ "server" \in Worker /\ "dispatch" \in Worker /\ "handler" \in Worker
  /\ Module \subseteq Worker /\ "handler" \notin Module /\ "dispatch" \notin Module
  /\ Closer = {"main", "console"}
  /\ {"frame", "request", "reply", "shutdown", "exit"} = Msg
BY MainAppAssumption DEF Worker, Closer, Msg

LEMMA TypeNext == TypeOK /\ ClosersInv /\ [Next]_vars => TypeOK'
<1> SUFFICES ASSUME TypeOK, ClosersInv, [Next]_vars PROVE TypeOK'
  OBVIOUS
<1> USE DEF mainVars, closeVars, boundVars
<1>0. MaxKeys \in Nat /\ MaxFrames \in Nat /\ MaxRequests \in Nat
  BY MainAppAssumption
<1>1. ASSUME NEW k \in Key, type_key(k) PROVE TypeOK'
  <2>1. keys' \in 0..MaxKeys
    BY <1>0, <1>1 DEF type_key, TypeOK
  <2>2. order' \in (Key \ {Newline}) \cup {NoOrder, "q"}
    BY <1>1 DEF type_key, TypeOK
  <2> QED BY <1>1, <2>1, <2>2 DEF type_key, TypeOK
<1>2. CASE key_signal
  BY <1>2 DEF key_signal, TypeOK
<1>3. ASSUME NEW m \in Module, post_shutdown(m) PROVE TypeOK'
  <2>1. m \in Worker /\ Append(q[m], "shutdown") \in Seq(Msg)
    BY QueueType, WorkerNames
  <2>2. requests' \in 0..MaxRequests
    BY <1>0, <1>3 DEF post_shutdown, TypeOK
  <2>3. q' \in [Worker -> Seq(Msg)]
    BY <1>3, <2>1 DEF post_shutdown, TypeOK
  <2> QED BY <1>3, <2>2, <2>3 DEF post_shutdown, TypeOK
<1>4. ASSUME NEW m \in Module, main_close(m) PROVE TypeOK'
  <2>1. m \in Worker /\ Tail(q[m]) \in Seq(Msg)
    BY <1>4, QueueType, WorkerNames DEF main_close
  <2>2. q' \in [Worker -> Seq(Msg)]
    BY <1>4, <2>1 DEF main_close, TypeOK
  <2>3. modpc' \in [Module -> {"loop", "signal"}]
    BY <1>4 DEF main_close, TypeOK
  <2> QED BY <1>4, <2>2, <2>3 DEF main_close, TypeOK
<1>5. ASSUME NEW m \in Module, main_close_signal(m) PROVE TypeOK'
  <2>1. modpc' \in [Module -> {"loop", "signal"}]
    BY <1>5 DEF main_close_signal, TypeOK
  <2> QED BY <1>5, <2>1 DEF main_close_signal, TypeOK
<1>6. CASE wait
  BY <1>6 DEF wait, TypeOK
<1>7. CASE check_order
  <2>1. cpc' \in [Closer -> {"idle", "test", "set", "notify", "post", "join", "done"}]
    BY <1>7 DEF check_order, TypeOK
  <2>2. apc' \in {"wait", "check", "clear", "close"}
    BY <1>7 DEF check_order
  <2> QED BY <1>7, <2>1, <2>2 DEF check_order, TypeOK
<1>8. CASE clear_order
  BY <1>8 DEF clear_order, TypeOK
<1>9. CASE consolehandler
  <2>1. cpc' \in [Closer -> {"idle", "test", "set", "notify", "post", "join", "done"}]
    BY <1>9 DEF consolehandler, TypeOK
  <2> QED BY <1>9, <2>1 DEF consolehandler, TypeOK
<1>10. ASSUME NEW c \in Closer, close_test(c) \/ close_set(c) PROVE TypeOK'
  <2>1. cpc' \in [Closer -> {"idle", "test", "set", "notify", "post", "join", "done"}]
    BY <1>10 DEF close_test, close_set, TypeOK
  <2>2. close_flag' \in BOOLEAN
    BY <1>10 DEF close_test, close_set, TypeOK
  <2> QED BY <1>10, <2>1, <2>2 DEF close_test, close_set, TypeOK
<1>11. ASSUME NEW c \in Closer, close_notify(c) PROVE TypeOK'
  <2>1. cpc' \in [Closer -> {"idle", "test", "set", "notify", "post", "join", "done"}]
    BY <1>11 DEF close_notify, TypeOK
  <2>2. Append(q["handler"], "reply") \in Seq(Msg)
    BY QueueType, WorkerNames
  <2>3. q' \in [Worker -> Seq(Msg)]
    BY <1>11, <2>2 DEF close_notify, TypeOK
  <2> QED BY <1>11, <2>1, <2>3 DEF close_notify, TypeOK
<1>12. ASSUME NEW c \in Closer, quit_post(c) PROVE TypeOK'
  <2>1. cpc' \in [Closer -> {"idle", "test", "set", "notify", "post", "join", "done"}]
    BY <1>12 DEF quit_post, TypeOK
  <2>2. PICK w \in Worker : w = QuitOrder[stage[c] + 1]
    BY <1>12, StageType DEF quit_post
  <2>3. Append(q[w], "exit") \in Seq(Msg)
    BY QueueType, WorkerNames
  <2>4. q' \in [Worker -> Seq(Msg)]
    BY <1>12, <2>2, <2>3 DEF quit_post, TypeOK
  <2> QED BY <1>12, <2>1, <2>4 DEF quit_post, TypeOK
<1>13. ASSUME NEW c \in Closer, quit_join(c) PROVE TypeOK'
  <2>1. cpc' \in [Closer -> {"idle", "test", "set", "notify", "post", "join", "done"}]
    BY <1>13 DEF quit_join, TypeOK
  <2>2. stage[c] + 1 \in 0..(Len(ModuleOrder) + 3)
    BY <1>13, StageType DEF quit_join
  <2>3. stage' \in [Closer -> 0..Len(ModuleOrder) + 3]
    BY <1>13, <2>2 DEF quit_join, TypeOK
  <2> QED BY <1>13, <2>1, <2>3 DEF quit_join, TypeOK
<1>14. ASSUME NEW c \in Closer, process_exit(c) PROVE TypeOK'
  BY <1>14 DEF process_exit, TypeOK
<1>15. ASSUME NEW w \in Worker, worker_exit(w) PROVE TypeOK'
  <2>1. Tail(q[w]) \in Seq(Msg)
    BY <1>15, QueueType DEF worker_exit
  <2>2. q' \in [Worker -> Seq(Msg)] /\ live' \in SUBSET Worker
    BY <1>15, <2>1 DEF worker_exit, TypeOK
  <2> QED BY <1>15, <2>2 DEF worker_exit, TypeOK
<1>16. CASE server_receive
  <2>1. Append(q["dispatch"], "frame") \in Seq(Msg)
    BY QueueType, WorkerNames
  <2>2. received' \in 0..MaxFrames
    BY <1>0, <1>16 DEF server_receive, TypeOK
  <2>3. q' \in [Worker -> Seq(Msg)]
    BY <1>16, <2>1 DEF server_receive, TypeOK
  <2> QED BY <1>16, <2>2, <2>3 DEF server_receive, TypeOK
<1>17. CASE dispatch_frame
  <2>1. Tail(q["dispatch"]) \in Seq(Msg) /\ Append(q["handler"], "reply") \in Seq(Msg)
    BY <1>17, QueueType, WorkerNames DEF dispatch_frame
  <2>2. \A m \in Module : Append(q[m], "request") \in Seq(Msg)
    BY QueueType, WorkerNames
  <2>3. q' \in [Worker -> Seq(Msg)]
    <3>1. ASSUME NEW m \in Worker, NEW s \in Seq(Msg), NEW r \in Seq(Msg), m # "dispatch",
                 q' = [q EXCEPT !["dispatch"] = s, ![m] = r]
          PROVE  q' \in [Worker -> Seq(Msg)]
      BY <3>1 DEF TypeOK
    <3>2. CASE q' = [q EXCEPT !["dispatch"] = Tail(@), !["handler"] = Append(@, "reply")]
      <4>1. PICK s \in Seq(Msg), r \in Seq(Msg) : s = Tail(q["dispatch"]) /\ r = Append(q["handler"], "reply")
        BY <2>1
      <4>2. q' = [q EXCEPT !["dispatch"] = s, !["handler"] = r]
        BY <3>2, <4>1, WorkerNames DEF TypeOK
      <4> QED BY <3>1, <4>2, WorkerNames
    <3>3. ASSUME NEW m \in Module, q' = [q EXCEPT !["dispatch"] = Tail(@), ![m] = Append(@, "request")]
          PROVE  q' \in [Worker -> Seq(Msg)]
      <4>1. PICK s \in Seq(Msg), r \in Seq(Msg) : s = Tail(q["dispatch"]) /\ r = Append(q[m], "request")
        BY <2>1, <2>2
      <4>2. m \in Worker /\ m # "dispatch"
        BY WorkerNames
      <4>3. q' = [q EXCEPT !["dispatch"] = s, ![m] = r]
        BY <3>3, <4>1, <4>2 DEF TypeOK
      <4> QED BY <3>1, <4>2, <4>3
    <3> QED BY <1>17, <3>2, <3>3 DEF dispatch_frame
  <2> QED BY <1>17, <2>3 DEF dispatch_frame, TypeOK
<1>18. ASSUME NEW m \in Module, module_request(m) PROVE TypeOK'
  <2>1. m \in Worker /\ Tail(q[m]) \in Seq(Msg) /\ Append(q["handler"], "reply") \in Seq(Msg)
    BY <1>18, QueueType, WorkerNames DEF module_request
  <2>2. q' \in [Worker -> Seq(Msg)]
    BY <1>18, <2>1, WorkerNames DEF module_request, TypeOK
  <2> QED BY <1>18, <2>2 DEF module_request, TypeOK
<1>19. CASE handler_reply
  <2>1. Tail(q["handler"]) \in Seq(Msg)
    BY <1>19, QueueType, WorkerNames DEF handler_reply
  <2>2. q' \in [Worker -> Seq(Msg)]
    BY <1>19, <2>1 DEF handler_reply, TypeOK
  <2> QED BY <1>19, <2>2 DEF handler_reply, TypeOK
<1>20. CASE UNCHANGED vars
  BY <1>20 DEF vars, TypeOK
<1> QED
  BY <1>1, <1>2, <1>3, <1>4, <1>5, <1>6, <1>7, <1>8, <1>9, <1>10, <1>11, <1>12, <1>13, <1>14,
     <1>15, <1>16, <1>17, <1>18, <1>19, <1>20, WorkerNames
  DEF Next, MainNext, CloseNext, ModuleNext, DispatchNext, HandlerNext

-------------------------------------------------------------------------------
(* What the closers keep.                                                  *)

LEMMA ClosersUnchanged ==
  ASSUME ClosersInv, UNCHANGED <<cpc, stage, close_flag, exited>>, live' \subseteq live,
         apc' # "close" => apc # "close"
  PROVE  ClosersInv'
BY DEF ClosersInv

LEMMA ClosersNext == TypeOK /\ ClosersInv /\ [Next]_vars => ClosersInv'
<1> SUFFICES ASSUME TypeOK, ClosersInv, [Next]_vars PROVE ClosersInv'
  OBVIOUS
<1> USE DEF mainVars, closeVars, boundVars
<1>0. /\ cpc \in [Closer -> {"idle", "test", "set", "notify", "post", "join", "done"}]
      /\ stage \in [Closer -> 0..Threads]
  BY DEF TypeOK, Threads
<1>1. ASSUME \/ \E k \in Key : type_key(k)
             \/ key_signal \/ wait \/ clear_order \/ server_receive \/ dispatch_frame \/ handler_reply
             \/ UNCHANGED vars
      PROVE ClosersInv'
  <2>1. /\ UNCHANGED <<cpc, stage, close_flag, exited, live>>
        /\ apc' # "close" => apc # "close"
    BY <1>1 DEF type_key, key_signal, wait, clear_order, server_receive, dispatch_frame,
       handler_reply, vars
  <2> QED BY <2>1, ClosersUnchanged
<1>2. ASSUME NEW m \in Module,
             post_shutdown(m) \/ main_close(m) \/ main_close_signal(m) \/ module_request(m)
      PROVE  ClosersInv'
  <2>1. UNCHANGED <<cpc, stage, close_flag, exited, live, apc>>
    BY <1>2 DEF post_shutdown, main_close, main_close_signal, module_request
  <2> QED BY <2>1, ClosersUnchanged
<1>3. ASSUME NEW w \in Worker, worker_exit(w) PROVE ClosersInv'
  <2>1. UNCHANGED <<cpc, stage, close_flag, exited, apc>> /\ live' \subseteq live
    BY <1>3 DEF worker_exit
  <2> QED BY <2>1, ClosersUnchanged
<1>4. CASE check_order
  <2>1. CASE order = "q"
    <3>1. /\ cpc["main"] = "idle" /\ cpc' = [cpc EXCEPT !["main"] = "test"] /\ apc' = "close"
          /\ UNCHANGED <<stage, close_flag, exited, live>>
      BY <1>4, <2>1 DEF check_order, ClosersInv
    <3> QED BY <1>0, <3>1, WorkerNames DEF ClosersInv
  <2>2. CASE order # "q"
    <3>1. UNCHANGED <<cpc, stage, close_flag, exited, live>> /\ apc # "close"
      BY <1>4, <2>2 DEF check_order
    <3> QED BY <3>1, ClosersUnchanged
  <2> QED BY <2>1, <2>2
<1>5. CASE consolehandler
  <2>1. /\ cpc["console"] = "idle" /\ cpc' = [cpc EXCEPT !["console"] = "test"]
        /\ UNCHANGED <<apc, stage, close_flag, exited, live>>
    BY <1>5 DEF consolehandler
  <2> QED BY <1>0, <2>1, WorkerNames DEF ClosersInv
\* A closer goes on: it quits nothing, or a thread that has gone.
<1>6. ASSUME NEW c \in Closer, NEW pc, NEW st \in 0..Threads, cpc[c] # "idle",
             pc \in {"set", "notify", "post", "join", "done"},
             cpc' = [cpc EXCEPT ![c] = pc], stage' = [stage EXCEPT ![c] = st],
             UNCHANGED <<apc, exited, live>>,
             close_flag' => pc \in {"notify", "post", "join", "done"} \/ close_flag,
             cpc[c] \in {"notify", "post", "join", "done"} => pc \in {"notify", "post", "join", "done"},
             cpc[c] = "done" => pc = "done",
             pc \in {"set", "notify"} => st = 0,
             pc \in {"post", "join"} => st < Threads,
             \A j \in 1..st : QuitOrder[j] \notin live
      PROVE  ClosersInv'
  <2>1. \A d \in Closer : d # c => cpc'[d] = cpc[d] /\ stage'[d] = stage[d]
    BY <1>0, <1>6
  <2>2. cpc'[c] = pc /\ stage'[c] = st
    BY <1>0, <1>6
  <2>3. apc' # "close" => cpc'["main"] = "idle"
    BY <1>6, <2>1, WorkerNames DEF ClosersInv
  <2>4. close_flag' => \E d \in Closer : cpc'[d] \in {"notify", "post", "join", "done"}
    BY <1>6, <2>1, <2>2 DEF ClosersInv
  <2>5. exited' => \E d \in Closer : cpc'[d] = "done"
    BY <1>6, <2>1, <2>2 DEF ClosersInv
  <2>6. ASSUME NEW d \in Closer
        PROVE  /\ cpc'[d] \in {"idle", "test", "set", "notify"} => stage'[d] = 0
               /\ cpc'[d] \in {"post", "join"} => stage'[d] < Threads
               /\ \A j \in 1..stage'[d] : QuitOrder[j] \notin live'
    <3>1. CASE d = c
      BY <1>6, <2>2, <3>1
    <3>2. CASE d # c
      BY <1>6, <2>1, <3>2 DEF ClosersInv
    <3> QED BY <3>1, <3>2
  <2> QED BY <2>3, <2>4, <2>5, <2>6 DEF ClosersInv
<1>7. ASSUME NEW c \in Closer PROVE stage[c] \in 0..Threads /\ stage = [stage EXCEPT ![c] = stage[c]]
  BY <1>0
<1>8. ASSUME NEW c \in Closer, close_test(c) PROVE ClosersInv'
  <2>1. PICK pc : pc = IF close_flag THEN "done" ELSE "set"
    OBVIOUS
  <2>2. /\ cpc[c] = "test" /\ cpc' = [cpc EXCEPT ![c] = pc]
        /\ UNCHANGED <<stage, apc, exited, live, close_flag>>
    BY <1>8, <2>1 DEF close_test
  <2>3. PICK st \in 0..Threads : st = stage[c] /\ stage' = [stage EXCEPT ![c] = st]
    BY <1>7, <2>2
  <2>4. st = 0 /\ \A j \in 1..st : QuitOrder[j] \notin live
    BY <2>2, <2>3 DEF ClosersInv
  <2>5. pc \in {"set", "done"} /\ cpc[c] = "test"
    BY <2>1, <2>2
  <2>6. /\ pc \in {"set", "notify", "post", "join", "done"}
        /\ close_flag' => pc \in {"notify", "post", "join", "done"} \/ close_flag
        /\ cpc[c] \in {"notify", "post", "join", "done"} => pc \in {"notify", "post", "join", "done"}
        /\ cpc[c] = "done" => pc = "done"
        /\ pc \in {"set", "notify"} => st = 0
        /\ pc \in {"post", "join"} => st < Threads
    BY <2>2, <2>4, <2>5
  <2> QED BY <1>6, <2>2, <2>3, <2>4, <2>5, <2>6
<1>9. ASSUME NEW c \in Closer, close_set(c) \/ close_notify(c) PROVE ClosersInv'
  <2>1. PICK pc \in {"notify", "post"} :
          /\ cpc[c] \in {"set", "notify"} /\ cpc' = [cpc EXCEPT ![c] = pc]
          /\ UNCHANGED <<stage, apc, exited, live>>
    BY <1>9 DEF close_set, close_notify
  <2>3. stage[c] = 0 /\ \A j \in 1..stage[c] : QuitOrder[j] \notin live
    BY <2>1 DEF ClosersInv
  <2>4. 0 < Threads
    BY QuitOrderIs
  <2> QED BY <1>6, <1>7, <2>1, <2>3, <2>4
<1>10. ASSUME NEW c \in Closer, quit_post(c) PROVE ClosersInv'
  <2>1. /\ cpc[c] = "post" /\ cpc' = [cpc EXCEPT ![c] = "join"]
        /\ UNCHANGED <<stage, apc, exited, live>>
    BY <1>10 DEF quit_post
  <2>3. stage[c] < Threads /\ \A j \in 1..stage[c] : QuitOrder[j] \notin live
    BY <2>1 DEF ClosersInv
  <2> QED BY <1>6, <1>7, <2>1, <2>3
<1>11. ASSUME NEW c \in Closer, quit_join(c) PROVE ClosersInv'
  <2>1. PICK pc, st : pc = (IF stage[c] + 1 = Len(QuitOrder) THEN "done" ELSE "post")
                      /\ st = stage[c] + 1
    OBVIOUS
  <2>2. /\ cpc[c] = "join" /\ cpc' = [cpc EXCEPT ![c] = pc]
        /\ stage' = [stage EXCEPT ![c] = st] /\ UNCHANGED <<apc, exited, live, close_flag>>
        /\ QuitOrder[st] \notin live
    BY <1>11, <2>1 DEF quit_join
  <2>3. st \in 1..Threads /\ stage[c] \in Nat
    BY <2>1, <2>2, StageType
  <2>4. pc \in {"done", "post"} /\ (pc = "post" => st < Threads)
    BY <2>1, <2>3, QuitOrderIs
  <2>5. \A j \in 1..st : QuitOrder[j] \notin live
    <3>1. \A j \in 1..st : j \in 1..stage[c] \/ j = st
      BY <2>1, <2>3
    <3> QED BY <2>2, <3>1 DEF ClosersInv
  <2>6. st \in 0..Threads
    BY <2>3
  <2> QED BY <1>6, <2>2, <2>4, <2>5, <2>6
<1>12. ASSUME NEW c \in Closer, process_exit(c) PROVE ClosersInv'
  BY <1>12 DEF process_exit, ClosersInv
<1> QED
  BY <1>1, <1>2, <1>3, <1>4, <1>5, <1>8, <1>9, <1>10, <1>11, <1>12, WorkerNames
  DEF Next, MainNext, CloseNext, ModuleNext, DispatchNext, HandlerNext
-------------------------------------------------------------------------------
(* What a closer alone keeps.                                              *)

NoExit(s) == \A j \in DOMAIN s : s[j] # "exit"

\* Nobody becomes idle again.
LEMMA NeverIdle ==
  ASSUME TypeOK, [Next]_vars, NEW d \in Closer, cpc'[d] = "idle"
  PROVE  cpc[d] = "idle"
<1> USE DEF mainVars, closeVars, boundVars
<1>0. cpc \in [Closer -> {"idle", "test", "set", "notify", "post", "join", "done"}]
  BY DEF TypeOK
<1>1. ASSUME NEW c \in Closer, NEW pc, cpc' = [cpc EXCEPT ![c] = pc], pc # "idle"
      PROVE  cpc[d] = "idle"
  BY <1>0, <1>1
<1>2. CASE cpc' = cpc
  BY <1>2
<1>3. ASSUME NEW c \in Closer, CloseNext(c) PROVE cpc[d] = "idle"
  <2>1. cpc' = cpc \/ \E pc : cpc' = [cpc EXCEPT ![c] = pc] /\ pc # "idle"
    <3>1. CASE close_test(c)
      <4>1. PICK pc : pc = (IF close_flag THEN "done" ELSE "set")
        OBVIOUS
      <4>2. cpc' = [cpc EXCEPT ![c] = pc] /\ pc # "idle"
        BY <3>1, <4>1 DEF close_test
      <4> QED BY <4>2
    <3>2. CASE quit_join(c)
      <4>1. PICK pc : pc = (IF stage[c] + 1 = Len(QuitOrder) THEN "done" ELSE "post")
        OBVIOUS
      <4>2. cpc' = [cpc EXCEPT ![c] = pc] /\ pc # "idle"
        BY <3>2, <4>1 DEF quit_join
      <4> QED BY <4>2
    <3>3. CASE close_set(c) \/ close_notify(c) \/ quit_post(c) \/ process_exit(c)
      BY <3>3 DEF close_set, close_notify, quit_post, process_exit
    <3> QED BY <1>3, <3>1, <3>2, <3>3 DEF CloseNext
  <2> QED BY <1>1, <1>2, <2>1
<1>4. CASE check_order \/ consolehandler
  <2>1. cpc' = cpc \/ \E c \in Closer : cpc' = [cpc EXCEPT ![c] = "test"]
    BY <1>4, WorkerNames DEF check_order, consolehandler
  <2> QED BY <1>1, <1>2, <2>1
<1>5. ASSUME \/ \E k \in Key : type_key(k)
             \/ key_signal \/ wait \/ clear_order \/ DispatchNext \/ HandlerNext
             \/ \E m \in Module : post_shutdown(m) \/ ModuleNext(m)
             \/ server_receive \/ worker_exit("server") \/ UNCHANGED vars
      PROVE  cpc' = cpc
  BY <1>5 DEF type_key, key_signal, wait, clear_order, DispatchNext, HandlerNext, post_shutdown,
     ModuleNext, server_receive, worker_exit, vars, dispatch_frame, handler_reply, main_close,
     main_close_signal, module_request
<1> QED BY <1>2, <1>3, <1>4, <1>5 DEF Next, MainNext

\* As long as another thread runs, the handler runs too and has no order to exit.
LEMMA HandlerServes ==
  ASSUME TypeOK, ClosersInv, NEW c \in Closer, AloneInv(c), NEW w \in live, w # "handler"
  PROVE  NoExit(q["handler"]) /\ "handler" \in live
<1>1. "handler" \in live
  BY DEF AloneInv
<1>2. ~QuitsHandler(c)
  BY OthersGone
<1> QED BY <1>1, <1>2 DEF AloneInv, NoExit

\* Before a closer quits the handler, it has no order to exit.
LEMMA NotQuitYet ==
  ASSUME NEW c \in Closer, AloneInv(c), cpc[c] # "done", ~QuitsHandler(c)
  PROVE  NoExit(q["handler"]) /\ "handler" \in live
BY DEF AloneInv, NoExit

LEMMA ServesOn ==
  ASSUME NEW c \in Closer, NoExit(q["handler"])', "handler" \in live',
         cpc'[c] = "done" => stage'[c] = Threads
  PROVE  AloneInv(c)'
BY DEF AloneInv, NoExit

LEMMA AloneUnchanged ==
  ASSUME NEW c \in Closer, AloneInv(c), q'["handler"] = q["handler"],
         UNCHANGED <<cpc, stage, live>>
  PROVE  AloneInv(c)'
BY DEF AloneInv, QuitsHandler

LEMMA ReplyAppended ==
  ASSUME NEW s \in Seq(Msg), NoExit(s)
  PROVE  NoExit(Append(s, "reply"))
<1>1. /\ Len(Append(s, "reply")) = Len(s) + 1 /\ DOMAIN Append(s, "reply") = 1..(Len(s) + 1)
      /\ \A j \in 1..Len(s) : Append(s, "reply")[j] = s[j]
      /\ Append(s, "reply")[Len(s) + 1] = "reply"
  BY AppendProperties, WorkerNames, LenProperties
<1>2. Len(s) \in Nat /\ DOMAIN s = 1..Len(s)
  BY LenProperties
<1>3. \A j \in 1..(Len(s) + 1) : j \in 1..Len(s) \/ j = Len(s) + 1
  BY <1>2
<1> QED BY <1>1, <1>2, <1>3 DEF NoExit

LEMMA AloneNext ==
  ASSUME TypeOK, ClosersInv, [Next]_vars, NEW c \in Closer, Alone(c) => AloneInv(c), Alone(c)'
  PROVE  AloneInv(c)'
<1> USE DEF mainVars, closeVars, boundVars
<1>0. /\ cpc \in [Closer -> {"idle", "test", "set", "notify", "post", "join", "done"}]
      /\ stage \in [Closer -> 0..Threads]
      /\ q \in [Worker -> Seq(Msg)] /\ q["handler"] \in Seq(Msg)
      /\ live \subseteq Worker
  BY WorkerNames DEF TypeOK, Threads
<1>a. Alone(c)
  BY NeverIdle DEF Alone
<1>b. AloneInv(c)
  BY <1>a
\* Only c closes.
<1>c. ASSUME NEW d \in Closer, cpc[d] # "idle" \/ cpc'[d] # "idle" PROVE d = c
  <2>1. \A e \in Closer : e # c => cpc'[e] = "idle" /\ cpc[e] = "idle"
    BY <1>a DEF Alone
  <2> QED BY <1>c, <2>1
\* A reply to the handler from another thread.
<1>d. ASSUME NEW w \in live, w # "handler", UNCHANGED <<cpc, stage, live>>,
             q'["handler"] = Append(q["handler"], "reply")
      PROVE  AloneInv(c)'
  <2>1. NoExit(q["handler"]) /\ "handler" \in live
    BY <1>b, <1>d, HandlerServes
  <2>2. NoExit(q'["handler"]) /\ "handler" \in live'
    BY <1>0, <1>d, <2>1, ReplyAppended
  <2>3. cpc'[c] = "done" => stage'[c] = Threads
    BY <1>b, <1>d DEF AloneInv
  <2>4. NoExit(q["handler"])'
    BY <2>2 DEF NoExit
  <2> QED BY <2>2, <2>3, <2>4, ServesOn
\* A step of c before it quits the handler.
<1>e. ASSUME cpc[c] # "done", ~QuitsHandler(c), cpc'[c] # "done", live' = live,
             q'["handler"] \in {q["handler"], Append(q["handler"], "reply")}
      PROVE  AloneInv(c)'
  <2>1. NoExit(q["handler"]) /\ "handler" \in live
    BY <1>b, <1>e, NotQuitYet
  <2>2. NoExit(q'["handler"])
    BY <1>0, <1>e, <2>1, ReplyAppended
  <2>3. NoExit(q["handler"])'
    BY <2>2 DEF NoExit
  <2> QED BY <1>e, <2>1, <2>3, ServesOn
<1>1. ASSUME \/ \E k \in Key : type_key(k)
             \/ key_signal \/ wait \/ clear_order \/ UNCHANGED vars
             \/ \E d \in Closer : process_exit(d)
      PROVE  AloneInv(c)'
  <2>1. UNCHANGED <<q, cpc, stage, live>>
    BY <1>1 DEF type_key, key_signal, wait, clear_order, process_exit, vars
  <2> QED BY <1>b, <2>1, AloneUnchanged
<1>2. ASSUME NEW m \in Module, post_shutdown(m) \/ main_close(m) \/ main_close_signal(m)
      PROVE  AloneInv(c)'
  <2>1. UNCHANGED <<cpc, stage, live>>
    BY <1>2 DEF post_shutdown, main_close, main_close_signal
  <2>2. m # "handler"
    BY WorkerNames
  <2>3. q'["handler"] = q["handler"]
    BY <1>0, <1>2, <2>2, WorkerNames DEF post_shutdown, main_close, main_close_signal
  <2> QED BY <1>b, <2>1, <2>3, AloneUnchanged
<1>3. CASE server_receive
  <2>1. UNCHANGED <<cpc, stage, live>> /\ q'["handler"] = q["handler"]
    BY <1>0, <1>3 DEF server_receive
  <2> QED BY <1>b, <2>1, AloneUnchanged
<1>4. CASE dispatch_frame
  <2>1. UNCHANGED <<cpc, stage, live>> /\ "dispatch" \in live
    BY <1>4 DEF dispatch_frame
  <2>2. CASE q' = [q EXCEPT !["dispatch"] = Tail(@), !["handler"] = Append(@, "reply")]
    <3>1. q'["handler"] = Append(q["handler"], "reply")
      BY <1>0, <2>2, WorkerNames
    <3> QED BY <1>d, <2>1, <3>1
  <2>3. ASSUME NEW m \in Module, q' = [q EXCEPT !["dispatch"] = Tail(@), ![m] = Append(@, "request")]
        PROVE  AloneInv(c)'
    <3>1. m # "handler"
      BY WorkerNames
    <3>2. q'["handler"] = q["handler"]
      <4>1. PICK s, u : s = Tail(q["dispatch"]) /\ u = Append(q[m], "request")
        OBVIOUS
      <4>2. q' = [q EXCEPT !["dispatch"] = s, ![m] = u]
        BY <1>0, <2>3, <4>1, WorkerNames
      <4> QED BY <1>0, <3>1, <4>2, WorkerNames
    <3> QED BY <1>b, <2>1, <3>2, AloneUnchanged
  <2> QED BY <1>4, <2>2, <2>3 DEF dispatch_frame
<1>5. ASSUME NEW m \in Module, module_request(m) PROVE AloneInv(c)'
  <2>1. m # "handler" /\ m \in live /\ UNCHANGED <<cpc, stage, live>>
    BY <1>5, WorkerNames DEF module_request
  <2>2. q'["handler"] = Append(q["handler"], "reply")
    BY <1>0, <1>5, <2>1, WorkerNames DEF module_request
  <2> QED BY <1>d, <2>1, <2>2
\* The handler sends a reply: what is behind moves up.
<1>6. CASE handler_reply
  <2>1. PICK s : s = q["handler"]
    OBVIOUS
  <2>2. /\ s \in Seq(Msg) /\ s # <<>> /\ "handler" \in live /\ UNCHANGED <<cpc, stage, live>>
        /\ q'["handler"] = Tail(s)
    BY <1>0, <1>6, <2>1, WorkerNames DEF handler_reply
  <2>3. /\ Len(s) \in Nat /\ Len(Tail(s)) = Len(s) - 1
        /\ DOMAIN Tail(s) = 1..(Len(s) - 1) /\ DOMAIN s = 1..Len(s)
        /\ \A j \in 1..(Len(s) - 1) : Tail(s)[j] = s[j + 1]
    BY <2>2, HeadTailProperties, LenProperties
  <2>4. ASSUME NEW j \in 1..(Len(s) - 1), Tail(s)[j] = "exit"
        PROVE  j = Len(s) - 1 /\ QuitsHandler(c)
    <3>1. j + 1 \in DOMAIN s /\ s[j + 1] = "exit" /\ j \in Int
      BY <2>3, <2>4
    <3>2. j + 1 = Len(s) /\ QuitsHandler(c)
      BY <1>b, <2>1, <3>1 DEF AloneInv
    <3>3. PICK n : n = Len(s)
      OBVIOUS
    <3>4. j + 1 = n
      BY <3>2, <3>3, ZenonT(30)
    <3>5. n \in Nat /\ j \in Int
      BY <2>3, <3>1, <3>3
    <3>6. j = n - 1
      BY <3>4, <3>5
    <3> QED BY <3>2, <3>3, <3>6, ZenonT(30)
  <2>5. \A j \in DOMAIN q'["handler"] :
          q'["handler"][j] = "exit" => j = Len(q'["handler"]) /\ QuitsHandler(c)
    BY <2>2, <2>3, <2>4, ZenonT(30)
  <2> QED BY <1>b, <2>2, <2>5 DEF AloneInv, QuitsHandler
<1>7. ASSUME NEW w \in Worker, worker_exit(w) PROVE AloneInv(c)'
  <2>1. w \in live /\ live' = live \ {w} /\ UNCHANGED <<cpc, stage>>
    BY <1>7 DEF worker_exit
  <2>2. CASE w # "handler"
    <3>1. q'["handler"] = q["handler"]
      BY <1>0, <1>7, <2>2 DEF worker_exit
    <3>2. "handler" \in live /\ "handler" \in live'
      BY <1>b, <2>1, <2>2 DEF AloneInv
    <3> QED BY <1>b, <2>1, <3>1, <3>2 DEF AloneInv, QuitsHandler
  <2>3. CASE w = "handler"
    <3>1. PICK s : s = q["handler"]
      OBVIOUS
    <3>2. /\ s \in Seq(Msg) /\ s # <<>> /\ Head(s) = "exit" /\ q'["handler"] = Tail(s)
      BY <1>0, <1>7, <2>3, <3>1, WorkerNames DEF worker_exit
    <3>3. 1 \in DOMAIN s /\ s[1] = "exit" /\ Len(s) \in Nat
      BY <3>2, HeadTailProperties, LenProperties, EmptySeq
    <3>4. Len(s) = 1 /\ QuitsHandler(c)
      BY <1>b, <3>1, <3>3 DEF AloneInv
    <3>5. q'["handler"] = <<>>
      BY <3>2, <3>4, HeadTailProperties, EmptySeq
    <3>6. live' = {}
      BY <2>1, <2>3, <3>4, OthersGone
    <3> QED BY <2>1, <3>4, <3>5, <3>6 DEF AloneInv, QuitsHandler
  <2> QED BY <2>2, <2>3
<1>8. CASE check_order
  <2>1. CASE order = "q"
    <3>1. /\ cpc["main"] = "idle" /\ cpc' = [cpc EXCEPT !["main"] = "test"]
          /\ UNCHANGED <<q, stage, live>>
      BY <1>8, <2>1 DEF check_order, ClosersInv
    <3>2. c = "main"
      BY <1>0, <1>c, <3>1, WorkerNames
    <3> QED BY <1>0, <1>e, <3>1, <3>2, WorkerNames DEF QuitsHandler
  <2>2. CASE order # "q"
    <3>1. UNCHANGED <<q, cpc, stage, live>>
      BY <1>8, <2>2 DEF check_order
    <3> QED BY <1>b, <3>1, AloneUnchanged
  <2> QED BY <2>1, <2>2
<1>9. CASE consolehandler
  <2>1. /\ cpc["console"] = "idle" /\ cpc' = [cpc EXCEPT !["console"] = "test"]
        /\ UNCHANGED <<q, stage, live>>
    BY <1>9 DEF consolehandler
  <2>2. c = "console"
    BY <1>0, <1>c, <2>1, WorkerNames
  <2> QED BY <1>0, <1>e, <2>1, <2>2, WorkerNames DEF QuitsHandler
\* Nobody has closed before: the flag is down.
<1>10. ASSUME NEW d \in Closer, close_test(d) PROVE AloneInv(c)'
  <2>1. cpc[d] = "test" /\ UNCHANGED <<q, stage, live>>
    BY <1>10 DEF close_test
  <2>2. d = c
    BY <1>c, <2>1
  <2>3. ~close_flag
    <3>1. SUFFICES ASSUME close_flag PROVE FALSE
      OBVIOUS
    <3>2. PICK e \in Closer : cpc[e] \in {"notify", "post", "join", "done"}
      BY <3>1 DEF ClosersInv
    <3>3. e = c
      BY <1>c, <3>2
    <3> QED BY <2>1, <2>2, <3>2, <3>3
  <2>4. cpc'[c] = "set"
    BY <1>0, <1>10, <2>2, <2>3 DEF close_test
  <2> QED BY <1>e, <2>1, <2>2, <2>4 DEF QuitsHandler
<1>11. ASSUME NEW d \in Closer, close_set(d) PROVE AloneInv(c)'
  <2>1. cpc[d] = "set" /\ UNCHANGED <<q, stage, live>> /\ cpc'[d] = "notify"
    BY <1>0, <1>11 DEF close_set
  <2>2. d = c
    BY <1>c, <2>1
  <2> QED BY <1>e, <2>1, <2>2 DEF QuitsHandler
<1>12. ASSUME NEW d \in Closer, close_notify(d) PROVE AloneInv(c)'
  <2>1. /\ cpc[d] = "notify" /\ UNCHANGED <<stage, live>> /\ cpc'[d] = "post"
        /\ q'["handler"] = Append(q["handler"], "reply")
    BY <1>0, <1>12, WorkerNames DEF close_notify
  <2>2. d = c
    BY <1>c, <2>1
  <2> QED BY <1>e, <2>1, <2>2 DEF QuitsHandler
\* c posts an order to exit: to another thread, or to the handler as the last one.
<1>13. ASSUME NEW d \in Closer, quit_post(d) PROVE AloneInv(c)'
  <2>1. cpc[d] = "post" /\ UNCHANGED <<stage, live>> /\ cpc'[d] = "join"
    BY <1>0, <1>13 DEF quit_post
  <2>2. d = c
    BY <1>c, <2>1
  <2>3. PICK w \in Worker : /\ w = QuitOrder[stage[c] + 1]
                            /\ stage[c] \in Nat /\ stage[c] + 1 \in 1..Threads
    BY <2>1, <2>2, StageType
  <2>4. q' = [q EXCEPT ![w] = Append(@, "exit")]
    BY <1>13, <2>2, <2>3 DEF quit_post
  <2>5. CASE w # "handler"
    <3>1. q'["handler"] = q["handler"]
      BY <1>0, <2>4, <2>5
    <3> QED BY <1>e, <2>1, <2>2, <3>1 DEF QuitsHandler
  <2>6. CASE w = "handler"
    <3>1. stage[c] + 1 = Threads
      <4>1. PICK k \in 1..Threads : k = stage[c] + 1 /\ QuitOrder[k] = "handler"
        BY <2>3, <2>6
      <4>2. Threads \in 1..Threads /\ QuitOrder[Threads] = "handler"
        BY QuitOrderIs
      <4>3. k = Threads
        BY <4>1, <4>2, QuitOrderIs
      <4> QED BY <4>1, <4>3
    <3>2. QuitsHandler(c)'
      BY <2>1, <2>2, <2>3, <3>1, QuitOrderIs DEF QuitsHandler
    <3>3. NoExit(q["handler"]) /\ "handler" \in live'
      BY <1>b, <2>1, <2>2, NotQuitYet DEF QuitsHandler
    <3>4. PICK s \in Seq(Msg) : s = q["handler"]
      BY <1>0
    <3>5. q'["handler"] = Append(s, "exit")
      BY <1>0, <2>4, <2>6, <3>4, WorkerNames
    <3>6. /\ Len(s) \in Nat /\ DOMAIN s = 1..Len(s)
          /\ Len(Append(s, "exit")) = Len(s) + 1 /\ DOMAIN Append(s, "exit") = 1..(Len(s) + 1)
          /\ \A j \in 1..Len(s) : Append(s, "exit")[j] = s[j]
      BY AppendProperties, WorkerNames, LenProperties
    <3>7. \A j \in DOMAIN q'["handler"] : q'["handler"][j] = "exit" => j = Len(q'["handler"])
      <4>1. \A j \in 1..(Len(s) + 1) : j \in 1..Len(s) \/ j = Len(s) + 1
        BY <3>6
      <4> QED BY <3>3, <3>4, <3>5, <3>6, <4>1 DEF NoExit
    <3>8. cpc'[c] # "done"
      BY <2>1, <2>2
    <3> QED BY <3>2, <3>3, <3>7, <3>8 DEF AloneInv
  <2> QED BY <2>5, <2>6
<1>14. ASSUME NEW d \in Closer, quit_join(d) PROVE AloneInv(c)'
  <2>1. cpc[d] = "join" /\ UNCHANGED <<q, live>>
    BY <1>14 DEF quit_join
  <2>2. d = c
    BY <1>c, <2>1
  <2>3. stage[c] \in Nat /\ stage[c] + 1 \in 1..Threads /\ Len(QuitOrder) = Threads /\ Threads \in Nat
    BY <2>1, <2>2, StageType, QuitOrderIs
  <2>4. CASE stage[c] + 1 = Threads
    <3>1. QuitsHandler(c)
      BY <2>1, <2>2, <2>3, <2>4 DEF QuitsHandler
    <3>2. QuitOrder[stage[c] + 1] \notin live
      BY <1>14, <2>2 DEF quit_join
    <3>3. "handler" \notin live
      BY <2>4, <3>2, QuitOrderIs
    <3>4. q'["handler"] = <<>> /\ live' = {}
      BY <1>b, <2>1, <3>3 DEF AloneInv
    <3>5. cpc'[c] = "done" /\ stage'[c] = Threads
      BY <1>0, <1>14, <2>2, <2>3, <2>4 DEF quit_join
    <3>6. DOMAIN q'["handler"] = {}
      BY <3>4
    <3> QED BY <3>4, <3>5, <3>6 DEF AloneInv
  <2>5. CASE stage[c] + 1 # Threads
    <3>1. ~QuitsHandler(c)
      BY <2>3, <2>5 DEF QuitsHandler
    <3>2. cpc'[c] = "post"
      BY <1>0, <1>14, <2>2, <2>3, <2>5 DEF quit_join
    <3> QED BY <1>e, <2>1, <2>2, <3>1, <3>2
  <2> QED BY <2>4, <2>5
<1> QED
  BY <1>1, <1>2, <1>3, <1>4, <1>5, <1>6, <1>7, <1>8, <1>9, <1>10, <1>11, <1>12, <1>13, <1>14,
     WorkerNames
  DEF Next, MainNext, CloseNext, ModuleNext, DispatchNext, HandlerNext

-------------------------------------------------------------------------------
(* The teardown.                                                           *)

LEMMA InitKeeps == Init => IInv
<1> SUFFICES ASSUME Init PROVE IInv
  OBVIOUS
<1>1. TypeOK
  BY InitType
<1>2. ClosersInv
  <2>1. apc # "close" => cpc["main"] = "idle"
    BY WorkerNames DEF Init
  <2>2. \A c \in Closer : cpc[c] \in {"idle", "test"} /\ stage[c] = 0
    BY DEF Init
  <2> QED BY <2>1, <2>2 DEF Init, ClosersInv
<1>3. ASSUME NEW c \in Closer PROVE AloneInv(c)
  <2>1. cpc[c] # "done" /\ "handler" \in live /\ q["handler"] = <<>>
    BY WorkerNames, MainAppAssumption DEF Init
  <2>2. DOMAIN q["handler"] = {}
    BY <2>1
  <2> QED BY <2>1, <2>2 DEF AloneInv
<1> QED BY <1>1, <1>2, <1>3 DEF IInv

LEMMA NextKeeps == IInv /\ [Next]_vars => IInv'
<1> SUFFICES ASSUME IInv, [Next]_vars PROVE IInv'
  OBVIOUS
<1>1. TypeOK' /\ ClosersInv'
  BY TypeNext, ClosersNext DEF IInv
<1>2. ASSUME NEW c \in Closer PROVE Alone(c)' => AloneInv(c)'
  <2>1. Alone(c) => AloneInv(c)
    BY DEF IInv
  <2> QED BY <2>1, AloneNext DEF IInv
<1> QED BY <1>1, <1>2 DEF IInv

LEMMA KeepsTeardown == IInv => TeardownInv
<1> SUFFICES ASSUME IInv, SoleCloser PROVE TypeOK /\ NoReplyStranded /\ StoppedBeforeExit
  BY DEF IInv, TeardownInv
<1>0. TypeOK /\ ClosersInv
  BY DEF IInv
\* The closer that may have begun.
<1>1. PICK c \in Closer : Alone(c)
  <2>1. PICK d \in Closer : cpc[d] = "idle"
    BY DEF SoleCloser
  <2>2. PICK e \in Closer : e # d /\ \A f \in Closer : f # e => f = d
    BY WorkerNames
  <2> QED BY <2>1, <2>2 DEF Alone
<1>2. AloneInv(c)
  BY <1>1 DEF IInv
<1>3. NoReplyStranded
  <2>1. "handler" \notin live => DOMAIN q["handler"] = {} /\ live = {}
    BY <1>2 DEF AloneInv
  <2> QED BY <2>1 DEF NoReplyStranded
<1>4. StoppedBeforeExit
  <2>1. SUFFICES ASSUME exited PROVE live = {}
    BY DEF StoppedBeforeExit
  <2>2. PICK d \in Closer : cpc[d] = "done"
    BY <1>0, <2>1 DEF ClosersInv
  <2>3. d = c
    BY <1>1, <2>2 DEF Alone
  <2>4. stage[c] = Threads
    BY <1>2, <2>2, <2>3 DEF AloneInv
  <2> QED BY <1>0, <2>4, AllGone
<1> QED BY <1>0, <1>3, <1>4

\* A teardown by one closer, whatever is in flight, strands no reply and ends no process
\* with a thread running (close_service and the worker threads of robot_main_app).
THEOREM TeardownKept == Spec => []TeardownInv
<1>1. Spec => []IInv
  BY InitKeeps, NextKeeps, PTL DEF Spec
<1> QED BY <1>1, KeepsTeardown, PTL
===============================================================================
