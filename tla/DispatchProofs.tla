---------------------------- MODULE DispatchProofs ----------------------------
(***************************************************************************)
(* Theorems about Dispatch, for every set of connections, handles and      *)
(* appids and every bound.                                                 *)
(***************************************************************************)
EXTENDS Dispatch, FiniteSetTheorems, SequenceTheorems, TLAPS

-------------------------------------------------------------------------------
(* Types.                                                                  *)

\* The message a thread takes from the front of its queue is well typed.
LEMMA DispatchHead ==
  ASSUME QueueType, dq # <<>>
  PROVE  Head(dq).g \in Guid /\ Head(dq).n \in Nat
<1>1. Head(dq) \in DispatchMsg
  BY DEF QueueType
<1> QED
  BY <1>1 DEF DispatchMsg

LEMMA ModuleHead ==
  ASSUME QueueType, mq # <<>>
  PROVE  Head(mq).g \in Guid
<1>1. Head(mq) \in ModuleMsg
  BY DEF QueueType
<1> QED
  BY <1>1 DEF ModuleMsg

LEMMA HandlerHead ==
  ASSUME QueueType, hq # <<>>, Head(hq).k = "reply"
  PROVE  Head(hq).g \in Guid
<1>1. Head(hq) \in HandlerMsg
  BY DEF QueueType
<1> QED
  BY <1>1 DEF HandlerMsg

LEMMA AppendType ==
  ASSUME NEW S, NEW s \in Seq(S), NEW e \in S
  PROVE  Append(s, e) \in Seq(S)
OBVIOUS

LEMMA Messages ==
  ASSUME NEW g \in Guid
  PROVE  /\ [k |-> "request", g |-> g] \in ModuleMsg
         /\ [k |-> "online", g |-> g] \in ModuleMsg
         /\ [k |-> "offline", g |-> g] \in ModuleMsg
         /\ [k |-> "reply", g |-> g] \in HandlerMsg
         /\ [k |-> "all", g |-> NoGuid] \in HandlerMsg
BY DEF ModuleMsg, HandlerMsg

\* remove_client is called from two threads; what it writes is well typed.
LEMMA RemoveClientType ==
  ASSUME RegistryType, QueueType, NEW g \in Guid, remove_client(g)
  PROVE  RegistryType' /\ mq' \in Seq(ModuleMsg)
<1>1. RegistryType'
  BY DEF RegistryType, remove_client
<1>2. mq' \in Seq(ModuleMsg)
  <2>1. [k |-> "offline", g |-> g] \in ModuleMsg
    BY Messages
  <2> QED
    BY <2>1 DEF QueueType, remove_client, Notify
<1> QED
  BY <1>1, <1>2

LEMMA InitType == Init => TypeOK
<1> SUFFICES ASSUME Init PROVE TypeOK
  OBVIOUS
<1>1. ServerType /\ ModuleType
  BY DEF Init, ServerType, ModuleType
<1>2. DispatchType
  BY DEF Init, DispatchType
<1>3. RegistryType
  BY DEF Init, RegistryType
<1>4. HandlerType
  BY DEF Init, HandlerType
<1>5. QueueType
  BY DEF Init, QueueType
<1> QED
  BY <1>1, <1>2, <1>3, <1>4, <1>5 DEF TypeOK

\* Every variable keeps its type: no handler stores a value another handler
\* does not expect.
THEOREM TypeCorrect == Spec => []TypeOK
<1>1. TypeOK /\ [Next]_vars => TypeOK'
  <2> SUFFICES ASSUME TypeOK, [Next]_vars
               PROVE  TypeOK'
    OBVIOUS
  <2> USE DispatchAssumption DEF TypeOK
  <2>1. ASSUME NEW g \in Guid, NEW h \in Handle, new_connect(g, h)
        PROVE  TypeOK'
    <3>1. DispatchType' /\ RegistryType' /\ ModuleType' /\ QueueType' /\ HandlerType'
      BY <2>1 DEF new_connect, DispatchType, RegistryType, ModuleType, QueueType, HandlerType, dispatchVars, registryVars, moduleVars, handlerVars
    <3>2. ServerType'
      BY <2>1 DEF new_connect, ServerType
    <3> QED
      BY <3>1, <3>2
  <2>2. ASSUME NEW g \in Guid, NEW n \in 1..MaxParts,
               server_recvice_data(g, n)
        PROVE  TypeOK'
    <3>1. DispatchType' /\ RegistryType' /\ ModuleType' /\ HandlerType'
      BY <2>2 DEF server_recvice_data, DispatchType, RegistryType, ModuleType, HandlerType, dispatchVars, registryVars, moduleVars, handlerVars
    <3>2. ServerType'
      BY <2>2 DEF server_recvice_data, ServerType
    <3>3. QueueType'
      BY <2>2 DEF server_recvice_data, QueueType, DispatchMsg
    <3> QED
      BY <3>1, <3>2, <3>3
  <2>3. ASSUME NEW g \in Guid, remove_socket(g)
        PROVE  TypeOK'
    <3>1. DispatchType' /\ ModuleType' /\ HandlerType'
      BY <2>3 DEF remove_socket, remove_one, DispatchType, ModuleType, HandlerType, dispatchVars, moduleVars, handlerVars
    <3>2. ServerType'
      BY <2>3 DEF remove_socket, remove_one, ServerType
    <3>3. RegistryType'
      BY <2>3, RemoveClientType DEF remove_socket, remove_one, RegistryType, QueueType
    <3>4. QueueType'
      BY <2>3, RemoveClientType DEF remove_socket, remove_one, QueueType, RegistryType, DispatchMsg
    <3> QED
      BY <3>1, <3>2, <3>3, <3>4
  <2>4. ASSUME server_message
        PROVE  TypeOK'
    <3>1. DispatchType' /\ ModuleType' /\ HandlerType'
      BY <2>4 DEF server_message, remove_one, DispatchType, ModuleType, HandlerType, dispatchVars, moduleVars, handlerVars
    <3>2. ServerType'
      BY <2>4 DEF server_message, remove_one, ServerType, serverVars
    <3>3. RegistryType'
      BY <2>4, RemoveClientType DEF server_message, remove_one, RegistryType, registryVars, QueueType
    <3>4. QueueType'
      <4>1. srvq # <<>> => Head(srvq) \in Guid /\ Tail(srvq) \in Seq(Guid)
        BY DEF QueueType
      <4> QED
        <5>1. CASE Head(srvq) \in sock
          <6>1. mq' \in Seq(ModuleMsg)
            BY <2>4, <4>1, <5>1, RemoveClientType DEF server_message, remove_one
          <6>2. [k |-> "remove", g |-> Head(srvq), n |-> 0] \in DispatchMsg
            BY <2>4, <4>1 DEF server_message, DispatchMsg
          <6> QED
            <7>1. dq' \in Seq(DispatchMsg)
              BY <2>4, <5>1, <6>2, AppendType
              DEF server_message, remove_one, QueueType
            <7> QED
              BY <2>4, <4>1, <6>1, <7>1 DEF server_message, QueueType
        <5>2. CASE Head(srvq) \notin sock
          BY <2>4, <4>1, <5>2 DEF server_message, QueueType
        <5> QED
          BY <5>1, <5>2
    <3> QED
      BY <3>1, <3>2, <3>3, <3>4
  <2>5. ASSUME net_data_in_handler
        PROVE  TypeOK'
    <3>1. ServerType' /\ RegistryType' /\ ModuleType' /\ HandlerType'
      BY <2>5 DEF net_data_in_handler, ServerType, RegistryType, ModuleType, HandlerType, serverVars, registryVars, moduleVars, handlerVars
    <3>2. DispatchType'
      BY <2>5, DispatchHead DEF net_data_in_handler, DispatchType
    <3>3. QueueType'
      BY <2>5 DEF net_data_in_handler, QueueType
    <3> QED
      BY <3>1, <3>2, <3>3
  <2>6. ASSUME erase_cache
        PROVE  TypeOK'
    <3>1. ServerType' /\ RegistryType' /\ ModuleType' /\ HandlerType'
      BY <2>6 DEF erase_cache, ServerType, RegistryType, ModuleType, HandlerType, serverVars, registryVars, moduleVars, handlerVars
    <3>2. DispatchType'
      BY <2>6, DispatchHead DEF erase_cache, DispatchType
    <3>3. QueueType'
      BY <2>6 DEF erase_cache, QueueType
    <3> QED
      BY <3>1, <3>2, <3>3
  <2>7. ASSUME NEW a \in App, take_frame(a)
        PROVE  TypeOK'
    <3>1. ServerType' /\ ModuleType' /\ HandlerType'
      BY <2>7 DEF take_frame, ServerType, ModuleType, HandlerType, serverVars, moduleVars, handlerVars
    <3>2. DispatchType'
      BY <2>7 DEF take_frame, DispatchType
    <3>3. RegistryType'
      BY <2>7 DEF take_frame, DispatchType, RegistryType, add_client, registryVars
    <3>4. QueueType'
      <4>1. [k |-> "online", g |-> dcur] \in ModuleMsg
        BY <2>7, Messages DEF take_frame, DispatchType
      <4> QED
        <5>1. \/ mq' = mq
              \/ mq' = Append(mq, [k |-> "online", g |-> dcur])
          BY <2>7 DEF take_frame, add_client, Notify
        <5>2. mq' \in Seq(ModuleMsg)
          BY <4>1, <5>1, AppendType DEF QueueType
        <5> QED
          BY <2>7, <5>2 DEF take_frame, QueueType
    <3> QED
      BY <3>1, <3>2, <3>3, <3>4
  <2>8. ASSUME wait_data
        PROVE  TypeOK'
    <3>1. ServerType' /\ RegistryType' /\ ModuleType' /\ QueueType' /\ HandlerType'
      BY <2>8 DEF wait_data, ServerType, RegistryType, ModuleType, QueueType, HandlerType, serverVars, registryVars, moduleVars, handlerVars
    <3>2. DispatchType'
      BY <2>8 DEF wait_data, DispatchType
    <3> QED
      BY <3>1, <3>2
  <2>9. ASSUME local_msg_handler
        PROVE  TypeOK'
    <3>1. ServerType' /\ RegistryType' /\ ModuleType' /\ HandlerType'
      BY <2>9 DEF local_msg_handler, ServerType, RegistryType, ModuleType, HandlerType, serverVars, registryVars, moduleVars, handlerVars
    <3>2. DispatchType'
      BY <2>9 DEF local_msg_handler, DispatchType
    <3>3. QueueType'
      <4>1. /\ [k |-> "request", g |-> dcur] \in ModuleMsg
            /\ [k |-> "reply", g |-> dcur] \in HandlerMsg
        BY <2>9, Messages DEF local_msg_handler, DispatchType
      <4> QED
        <5>1. /\ \/ mq' = mq
                 \/ mq' = Append(mq, [k |-> "request", g |-> dcur])
              /\ \/ hq' = hq
                 \/ hq' = Append(hq, [k |-> "reply", g |-> dcur])
          BY <2>9 DEF local_msg_handler
        <5>2. mq' \in Seq(ModuleMsg) /\ hq' \in Seq(HandlerMsg)
          BY <4>1, <5>1, AppendType DEF QueueType
        <5> QED
          BY <2>9, <5>2 DEF local_msg_handler, QueueType
    <3> QED
      BY <3>1, <3>2, <3>3
  <2>10. ASSUME register_client_monitor
        PROVE  TypeOK'
    <3>1. ServerType' /\ DispatchType' /\ RegistryType' /\ QueueType' /\ HandlerType'
      BY <2>10 DEF register_client_monitor, ServerType, DispatchType, RegistryType, QueueType, HandlerType, serverVars, dispatchVars, registryVars, handlerVars
    <3>2. ModuleType'
      BY <2>10 DEF register_client_monitor, ModuleType
    <3> QED
      BY <3>1, <3>2
  <2>11. ASSUME module_process
        PROVE  TypeOK'
    <3>1. ServerType' /\ DispatchType' /\ RegistryType' /\ HandlerType'
      BY <2>11 DEF module_process, ServerType, DispatchType, RegistryType, HandlerType, serverVars, dispatchVars, registryVars, handlerVars
    <3>2. ModuleType'
      BY <2>11, ModuleHead DEF module_process, ModuleType
    <3>3. QueueType'
      <4>1. [k |-> "reply", g |-> Head(mq).g] \in HandlerMsg
        BY <2>11, ModuleHead, Messages DEF module_process
      <4> QED
        <5>1. \/ hq' = hq
              \/ hq' = Append(hq, [k |-> "reply", g |-> Head(mq).g])
          BY <2>11 DEF module_process
        <5>2. hq' \in Seq(HandlerMsg)
          BY <4>1, <5>1, AppendType DEF QueueType
        <5> QED
          BY <2>11, <5>2 DEF module_process, QueueType
    <3> QED
      BY <3>1, <3>2, <3>3
  <2>12. ASSUME module_broadcast
        PROVE  TypeOK'
    <3>1. ServerType' /\ DispatchType' /\ RegistryType' /\ HandlerType'
      BY <2>12 DEF module_broadcast, ServerType, DispatchType, RegistryType, HandlerType, serverVars, dispatchVars, registryVars, handlerVars
    <3>2. ModuleType'
      BY <2>12 DEF module_broadcast, ModuleType
    <3>3. QueueType'
      BY <2>12 DEF module_broadcast, QueueType, HandlerMsg
    <3> QED
      BY <3>1, <3>2, <3>3
  <2>13. ASSUME message_convert_result
        PROVE  TypeOK'
    <3>1. ServerType' /\ DispatchType' /\ RegistryType' /\ ModuleType'
      BY <2>13 DEF message_convert_result, ServerType, DispatchType, RegistryType, ModuleType, serverVars, dispatchVars, registryVars, moduleVars
    <3>2. QueueType'
      BY <2>13 DEF message_convert_result, QueueType
    <3>3. HandlerType'
      BY <2>13, HandlerHead DEF message_convert_result, HandlerType
    <3> QED
      BY <3>1, <3>2, <3>3
  <2>14. ASSUME message_convert_result_all
        PROVE  TypeOK'
    <3>1. ServerType' /\ DispatchType' /\ RegistryType' /\ ModuleType'
      BY <2>14 DEF message_convert_result_all, ServerType, DispatchType, RegistryType, ModuleType, serverVars, dispatchVars, registryVars, moduleVars
    <3>2. QueueType'
      BY <2>14 DEF message_convert_result_all, QueueType
    <3>3. HandlerType'
      BY <2>14 DEF message_convert_result_all, HandlerType
    <3> QED
      BY <3>1, <3>2, <3>3
  <2>15. ASSUME get_ntf_list
        PROVE  TypeOK'
    <3>1. ServerType' /\ DispatchType' /\ RegistryType' /\ ModuleType' /\ QueueType'
      BY <2>15 DEF get_ntf_list, ServerType, DispatchType, RegistryType, ModuleType, QueueType, serverVars, dispatchVars, registryVars, moduleVars
    <3>2. HandlerType'
      BY <2>15 DEF get_ntf_list, HandlerType, RegistryType
    <3> QED
      BY <3>1, <3>2
  <2>16. ASSUME broadcast_listed
        PROVE  TypeOK'
    <3>1. ServerType' /\ DispatchType' /\ RegistryType' /\ ModuleType' /\ QueueType'
      BY <2>16 DEF broadcast_listed, ServerType, DispatchType, RegistryType, ModuleType, QueueType, serverVars, dispatchVars, registryVars, moduleVars
    <3>2. HandlerType'
      BY <2>16 DEF broadcast_listed, HandlerType
    <3> QED
      BY <3>1, <3>2
  <2>17. ASSUME NEW p \in todo, send_data_lookup(p)
        PROVE  TypeOK'
    <3>1. ServerType' /\ DispatchType' /\ ModuleType'
      BY <2>17 DEF send_data_lookup, ServerType, DispatchType, ModuleType, serverVars, dispatchVars, moduleVars
    <3>2. RegistryType'
      BY <2>17, RemoveClientType DEF send_data_lookup, RegistryType, HandlerType, registryVars, QueueType
    <3>3. QueueType'
      BY <2>17, RemoveClientType DEF send_data_lookup, QueueType, HandlerType, RegistryType, DispatchMsg
    <3>4. HandlerType'
      BY <2>17 DEF send_data_lookup, HandlerType, ServerType
    <3> QED
      BY <3>1, <3>2, <3>3, <3>4
  <2>18. ASSUME NEW sent \in BOOLEAN, send_data_raw(sent)
        PROVE  TypeOK'
    <3>1. ServerType' /\ DispatchType' /\ RegistryType' /\ ModuleType'
      BY <2>18 DEF send_data_raw, ServerType, DispatchType, RegistryType, ModuleType, serverVars, dispatchVars, registryVars, moduleVars
    <3>2. QueueType'
      BY <2>18 DEF send_data_raw, QueueType, HandlerType
    <3>3. HandlerType'
      BY <2>18 DEF send_data_raw, HandlerType
    <3> QED
      BY <3>1, <3>2, <3>3
  <2>19. CASE UNCHANGED vars
    BY <2>19 DEF vars, ServerType, DispatchType, RegistryType, ModuleType,
       QueueType, HandlerType, serverVars, dispatchVars, registryVars,
       moduleVars, handlerVars
  <2> QED
    BY <2>1, <2>2, <2>3, <2>4, <2>5, <2>6, <2>7, <2>8, <2>9, <2>10, <2>11, <2>12, <2>13, <2>14, <2>15, <2>16, <2>17, <2>18, <2>19
    DEF Next, ServerNext, DispatchNext, ModuleNext, HandlerNext
<1> QED
  BY InitType, <1>1, PTL DEF Spec
-------------------------------------------------------------------------------
(* Input of a closed connection is freed.                                  *)

LEMMA DispatchAppend ==
  ASSUME QueueType, NEW m \in DispatchMsg, dq' = Append(dq, m)
  PROVE  /\ Len(dq) \in Nat
         /\ Len(dq') = Len(dq) + 1
         /\ \A i \in 1..Len(dq) : dq'[i] = dq[i]
         /\ dq'[Len(dq) + 1] = m
BY DEF QueueType

LEMMA DispatchTail ==
  ASSUME QueueType, dq # <<>>, dq' = Tail(dq)
  PROVE  /\ Len(dq) \in Nat \ {0}
         /\ Len(dq') = Len(dq) - 1
         /\ \A i \in 1..Len(dq') : dq'[i] = dq[i + 1]
         /\ Head(dq) = dq[1]
BY DEF QueueType

\* Taking the first message keeps what is known of the others.
LEMMA DataTail ==
  ASSUME DataCovered, sock' = sock,
         Len(dq) \in Nat \ {0}, Len(dq') = Len(dq) - 1,
         \A i \in 1..Len(dq') : dq'[i] = dq[i + 1]
  PROVE  DataCovered'
<1> SUFFICES ASSUME NEW i \in 1..Len(dq'), dq'[i].k = "data",
                    dq'[i].g \notin sock
             PROVE  \E j \in (i + 1)..Len(dq') :
                      dq'[j].k = "remove" /\ dq'[j].g = dq'[i].g
  BY DEF DataCovered, RemovedBehind
<1>1. i + 1 \in 1..Len(dq) /\ dq'[i] = dq[i + 1]
  OBVIOUS
<1>2. PICK j \in (i + 2)..Len(dq) : dq[j].k = "remove" /\ dq[j].g = dq'[i].g
  BY <1>1 DEF DataCovered, RemovedBehind
<1>3. j - 1 \in (i + 1)..Len(dq') /\ dq'[j - 1] = dq[j]
  BY <1>2
<1> QED
  BY <1>2, <1>3

LEMMA OnceTail ==
  ASSUME RemovedOnce, sock' = sock, used' = used,
         Len(dq) \in Nat \ {0}, Len(dq') = Len(dq) - 1,
         \A i \in 1..Len(dq') : dq'[i] = dq[i + 1]
  PROVE  RemovedOnce'
<1>1. \A i \in 1..Len(dq') : i + 1 \in 1..Len(dq) /\ dq'[i] = dq[i + 1]
  OBVIOUS
<1>2. \A i \in 1..Len(dq') : dq'[i].k = "remove" => dq'[i].g \in used' \ sock'
  BY <1>1 DEF RemovedOnce
<1>3. \A i, j \in 1..Len(dq') :
        dq'[i].k = "remove" /\ dq'[j].k = "remove" /\ dq'[i].g = dq'[j].g
          => i = j
  <2> SUFFICES ASSUME NEW i \in 1..Len(dq'), NEW j \in 1..Len(dq'),
                      dq'[i].k = "remove", dq'[j].k = "remove",
                      dq'[i].g = dq'[j].g
               PROVE  i = j
    OBVIOUS
  <2>1. i + 1 = j + 1
    BY <1>1 DEF RemovedOnce
  <2> QED
    BY <2>1
<1> QED
  BY <1>2, <1>3 DEF RemovedOnce

\* Only five actions touch what CacheInv speaks of.
LEMMA CacheUnchanged ==
  ASSUME CacheInv, UNCHANGED <<dq, sock, used, cached>>,
         dcur' = dcur \/ dcur' = NoGuid
  PROVE  CacheInv'
BY DispatchAssumption
   DEF CacheInv, DataCovered, RemovedBehind, CurrentCovered, CacheFreed,
       RemovedOnce, Queued

LEMMA CacheRemoveOne ==
  ASSUME TypeOK, CacheInv, NEW g \in sock, remove_one(g),
         UNCHANGED <<cached, dcur>>
  PROVE  CacheInv'
<1> DEFINE m == [k |-> "remove", g |-> g, n |-> 0]
<1>1. g \in Guid
  BY DEF TypeOK, ServerType
<1>2. m \in DispatchMsg
  BY <1>1 DEF DispatchMsg
<1>3. /\ sock' = sock \ {g}
      /\ used' = used
      /\ dq' = Append(dq, m)
  BY DEF remove_one
<1>4. /\ Len(dq) \in Nat
      /\ Len(dq') = Len(dq) + 1
      /\ \A i \in 1..Len(dq) : dq'[i] = dq[i]
      /\ dq'[Len(dq) + 1] = m
  BY <1>2, <1>3, DispatchAppend DEF TypeOK
<1>5. \A x, i : i \in 0..Len(dq) /\ RemovedBehind(x, i) => RemovedBehind(x, i)'
  BY <1>4 DEF RemovedBehind
<1>6. \A i \in 0..Len(dq) : RemovedBehind(g, i)'
  BY <1>4 DEF RemovedBehind
<1>7. \A x : Queued("remove", x) => Queued("remove", x)'
  BY <1>4 DEF Queued
<1>8. Queued("remove", g)'
  BY <1>4 DEF Queued
<1>9. DataCovered'
  BY <1>3, <1>4, <1>5, <1>6 DEF CacheInv, DataCovered
<1>10. CurrentCovered' /\ CacheFreed'
  BY <1>3, <1>7, <1>8 DEF CacheInv, CurrentCovered, CacheFreed
<1>11. RemovedOnce'
  <2>1. g \in used
    BY DEF TypeOK, ServerType
  <2> QED
    BY <1>3, <1>4, <2>1 DEF CacheInv, RemovedOnce
<1> QED
  BY <1>9, <1>10, <1>11 DEF CacheInv

LEMMA CacheNext == TypeOK /\ CacheInv /\ [Next]_vars => CacheInv'
<1> SUFFICES ASSUME TypeOK, CacheInv, [Next]_vars
             PROVE  CacheInv'
  OBVIOUS
<1>1. ASSUME NEW g \in Guid, NEW h \in Handle, new_connect(g, h)
      PROVE  CacheInv'
  <2>1. /\ dq' = dq /\ cached' = cached /\ dcur' = dcur
        /\ sock' = sock \cup {g} /\ used' = used \cup {g} /\ g \notin used
    BY <1>1 DEF new_connect, dispatchVars
  <2>2. DataCovered' /\ CurrentCovered' /\ CacheFreed'
    BY <2>1 DEF CacheInv, DataCovered, RemovedBehind, CurrentCovered,
       CacheFreed, Queued
  <2>3. RemovedOnce'
    BY <2>1 DEF CacheInv, RemovedOnce
  <2> QED
    BY <2>2, <2>3 DEF CacheInv
<1>2. ASSUME NEW g \in Guid, NEW n \in 1..MaxParts, server_recvice_data(g, n)
      PROVE  CacheInv'
  <2> DEFINE m == [k |-> "data", g |-> g, n |-> n]
  <2>1. /\ dq' = Append(dq, m) /\ cached' = cached /\ dcur' = dcur
        /\ sock' = sock /\ used' = used /\ g \in sock
    BY <1>2 DEF server_recvice_data, dispatchVars
  <2>2. m \in DispatchMsg
    BY DEF DispatchMsg
  <2>3. /\ Len(dq) \in Nat
        /\ Len(dq') = Len(dq) + 1
        /\ \A i \in 1..Len(dq) : dq'[i] = dq[i]
        /\ dq'[Len(dq) + 1] = m
    BY <2>1, <2>2, DispatchAppend DEF TypeOK
  <2>4. DataCovered'
    BY <2>1, <2>3 DEF CacheInv, DataCovered, RemovedBehind
  <2>5. CurrentCovered' /\ CacheFreed'
    BY <2>1, <2>3 DEF CacheInv, CurrentCovered, CacheFreed, Queued
  <2>6. RemovedOnce'
    BY <2>1, <2>3 DEF CacheInv, RemovedOnce
  <2> QED
    BY <2>4, <2>5, <2>6 DEF CacheInv
<1>3. ASSUME NEW g \in Guid, remove_socket(g)
      PROVE  CacheInv'
  BY <1>3, CacheRemoveOne DEF remove_socket, dispatchVars
<1>4. ASSUME server_message
      PROVE  CacheInv'
  <2>1. CASE Head(srvq) \in sock
    BY <1>4, <2>1, CacheRemoveOne DEF server_message, dispatchVars
  <2>2. CASE Head(srvq) \notin sock
    BY <1>4, <2>2, CacheUnchanged DEF server_message, dispatchVars, serverVars
  <2> QED
    BY <2>1, <2>2
<1>5. ASSUME net_data_in_handler
      PROVE  CacheInv'
  <2>0. PICK g \in Guid : g = Head(dq).g
    BY <1>5, DispatchHead DEF TypeOK, net_data_in_handler
  <2>1. /\ dq # <<>> /\ dq' = Tail(dq) /\ Head(dq).k = "data"
        /\ sock' = sock /\ used' = used
        /\ cached' = cached \cup {g} /\ dcur' = g
    BY <1>5, <2>0 DEF net_data_in_handler, serverVars
  <2>2. /\ Len(dq) \in Nat \ {0}
        /\ Len(dq') = Len(dq) - 1
        /\ \A i \in 1..Len(dq') : dq'[i] = dq[i + 1]
        /\ Head(dq) = dq[1]
    BY <2>1, DispatchTail DEF TypeOK
  <2>3. \A x : Queued("remove", x) => Queued("remove", x)'
    <3> SUFFICES ASSUME NEW x, NEW i \in 1..Len(dq),
                        dq[i].k = "remove" /\ dq[i].g = x
                 PROVE  Queued("remove", x)'
      BY DEF Queued
    <3>1. i # 1 /\ i - 1 \in 1..Len(dq') /\ dq'[i - 1] = dq[i]
      BY <2>1, <2>2
    <3> QED
      BY <3>1 DEF Queued
  <2>4. g \in sock \/ Queued("remove", g)'
    <3>1. g \in sock \/ RemovedBehind(g, 1)
      BY <2>0, <2>1, <2>2 DEF CacheInv, DataCovered
    <3>2. RemovedBehind(g, 1) => Queued("remove", g)
      BY <2>2 DEF RemovedBehind, Queued
    <3> QED
      BY <2>3, <3>1, <3>2
  <2>5. DataCovered'
    BY <2>1, <2>2, DataTail DEF CacheInv
  <2>6. CurrentCovered' /\ CacheFreed'
    BY <2>1, <2>3, <2>4 DEF CacheInv, CurrentCovered, CacheFreed
  <2>7. RemovedOnce'
    BY <2>1, <2>2, OnceTail DEF CacheInv
  <2> QED
    BY <2>5, <2>6, <2>7 DEF CacheInv
<1>6. ASSUME erase_cache
      PROVE  CacheInv'
  <2>0. PICK g \in Guid : g = Head(dq).g
    BY <1>6, DispatchHead DEF TypeOK, erase_cache
  <2>1. /\ dq # <<>> /\ dq' = Tail(dq) /\ Head(dq).k = "remove"
        /\ sock' = sock /\ used' = used
        /\ cached' = cached \ {g} /\ dcur' = NoGuid
    BY <1>6, <2>0 DEF erase_cache, serverVars
  <2>2. /\ Len(dq) \in Nat \ {0}
        /\ Len(dq') = Len(dq) - 1
        /\ \A i \in 1..Len(dq') : dq'[i] = dq[i + 1]
        /\ Head(dq) = dq[1]
    BY <2>1, DispatchTail DEF TypeOK
  <2>3. \A x : x # g /\ Queued("remove", x) => Queued("remove", x)'
    <3> SUFFICES ASSUME NEW x, x # g, NEW i \in 1..Len(dq),
                        dq[i].k = "remove" /\ dq[i].g = x
                 PROVE  Queued("remove", x)'
      BY DEF Queued
    <3>1. i # 1 /\ i - 1 \in 1..Len(dq') /\ dq'[i - 1] = dq[i]
      BY <2>0, <2>2
    <3> QED
      BY <3>1 DEF Queued
  <2>4. DataCovered'
    BY <2>1, <2>2, DataTail DEF CacheInv
  <2>5. CurrentCovered' /\ CacheFreed'
    BY <2>1, <2>3, DispatchAssumption DEF CacheInv, CurrentCovered, CacheFreed
  <2>6. RemovedOnce'
    BY <2>1, <2>2, OnceTail DEF CacheInv
  <2> QED
    BY <2>4, <2>5, <2>6 DEF CacheInv
<1>7. ASSUME DispatchNext, ~net_data_in_handler, ~erase_cache
      PROVE  CacheInv'
  <2>1. UNCHANGED <<dq, sock, used, cached>> /\ (dcur' = dcur \/ dcur' = NoGuid)
    BY <1>7 DEF DispatchNext, take_frame, wait_data, local_msg_handler,
       serverVars
  <2> QED
    BY <2>1, CacheUnchanged
<1>8. ASSUME ModuleNext
      PROVE  CacheInv'
  <2>1. UNCHANGED <<dq, sock, used, cached, dcur>>
    BY <1>8 DEF ModuleNext, register_client_monitor, module_process,
       module_broadcast, serverVars, dispatchVars
  <2> QED
    BY <2>1, CacheUnchanged
<1>9. ASSUME HandlerNext
      PROVE  CacheInv'
  <2>1. UNCHANGED <<dq, sock, used, cached, dcur>>
    BY <1>9 DEF HandlerNext, message_convert_result,
       message_convert_result_all, get_ntf_list, broadcast_listed,
       send_data_lookup, send_data_raw, serverVars, dispatchVars
  <2> QED
    BY <2>1, CacheUnchanged
<1>10. CASE UNCHANGED vars
  BY <1>10, CacheUnchanged DEF vars, serverVars, dispatchVars
<1> QED
  BY <1>1, <1>2, <1>3, <1>4, <1>5, <1>6, <1>7, <1>8, <1>9, <1>10
  DEF Next, ServerNext, DispatchNext

\* Nothing the dispatch thread buffered for a connection outlives it: every
\* cache entry belongs to an open connection or to one whose removal is queued
\* for the dispatch thread (remove_one, net_data_in_handler, case 10 of run).
THEOREM CacheIsFreed == Spec => []CacheFreed
<1>1. Init => CacheInv
  BY DispatchAssumption
  DEF Init, CacheInv, DataCovered, CurrentCovered, CacheFreed, RemovedOnce
<1>2. CacheInv => CacheFreed
  BY DEF CacheInv
<1> QED
  BY TypeCorrect, CacheNext, <1>1, <1>2, PTL DEF Spec
-------------------------------------------------------------------------------
(* The parts of a stream.                                                  *)

LEMMA PartsMember ==
  ASSUME NEW q, NEW g, NEW w
  PROVE  w \in PartsIn(q, g) <=>
           \E i \in 1..Len(q) : q[i].g = g /\ \E p \in 1..q[i].n : w = <<i, p>>
<1>1. ASSUME NEW i PROVE w \in {i} \X (1..q[i].n) <=> \E p \in 1..q[i].n : w = <<i, p>>
  OBVIOUS
<1> QED BY <1>1 DEF PartsIn

LEMMA PartsFinite ==
  ASSUME NEW q \in Seq(DispatchMsg), NEW g
  PROVE  IsFiniteSet(PartsIn(q, g)) /\ Cardinality(PartsIn(q, g)) \in Nat
<1>1. PICK I : I = {j \in 1..Len(q) : q[j].g = g}
  OBVIOUS
<1>2. Len(q) \in Nat /\ IsFiniteSet(1..Len(q))
  BY LenProperties, FS_Interval
<1>3. I \subseteq 1..Len(q) /\ IsFiniteSet(I)
  BY <1>1, <1>2, FS_Subset
<1>4. PICK f : f = [i \in I |-> {i} \X (1..q[i].n)]
  OBVIOUS
<1>5. PICK U : U = {f[i] : i \in I}
  OBVIOUS
<1>6. f \in Surjection(I, U)
  BY <1>4, <1>5 DEF Surjection
<1>7. IsFiniteSet(U)
  BY <1>3, <1>6, FS_Surjection
<1>8. ASSUME NEW T \in U PROVE IsFiniteSet(T)
  <2>1. PICK i \in I : T = {i} \X (1..q[i].n)
    BY <1>4, <1>5
  <2>4. q[i] \in DispatchMsg
    BY <1>2, <1>3, LenProperties
  <2>2. q[i].n \in Int /\ 1 \in Int
    BY <2>4 DEF DispatchMsg
  <2>5. IsFiniteSet(1..q[i].n)
    BY <2>2, FS_Interval
  <2>3. IsFiniteSet({i}) /\ IsFiniteSet(1..q[i].n)
    BY <2>5, FS_Singleton
  <2> QED BY <2>1, <2>3, FS_Product
<1>9. PartsIn(q, g) = UNION U
  BY <1>1, <1>4, <1>5 DEF PartsIn
<1>10. IsFiniteSet(PartsIn(q, g))
  BY <1>7, <1>8, <1>9, FS_UNION
<1> QED BY <1>10, FS_CardinalityType

\* The parts of one message.
LEMMA OfMessage ==
  ASSUME NEW k \in Nat, NEW n \in Nat
  PROVE  IsFiniteSet({k} \X (1..n)) /\ Cardinality({k} \X (1..n)) = n
<1>1. /\ IsFiniteSet({k}) /\ Cardinality({k}) = 1
      /\ IsFiniteSet(1..n) /\ Cardinality(1..n) = n
  <2>1. IsFiniteSet({k}) /\ Cardinality({k}) = 1
    BY FS_Singleton
  <2>2. 1 \in Int /\ n \in Int
    OBVIOUS
  <2>3. IsFiniteSet(1..n) /\ Cardinality(1..n) = IF 1 > n THEN 0 ELSE n - 1 + 1
    BY <2>2, FS_Interval
  <2> QED BY <2>1, <2>3
<1>2. IsFiniteSet({k} \X (1..n)) /\ Cardinality({k} \X (1..n)) = Cardinality({k}) * Cardinality(1..n)
  BY <1>1, FS_Product
<1> QED BY <1>1, <1>2

\* Two sets of parts that have none in common.
LEMMA Together ==
  ASSUME NEW S, NEW T, IsFiniteSet(S), IsFiniteSet(T), \A w \in S : w \notin T
  PROVE  Cardinality(S \cup T) = Cardinality(S) + Cardinality(T)
<1>1. S \cap T = {}
  OBVIOUS
<1>2. Cardinality(S \cup T) = Cardinality(S) + Cardinality(T) - Cardinality(S \cap T)
  BY FS_Union
<1>3. Cardinality(S \cap T) = 0
  BY <1>1, FS_EmptySet
<1>4. Cardinality(S) \in Nat /\ Cardinality(T) \in Nat
  BY FS_CardinalityType
<1> QED BY <1>2, <1>3, <1>4

LEMMA PartsPut ==
  ASSUME NEW q \in Seq(DispatchMsg), NEW m \in DispatchMsg, NEW g
  PROVE  Cardinality(PartsIn(Append(q, m), g))
           = Cardinality(PartsIn(q, g)) + (IF m.g = g THEN m.n ELSE 0)
<1>1. PICK n, r : n = Len(q) /\ r = Append(q, m)
  OBVIOUS
<1>2. /\ n \in Nat /\ r \in Seq(DispatchMsg) /\ Len(r) = n + 1 /\ r[n + 1] = m
      /\ \A i \in 1..n : r[i] = q[i]
  BY <1>1, AppendProperties, LenProperties
<1>3. IsFiniteSet(PartsIn(q, g)) /\ Cardinality(PartsIn(q, g)) \in Nat
  BY PartsFinite
<1>4. m.n \in Nat
  BY DEF DispatchMsg
<1>5. CASE m.g # g
  <2>1. ASSUME NEW w PROVE w \in PartsIn(r, g) <=> w \in PartsIn(q, g)
    <3>1. ASSUME w \in PartsIn(r, g) PROVE w \in PartsIn(q, g)
      <4>1. PICK i, p : i \in 1..(n + 1) /\ p \in 1..r[i].n /\ r[i].g = g /\ w = <<i, p>>
        BY <1>2, <3>1, PartsMember
      <4>2. i \in 1..n /\ q[i] = r[i]
        BY <1>2, <1>5, <4>1
      <4> QED BY <1>1, <4>1, <4>2, PartsMember
    <3>2. ASSUME w \in PartsIn(q, g) PROVE w \in PartsIn(r, g)
      <4>1. PICK i, p : i \in 1..n /\ p \in 1..q[i].n /\ q[i].g = g /\ w = <<i, p>>
        BY <1>1, <3>2, PartsMember
      <4>2. i \in 1..(n + 1) /\ q[i] = r[i]
        BY <1>2, <4>1
      <4> QED BY <1>2, <4>1, <4>2, PartsMember
    <3> QED BY <3>1, <3>2
  <2>2. PartsIn(r, g) = PartsIn(q, g)
    BY <2>1
  <2> QED BY <1>1, <1>3, <1>5, <2>2
<1>6. CASE m.g = g
  <2>1. PICK M : M = {n + 1} \X (1..m.n)
    OBVIOUS
  <2>2. ASSUME NEW w PROVE w \in M <=> \E p \in 1..m.n : w = <<n + 1, p>>
    BY <2>1
  <2>3. ASSUME NEW w PROVE w \in PartsIn(r, g) <=> w \in PartsIn(q, g) \cup M
    <3>1. ASSUME w \in PartsIn(r, g) PROVE w \in PartsIn(q, g) \cup M
      <4>1. PICK i, p : i \in 1..(n + 1) /\ p \in 1..r[i].n /\ r[i].g = g /\ w = <<i, p>>
        BY <1>2, <3>1, PartsMember
      <4>2. CASE i \in 1..n
        <5>1. q[i] = r[i]
          BY <1>2, <4>2
        <5> QED BY <1>1, <4>1, <4>2, <5>1, PartsMember
      <4>3. CASE i = n + 1
        BY <1>2, <2>2, <4>1, <4>3
      <4> QED BY <1>2, <4>1, <4>2, <4>3
    <3>2. ASSUME w \in PartsIn(q, g) PROVE w \in PartsIn(r, g)
      <4>1. PICK i, p : i \in 1..n /\ p \in 1..q[i].n /\ q[i].g = g /\ w = <<i, p>>
        BY <1>1, <3>2, PartsMember
      <4>2. i \in 1..(n + 1) /\ q[i] = r[i]
        BY <1>2, <4>1
      <4> QED BY <1>2, <4>1, <4>2, PartsMember
    <3>3. ASSUME w \in M PROVE w \in PartsIn(r, g)
      <4>1. PICK p \in 1..m.n : w = <<n + 1, p>>
        BY <2>2, <3>3
      <4>2. n + 1 \in 1..(n + 1) /\ r[n + 1] = m
        BY <1>2
      <4> QED BY <1>2, <1>6, <4>1, <4>2, PartsMember
    <3> QED BY <3>1, <3>2, <3>3
  <2>4. PartsIn(r, g) = PartsIn(q, g) \cup M
    BY <2>3
  <2>5. ASSUME NEW w \in PartsIn(q, g) PROVE w \notin M
    <3>1. PICK i, p : i \in 1..n /\ p \in 1..q[i].n /\ q[i].g = g /\ w = <<i, p>>
      BY <1>1, PartsMember
    <3>2. i # n + 1
      BY <1>2, <3>1
    <3> QED BY <2>2, <3>1, <3>2
  <2>6. n + 1 \in Nat
    BY <1>2
  <2>7. IsFiniteSet(M) /\ Cardinality(M) = m.n
    BY <1>4, <2>1, <2>6, OfMessage
  <2>8. Cardinality(PartsIn(q, g) \cup M) = Cardinality(PartsIn(q, g)) + Cardinality(M)
    BY <1>3, <2>5, <2>7, Together
  <2> QED BY <1>1, <1>6, <2>4, <2>7, <2>8
<1> QED BY <1>5, <1>6

LEMMA PartsTaken ==
  ASSUME NEW q \in Seq(DispatchMsg), q # <<>>, NEW g
  PROVE  Cardinality(PartsIn(q, g))
           = Cardinality(PartsIn(Tail(q), g)) + (IF Head(q).g = g THEN Head(q).n ELSE 0)
<1>1. PICK n, r, m : n = Len(q) /\ r = Tail(q) /\ m = Head(q)
  OBVIOUS
<1>2. /\ n \in Nat \ {0} /\ r \in Seq(DispatchMsg) /\ Len(r) = n - 1 /\ q[1] = m
      /\ m \in DispatchMsg
      /\ \A i \in 1..(n - 1) : r[i] = q[i + 1]
  <2>1. Len(q) \in Nat /\ Len(q) # 0
    BY LenProperties, EmptySeq
  <2>2. /\ Head(q) \in DispatchMsg /\ Tail(q) \in Seq(DispatchMsg) /\ Len(Tail(q)) = Len(q) - 1
        /\ \A k \in 1..Len(Tail(q)) : Tail(q)[k] = q[k + 1]
    BY HeadTailProperties
  <2> QED BY <1>1, <2>1, <2>2
<1>3. /\ IsFiniteSet(PartsIn(q, g)) /\ Cardinality(PartsIn(q, g)) \in Nat
      /\ IsFiniteSet(PartsIn(r, g)) /\ Cardinality(PartsIn(r, g)) \in Nat
  BY <1>2, PartsFinite
<1>4. m.n \in Nat
  BY <1>2 DEF DispatchMsg
<1>5. PICK M : M = IF m.g = g THEN {1} \X (1..m.n) ELSE {}
  OBVIOUS
<1>6. IsFiniteSet(M) /\ Cardinality(M) = IF m.g = g THEN m.n ELSE 0
  <2>1. CASE m.g = g
    <3>1. M = {1} \X (1..m.n) /\ 1 \in Nat
      BY <1>5, <2>1
    <3> QED BY <1>4, <2>1, <3>1, OfMessage
  <2>2. CASE m.g # g
    <3>1. M = {}
      BY <1>5, <2>2
    <3> QED BY <2>2, <3>1, FS_EmptySet
  <2> QED BY <2>1, <2>2
<1>7. PICK f : f = [w \in PartsIn(r, g) |-> <<w[1] + 1, w[2]>>]
  OBVIOUS
<1>8. PICK R : R = {f[w] : w \in PartsIn(r, g)}
  OBVIOUS
<1>9. ASSUME NEW w \in PartsIn(r, g)
      PROVE  \E i, p : i \in 1..(n - 1) /\ p \in 1..q[i + 1].n /\
               q[i + 1].g = g /\ w = <<i, p>> /\ f[w] = <<i + 1, p>>
  <2>1. PICK i, p : i \in 1..(n - 1) /\ p \in 1..r[i].n /\ r[i].g = g /\ w = <<i, p>>
    BY <1>2, PartsMember
  <2>2. r[i] = q[i + 1]
    BY <1>2, <2>1
  <2>3. f[w] = <<i + 1, p>>
    BY <1>7, <2>1
  <2> QED BY <2>1, <2>2, <2>3
<1>10. f \in Bijection(PartsIn(r, g), R)
  <2>1. f \in [PartsIn(r, g) -> R]
    BY <1>7, <1>8
  <2>2. ASSUME NEW v \in PartsIn(r, g), NEW w \in PartsIn(r, g), f[v] = f[w] PROVE v = w
    <3>1. PICK i, p : i \in 1..(n - 1) /\ v = <<i, p>> /\ f[v] = <<i + 1, p>>
      BY <1>9
    <3>2. PICK j, s : j \in 1..(n - 1) /\ w = <<j, s>> /\ f[w] = <<j + 1, s>>
      BY <1>9
    <3>3. i + 1 = j + 1 /\ p = s
      BY <2>2, <3>1, <3>2
    <3>4. i = j
      BY <1>2, <3>1, <3>2, <3>3
    <3> QED BY <3>1, <3>2, <3>3, <3>4
  <2>3. \A x \in R : \E w \in PartsIn(r, g) : f[w] = x
    BY <1>8
  <2> QED BY <2>1, <2>2, <2>3 DEF Bijection, Injection, IsInjective, Surjection
<1>11. IsFiniteSet(R) /\ Cardinality(R) = Cardinality(PartsIn(r, g))
  BY <1>3, <1>10, FS_Bijection DEF ExistsBijection
<1>12. ASSUME NEW w PROVE w \in PartsIn(q, g) <=> w \in R \cup M
  <2>1. ASSUME w \in PartsIn(q, g) PROVE w \in R \cup M
    <3>1. PICK i, p : i \in 1..n /\ p \in 1..q[i].n /\ q[i].g = g /\ w = <<i, p>>
      BY <1>1, <2>1, PartsMember
    <3>2. CASE i = 1
      BY <1>2, <1>5, <3>1, <3>2
    <3>3. CASE i # 1
      <4>1. i - 1 \in 1..(n - 1) /\ (i - 1) + 1 = i
        BY <1>2, <3>1, <3>3
      <4>2. r[i - 1] = q[i]
        BY <1>2, <4>1
      <4>3. PICK v : v = <<i - 1, p>>
        OBVIOUS
      <4>4. v \in PartsIn(r, g)
        BY <1>2, <3>1, <4>1, <4>2, <4>3, PartsMember
      <4>5. f[v] = w
        BY <1>7, <3>1, <4>1, <4>3, <4>4
      <4> QED BY <1>8, <4>4, <4>5
    <3> QED BY <3>2, <3>3
  <2>2. ASSUME w \in R PROVE w \in PartsIn(q, g)
    <3>1. PICK v \in PartsIn(r, g) : w = f[v]
      BY <1>8, <2>2
    <3>2. PICK i, p : i \in 1..(n - 1) /\ p \in 1..q[i + 1].n /\ q[i + 1].g = g /\ f[v] = <<i + 1, p>>
      BY <1>9
    <3>3. i + 1 \in 1..n
      BY <1>2, <3>2
    <3> QED BY <1>1, <3>1, <3>2, <3>3, PartsMember
  <2>3. ASSUME w \in M PROVE w \in PartsIn(q, g)
    <3>1. m.g = g /\ \E p \in 1..m.n : w = <<1, p>>
      BY <1>5, <2>3
    <3>2. 1 \in 1..n
      BY <1>2
    <3> QED BY <1>1, <1>2, <3>1, <3>2, PartsMember
  <2> QED BY <2>1, <2>2, <2>3
<1>13. PartsIn(q, g) = R \cup M
  BY <1>12
<1>14. ASSUME NEW w \in R PROVE w \notin M
  <2>1. PICK i, p : i \in 1..(n - 1) /\ w = <<i + 1, p>>
    BY <1>8, <1>9
  <2>2. i + 1 # 1
    BY <1>2, <2>1
  <2> QED BY <1>5, <2>1, <2>2
<1>15. Cardinality(R \cup M) = Cardinality(R) + Cardinality(M)
  BY <1>6, <1>11, <1>14, Together
<1> QED BY <1>1, <1>6, <1>11, <1>13, <1>15

\* What PartsConserved needs to be inductive: nothing is known of a connection
\* that was not given out.
PartsInv ==
  /\ PartsConserved
  /\ \A i \in 1..Len(dq) : dq[i].g \in used
  /\ dcur \in Guid => dcur \in used
  /\ \A g \in Guid \ used : parts[g] = 0 /\ frames[g] = 0 /\ buf[g] = 0

LEMMA PartsUnchanged ==
  ASSUME PartsInv, UNCHANGED <<sock, used, parts, frames, buf, dq>>,
         dcur' = dcur \/ dcur' = NoGuid
  PROVE  PartsInv'
BY DispatchAssumption DEF PartsInv, PartsConserved, QueuedParts

\* A removal carries no part.
LEMMA PartsRemoveOne ==
  ASSUME TypeOK, PartsInv, NEW g \in sock, remove_one(g), UNCHANGED <<frames, buf, dcur>>
  PROVE  PartsInv'
<1> DEFINE m == [k |-> "remove", g |-> g, n |-> 0]
<1>1. g \in used /\ g \in Guid /\ dq \in Seq(DispatchMsg)
  BY DEF TypeOK, ServerType, QueueType
<1>2. m \in DispatchMsg /\ m.g = g /\ m.n = 0
  BY <1>1 DEF DispatchMsg
<1>3. sock' = sock \ {g} /\ used' = used /\ parts' = parts /\ dq' = Append(dq, m)
  BY DEF remove_one
<1> HIDE DEF m
<1>4. /\ Len(dq) \in Nat /\ Len(dq') = Len(dq) + 1 /\ dq'[Len(dq) + 1] = m
      /\ \A i \in 1..Len(dq) : dq'[i] = dq[i]
  BY <1>2, <1>3, DispatchAppend DEF TypeOK
<1>5. ASSUME NEW x PROVE Cardinality(PartsIn(dq', x)) = Cardinality(PartsIn(dq, x))
  <2>1. Cardinality(PartsIn(dq', x)) = Cardinality(PartsIn(dq, x)) + (IF m.g = x THEN m.n ELSE 0)
    BY <1>1, <1>2, <1>3, PartsPut
  <2>2. Cardinality(PartsIn(dq, x)) \in Nat
    BY <1>1, PartsFinite
  <2> QED BY <1>2, <2>1, <2>2
<1>6. PartsConserved'
  BY <1>3, <1>5 DEF PartsInv, PartsConserved, QueuedParts
<1>7. \A i \in 1..Len(dq') : dq'[i].g \in used'
  BY <1>1, <1>2, <1>3, <1>4 DEF PartsInv
<1> QED BY <1>3, <1>6, <1>7 DEF PartsInv

LEMMA PartsNext == TypeOK /\ CacheInv /\ PartsInv /\ [Next]_vars => PartsInv'
<1> SUFFICES ASSUME TypeOK, CacheInv, PartsInv, [Next]_vars
             PROVE  PartsInv'
  OBVIOUS
<1>0. /\ dq \in Seq(DispatchMsg) /\ sock \subseteq used /\ used \subseteq Guid
      /\ parts \in [Guid -> Nat] /\ frames \in [Guid -> Nat] /\ buf \in [Guid -> Nat]
      /\ FrameParts \in Nat
  BY DispatchAssumption DEF TypeOK, ServerType, DispatchType, QueueType
<1>a. ASSUME NEW g PROVE Cardinality(PartsIn(dq, g)) \in Nat
  BY <1>0, PartsFinite
<1>b. ASSUME NEW g \in sock
      PROVE  parts[g] = frames[g] * FrameParts + buf[g] + Cardinality(PartsIn(dq, g))
  BY DEF PartsInv, PartsConserved, QueuedParts
<1>1. ASSUME NEW g \in Guid, NEW h \in Handle, new_connect(g, h)
      PROVE  PartsInv'
  <2>1. /\ UNCHANGED <<dq, dcur, parts, frames, buf>>
        /\ sock' = sock \cup {g} /\ used' = used \cup {g} /\ g \notin used
    BY <1>1 DEF new_connect, dispatchVars
  <2>2. PartsIn(dq, g) = {}
    <3>1. ASSUME NEW w \in PartsIn(dq, g) PROVE FALSE
      BY <2>1, PartsMember DEF PartsInv
    <3> QED BY <3>1
  <2>3. Cardinality(PartsIn(dq, g)) = 0
    BY <2>2, FS_EmptySet
  <2>4. parts[g] = 0 /\ frames[g] * FrameParts = 0 /\ buf[g] = 0
    BY <1>0, <2>1 DEF PartsInv
  <2>5. PartsConserved'
    BY <1>b, <2>1, <2>3, <2>4 DEF PartsConserved, QueuedParts
  <2> QED BY <2>1, <2>5 DEF PartsInv
<1>2. ASSUME NEW g \in Guid, NEW n \in 1..MaxParts, server_recvice_data(g, n)
      PROVE  PartsInv'
  <2> DEFINE m == [k |-> "data", g |-> g, n |-> n]
  <2>1. /\ dq' = Append(dq, m) /\ UNCHANGED <<sock, used, dcur, frames, buf>>
        /\ g \in sock /\ parts' = [parts EXCEPT ![g] = @ + n]
    BY <1>2 DEF server_recvice_data, dispatchVars
  <2>2. m \in DispatchMsg /\ m.g = g /\ m.n = n /\ n \in Nat
    BY DEF DispatchMsg
  <2> HIDE DEF m
  <2>3. /\ Len(dq) \in Nat /\ Len(dq') = Len(dq) + 1 /\ dq'[Len(dq) + 1] = m
        /\ \A i \in 1..Len(dq) : dq'[i] = dq[i]
    BY <2>1, <2>2, DispatchAppend DEF TypeOK
  <2>4. ASSUME NEW x \in sock
        PROVE  parts'[x] = frames[x] * FrameParts + buf[x] + Cardinality(PartsIn(dq', x))
    <3>1. PICK c : c = IF g = x THEN n ELSE 0
      OBVIOUS
    <3>2. Cardinality(PartsIn(Append(dq, m), x)) = Cardinality(PartsIn(dq, x)) + c
      BY <1>0, <2>2, <3>1, PartsPut
    <3>3. x \in Guid /\ parts'[x] = parts[x] + c /\ c \in Nat
      BY <1>0, <2>1, <2>2, <3>1
    <3>4. PICK f : f = frames[x] * FrameParts
      OBVIOUS
    <3>5. f \in Nat /\ buf[x] \in Nat /\ parts[x] = f + buf[x] + Cardinality(PartsIn(dq, x))
      BY <1>0, <1>b, <3>3, <3>4
    <3>6. parts'[x] = f + buf[x] + (Cardinality(PartsIn(dq, x)) + c)
      BY <1>a, <3>3, <3>5
    <3> QED BY <2>1, <3>2, <3>4, <3>6
  <2>5. PartsConserved'
    BY <2>1, <2>4 DEF PartsConserved, QueuedParts
  <2>6. \A i \in 1..Len(dq') : dq'[i].g \in used'
    BY <1>0, <2>1, <2>2, <2>3 DEF PartsInv
  <2>7. \A x \in Guid \ used' : parts'[x] = parts[x]
    BY <1>0, <2>1
  <2> QED BY <2>1, <2>5, <2>6, <2>7 DEF PartsInv
<1>3. ASSUME NEW g \in Guid, remove_socket(g)
      PROVE  PartsInv'
  BY <1>3, PartsRemoveOne DEF remove_socket, dispatchVars
<1>4. ASSUME server_message
      PROVE  PartsInv'
  <2>1. CASE Head(srvq) \in sock
    BY <1>4, <2>1, PartsRemoveOne DEF server_message, dispatchVars
  <2>2. CASE Head(srvq) \notin sock
    BY <1>4, <2>2, PartsUnchanged DEF server_message, dispatchVars, serverVars
  <2> QED
    BY <2>1, <2>2
<1>5. ASSUME net_data_in_handler \/ erase_cache
      PROVE  PartsInv'
  <2>1. /\ dq # <<>> /\ dq' = Tail(dq) /\ UNCHANGED <<sock, used, parts, frames>>
    BY <1>5 DEF net_data_in_handler, erase_cache, serverVars
  <2>2. /\ Len(dq) \in Nat \ {0} /\ Len(dq') = Len(dq) - 1 /\ Head(dq) = dq[1]
        /\ \A i \in 1..Len(dq') : dq'[i] = dq[i + 1]
    BY <2>1, DispatchTail DEF TypeOK
  <2>3. PICK g \in used, n \in Nat : g = Head(dq).g /\ n = Head(dq).n
    BY <2>1, <2>2, DispatchHead DEF TypeOK, PartsInv
  <2>4. \A i \in 1..Len(dq') : dq'[i].g \in used'
    BY <2>1, <2>2 DEF PartsInv
  <2>5. ASSUME NEW x
        PROVE  Cardinality(PartsIn(dq, x)) = Cardinality(PartsIn(dq', x)) + (IF g = x THEN n ELSE 0)
    BY <1>0, <2>1, <2>3, PartsTaken
  <2>6. dq' \in Seq(DispatchMsg)
    BY <1>0, <2>1, HeadTailProperties
  <2>7. ASSUME NEW x PROVE Cardinality(PartsIn(dq', x)) \in Nat
    BY <2>6, PartsFinite
  <2>8. \/ buf' = [buf EXCEPT ![g] = @ + n] /\ dcur' = g
        \/ buf' = [buf EXCEPT ![g] = 0] /\ dcur' = dcur /\ g \notin sock
    <3>1. CASE net_data_in_handler
      BY <2>3, <3>1 DEF net_data_in_handler
    <3>2. CASE erase_cache
      <4>1. g \notin sock
        BY <2>2, <2>3, <3>2 DEF erase_cache, CacheInv, RemovedOnce
      <4> QED BY <2>3, <3>2, <4>1 DEF erase_cache
    <3> QED BY <1>5, <3>1, <3>2
  <2>9. ASSUME NEW x \in sock
        PROVE  parts[x] = frames[x] * FrameParts + buf'[x] + Cardinality(PartsIn(dq', x))
    <3>1. PICK c, f : c = (IF g = x THEN n ELSE 0) /\ f = frames[x] * FrameParts
      OBVIOUS
    <3>2. x \in Guid /\ c \in Nat /\ f \in Nat /\ buf[x] \in Nat
      BY <1>0, <2>3, <3>1
    <3>3. buf'[x] = buf[x] + c
      BY <1>0, <2>3, <2>8, <3>1, <3>2
    <3>4. Cardinality(PartsIn(dq, x)) = Cardinality(PartsIn(dq', x)) + c
      BY <2>5, <3>1
    <3>5. parts[x] = f + buf[x] + Cardinality(PartsIn(dq, x))
      BY <1>b, <3>1
    <3>6. parts[x] = f + buf'[x] + Cardinality(PartsIn(dq', x))
      BY <2>7, <3>2, <3>3, <3>4, <3>5
    <3> QED BY <3>1, <3>6
  <2>10. PartsConserved'
    BY <2>1, <2>9 DEF PartsConserved, QueuedParts
  <2>11. \A x \in Guid \ used : buf'[x] = buf[x]
    BY <1>0, <2>3, <2>8
  <2>12. dcur' \in Guid => dcur' \in used
    BY <2>3, <2>8 DEF PartsInv
  <2> QED BY <2>1, <2>4, <2>10, <2>11, <2>12 DEF PartsInv
<1>6. ASSUME NEW a \in App, take_frame(a)
      PROVE  PartsInv'
  <2>1. /\ UNCHANGED <<sock, used, parts, dq, dcur>> /\ dcur \in used /\ dcur \in Guid
        /\ buf[dcur] >= FrameParts
        /\ buf' = [buf EXCEPT ![dcur] = @ - FrameParts]
        /\ frames' = [frames EXCEPT ![dcur] = @ + 1]
    BY <1>6 DEF take_frame, serverVars, TypeOK, DispatchType, PartsInv
  <2>2. ASSUME NEW x \in sock
        PROVE  parts[x] = frames'[x] * FrameParts + buf'[x] + Cardinality(PartsIn(dq, x))
    <3>1. x \in Guid
      BY <1>0
    <3>2. CASE x = dcur
      <4>1. PICK f, b, c : f = frames[x] /\ b = buf[x] /\ c = Cardinality(PartsIn(dq, x))
        OBVIOUS
      <4>2. f \in Nat /\ b \in Nat /\ c \in Nat /\ parts[x] = f * FrameParts + b + c
        BY <1>0, <1>a, <1>b, <3>1, <4>1
      <4>3. frames'[x] = f + 1 /\ buf'[x] = b - FrameParts
        BY <1>0, <2>1, <3>2, <4>1
      <4>4. (f + 1) * FrameParts = f * FrameParts + FrameParts
        BY <1>0, <4>2
      <4>5. f * FrameParts \in Nat
        BY <1>0, <4>2
      <4>6. parts[x] = (f * FrameParts + FrameParts) + (b - FrameParts) + c
        BY <1>0, <4>2, <4>5
      <4> QED BY <4>1, <4>3, <4>4, <4>6
    <3>3. CASE x # dcur
      BY <1>0, <1>b, <2>1, <3>1, <3>3
    <3> QED BY <3>2, <3>3
  <2>3. PartsConserved'
    BY <2>1, <2>2 DEF PartsConserved, QueuedParts
  <2>4. \A x \in Guid \ used : buf'[x] = buf[x] /\ frames'[x] = frames[x]
    BY <1>0, <2>1
  <2> QED BY <2>1, <2>3, <2>4 DEF PartsInv
<1>7. ASSUME wait_data \/ local_msg_handler \/ ModuleNext \/ HandlerNext \/ UNCHANGED vars
      PROVE  PartsInv'
  <2>1. UNCHANGED <<sock, used, parts, frames, buf, dq>> /\ (dcur' = dcur \/ dcur' = NoGuid)
    BY <1>7 DEF wait_data, local_msg_handler, ModuleNext,
       register_client_monitor, module_process, module_broadcast, HandlerNext,
       message_convert_result, message_convert_result_all, get_ntf_list,
       broadcast_listed, send_data_lookup, send_data_raw, serverVars,
       dispatchVars, vars
  <2> QED BY <2>1, PartsUnchanged
<1> QED
  BY <1>1, <1>2, <1>3, <1>4, <1>5, <1>6, <1>7
  DEF Next, ServerNext, DispatchNext

\* No byte of an open connection is lost, handled twice or charged to another one,
\* however the stream is cut and whatever is queued (server_recvice_data,
\* net_data_in_handler, check_and_get_package_info).
THEOREM PartsKept == Spec => []PartsConserved
<1>1. Init => CacheInv
  BY DispatchAssumption
  DEF Init, CacheInv, DataCovered, CurrentCovered, CacheFreed, RemovedOnce
<1>2. Init => PartsInv
  BY DispatchAssumption DEF Init, PartsInv, PartsConserved
<1>3. PartsInv => PartsConserved
  BY DEF PartsInv
<1> QED
  BY TypeCorrect, CacheNext, PartsNext, <1>1, <1>2, <1>3, PTL DEF Spec
-------------------------------------------------------------------------------
(* The registry.                                                           *)

\* The appid recorded for a client is one it is listed under, although
\* remove_client leaves guids in the lists it does not reach and data that
\* arrives late brings clients back (add_client, remove_client).
THEOREM RegistryConsistent == Spec => []RegistryAgrees
<1>1. Init => RegistryAgrees
  BY DEF Init, RegistryAgrees
<1>2. TypeOK /\ RegistryAgrees /\ [Next]_vars => RegistryAgrees'
  <2> SUFFICES ASSUME TypeOK, RegistryAgrees, [Next]_vars
               PROVE  RegistryAgrees'
    OBVIOUS
  <2>1. ASSUME NEW g \in Guid, remove_client(g)
        PROVE  RegistryAgrees'
    BY <2>1, DispatchAssumption
    DEF RegistryAgrees, remove_client, TypeOK, RegistryType, NoApp
  <2>2. ASSUME NEW a \in App, take_frame(a)
        PROVE  RegistryAgrees'
    <3>1. dcur \in Guid
      BY <2>2 DEF take_frame, TypeOK, DispatchType
    <3>2. CASE dcur \in clients[a]
      BY <2>2, <3>2 DEF RegistryAgrees, take_frame, add_client, registryVars
    <3>3. CASE dcur \notin clients[a]
      <4>1. /\ clients' = [clients EXCEPT ![a] = @ \cup {dcur}]
            /\ guidApp' = [guidApp EXCEPT ![dcur] = a]
        BY <2>2, <3>3 DEF take_frame, add_client
      <4> QED
        BY <3>1, <4>1, DispatchAssumption
        DEF RegistryAgrees, TypeOK, RegistryType, NoApp
    <3> QED
      BY <3>2, <3>3
  <2>3. CASE UNCHANGED registryVars
    BY <2>3 DEF RegistryAgrees, registryVars
  <2>4. ASSUME ServerNext
        PROVE  RegistryAgrees'
    <3>1. srvq # <<>> => Head(srvq) \in Guid
      BY DEF TypeOK, QueueType
    <3> QED
      BY <2>1, <2>3, <2>4, <3>1
      DEF ServerNext, new_connect, server_recvice_data, remove_socket,
          server_message, remove_one
  <2>5. ASSUME DispatchNext
        PROVE  RegistryAgrees'
    BY <2>2, <2>3, <2>5
    DEF DispatchNext, net_data_in_handler, erase_cache, wait_data,
        local_msg_handler
  <2>6. ASSUME ModuleNext
        PROVE  RegistryAgrees'
    BY <2>3, <2>6
    DEF ModuleNext, register_client_monitor, module_process, module_broadcast
  <2>7. ASSUME HandlerNext
        PROVE  RegistryAgrees'
    <3>1. \A p \in todo : p[2] \in Guid
      BY DEF TypeOK, HandlerType
    <3> QED
      BY <2>1, <2>3, <2>7, <3>1
      DEF HandlerNext, message_convert_result, message_convert_result_all,
          get_ntf_list, broadcast_listed, send_data_lookup, send_data_raw
  <2>8. CASE UNCHANGED vars
    BY <2>3, <2>8 DEF vars
  <2> QED
    BY <2>4, <2>5, <2>6, <2>7, <2>8 DEF Next
<1> QED
  BY TypeCorrect, <1>1, <1>2, PTL DEF Spec

-------------------------------------------------------------------------------
(* The client monitors.                                                    *)

LEMMA ModuleAppend ==
  ASSUME QueueType, NEW m \in ModuleMsg, mq' = Append(mq, m)
  PROVE  /\ Len(mq) \in Nat
         /\ Len(mq') = Len(mq) + 1
         /\ \A i \in 1..Len(mq) : mq'[i] = mq[i]
         /\ mq'[Len(mq) + 1] = m
BY DEF QueueType

\* A request, or a notification about somebody else, changes nothing.
LEMMA MonitorRequest ==
  ASSUME QueueType, MonitorInv, NEW g \in Guid,
         mq' = Append(mq, [k |-> "request", g |-> g]),
         UNCHANGED <<view, mon, guidApp>>
  PROVE  MonitorInv'
<1> DEFINE m == [k |-> "request", g |-> g]
<1>1. /\ Len(mq) \in Nat
      /\ Len(mq') = Len(mq) + 1
      /\ \A i \in 1..Len(mq) : mq'[i] = mq[i]
      /\ mq'[Len(mq) + 1].k = "request"
  BY Messages, ModuleAppend
<1>2. \A x \in Guid : NotesAbout(x)' = NotesAbout(x)
  BY <1>1 DEF NotesAbout
<1>3. MonitorNotAhead'
  BY <1>1, <1>2 DEF MonitorInv, MonitorNotAhead, NotesAbout
<1> QED
  BY <1>1, <1>3 DEF MonitorInv

\* The registry changes its entry of g and says so in the same critical section.
LEMMA MonitorNotify ==
  ASSUME QueueType, MonitorInv, NEW g \in Guid,
         NEW kind \in {"online", "offline"}, Notify(kind, g),
         UNCHANGED <<view, mon>>,
         \A x \in Guid \ {g} : guidApp'[x] = guidApp[x],
         kind = "online" => guidApp'[g] # NoApp
  PROVE  MonitorInv'
<1>1. CASE ~mon
  <2>1. mq' = mq
    BY <1>1 DEF Notify
  <2>2. \A x \in Guid : NotesAbout(x)' = {} /\ NotesAbout(x) = {}
    BY <1>1, <2>1 DEF MonitorInv, NotesAbout
  <2> QED
    BY <1>1, <2>1, <2>2 DEF MonitorInv, MonitorNotAhead
<1>2. CASE mon
  <2> DEFINE m == [k |-> kind, g |-> g]
  <2>1. m \in ModuleMsg /\ mq' = Append(mq, m)
    BY <1>2, Messages DEF Notify
  <2>2. /\ Len(mq) \in Nat
        /\ Len(mq') = Len(mq) + 1
        /\ \A i \in 1..Len(mq) : mq'[i] = mq[i]
        /\ mq'[Len(mq) + 1] = m
    BY <2>1, ModuleAppend
  <2>3. \A x \in Guid \ {g} : NotesAbout(x)' = NotesAbout(x)
    BY <2>2 DEF NotesAbout
  <2>4. Len(mq) + 1 \in NotesAbout(g)' /\ NotesAbout(g)' \subseteq 1..Len(mq) + 1
    BY <2>2 DEF NotesAbout
  <2>5. ASSUME NEW x \in Guid \ {g}
        PROVE  /\ NotesAbout(x)' = {} /\ x \in view' => guidApp'[x] # NoApp
               /\ \A i \in NotesAbout(x)' :
                    mq'[i].k = "online" /\ (\A j \in NotesAbout(x)' : j <= i)
                      => guidApp'[x] # NoApp
    BY <2>2, <2>3 DEF MonitorInv, MonitorNotAhead, NotesAbout
  <2>6. /\ NotesAbout(g)' # {}
        /\ \A i \in NotesAbout(g)' :
             mq'[i].k = "online" /\ (\A j \in NotesAbout(g)' : j <= i)
               => guidApp'[g] # NoApp
    <3> SUFFICES ASSUME NEW i \in NotesAbout(g)', mq'[i].k = "online",
                        \A j \in NotesAbout(g)' : j <= i
                 PROVE  guidApp'[g] # NoApp
      BY <2>4
    <3>1. i = Len(mq) + 1
      BY <2>2, <2>4
    <3> QED
      BY <2>2, <3>1
  <2> QED
    BY <1>2, <2>5, <2>6 DEF MonitorInv, MonitorNotAhead
<1> QED
  BY <1>1, <1>2

LEMMA MonitorProcess ==
  ASSUME TypeOK, MonitorInv, module_process
  PROVE  MonitorInv'
<1>1. /\ mq # <<>> /\ mq' = Tail(mq)
      /\ UNCHANGED <<mon, guidApp>>
  BY DEF module_process, registryVars
<1>2. /\ Len(mq) \in Nat \ {0}
      /\ Len(mq') = Len(mq) - 1
      /\ \A i \in 1..Len(mq') : mq'[i] = mq[i + 1]
      /\ Head(mq) = mq[1]
  BY <1>1 DEF TypeOK, QueueType
<1>3. \A x \in Guid, i \in 1..Len(mq') :
        i \in NotesAbout(x)' <=> i + 1 \in NotesAbout(x)
  BY <1>2 DEF NotesAbout
<1>4. \A x \in Guid : NotesAbout(x)' \subseteq 1..Len(mq') /\ NotesAbout(x) \subseteq 1..Len(mq)
  BY DEF NotesAbout
<1>5. ASSUME NEW x \in Guid, NotesAbout(x)' = {}, x \in view'
      PROVE  guidApp'[x] # NoApp
  <2>1. NotesAbout(x) \subseteq {1}
    <3> SUFFICES ASSUME NEW i \in NotesAbout(x), i # 1
                 PROVE  FALSE
      OBVIOUS
    <3>1. i - 1 \in 1..Len(mq') /\ i = (i - 1) + 1
      BY <1>2, <1>4
    <3> QED
      BY <1>3, <1>5, <3>1
  <2>2. CASE 1 \in NotesAbout(x)
    <3>1. mq[1].g = x /\ mq[1].k # "request"
      BY <2>2 DEF NotesAbout
    <3>2. mq[1].k = "online"
      BY <1>2, <1>5, <3>1 DEF module_process
    <3>3. \A j \in NotesAbout(x) : j <= 1
      BY <2>1
    <3> QED
      BY <1>1, <2>2, <3>2, <3>3 DEF MonitorInv, MonitorNotAhead
  <2>3. CASE 1 \notin NotesAbout(x)
    <3>1. NotesAbout(x) = {}
      BY <2>1, <2>3
    <3>2. mq[1].g # x \/ mq[1].k = "request"
      BY <1>2, <2>3 DEF NotesAbout
    <3>3. x \in view
      BY <1>2, <1>5, <3>2 DEF module_process
    <3> QED
      BY <1>1, <3>1, <3>3 DEF MonitorInv, MonitorNotAhead
  <2> QED
    BY <2>2, <2>3
<1>6. ASSUME NEW x \in Guid, NEW i \in NotesAbout(x)', mq'[i].k = "online",
             \A j \in NotesAbout(x)' : j <= i
      PROVE  guidApp'[x] # NoApp
  <2>1. i \in 1..Len(mq') /\ i + 1 \in NotesAbout(x) /\ mq[i + 1].k = "online"
    BY <1>2, <1>3, <1>4, <1>6
  <2>2. \A j \in NotesAbout(x) : j <= i + 1
    <3> SUFFICES ASSUME NEW j \in NotesAbout(x), j # 1
                 PROVE  j <= i + 1
      BY <2>1
    <3>1. j \in 1..Len(mq) /\ j - 1 \in 1..Len(mq') /\ j = (j - 1) + 1
      BY <1>2, <1>4
    <3>2. j - 1 \in NotesAbout(x)'
      BY <1>3, <3>1
    <3> QED
      BY <1>6, <2>1, <3>1, <3>2
  <2> QED
    BY <1>1, <2>1, <2>2 DEF MonitorInv, MonitorNotAhead
<1>7. MonitorNotAhead'
  BY <1>5, <1>6 DEF MonitorNotAhead
<1>8. ASSUME ~mon
      PROVE  view' = {} /\ \A i \in 1..Len(mq') : mq'[i].k = "request"
  <2>1. mq[1].k = "request" /\ view = {}
    BY <1>2, <1>8 DEF MonitorInv
  <2>2. view' = view
    BY <1>2, <2>1 DEF module_process
  <2>3. \A i \in 1..Len(mq') : i + 1 \in 1..Len(mq)
    BY <1>2
  <2> QED
    BY <1>2, <1>8, <2>1, <2>2, <2>3 DEF MonitorInv
<1> QED
  BY <1>1, <1>7, <1>8 DEF MonitorInv

LEMMA MonitorRemove ==
  ASSUME TypeOK, MonitorInv, NEW g \in Guid, remove_client(g),
         UNCHANGED <<view, mon>>
  PROVE  MonitorInv'
<1>1. Notify("offline", g) /\ \A x \in Guid \ {g} : guidApp'[x] = guidApp[x]
  BY DEF remove_client, TypeOK, RegistryType
<1> QED
  BY <1>1, MonitorNotify DEF TypeOK

LEMMA MonitorNext == TypeOK /\ MonitorInv /\ [Next]_vars => MonitorInv'
<1> SUFFICES ASSUME TypeOK, MonitorInv, [Next]_vars
             PROVE  MonitorInv'
  OBVIOUS
<1>1. CASE UNCHANGED <<view, mon, guidApp, mq>>
  BY <1>1 DEF MonitorInv, MonitorNotAhead, NotesAbout
<1>2. ASSUME ServerNext
      PROVE  MonitorInv'
  <2>1. srvq # <<>> => Head(srvq) \in Guid
    BY DEF TypeOK, QueueType
  <2> QED
    BY <1>1, <1>2, <2>1, MonitorRemove
    DEF ServerNext, new_connect, server_recvice_data, remove_socket,
        server_message, remove_one, registryVars, moduleVars
<1>3. ASSUME NEW a \in App, take_frame(a)
      PROVE  MonitorInv'
  <2>1. dcur \in Guid
    BY <1>3 DEF take_frame, TypeOK, DispatchType
  <2>2. CASE dcur \in clients[a]
    BY <1>1, <1>3, <2>2 DEF take_frame, add_client, registryVars, moduleVars
  <2>3. CASE dcur \notin clients[a]
    <3>1. /\ Notify("online", dcur)
          /\ guidApp' = [guidApp EXCEPT ![dcur] = a]
          /\ UNCHANGED <<view, mon>>
      BY <1>3, <2>3 DEF take_frame, add_client, moduleVars
    <3>2. /\ guidApp'[dcur] # NoApp
          /\ \A x \in Guid \ {dcur} : guidApp'[x] = guidApp[x]
      BY <2>1, <3>1, DispatchAssumption DEF TypeOK, RegistryType, NoApp
    <3> QED
      BY <2>1, <3>1, <3>2, MonitorNotify DEF TypeOK
  <2> QED
    BY <2>2, <2>3
<1>4. ASSUME local_msg_handler
      PROVE  MonitorInv'
  <2>1. dcur \in Guid /\ UNCHANGED <<view, mon, guidApp>>
    BY <1>4 DEF local_msg_handler, TypeOK, DispatchType, registryVars, moduleVars
  <2>2. mq' = mq \/ mq' = Append(mq, [k |-> "request", g |-> dcur])
    BY <1>4 DEF local_msg_handler
  <2> QED
    BY <1>1, <2>1, <2>2, MonitorRequest DEF TypeOK
<1>5. ASSUME net_data_in_handler \/ erase_cache \/ wait_data
      PROVE  MonitorInv'
  BY <1>1, <1>5
  DEF net_data_in_handler, erase_cache, wait_data, registryVars, moduleVars
<1>6. ASSUME register_client_monitor
      PROVE  MonitorInv'
  BY <1>6 DEF register_client_monitor, registryVars, MonitorInv,
     MonitorNotAhead, NotesAbout
<1>7. ASSUME module_broadcast
      PROVE  MonitorInv'
  BY <1>1, <1>7 DEF module_broadcast, registryVars
<1>8. ASSUME HandlerNext
      PROVE  MonitorInv'
  <2>1. \A p \in todo : p[2] \in Guid
    BY DEF TypeOK, HandlerType
  <2> QED
    BY <1>1, <1>8, <2>1, MonitorRemove
    DEF HandlerNext, message_convert_result, message_convert_result_all,
        get_ntf_list, broadcast_listed, send_data_lookup, send_data_raw,
        registryVars, moduleVars
<1>9. CASE UNCHANGED vars
  BY <1>1, <1>9 DEF vars, registryVars, moduleVars
<1> QED
  BY <1>2, <1>3, <1>4, <1>5, <1>6, <1>7, <1>8, <1>9, MonitorProcess
  DEF Next, DispatchNext, ModuleNext

\* A client monitor that is up to date with its notifications believes no client
\* online that the registry has dropped, whichever of the three threads made
\* the change (add_client and remove_client notify inside m_ml).
THEOREM MonitorConsistent == Spec => []MonitorNotAhead
<1>1. Init => MonitorInv
  BY DEF Init, MonitorInv, MonitorNotAhead, NotesAbout
<1>2. MonitorInv => MonitorNotAhead
  BY DEF MonitorInv
<1> QED
  BY TypeCorrect, MonitorNext, <1>1, <1>2, PTL DEF Spec

\* The registry's maps agree and no monitor is ahead of it, at any time.
THEOREM RegistryFollowed == Spec => []RegistryInv
<1>1. RegistryAgrees /\ MonitorNotAhead => RegistryInv
  BY DEF RegistryInv
<1> QED
  BY RegistryConsistent, MonitorConsistent, <1>1, PTL

-------------------------------------------------------------------------------
(* The abstract specification.                                             *)

LEMMA PhaseSame ==
  ASSUME UNCHANGED <<sock, used, frames>>,
         \A x \in Guid : Queued("remove", x)' <=> Queued("remove", x)
  PROVE  UNCHANGED Session!vars
<1>1. \A x \in Guid : Phase(x)' = Phase(x)
  BY DEF Phase
<1> QED
  BY <1>1 DEF Session!vars

LEMMA PhaseRemoveOne ==
  ASSUME TypeOK, NEW g \in sock, remove_one(g), UNCHANGED frames
  PROVE  Session!Next
<1> DEFINE m == [k |-> "remove", g |-> g, n |-> 0]
<1>1. g \in Guid
  BY DEF TypeOK, ServerType
<1>2. m \in DispatchMsg
  BY <1>1 DEF DispatchMsg
<1>3. sock' = sock \ {g} /\ used' = used /\ dq' = Append(dq, m)
  BY DEF remove_one
<1>4. /\ Len(dq) \in Nat
      /\ Len(dq') = Len(dq) + 1
      /\ \A i \in 1..Len(dq) : dq'[i] = dq[i]
      /\ dq'[Len(dq) + 1] = m
  BY <1>2, <1>3, DispatchAppend DEF TypeOK
<1>5. /\ Queued("remove", g)'
      /\ \A x \in Guid \ {g} : Queued("remove", x)' <=> Queued("remove", x)
  BY <1>4 DEF Queued
<1>6. Phase(g) = "open" /\ Phase(g)' = "draining"
  BY <1>3, <1>5 DEF Phase
<1>7. \A x \in Guid \ {g} : Phase(x)' = Phase(x)
  BY <1>3, <1>5 DEF Phase
<1>8. [x \in Guid |-> Phase(x)]' =
        [[x \in Guid |-> Phase(x)] EXCEPT ![g] = "draining"]
  BY <1>6, <1>7
<1> QED
  BY <1>1, <1>6, <1>8 DEF Session!Next, Session!Close, Session!Become

LEMMA SessionStep ==
  TypeOK /\ CacheInv /\ [Next]_vars => [Session!Next]_(Session!vars)
<1> SUFFICES ASSUME TypeOK, CacheInv, [Next]_vars
             PROVE  Session!Next \/ UNCHANGED Session!vars
  OBVIOUS
<1>1. ASSUME NEW g \in Guid, NEW h \in Handle, new_connect(g, h)
      PROVE  Session!Next
  <2>1. /\ dq' = dq /\ frames' = frames /\ g \notin used
        /\ sock' = sock \cup {g} /\ used' = used \cup {g}
    BY <1>1 DEF new_connect, dispatchVars
  <2>2. \A x : Queued("remove", x)' <=> Queued("remove", x)
    BY <2>1 DEF Queued
  <2>3. Phase(g) = "new" /\ Phase(g)' = "open"
    BY <2>1 DEF Phase, Queued, CacheInv, RemovedOnce, TypeOK, ServerType
  <2>4. \A x \in Guid \ {g} : Phase(x)' = Phase(x)
    BY <2>1, <2>2 DEF Phase
  <2>5. [x \in Guid |-> Phase(x)]' =
          [[x \in Guid |-> Phase(x)] EXCEPT ![g] = "open"]
    BY <2>3, <2>4
  <2> QED
    BY <2>1, <2>3, <2>5 DEF Session!Next, Session!Open, Session!Become
<1>2. ASSUME NEW g \in Guid, NEW n \in 1..MaxParts, server_recvice_data(g, n)
      PROVE  UNCHANGED Session!vars
  <2>1. [k |-> "data", g |-> g, n |-> n] \in DispatchMsg
    BY DEF DispatchMsg
  <2>2. /\ Len(dq) \in Nat
        /\ Len(dq') = Len(dq) + 1
        /\ \A i \in 1..Len(dq) : dq'[i] = dq[i]
        /\ dq'[Len(dq) + 1].k = "data"
    BY <1>2, <2>1, DispatchAppend DEF server_recvice_data, TypeOK
  <2>3. \A x : Queued("remove", x)' <=> Queued("remove", x)
    BY <2>2 DEF Queued
  <2> QED
    BY <1>2, <2>3, PhaseSame DEF server_recvice_data, dispatchVars
<1>3. ASSUME NEW g \in Guid, remove_socket(g)
      PROVE  Session!Next
  BY <1>3, PhaseRemoveOne DEF remove_socket, dispatchVars
<1>4. ASSUME server_message
      PROVE  Session!Next \/ UNCHANGED Session!vars
  <2>1. CASE Head(srvq) \in sock
    BY <1>4, <2>1, PhaseRemoveOne DEF server_message, dispatchVars
  <2>2. CASE Head(srvq) \notin sock
    <3>1. UNCHANGED <<sock, used, frames, dq>>
      BY <1>4, <2>2 DEF server_message, dispatchVars, serverVars
    <3> QED
      BY <3>1, PhaseSame DEF Queued
  <2> QED
    BY <2>1, <2>2
<1>5. ASSUME net_data_in_handler
      PROVE  UNCHANGED Session!vars
  <2>1. /\ dq # <<>> /\ dq' = Tail(dq) /\ Head(dq).k = "data"
        /\ UNCHANGED <<sock, used, frames>>
    BY <1>5 DEF net_data_in_handler, serverVars
  <2>2. /\ Len(dq) \in Nat \ {0}
        /\ Len(dq') = Len(dq) - 1
        /\ \A i \in 1..Len(dq') : dq'[i] = dq[i + 1]
        /\ Head(dq) = dq[1]
    BY <2>1, DispatchTail DEF TypeOK
  <2>3. \A x : Queued("remove", x) => Queued("remove", x)'
    <3> SUFFICES ASSUME NEW x, NEW i \in 1..Len(dq),
                        dq[i].k = "remove" /\ dq[i].g = x
                 PROVE  Queued("remove", x)'
      BY DEF Queued
    <3>1. i # 1 /\ i - 1 \in 1..Len(dq') /\ dq'[i - 1] = dq[i]
      BY <2>1, <2>2
    <3> QED
      BY <3>1 DEF Queued
  <2>4. \A x : Queued("remove", x)' => Queued("remove", x)
    <3>1. \A i \in 1..Len(dq') : i + 1 \in 1..Len(dq) /\ dq'[i] = dq[i + 1]
      BY <2>2
    <3> QED
      BY <3>1 DEF Queued
  <2> QED
    BY <2>1, <2>3, <2>4, PhaseSame
<1>6. ASSUME erase_cache
      PROVE  Session!Next
  <2>0. PICK g \in Guid : g = Head(dq).g
    BY <1>6, DispatchHead DEF TypeOK, erase_cache
  <2>1. /\ dq # <<>> /\ dq' = Tail(dq) /\ Head(dq).k = "remove"
        /\ UNCHANGED <<sock, used, frames>>
    BY <1>6 DEF erase_cache, serverVars
  <2>2. /\ Len(dq) \in Nat \ {0}
        /\ Len(dq') = Len(dq) - 1
        /\ \A i \in 1..Len(dq') : dq'[i] = dq[i + 1]
        /\ Head(dq) = dq[1]
    BY <2>1, DispatchTail DEF TypeOK
  <2>3. \A x : x # g /\ Queued("remove", x) => Queued("remove", x)'
    <3> SUFFICES ASSUME NEW x, x # g, NEW i \in 1..Len(dq),
                        dq[i].k = "remove" /\ dq[i].g = x
                 PROVE  Queued("remove", x)'
      BY DEF Queued
    <3>1. i # 1 /\ i - 1 \in 1..Len(dq') /\ dq'[i - 1] = dq[i]
      BY <2>0, <2>2
    <3> QED
      BY <3>1 DEF Queued
  <2>4. \A i \in 1..Len(dq') : i + 1 \in 1..Len(dq) /\ dq'[i] = dq[i + 1]
    BY <2>2
  <2>5. \A x : Queued("remove", x)' => Queued("remove", x)
    BY <2>4 DEF Queued
  <2>6. Queued("remove", g) /\ g \in used \ sock
    BY <2>0, <2>1, <2>2 DEF Queued, CacheInv, RemovedOnce
  <2>7. ~Queued("remove", g)'
    <3> SUFFICES ASSUME NEW i \in 1..Len(dq'), dq'[i].k = "remove", dq'[i].g = g
                 PROVE  FALSE
      BY DEF Queued
    <3>1. i + 1 = 1
      BY <2>0, <2>1, <2>2, <2>4 DEF CacheInv, RemovedOnce
    <3> QED
      BY <3>1
  <2>8. Phase(g) = "draining" /\ Phase(g)' = "gone"
    BY <2>1, <2>6, <2>7 DEF Phase
  <2>9. \A x \in Guid \ {g} : Phase(x)' = Phase(x)
    BY <2>1, <2>3, <2>5 DEF Phase
  <2>10. [x \in Guid |-> Phase(x)]' =
           [[x \in Guid |-> Phase(x)] EXCEPT ![g] = "gone"]
    BY <2>8, <2>9
  <2> QED
    BY <2>1, <2>8, <2>10 DEF Session!Next, Session!Release, Session!Become
<1>7. ASSUME NEW a \in App, take_frame(a)
      PROVE  Session!Next
  <2>1. /\ dcur \in Guid /\ UNCHANGED <<sock, used, dq>>
        /\ frames' = [frames EXCEPT ![dcur] = @ + 1]
    BY <1>7 DEF take_frame, serverVars, TypeOK, DispatchType
  <2>2. \A x \in Guid : Phase(x)' = Phase(x)
    BY <2>1 DEF Phase, Queued
  <2>3. Phase(dcur) \in {"open", "draining"}
    BY <2>1 DEF Phase, CacheInv, CurrentCovered
  <2> QED
    BY <2>1, <2>2, <2>3 DEF Session!Next, Session!HandleFrame
<1>8. ASSUME wait_data \/ local_msg_handler \/ ModuleNext \/ HandlerNext
             \/ UNCHANGED vars
      PROVE  UNCHANGED Session!vars
  <2>1. UNCHANGED <<sock, used, frames, dq>>
    BY <1>8 DEF wait_data, local_msg_handler, ModuleNext,
       register_client_monitor, module_process, module_broadcast, HandlerNext,
       message_convert_result, message_convert_result_all, get_ntf_list,
       broadcast_listed, send_data_lookup, send_data_raw, serverVars,
       dispatchVars, vars
  <2> QED
    BY <2>1, PhaseSame DEF Queued
<1> QED
  BY <1>1, <1>2, <1>3, <1>4, <1>5, <1>6, <1>7, <1>8
  DEF Next, ServerNext, DispatchNext

\* The server keeps the promise ClientSession makes to a client: opened once,
\* frames handled only until the input is released, released once.
THEOREM SessionImplemented == Spec => SessionSpec
<1>1. Init => Session!Init
  BY DEF Init, Session!Init, Phase, Queued
<1>2. Init => CacheInv
  BY DispatchAssumption
  DEF Init, CacheInv, DataCovered, CurrentCovered, CacheFreed, RemovedOnce
<1> QED
  BY TypeCorrect, CacheNext, SessionStep, <1>1, <1>2, PTL
  DEF Spec, SessionSpec, Session!Spec
===============================================================================
