------------------------------ MODULE LoRaProofs ------------------------------
(***************************************************************************)
(* For any requests, limit, stations and scans: the scheduler counts the   *)
(* tasks that are under way, the serial thread never holds more than two   *)
(* of them, whatever waits is woken, no request is answered twice, a       *)
(* refusal that others take for their own answer is the only answer to it, *)
(* and a list that is published holds only boxes found since the last one. *)
(***************************************************************************)
EXTENDS LoRa, FiniteSetTheorems, SequenceTheorems, TLAPS

-------------------------------------------------------------------------------
(* Queues: how many of their messages are in a set.                        *)

Places(queue, S) == {j \in DOMAIN queue : queue[j] \in S}
Count(queue, S) == Cardinality(Places(queue, S))

\* A message is taken from the front of a queue.
LEMMA FirstTaken ==
  ASSUME NEW S, NEW q \in Seq(S), q # <<>>
  PROVE  /\ Head(q) \in S /\ Head(q) = q[1] /\ Tail(q) \in Seq(S)
         /\ Len(q) \in Nat \ {0} /\ DOMAIN q = 1..Len(q) /\ Len(Tail(q)) = Len(q) - 1
         /\ DOMAIN Tail(q) = 1..(Len(q) - 1)
         /\ \A k \in 1..(Len(q) - 1) : Tail(q)[k] = q[k + 1]
<1>1. Len(q) \in Nat /\ DOMAIN q = 1..Len(q)
  BY LenProperties
<1>2. Len(q) # 0
  BY EmptySeq
<1>3. /\ Head(q) \in S /\ Tail(q) \in Seq(S) /\ Len(Tail(q)) = Len(q) - 1
      /\ \A k \in 1..Len(Tail(q)) : Tail(q)[k] = q[k + 1]
  BY HeadTailProperties
<1> QED BY <1>1, <1>2, <1>3, LenProperties

\* A message is put at the end of a queue.
LEMMA LastPut ==
  ASSUME NEW S, NEW q \in Seq(S), NEW m \in S
  PROVE  /\ Append(q, m) \in Seq(S) /\ Append(q, m) # <<>>
         /\ Len(q) \in Nat /\ DOMAIN q = 1..Len(q) /\ Len(Append(q, m)) = Len(q) + 1
         /\ DOMAIN Append(q, m) = 1..(Len(q) + 1) /\ Append(q, m)[Len(q) + 1] = m
         /\ \A k \in 1..Len(q) : Append(q, m)[k] = q[k]
<1>1. /\ Append(q, m) \in Seq(S) /\ Len(Append(q, m)) = Len(q) + 1
      /\ Append(q, m)[Len(q) + 1] = m /\ \A k \in 1..Len(q) : Append(q, m)[k] = q[k]
  BY AppendProperties
<1>2. Len(q) \in Nat /\ DOMAIN q = 1..Len(q) /\ DOMAIN Append(q, m) = 1..Len(Append(q, m))
  BY <1>1, LenProperties
<1>3. Append(q, m) # <<>>
  BY <1>1, <1>2, EmptySeq
<1> QED BY <1>1, <1>2, <1>3

\* A queue has finitely many messages.
LEMMA PlacesFinite ==
  ASSUME NEW M, NEW queue \in Seq(M), NEW S
  PROVE  /\ IsFiniteSet(Places(queue, S)) /\ Count(queue, S) \in Nat
         /\ Count(queue, S) = 0 <=> \A j \in DOMAIN queue : queue[j] \notin S
<1>1. DOMAIN queue = 1..Len(queue) /\ Len(queue) \in Nat
  BY LenProperties
<1>2. IsFiniteSet(DOMAIN queue)
  BY <1>1, FS_Interval
<1>3. IsFiniteSet(Places(queue, S))
  BY <1>2, FS_Subset DEF Places
<1>4. Count(queue, S) \in Nat
  BY <1>3, FS_CardinalityType DEF Count
<1>5. Count(queue, S) = 0 <=> Places(queue, S) = {}
  BY <1>3, FS_EmptySet DEF Count
<1> QED BY <1>3, <1>4, <1>5 DEF Places

\* An empty queue has none.
LEMMA CountNone == ASSUME NEW S PROVE Count(<<>>, S) = 0
<1>1. <<>> \in Seq({}) /\ DOMAIN <<>> = {}
  OBVIOUS
<1> QED BY <1>1, PlacesFinite

\* A message put into a queue is counted once more.
LEMMA CountPut ==
  ASSUME NEW M, NEW queue \in Seq(M), NEW m \in M, NEW S
  PROVE  Count(Append(queue, m), S) = Count(queue, S) + (IF m \in S THEN 1 ELSE 0)
<1>1. PICK n, q : n = Len(queue) /\ q = Append(queue, m)
  OBVIOUS
<1>2. /\ n \in Nat /\ DOMAIN queue = 1..n /\ DOMAIN q = 1..(n + 1) /\ q[n + 1] = m
      /\ \A k \in 1..n : q[k] = queue[k]
  BY <1>1, LastPut
<1>3. Places(q, S) = Places(queue, S) \cup (IF m \in S THEN {n + 1} ELSE {})
  BY <1>2 DEF Places
<1>4. n + 1 \notin Places(queue, S)
  BY <1>2 DEF Places
<1>5. IsFiniteSet(Places(queue, S)) /\ Count(queue, S) \in Nat
  BY PlacesFinite
<1>6. CASE m \in S
  <2>1. Places(q, S) = Places(queue, S) \cup {n + 1}
    BY <1>3, <1>6
  <2>2. Cardinality(Places(queue, S) \cup {n + 1}) = Cardinality(Places(queue, S)) + 1
    BY <1>4, <1>5, FS_AddElement
  <2> QED BY <1>1, <1>5, <1>6, <2>1, <2>2 DEF Count
<1>7. CASE m \notin S
  <2>1. Places(q, S) = Places(queue, S)
    BY <1>3, <1>7
  <2> QED BY <1>1, <1>5, <1>7, <2>1 DEF Count
<1> QED BY <1>6, <1>7

\* The message taken from a queue was counted once.
LEMMA CountTaken ==
  ASSUME NEW M, NEW queue \in Seq(M), queue # <<>>, NEW S
  PROVE  Count(queue, S) = Count(Tail(queue), S) + (IF Head(queue) \in S THEN 1 ELSE 0)
<1>1. PICK n, q : n = Len(queue) /\ q = Tail(queue)
  OBVIOUS
<1>2. /\ n \in Nat \ {0} /\ DOMAIN queue = 1..n /\ DOMAIN q = 1..(n - 1) /\ q \in Seq(M)
      /\ Head(queue) = queue[1] /\ \A k \in 1..(n - 1) : q[k] = queue[k + 1]
  BY <1>1, FirstTaken
<1>3. PICK f : f = [k \in Places(q, S) |-> k + 1]
  OBVIOUS
<1>4. PICK rest : rest = Places(queue, S) \ {1}
  OBVIOUS
<1>5. /\ IsFiniteSet(Places(q, S)) /\ Count(q, S) \in Nat
      /\ IsFiniteSet(Places(queue, S)) /\ Count(queue, S) \in Nat
  BY <1>2, PlacesFinite
<1>6. \A k \in Places(q, S) : k \in Nat /\ k + 1 \in rest
  BY <1>2, <1>4 DEF Places
<1>7. \A k \in rest : k \in Nat /\ k - 1 \in Places(q, S) /\ (k - 1) + 1 = k
  BY <1>2, <1>4 DEF Places
<1>8. f \in Bijection(Places(q, S), rest)
  <2>1. f \in [Places(q, S) -> rest]
    BY <1>3, <1>6
  <2>2. \A k, l \in Places(q, S) : f[k] = f[l] => k = l
    BY <1>3, <1>6
  <2>3. \A k \in rest : \E l \in Places(q, S) : f[l] = k
    BY <1>3, <1>7
  <2> QED BY <2>1, <2>2, <2>3 DEF Bijection, Injection, IsInjective, Surjection
<1>9. Cardinality(rest) = Count(q, S)
  BY <1>5, <1>8, FS_Bijection DEF ExistsBijection, Count
<1>10. Cardinality(rest) = IF 1 \in Places(queue, S) THEN Count(queue, S) - 1 ELSE Count(queue, S)
  BY <1>4, <1>5, FS_RemoveElement DEF Count
<1>11. 1 \in Places(queue, S) <=> Head(queue) \in S
  BY <1>2 DEF Places
<1> QED BY <1>1, <1>5, <1>9, <1>10, <1>11

\* The set of the messages of a queue in which none is twice.
LEMMA AllDifferent ==
  ASSUME NEW M, NEW queue \in Seq(M), \A x \in M : Count(queue, {x}) <= 1
  PROVE  IsFiniteSet(Members(queue)) /\ Cardinality(Members(queue)) = Len(queue)
<1>1. DOMAIN queue = 1..Len(queue) /\ Len(queue) \in Nat /\ queue \in [1..Len(queue) -> M]
  BY LenProperties
<1>2. ASSUME NEW k \in 1..Len(queue), NEW l \in 1..Len(queue), queue[k] = queue[l] PROVE k = l
  <2>1. PICK x : x = queue[k]
    OBVIOUS
  <2>2. x \in M /\ {k, l} \in SUBSET Places(queue, {x})
    BY <1>1, <1>2, <2>1 DEF Places
  <2>3. IsFiniteSet(Places(queue, {x})) /\ Count(queue, {x}) <= 1 /\ Count(queue, {x}) \in Nat
    BY <2>2, PlacesFinite
  <2>4. Cardinality({k, l}) <= 1
    <3>1. Cardinality({k, l}) <= Cardinality(Places(queue, {x}))
      BY <2>2, <2>3, FS_Subset
    <3>2. IsFiniteSet({k, l})
      BY <2>2, <2>3, FS_Subset
    <3>3. Cardinality({k, l}) \in Nat
      BY <3>2, FS_CardinalityType
    <3> QED BY <2>3, <3>1, <3>3 DEF Count
  <2>5. ASSUME k # l PROVE Cardinality({k, l}) = 2
    <3>1. IsFiniteSet({k}) /\ Cardinality({k}) = 1
      BY FS_Singleton
    <3>4. l \notin {k}
      BY <2>5
    <3>5. Cardinality({k} \cup {l}) = Cardinality({k}) + 1
      BY <3>1, <3>4, FS_AddElement, Zenon
    <3>2. Cardinality({k} \cup {l}) = 2
      BY <3>1, <3>5
    <3>3. {k, l} = {k} \cup {l}
      OBVIOUS
    <3> QED BY <3>2, <3>3
  <2> QED BY <2>4, <2>5
<1>3. PICK f : f = [k \in 1..Len(queue) |-> queue[k]]
  OBVIOUS
<1>4. f \in Bijection(1..Len(queue), Members(queue))
  BY <1>1, <1>2, <1>3 DEF Bijection, Injection, IsInjective, Surjection, Members
<1>5. IsFiniteSet(1..Len(queue)) /\ Cardinality(1..Len(queue)) = Len(queue)
  BY <1>1, FS_Interval
<1> QED BY <1>4, <1>5, FS_Bijection DEF ExistsBijection

-------------------------------------------------------------------------------
(* The scheduler's record and what one message makes of it.                *)

Sched == [state : {"high", "mid", "low"}, current : Nat,
          high : Seq(Request), mid : Seq(Request), exe : Seq(Request)]

\* How many of the requests of S wait or are with the serial thread.
Holds(s, S) == Count(s.high, S) + Count(s.mid, S) + Count(s.exe, S)

\* In the low state nothing is under way, in the middle one a single task, and no
\* opening waits; in the high state there are one or two tasks.
Shape(s) ==
  /\ s.state = "low" => s.current = 0 /\ s.high = <<>> /\ s.mid = <<>>
  /\ s.state = "mid" => s.current = 1 /\ s.high = <<>>
  /\ s.state = "high" => s.current \in {1, 2}

LEMMA SchedMade ==
  ASSUME NEW st \in {"high", "mid", "low"}, NEW c \in Nat, NEW h \in Seq(Request),
         NEW m \in Seq(Request), NEW e \in Seq(Request),
         NEW u, u = [state |-> st, current |-> c, high |-> h, mid |-> m, exe |-> e]
  PROVE  u \in Sched
BY DEF Sched

LEMMA HoldsNat == ASSUME NEW s \in Sched, NEW S PROVE Holds(s, S) \in Nat
<1>1. s.high \in Seq(Request) /\ s.mid \in Seq(Request) /\ s.exe \in Seq(Request)
  BY DEF Sched
<1>2. Count(s.high, S) \in Nat /\ Count(s.mid, S) \in Nat /\ Count(s.exe, S) \in Nat
  BY <1>1, PlacesFinite
<1> QED BY <1>2 DEF Holds

\* A request that just came is started.
LEMMA StartIs ==
  ASSUME NEW s \in Sched, NEW r \in Request, NEW st \in {"high", "mid"},
         NEW u, u = Start(s, r, st)
  PROVE  /\ u \in Sched /\ u.state = st /\ u.current = s.current + 1
         /\ u.high = s.high /\ u.mid = s.mid /\ u.exe = Append(s.exe, r)
         /\ Len(u.exe) = Len(s.exe) + 1
         /\ \A S : Holds(u, S) = Holds(s, S) + (IF r \in S THEN 1 ELSE 0)
<1>1. /\ s.exe \in Seq(Request) /\ s.high \in Seq(Request) /\ s.mid \in Seq(Request)
      /\ s.current \in Nat
  BY DEF Sched
<1>2. Append(s.exe, r) \in Seq(Request) /\ Len(Append(s.exe, r)) = Len(s.exe) + 1
  BY <1>1, LastPut
<1>3. /\ u.state = st /\ u.current = s.current + 1
      /\ u.high = s.high /\ u.mid = s.mid /\ u.exe = Append(s.exe, r)
  BY DEF Start, Sched
<1>4. u \in Sched
  <2>1. u = [state |-> st, current |-> s.current + 1, high |-> s.high, mid |-> s.mid,
             exe |-> Append(s.exe, r)]
    BY DEF Start, Sched
  <2>2. s.current + 1 \in Nat /\ st \in {"high", "mid", "low"}
    BY <1>1
  <2> QED BY <1>1, <1>2, <2>1, <2>2, SchedMade
<1>5. ASSUME NEW S PROVE Holds(u, S) = Holds(s, S) + (IF r \in S THEN 1 ELSE 0)
  <2>1. Count(u.exe, S) = Count(s.exe, S) + (IF r \in S THEN 1 ELSE 0)
    BY <1>1, <1>3, CountPut
  <2>2. Count(s.high, S) \in Nat /\ Count(s.mid, S) \in Nat /\ Count(s.exe, S) \in Nat
    BY <1>1, PlacesFinite
  <2> QED BY <1>3, <2>1, <2>2 DEF Holds
<1> QED BY <1>2, <1>3, <1>4, <1>5

\* The first opening that waits is started.
LEMMA StartHighIs ==
  ASSUME NEW s \in Sched, s.high # <<>>, NEW u, u = StartHigh(s)
  PROVE  /\ u \in Sched /\ u.state = "high" /\ u.current = s.current + 1
         /\ u.high = Tail(s.high) /\ u.mid = s.mid /\ u.exe = Append(s.exe, Head(s.high))
         /\ Len(u.exe) = Len(s.exe) + 1 /\ Head(s.high) \in Request
         /\ \A S : Holds(u, S) = Holds(s, S)
<1>1. /\ s.exe \in Seq(Request) /\ s.high \in Seq(Request) /\ s.mid \in Seq(Request)
  BY DEF Sched
<1>2. PICK t : t = [s EXCEPT !.high = Tail(s.high)]
  OBVIOUS
<1>3. Head(s.high) \in Request /\ Tail(s.high) \in Seq(Request)
  BY <1>1, FirstTaken
<1>4. /\ t \in Sched /\ t.high = Tail(s.high) /\ t.mid = s.mid /\ t.exe = s.exe
      /\ t.current = s.current
  BY <1>2, <1>3 DEF Sched
<1>5. u = Start(t, Head(s.high), "high") /\ "high" \in {"high", "mid"}
  BY <1>2 DEF StartHigh
<1>6. /\ u \in Sched /\ u.state = "high" /\ u.current = t.current + 1
      /\ u.high = t.high /\ u.mid = t.mid /\ u.exe = Append(t.exe, Head(s.high))
      /\ Len(u.exe) = Len(t.exe) + 1
      /\ \A S : Holds(u, S) = Holds(t, S) + (IF Head(s.high) \in S THEN 1 ELSE 0)
  <2>1. PICK r, a : r = Head(s.high) /\ a = "high"
    OBVIOUS
  <2>2. r \in Request /\ t \in Sched /\ a \in {"high", "mid"} /\ u = Start(t, r, a)
    BY <1>3, <1>4, <1>5, <2>1
  <2>3. /\ u \in Sched /\ u.state = a /\ u.current = t.current + 1
        /\ u.high = t.high /\ u.mid = t.mid /\ u.exe = Append(t.exe, r)
        /\ Len(u.exe) = Len(t.exe) + 1
        /\ \A S : Holds(u, S) = Holds(t, S) + (IF r \in S THEN 1 ELSE 0)
    BY <2>2, StartIs
  <2> QED BY <2>1, <2>3
<1>7. ASSUME NEW S PROVE Holds(u, S) = Holds(s, S)
  <2>1. Count(s.high, S) = Count(t.high, S) + (IF Head(s.high) \in S THEN 1 ELSE 0)
    BY <1>1, <1>4, CountTaken
  <2>2. /\ Count(s.high, S) \in Nat /\ Count(s.mid, S) \in Nat /\ Count(s.exe, S) \in Nat
        /\ Count(t.high, S) \in Nat
    BY <1>1, <1>3, <1>4, PlacesFinite
  <2>3. Holds(u, S) = Holds(t, S) + (IF Head(s.high) \in S THEN 1 ELSE 0)
    BY <1>6
  <2> QED BY <1>4, <2>1, <2>2, <2>3 DEF Holds
<1> QED BY <1>3, <1>4, <1>6, <1>7

\* The first query that waits is started.
LEMMA StartMidIs ==
  ASSUME NEW s \in Sched, s.mid # <<>>, NEW u, u = StartMid(s)
  PROVE  /\ u \in Sched /\ u.state = "mid" /\ u.current = s.current + 1
         /\ u.high = s.high /\ Len(u.exe) = Len(s.exe) + 1
         /\ u.exe = Append(s.exe, Head(s.mid)) /\ Head(s.mid) \in Request
         /\ \A S : Holds(u, S) = Holds(s, S)
<1>1. /\ s.exe \in Seq(Request) /\ s.high \in Seq(Request) /\ s.mid \in Seq(Request)
  BY DEF Sched
<1>2. PICK t : t = [s EXCEPT !.mid = Tail(s.mid)]
  OBVIOUS
<1>3. Head(s.mid) \in Request /\ Tail(s.mid) \in Seq(Request)
  BY <1>1, FirstTaken
<1>4. /\ t \in Sched /\ t.mid = Tail(s.mid) /\ t.high = s.high /\ t.exe = s.exe
      /\ t.current = s.current
  BY <1>2, <1>3 DEF Sched
<1>5. u = Start(t, Head(s.mid), "mid") /\ "mid" \in {"high", "mid"}
  BY <1>2 DEF StartMid
<1>6. /\ u \in Sched /\ u.state = "mid" /\ u.current = t.current + 1
      /\ u.high = t.high /\ u.mid = t.mid /\ u.exe = Append(t.exe, Head(s.mid))
      /\ Len(u.exe) = Len(t.exe) + 1
      /\ \A S : Holds(u, S) = Holds(t, S) + (IF Head(s.mid) \in S THEN 1 ELSE 0)
  <2>1. PICK r, a : r = Head(s.mid) /\ a = "mid"
    OBVIOUS
  <2>2. r \in Request /\ t \in Sched /\ a \in {"high", "mid"} /\ u = Start(t, r, a)
    BY <1>3, <1>4, <1>5, <2>1
  <2>3. /\ u \in Sched /\ u.state = a /\ u.current = t.current + 1
        /\ u.high = t.high /\ u.mid = t.mid /\ u.exe = Append(t.exe, r)
        /\ Len(u.exe) = Len(t.exe) + 1
        /\ \A S : Holds(u, S) = Holds(t, S) + (IF r \in S THEN 1 ELSE 0)
    BY <2>2, StartIs
  <2> QED BY <2>1, <2>3
<1>7. ASSUME NEW S PROVE Holds(u, S) = Holds(s, S)
  <2>1. Count(s.mid, S) = Count(t.mid, S) + (IF Head(s.mid) \in S THEN 1 ELSE 0)
    BY <1>1, <1>4, CountTaken
  <2>2. /\ Count(s.high, S) \in Nat /\ Count(s.mid, S) \in Nat /\ Count(s.exe, S) \in Nat
        /\ Count(t.mid, S) \in Nat
    BY <1>1, <1>3, <1>4, PlacesFinite
  <2>3. Holds(u, S) = Holds(t, S) + (IF Head(s.mid) \in S THEN 1 ELSE 0)
    BY <1>6
  <2> QED BY <1>4, <2>1, <2>2, <2>3 DEF Holds
<1> QED BY <1>3, <1>4, <1>6, <1>7

\* With one task at most, and no opening waiting, the next query is started.
LEMMA NextMidIs ==
  ASSUME NEW s \in Sched, s.state = "mid", s.high = <<>>, s.current \in {0, 1},
         NEW u, u = NextMid(s)
  PROVE  /\ u \in Sched /\ Shape(u) /\ u.state # "high" /\ u.high = <<>>
         /\ u.current - Len(u.exe) = s.current - Len(s.exe)
         /\ \A S : Holds(u, S) = Holds(s, S)
<1>1. Len(s.exe) \in Nat /\ s.current \in Nat
  BY LenProperties DEF Sched
<1>2. CASE s.current = 1
  BY <1>2 DEF NextMid, Shape
<1>3. CASE s.current = 0 /\ s.mid # <<>>
  <2>1. u = StartMid(s)
    BY <1>3 DEF NextMid
  <2>2. /\ u \in Sched /\ u.state = "mid" /\ u.current = s.current + 1
        /\ u.high = s.high /\ Len(u.exe) = Len(s.exe) + 1
        /\ \A S : Holds(u, S) = Holds(s, S)
    BY <1>3, <2>1, StartMidIs
  <2> QED BY <1>1, <1>3, <2>2 DEF Shape
<1>4. CASE s.current = 0 /\ s.mid = <<>>
  <2>1. u = [s EXCEPT !.state = "low"]
    BY <1>4 DEF NextMid
  <2>2. /\ u \in Sched /\ u.state = "low" /\ u.current = s.current /\ u.high = s.high
        /\ u.mid = s.mid /\ u.exe = s.exe
    BY <2>1 DEF Sched
  <2> QED BY <1>1, <1>4, <2>2 DEF Shape, Holds
<1> QED BY <1>2, <1>3, <1>4

\* The end of a task; in the high state a query ends only while an opening is under
\* way as well.
LEMMA CompletedIs ==
  ASSUME NEW s \in Sched, Shape(s), s.current # 0, NEW d \in Done,
         s.state = "high" /\ d = 10025 => s.current = 2,
         NEW u, u = Completed(s, d)
  PROVE  /\ u \in Sched /\ Shape(u)
         /\ u.current - Len(u.exe) = (s.current - Len(s.exe)) - 1
         /\ \A S : Holds(u, S) = Holds(s, S)
         /\ \/ u.high = s.high
            \/ s.high # <<>> /\ u.high = Tail(s.high)
         /\ u.state = "high" =>
              \/ s.state = "high" /\ d = 10025 /\ u.exe = s.exe
              \/ s.high # <<>> /\ u.exe = Append(s.exe, Head(s.high))
<1> DEFINE c == [s EXCEPT !.current = s.current - 1]
<1>1. c = [s EXCEPT !.current = s.current - 1]
  OBVIOUS
<1> HIDE DEF c
<1>2. /\ c \in Sched /\ c.current = s.current - 1 /\ c.current \in Nat /\ c.high = s.high
      /\ c.mid = s.mid /\ c.exe = s.exe /\ c.state = s.state
      /\ Len(s.exe) \in Nat /\ s.current \in {1, 2}
  <2>1. s.current \in Nat \ {0} /\ s.exe \in Seq(Request)
    BY DEF Sched
  <2>2. s.current \in {1, 2}
    BY <2>1 DEF Shape, Sched
  <2>3. s.current - 1 \in Nat /\ Len(s.exe) \in Nat
    BY <2>1, LenProperties
  <2> QED BY <1>1, <2>2, <2>3 DEF Sched
<1>3. \A S : Holds(c, S) = Holds(s, S)
  BY <1>2 DEF Holds
<1>4. CASE d = 10025 /\ s.state = "high"
  <2>1. u = c
    BY <1>1, <1>2, <1>4 DEF Completed
  <2> QED BY <1>2, <1>3, <1>4, <2>1 DEF Shape
<1>5. CASE d = 10025 /\ s.state # "high"
  <2>1. c.state = "mid" /\ c.high = <<>> /\ c.current = 0
    BY <1>2, <1>5 DEF Shape, Sched
  <2>2. u = NextMid(c)
    BY <1>1, <1>2, <1>5 DEF Completed
  <2>3. /\ u \in Sched /\ Shape(u) /\ u.state # "high" /\ u.high = <<>>
        /\ u.current - Len(u.exe) = c.current - Len(c.exe)
        /\ \A S : Holds(u, S) = Holds(c, S)
    BY <1>2, <2>1, <2>2, NextMidIs
  <2> QED BY <1>2, <1>3, <2>1, <2>3
<1>6. CASE d # 10025 /\ s.high # <<>>
  <2>1. s.state = "high"
    BY <1>6 DEF Shape, Sched
  <2>2. u = StartHigh(c)
    BY <1>1, <1>2, <1>6 DEF Completed
  <2>3. /\ u \in Sched /\ u.state = "high" /\ u.current = c.current + 1
        /\ u.high = Tail(c.high) /\ u.exe = Append(c.exe, Head(c.high))
        /\ Len(u.exe) = Len(c.exe) + 1
        /\ \A S : Holds(u, S) = Holds(c, S)
    BY <1>2, <1>6, <2>2, StartHighIs
  <2> QED BY <1>2, <1>3, <1>6, <2>3, SMTT(30) DEF Shape
<1>7. CASE d # 10025 /\ s.high = <<>>
  <2> DEFINE b == [c EXCEPT !.state = "mid"]
  <2>1. b = [c EXCEPT !.state = "mid"]
    OBVIOUS
  <2> HIDE DEF b
  <2>2. /\ b \in Sched /\ b.state = "mid" /\ b.high = <<>> /\ b.current = c.current
        /\ b.exe = c.exe /\ b.mid = c.mid /\ c.current \in {0, 1}
    BY <1>2, <1>7, <2>1 DEF Sched
  <2>3. u = NextMid(b)
    BY <1>1, <1>2, <1>7, <2>1 DEF Completed
  <2>4. /\ u \in Sched /\ Shape(u) /\ u.state # "high" /\ u.high = <<>>
        /\ u.current - Len(u.exe) = b.current - Len(b.exe)
        /\ \A S : Holds(u, S) = Holds(b, S)
    BY <2>2, <2>3, NextMidIs
  <2>5. \A S : Holds(b, S) = Holds(c, S)
    BY <1>2, <1>7, <2>2 DEF Holds
  <2> QED BY <1>2, <1>3, <1>7, <2>2, <2>4, <2>5
<1> QED BY <1>4, <1>5, <1>6, <1>7

\* In the low state nothing waits, so that nobody is woken.
LEMMA WokenIs == ASSUME NEW s \in Sched, Shape(s) PROVE Woken(s) = s
BY DEF Shape, Woken

-------------------------------------------------------------------------------
(* The inductive invariant.                                                *)

\* Where a request is: it was answered, or is in one of the queues.
Place(r) == answers[r] + Count(inbox, {r}) + Holds(Now, {r})

\* A request is at one place at most, and at none before it is posted.
OnePlace == \A r \in Request : Place(r) <= IF r \in DOMAIN kind THEN 1 ELSE 0

\* An opening is under way: with the serial thread, finished, or cleaned away.
OpeningRuns ==
  \/ \E j \in DOMAIN exe : kind[exe[j]] = "OPEN"
  \/ \E j \in DOMAIN inbox : inbox[j] = 10024
  \/ \E r \in swept : kind[r] = "OPEN"

StateIs == Shape(Now) /\ (state = "high" => OpeningRuns)

\* Only openings wait with priority.
Priority == \A j \in DOMAIN highlist : kind[highlist[j]] = "OPEN"

\* What holds before the threads have started.
Starts ==
  /\ ~sched_on => state = "low"
  /\ ~serial_on => swept = {}
  /\ IsFiniteSet(swept) /\ swept \subseteq DOMAIN kind

Fresh == DOMAIN temp \subseteq found

IInv == TypeOK /\ TasksCounted /\ OnePlace /\ StateIs /\ Priority /\ Starts /\ Fresh

LEMMA CountSome ==
  ASSUME NEW M, NEW queue \in Seq(M), NEW S, NEW j \in DOMAIN queue, queue[j] \in S
  PROVE  Count(queue, S) >= 1
<1>1. j \in Places(queue, S) /\ IsFiniteSet(Places(queue, S)) /\ Count(queue, S) \in Nat
  BY PlacesFinite DEF Places
<1>2. Places(queue, S) # {}
  BY <1>1
<1>3. Count(queue, S) # 0
  BY <1>1, <1>2, FS_EmptySet DEF Count
<1> QED BY <1>1, <1>3

\* What the invariant says of the queues, in one place.
LEMMA Facts ==
  ASSUME IInv
  PROVE  /\ Now \in Sched /\ inbox \in Seq(Request \cup Done) /\ exe \in Seq(Request)
         /\ Len(exe) \in Nat /\ Count(inbox, Done) \in Nat /\ Cardinality(swept) \in Nat
         /\ current = Len(exe) + Count(inbox, Done) + Cardinality(swept)
         /\ \A r \in Request :
              answers[r] \in Nat /\ Count(inbox, {r}) \in Nat /\ Holds(Now, {r}) \in Nat
         /\ \A j \in DOMAIN exe : exe[j] \in DOMAIN kind
         /\ \A j \in DOMAIN highlist : highlist[j] \in DOMAIN kind
         /\ \A j \in DOMAIN inbox : inbox[j] \in Request => inbox[j] \in DOMAIN kind
<1>1. /\ inbox \in Seq(Request \cup Done) /\ state \in {"high", "mid", "low"} /\ current \in Nat
      /\ highlist \in Seq(Request) /\ midlist \in Seq(Request) /\ exe \in Seq(Request)
      /\ answers \in [Request -> Nat] /\ IsFiniteSet(swept)
  BY DEF IInv, TypeOK, Starts
<1>2. Now \in Sched
  BY <1>1, SchedMade DEF Now
<1>3. Len(exe) \in Nat /\ Count(inbox, Done) \in Nat /\ Cardinality(swept) \in Nat
  BY <1>1, LenProperties, PlacesFinite, FS_CardinalityType
<1>4. current = Len(exe) + Count(inbox, Done) + Cardinality(swept)
  BY DEF IInv, TasksCounted, Count, Places
<1>5. ASSUME NEW r \in Request
      PROVE  /\ answers[r] \in Nat /\ Count(inbox, {r}) \in Nat /\ Holds(Now, {r}) \in Nat
             /\ Count(highlist, {r}) \in Nat /\ Count(midlist, {r}) \in Nat
             /\ Count(exe, {r}) \in Nat
             /\ Holds(Now, {r}) = Count(highlist, {r}) + Count(midlist, {r}) + Count(exe, {r})
             /\ answers[r] + Count(inbox, {r}) + Holds(Now, {r}) <= IF r \in DOMAIN kind THEN 1 ELSE 0
  <2>1. answers[r] \in Nat /\ Count(inbox, {r}) \in Nat
    BY <1>1, PlacesFinite
  <2>2. Count(highlist, {r}) \in Nat /\ Count(midlist, {r}) \in Nat /\ Count(exe, {r}) \in Nat
    BY <1>1, PlacesFinite
  <2>3. Holds(Now, {r}) = Count(highlist, {r}) + Count(midlist, {r}) + Count(exe, {r})
    BY DEF Holds, Now
  <2>4. answers[r] + Count(inbox, {r}) + Holds(Now, {r}) <= IF r \in DOMAIN kind THEN 1 ELSE 0
    BY DEF IInv, OnePlace, Place
  <2> QED BY <2>1, <2>2, <2>3, <2>4
<1>6. ASSUME NEW j \in DOMAIN exe PROVE exe[j] \in DOMAIN kind
  <2>1. PICK r : r = exe[j]
    OBVIOUS
  <2>2. r \in Request
    BY <1>1, <2>1, LenProperties
  <2>3. Count(exe, {r}) >= 1
    BY <1>1, <2>1, CountSome
  <2> QED BY <1>5, <2>1, <2>2, <2>3
<1>7. ASSUME NEW j \in DOMAIN highlist PROVE highlist[j] \in DOMAIN kind
  <2>1. PICK r : r = highlist[j]
    OBVIOUS
  <2>2. r \in Request
    BY <1>1, <2>1, LenProperties
  <2>3. Count(highlist, {r}) >= 1
    BY <1>1, <2>1, CountSome
  <2> QED BY <1>5, <2>1, <2>2, <2>3, SMTT(30)
<1>8. ASSUME NEW j \in DOMAIN inbox, inbox[j] \in Request PROVE inbox[j] \in DOMAIN kind
  <2>1. PICK r : r = inbox[j]
    OBVIOUS
  <2>3. Count(inbox, {r}) >= 1
    BY <1>1, <2>1, CountSome
  <2> QED BY <1>5, <1>8, <2>1, <2>3
<1> QED BY <1>1, <1>2, <1>3, <1>4, <1>5, <1>6, <1>7, <1>8

\* The scheduler's variables after it made the record u of them.
LEMMA BecomeIs ==
  ASSUME NEW u \in Sched, Become(u)
  PROVE  /\ \A S : Holds(Now, S)' = Holds(u, S)
         /\ Shape(u) => Shape(Now)'
         /\ state' \in {"high", "mid", "low"} /\ current' \in Nat
         /\ highlist' \in Seq(Request) /\ midlist' \in Seq(Request) /\ exe' \in Seq(Request)
<1>1. \A S : Holds(Now, S)' = Holds(u, S)
  BY DEF Become, Holds, Now
<1>2. Shape(u) => Shape(Now)'
  BY DEF Become, Shape, Now
<1>3. /\ u.state \in {"high", "mid", "low"} /\ u.current \in Nat
      /\ u.high \in Seq(Request) /\ u.mid \in Seq(Request) /\ u.exe \in Seq(Request)
  BY DEF Sched
<1> QED BY <1>1, <1>2, <1>3 DEF Become

-------------------------------------------------------------------------------
(* The steps.                                                              *)

LEMMA InitKeeps == Init => IInv
<1> SUFFICES ASSUME Init PROVE IInv
  OBVIOUS
<1> USE DEF Init
<1>1. TypeOK
  <2>1. 0 \in Station /\ 0 \in 0..MaxScans
    BY LoRaAssumption DEF Station
  <2>2. /\ <<>> \in Seq(Request) /\ <<>> \in Seq(Request \cup Done)
        /\ answers \in [Request -> Nat] /\ overheard \in [Request -> SUBSET Request]
    OBVIOUS
  <2> QED BY <2>1, <2>2 DEF TypeOK
<1>2. TasksCounted
  <2>1. Count(<<>>, Done) = 0 /\ Len(<<>>) = 0 /\ Cardinality(swept) = 0
    BY CountNone, FS_EmptySet
  <2> QED BY <2>1 DEF TasksCounted, Count, Places
<1>3. OnePlace
  <2>1. ASSUME NEW r \in Request PROVE Place(r) = 0
    <3>1. Count(<<>>, {r}) = 0 /\ answers[r] = 0
      BY CountNone
    <3> QED BY <3>1 DEF Place, Holds, Now
  <2> QED BY <2>1 DEF OnePlace
<1>4. StateIs
  BY DEF StateIs, Shape, Now
<1>5. Priority /\ Starts /\ Fresh
  <2>1. IsFiniteSet(swept) /\ DOMAIN temp = {}
    BY FS_EmptySet
  <2>2. DOMAIN highlist = {}
    OBVIOUS
  <2> QED BY <2>1, <2>2 DEF Priority, Starts, Fresh
<1> QED BY <1>1, <1>2, <1>3, <1>4, <1>5 DEF IInv

\* A request is posted.
LEMMA SetProcessDataKeeps ==
  ASSUME IInv, NEW r \in Request, NEW k \in Kind, SetProcessData(r, k)
  PROVE  IInv'
<1> USE DEF SetProcessData, startup, scan
<1>1. /\ inbox \in Seq(Request \cup Done) /\ r \in Request \cup Done /\ r \notin Done
      /\ DOMAIN kind \subseteq Request /\ \A x \in DOMAIN kind : kind[x] \in Kind
  BY LoRaAssumption DEF IInv, TypeOK
<1>2. DOMAIN kind' = DOMAIN kind \cup {r} /\ \A x \in DOMAIN kind : kind'[x] = kind[x]
  BY <1>1
<1>3. TypeOK'
  <2>1. inbox' \in Seq(Request \cup Done)
    BY <1>1, LastPut
  <2>2. DOMAIN kind' \subseteq Request /\ \A x \in DOMAIN kind' : kind'[x] \in Kind
    BY <1>1
  <2> QED BY <2>1, <2>2 DEF IInv, TypeOK
<1>4. TasksCounted'
  <2>1. Count(inbox', Done) = Count(inbox, Done)
    <3>1. Count(inbox', Done) = Count(inbox, Done) + (IF r \in Done THEN 1 ELSE 0)
      BY <1>1, CountPut
    <3> QED BY <1>1, <3>1, Facts
  <2> QED BY <2>1 DEF IInv, TasksCounted, Count, Places
<1>5. OnePlace'
  <2> SUFFICES ASSUME NEW x \in Request PROVE Place(x)' <= IF x \in DOMAIN kind' THEN 1 ELSE 0
    BY DEF OnePlace
  <2>1. Count(inbox', {x}) = Count(inbox, {x}) + (IF r \in {x} THEN 1 ELSE 0)
    BY <1>1, CountPut
  <2>2. Holds(Now, {x})' = Holds(Now, {x}) /\ answers'[x] = answers[x]
    BY DEF Holds, Now
  <2>3. answers[x] \in Nat /\ Count(inbox, {x}) \in Nat /\ Holds(Now, {x}) \in Nat
    BY Facts
  <2>4. answers[x] + Count(inbox, {x}) + Holds(Now, {x}) <= IF x \in DOMAIN kind THEN 1 ELSE 0
    BY DEF IInv, OnePlace, Place
  <2> QED BY <1>2, <2>1, <2>2, <2>3, <2>4 DEF Place
<1>6. StateIs'
  <2>1. Shape(Now)'
    BY DEF IInv, StateIs, Shape, Now
  <2>2. ASSUME OpeningRuns PROVE OpeningRuns'
    <3>1. CASE \E j \in DOMAIN exe : kind[exe[j]] = "OPEN"
      BY <1>2, <3>1, Facts DEF OpeningRuns
    <3>2. CASE \E j \in DOMAIN inbox : inbox[j] = 10024
      <4>1. \A j \in DOMAIN inbox : j \in DOMAIN inbox' /\ inbox'[j] = inbox[j]
        BY <1>1, LastPut
      <4> QED BY <3>2, <4>1 DEF OpeningRuns
    <3>3. CASE \E x \in swept : kind[x] = "OPEN"
      <4>1. PICK x \in swept : kind[x] = "OPEN"
        BY <3>3
      <4>2. x \in DOMAIN kind /\ swept' = swept
        BY <4>1 DEF IInv, Starts
      <4> QED BY <1>2, <4>1, <4>2 DEF OpeningRuns
    <3>4. \/ \E j \in DOMAIN exe : kind[exe[j]] = "OPEN"
          \/ \E j \in DOMAIN inbox : inbox[j] = 10024
          \/ \E x \in swept : kind[x] = "OPEN"
      BY <2>2 DEF OpeningRuns
    <3> QED BY <3>1, <3>2, <3>3, <3>4
  <2> QED BY <2>1, <2>2 DEF IInv, StateIs
<1>7. Priority'
  BY <1>2, Facts DEF IInv, Priority
<1>8. Starts' /\ Fresh'
  BY <1>2 DEF IInv, Starts, Fresh
<1> QED BY <1>3, <1>4, <1>5, <1>6, <1>7, <1>8 DEF IInv

\* The scheduler starts, and cleans its queue.
LEMMA SchedStartKeeps == ASSUME IInv, sched_start PROVE IInv'
<1> USE DEF sched_start, scan
<1>1. current = 0 /\ state = "low"
  BY DEF IInv, Starts, StateIs, Shape, Now
<1>2. TypeOK'
  <2>1. missed' \subseteq Request \cup Done /\ inbox' \in Seq(Request \cup Done)
    BY LenProperties DEF IInv, TypeOK, Members
  <2>2. \A j \in DOMAIN inbox : inbox[j] \notin Done
    <3>1. Count(inbox, Done) = 0
      BY <1>1, Facts
    <3> QED BY <3>1, Facts, PlacesFinite
  <2>3. missed' \subseteq Request
    BY <2>1, <2>2 DEF Members
  <2> QED BY <2>1, <2>3 DEF IInv, TypeOK
<1>3. TasksCounted'
  <2>1. Count(<<>>, Done) = 0
    BY CountNone
  <2>2. Len(exe) = 0 /\ Cardinality(swept) = 0
    BY <1>1, Facts
  <2> QED BY <1>1, <2>1, <2>2 DEF TasksCounted, Count, Places
<1>4. OnePlace'
  <2> SUFFICES ASSUME NEW x \in Request PROVE Place(x)' <= IF x \in DOMAIN kind' THEN 1 ELSE 0
    BY DEF OnePlace
  <2>1. Count(inbox', {x}) = 0
    BY CountNone
  <2>2. Holds(Now, {x})' = Holds(Now, {x}) /\ answers'[x] = answers[x]
    BY DEF Holds, Now
  <2>3. answers[x] \in Nat /\ Count(inbox, {x}) \in Nat /\ Holds(Now, {x}) \in Nat
    BY Facts
  <2>4. answers[x] + Count(inbox, {x}) + Holds(Now, {x}) <= IF x \in DOMAIN kind THEN 1 ELSE 0
    BY DEF IInv, OnePlace, Place
  <2> QED BY <2>1, <2>2, <2>3, <2>4 DEF Place
<1>5. StateIs'
  BY <1>1 DEF IInv, StateIs, Shape, Now
<1>6. Priority' /\ Starts' /\ Fresh'
  BY DEF IInv, Priority, Starts, Fresh
<1> QED BY <1>2, <1>3, <1>4, <1>5, <1>6 DEF IInv

\* The serial thread starts, and cleans its queue: each task in it is gone, and
\* stays counted.
LEMMA SerialStartKeeps == ASSUME IInv, serial_start PROVE IInv'
<1> USE DEF serial_start, scan
<1>1. /\ exe \in Seq(Request) /\ inbox \in Seq(Request \cup Done)
      /\ highlist \in Seq(Request) /\ midlist \in Seq(Request) /\ swept = {}
  BY DEF IInv, TypeOK, Starts
<1>2. ASSUME NEW x \in Request
      PROVE  /\ answers[x] \in Nat /\ Count(inbox, {x}) \in Nat /\ Count(highlist, {x}) \in Nat
             /\ Count(midlist, {x}) \in Nat /\ Count(exe, {x}) \in Nat
             /\ Place(x) = answers[x] + Count(inbox, {x}) + (Count(highlist, {x}) + Count(midlist, {x}) + Count(exe, {x}))
             /\ Place(x) <= IF x \in DOMAIN kind THEN 1 ELSE 0
  <2>1. answers[x] \in Nat
    BY Facts
  <2>2. /\ Count(inbox, {x}) \in Nat /\ Count(highlist, {x}) \in Nat
        /\ Count(midlist, {x}) \in Nat /\ Count(exe, {x}) \in Nat
    BY <1>1, PlacesFinite
  <2>3. Place(x) <= IF x \in DOMAIN kind THEN 1 ELSE 0
    BY DEF IInv, OnePlace
  <2> QED BY <2>1, <2>2, <2>3 DEF Place, Holds, Now
<1>3. IsFiniteSet(Members(exe)) /\ Cardinality(Members(exe)) = Len(exe)
  <2>1. \A x \in Request : Count(exe, {x}) <= 1
    BY <1>2
  <2> QED BY <1>1, <2>1, AllDifferent
<1>4. Members(exe) \subseteq Request /\ Members(exe) \subseteq DOMAIN kind
  BY <1>1, Facts, LenProperties DEF Members
<1>5. TypeOK'
  BY <1>4 DEF IInv, TypeOK
<1>6. TasksCounted'
  <2>1. Cardinality(swept) = 0 /\ Len(exe') = 0
    BY <1>1, FS_EmptySet
  <2>2. current = Count(inbox, Done) + Len(exe) /\ Len(exe) \in Nat /\ Count(inbox, Done) \in Nat
    BY <2>1, Facts
  <2>3. current' = Len(exe') + Count(inbox', Done) + Cardinality(swept')
    BY <1>3, <2>1, <2>2
  <2> QED BY <2>3 DEF TasksCounted, Count, Places
<1>7. OnePlace'
  <2> SUFFICES ASSUME NEW x \in Request PROVE Place(x)' <= IF x \in DOMAIN kind' THEN 1 ELSE 0
    BY DEF OnePlace
  <2>1. Count(exe', {x}) = 0
    BY CountNone
  <2>2. Place(x)' = answers[x] + Count(inbox, {x}) + (Count(highlist, {x}) + Count(midlist, {x}) + 0)
    BY <2>1 DEF Place, Holds, Now
  <2> QED BY <1>2, <2>2
<1>8. StateIs'
  <2>1. ASSUME OpeningRuns PROVE OpeningRuns'
    BY <1>1, <2>1 DEF OpeningRuns, Members
  <2> QED BY <2>1 DEF IInv, StateIs, Shape, Now
<1>9. Priority' /\ Starts' /\ Fresh'
  BY <1>3, <1>4 DEF IInv, Priority, Starts, Fresh
<1> QED BY <1>5, <1>6, <1>7, <1>8, <1>9 DEF IInv

\* The serial thread serves a task: it is answered unless the thread does not know
\* it, and its completion is on the way.
LEMMA ExecuteKeeps == ASSUME IInv, execute PROVE IInv'
<1> USE DEF execute, startup, scan
<1>1. PICK r : r = Head(exe)
  OBVIOUS
<1>2. /\ exe \in Seq(Request) /\ exe # <<>> /\ inbox \in Seq(Request \cup Done)
      /\ highlist \in Seq(Request) /\ midlist \in Seq(Request) /\ answers \in [Request -> Nat]
  BY DEF IInv, TypeOK
<1>3. /\ r \in Request /\ r = exe[1] /\ exe' \in Seq(Request)
      /\ Len(exe) \in Nat \ {0} /\ DOMAIN exe = 1..Len(exe) /\ Len(exe') = Len(exe) - 1
      /\ DOMAIN exe' = 1..(Len(exe) - 1)
      /\ \A l \in 1..(Len(exe) - 1) : exe'[l] = exe[l + 1]
  BY <1>1, <1>2, FirstTaken
<1>4. PICK d \in Done :
        /\ inbox' = Append(inbox, d)
        /\ kind[r] = "OPEN" => d = 10024
        /\ answers' = answers \/ answers' = [answers EXCEPT ![r] = @ + 1]
  <2>1. CASE kind[r] = "OPEN"
    BY <1>1, <2>1 DEF Done, KindOf, Answered
  <2>2. CASE kind[r] = "GET"
    BY <1>1, <2>2 DEF Done, KindOf, Answered
  <2>3. CASE kind[r] \notin {"OPEN", "GET"}
    BY <1>1, <2>3 DEF Done, KindOf, Answered
  <2> QED BY <2>1, <2>2, <2>3
<1>5. /\ inbox' \in Seq(Request \cup Done) /\ Len(inbox) \in Nat /\ DOMAIN inbox = 1..Len(inbox)
      /\ DOMAIN inbox' = 1..(Len(inbox) + 1) /\ inbox'[Len(inbox) + 1] = d
      /\ \A j \in 1..Len(inbox) : inbox'[j] = inbox[j]
  <2>1. d \in Request \cup Done
    OBVIOUS
  <2> QED BY <1>2, <1>4, <2>1, LastPut
<1>11. /\ exe' = Tail(exe)
       /\ UNCHANGED <<state, current, highlist, midlist, kind, sched_on, serial_on, missed, swept>>
       /\ UNCHANGED overheard
       /\ UNCHANGED <<i, has_task, temp, IDList, found, scans>>
  OBVIOUS
<1> HIDE DEF execute, startup, scan
<1>6. TypeOK'
  <2>1. answers' \in [Request -> Nat]
    BY <1>2, <1>3, <1>4
  <2> QED BY <1>3, <1>5, <1>11, <2>1 DEF IInv, TypeOK
<1>7. TasksCounted'
  <2>1. Count(inbox', Done) = Count(inbox, Done) + 1
    <3>1. d \in Request \cup Done
      OBVIOUS
    <3>2. Count(Append(inbox, d), Done) = Count(inbox, Done) + (IF d \in Done THEN 1 ELSE 0)
      BY <1>2, <3>1, CountPut
    <3>3. inbox' = Append(inbox, d)
      BY <1>4
    <3> QED BY <3>2, <3>3
  <2>2. /\ current = Len(exe) + Count(inbox, Done) + Cardinality(swept)
        /\ Count(inbox, Done) \in Nat /\ Cardinality(swept) \in Nat
    BY Facts
  <2>3. current' = Len(exe') + Count(inbox', Done) + Cardinality(swept')
    BY <1>3, <1>11, <2>1, <2>2
  <2> QED BY <2>3 DEF TasksCounted, Count, Places
<1>8. OnePlace'
  <2> SUFFICES ASSUME NEW x \in Request PROVE Place(x)' <= IF x \in DOMAIN kind' THEN 1 ELSE 0
    BY DEF OnePlace
  <2>1. Count(inbox', {x}) = Count(inbox, {x})
    <3>1. d \in Request \cup Done /\ d \notin {x} /\ Count(inbox, {x}) \in Nat
      BY LoRaAssumption, Facts
    <3>2. Count(Append(inbox, d), {x}) = Count(inbox, {x}) + (IF d \in {x} THEN 1 ELSE 0)
      <4>1. PICK S : S = {x}
        OBVIOUS
      <4>2. PICK M : M = Request \cup Done
        OBVIOUS
      <4>5. d \in M /\ inbox \in Seq(M)
        BY <1>2, <4>2
      <4>3. Count(Append(inbox, d), S) = Count(inbox, S) + (IF d \in S THEN 1 ELSE 0)
        BY <4>5, CountPut
      <4> QED BY <4>1, <4>3
    <3>3. inbox' = Append(inbox, d)
      BY <1>4
    <3> QED BY <3>1, <3>2, <3>3
  <2>2. Count(exe, {x}) = Count(exe', {x}) + (IF r \in {x} THEN 1 ELSE 0)
    BY <1>1, <1>2, <1>11, CountTaken
  <2>3. /\ Count(inbox, {x}) \in Nat /\ Count(highlist, {x}) \in Nat
        /\ Count(midlist, {x}) \in Nat /\ Count(exe', {x}) \in Nat
    <3>1. Count(exe', {x}) \in Nat
      BY <1>3, PlacesFinite
    <3>2. Count(highlist, {x}) \in Nat /\ Count(midlist, {x}) \in Nat
      BY <1>2, PlacesFinite
    <3> QED BY <3>1, <3>2, Facts
  <2>4. answers[x] \in Nat /\ answers'[x] \in {answers[x], answers[x] + (IF r \in {x} THEN 1 ELSE 0)}
    BY <1>2, <1>3, <1>4
  <2>5. answers[x] + Count(inbox, {x}) + (Count(highlist, {x}) + Count(midlist, {x}) + Count(exe, {x}))
          <= IF x \in DOMAIN kind THEN 1 ELSE 0
    BY DEF IInv, OnePlace, Place, Holds, Now
  <2>6. Place(x)' = answers'[x] + Count(inbox', {x}) + (Count(highlist, {x}) + Count(midlist, {x}) + Count(exe', {x}))
    BY <1>11 DEF Place, Holds, Now
  <2>7. DOMAIN kind' = DOMAIN kind
    BY <1>11
  <2> QED BY <2>1, <2>2, <2>3, <2>4, <2>5, <2>6, <2>7
<1>9. StateIs'
  <2>1. ASSUME OpeningRuns PROVE OpeningRuns'
    <3>1. CASE \E j \in DOMAIN exe : kind[exe[j]] = "OPEN"
      <4>1. PICK j \in 1..Len(exe) : kind[exe[j]] = "OPEN"
        BY <1>3, <3>1
      <4>2. CASE j = 1
        <5>1. kind[r] = "OPEN"
          BY <1>3, <4>1, <4>2
        <5>2. PICK n : n = Len(inbox) + 1
          OBVIOUS
        <5>3. n \in DOMAIN inbox' /\ inbox'[n] = 10024
          BY <1>4, <1>5, <5>1, <5>2
        <5>4. \E l \in DOMAIN inbox' : inbox'[l] = 10024
          BY <5>3
        <5> QED BY <5>4 DEF OpeningRuns
      <4>3. CASE j # 1
        <5>1. j - 1 \in DOMAIN exe' /\ exe'[j - 1] = exe[j]
          BY <1>3, <4>1, <4>3
        <5>2. PICK n : n = j - 1
          OBVIOUS
        <5>3. n \in DOMAIN exe' /\ kind'[exe'[n]] = "OPEN"
          BY <1>11, <4>1, <5>1, <5>2
        <5>4. \E l \in DOMAIN exe' : kind'[exe'[l]] = "OPEN"
          BY <5>3
        <5> QED BY <5>4 DEF OpeningRuns
      <4> QED BY <4>2, <4>3
    <3>2. CASE \E j \in DOMAIN inbox : inbox[j] = 10024
      BY <1>5, <1>11, <3>2 DEF OpeningRuns
    <3>3. CASE \E x \in swept : kind[x] = "OPEN"
      BY <1>11, <3>3 DEF OpeningRuns
    <3> QED BY <2>1, <3>1, <3>2, <3>3 DEF OpeningRuns
  <2>2. Shape(Now)' /\ state' = state
    BY <1>11 DEF IInv, StateIs, Shape, Now
  <2> QED BY <2>1, <2>2 DEF IInv, StateIs
<1>10. Priority' /\ Starts' /\ Fresh'
  BY <1>11 DEF IInv, Priority, Starts, Fresh
<1> QED BY <1>6, <1>7, <1>8, <1>9, <1>10 DEF IInv

\* The record u of its variables that the scheduler makes in a round which takes the
\* message m.
Makes(u, m) ==
  /\ Shape(u)
  /\ u.current - Len(u.exe) = (current - Len(exe)) - (IF m \in Done THEN 1 ELSE 0)
  /\ answers' \in [Request -> Nat] /\ overheard' \in [Request -> SUBSET Request]
  /\ \A x \in Request :
       answers'[x] + Holds(u, {x}) = answers[x] + Holds(Now, {x}) + (IF x = m THEN 1 ELSE 0)
  /\ u.state = "high" => OpeningRuns'
  /\ \A j \in DOMAIN u.high : kind[u.high[j]] = "OPEN"

LEMMA RoundKeeps ==
  ASSUME IInv, run, NEW m, m = Head(inbox), NEW u \in Sched, Become(u), Makes(u, m)
  PROVE  IInv'
<1>1. /\ inbox \in Seq(Request \cup Done) /\ inbox # <<>> /\ inbox' = Tail(inbox)
      /\ sched_on /\ current \in Nat /\ Len(exe) \in Nat
  BY Facts DEF IInv, TypeOK, run
<1>2. /\ UNCHANGED <<kind, sched_on, serial_on, missed, swept>>
      /\ UNCHANGED <<i, has_task, temp, IDList, found, scans>>
  BY DEF run, startup, scan
<1>3. inbox' \in Seq(Request \cup Done)
  BY <1>1, FirstTaken
<1>4. /\ \A S : Holds(Now, S)' = Holds(u, S)
      /\ Shape(Now)'
      /\ state' \in {"high", "mid", "low"} /\ current' \in Nat
      /\ highlist' \in Seq(Request) /\ midlist' \in Seq(Request) /\ exe' \in Seq(Request)
  BY BecomeIs DEF Makes
<1>5. state' = u.state /\ current' = u.current /\ highlist' = u.high /\ exe' = u.exe
  BY DEF Become
<1>6. TypeOK'
  BY <1>2, <1>3, <1>4 DEF IInv, TypeOK, Makes
<1>7. TasksCounted'
  <2>1. Count(inbox, Done) = Count(Tail(inbox), Done) + (IF m \in Done THEN 1 ELSE 0)
    BY <1>1, CountTaken
  <2>2. /\ current = Len(exe) + Count(inbox, Done) + Cardinality(swept)
        /\ Count(inbox, Done) \in Nat /\ Cardinality(swept) \in Nat
    BY Facts
  <2>3. Count(inbox', Done) \in Nat /\ Len(exe') \in Nat
    BY <1>3, <1>4, PlacesFinite, LenProperties
  <2>4. PICK c, n, a, b, e : /\ c = IF m \in Done THEN 1 ELSE 0
                             /\ n = Count(inbox', Done) /\ a = Len(exe) /\ b = Len(exe')
                             /\ e = Cardinality(swept)
    OBVIOUS
  <2>5. c \in Nat /\ n \in Nat /\ a \in Nat /\ b \in Nat /\ e \in Nat
        /\ current \in Nat /\ current' \in Nat
    BY <1>1, <1>4, <2>2, <2>3, <2>4
  <2>6. current' - b = (current - a) - c
    BY <1>5, <2>4 DEF Makes
  <2>7. current = a + (n + c) + e
    BY <1>1, <2>1, <2>2, <2>4
  <2>8. current' = b + n + e
    <3>1. PICK x, y : x = current /\ y = current'
      OBVIOUS
    <3>2. y - b = (x - a) - c /\ x = a + (n + c) + e /\ x \in Nat /\ y \in Nat
      BY <2>5, <2>6, <2>7, <3>1
    <3>3. (x - a) - c = n + e
      BY <2>5, <3>2
    <3>4. y = b + (n + e)
      BY <2>5, <3>2, <3>3
    <3> QED BY <2>5, <3>1, <3>4
  <2>9. current' = Len(exe') + Count(inbox', Done) + Cardinality(swept)
    BY <2>4, <2>8
  <2> QED BY <1>2, <2>9 DEF TasksCounted, Count, Places
<1>8. OnePlace'
  <2> SUFFICES ASSUME NEW x \in Request PROVE Place(x)' <= IF x \in DOMAIN kind' THEN 1 ELSE 0
    BY DEF OnePlace
  <2>1. Count(inbox, {x}) = Count(inbox', {x}) + (IF x = m THEN 1 ELSE 0)
    <3>1. Count(inbox, {x}) = Count(Tail(inbox), {x}) + (IF m \in {x} THEN 1 ELSE 0)
      BY <1>1, CountTaken
    <3> QED BY <1>1, <3>1
  <2>2. Count(inbox', {x}) \in Nat
    BY <1>3, PlacesFinite
  <2>3. Holds(u, {x}) \in Nat /\ answers'[x] \in Nat
    BY HoldsNat DEF Makes
  <2>4. answers[x] \in Nat /\ Holds(Now, {x}) \in Nat
    BY Facts
  <2>5. answers[x] + Count(inbox, {x}) + Holds(Now, {x}) <= IF x \in DOMAIN kind THEN 1 ELSE 0
    BY DEF IInv, OnePlace, Place
  <2>6. answers'[x] + Holds(u, {x}) = answers[x] + Holds(Now, {x}) + (IF x = m THEN 1 ELSE 0)
    BY DEF Makes
  <2>7. answers'[x] + Count(inbox', {x}) + Holds(u, {x}) <= IF x \in DOMAIN kind THEN 1 ELSE 0
    BY <2>1, <2>2, <2>3, <2>4, <2>5, <2>6
  <2>8. Place(x)' = answers'[x] + Count(inbox', {x}) + Holds(u, {x})
    BY <1>4 DEF Place
  <2> QED BY <1>2, <2>7, <2>8
<1>9. StateIs'
  BY <1>4, <1>5 DEF StateIs, Makes
<1>10. Priority'
  BY <1>2, <1>5 DEF Priority, Makes
<1>11. Starts' /\ Fresh'
  BY <1>1, <1>2 DEF IInv, Starts, Fresh
<1> QED BY <1>6, <1>7, <1>8, <1>9, <1>10, <1>11 DEF IInv

\* The scheduler takes the end of a task.
LEMMA DoneKeeps == ASSUME IInv, run, Head(inbox) \in Done PROVE IInv'
<1>1. PICK m, s : m = Head(inbox) /\ s = Now
  OBVIOUS
<1>2. PICK u : u = Completed(s, m)
  OBVIOUS
<1>3. /\ inbox \in Seq(Request \cup Done) /\ inbox # <<>> /\ inbox' = Tail(inbox)
      /\ answers' = answers /\ kind' = kind /\ swept' = swept
      /\ Become(Woken(u))
  BY <1>1, <1>2 DEF IInv, TypeOK, run, startup
<1>4. /\ m \in Done /\ m = inbox[1] /\ Len(inbox) \in Nat \ {0} /\ DOMAIN inbox = 1..Len(inbox)
      /\ inbox' \in Seq(Request \cup Done) /\ DOMAIN inbox' = 1..(Len(inbox) - 1)
      /\ \A j \in 1..(Len(inbox) - 1) : inbox'[j] = inbox[j + 1]
  BY <1>1, <1>3, FirstTaken
<1>5. /\ s \in Sched /\ Shape(s) /\ Len(exe) \in Nat /\ Cardinality(swept) \in Nat
      /\ current = Len(exe) + Count(inbox, Done) + Cardinality(swept)
      /\ state = "high" => OpeningRuns
  BY <1>1, Facts DEF IInv, StateIs
<1>6. Count(inbox, Done) = Count(inbox', Done) + 1 /\ Count(inbox', Done) \in Nat
  <2>1. Count(inbox, Done) = Count(Tail(inbox), Done) + (IF m \in Done THEN 1 ELSE 0)
    BY <1>1, <1>3, CountTaken
  <2>2. Count(inbox', Done) \in Nat
    BY <1>4, PlacesFinite
  <2> QED BY <1>3, <1>4, <2>1, <2>2
<1>7. s.current = current /\ s.exe = exe /\ s.high = highlist /\ s.state = state
  BY <1>1 DEF Now
\* The end of a query leaves what tells that an opening is under way.
<1>8. ASSUME m = 10025, OpeningRuns, exe' = exe PROVE OpeningRuns'
  <2>1. CASE \E j \in DOMAIN exe : kind[exe[j]] = "OPEN"
    BY <1>3, <1>8, <2>1 DEF OpeningRuns
  <2>2. CASE \E j \in DOMAIN inbox : inbox[j] = 10024
    <3>1. PICK j \in DOMAIN inbox : inbox[j] = 10024
      BY <2>2
    <3>4. inbox[1] = 10025
      BY <1>4, <1>8
    <3>3. j # 1
      BY <3>1, <3>4
    <3>2. j - 1 \in DOMAIN inbox' /\ inbox'[j - 1] = 10024
      BY <1>4, <3>1, <3>3
    <3> QED BY <3>2 DEF OpeningRuns
  <2>3. CASE \E x \in swept : kind[x] = "OPEN"
    BY <1>3, <2>3 DEF OpeningRuns
  <2> QED BY <1>8, <2>1, <2>2, <2>3 DEF OpeningRuns
\* While an opening is under way, the end of a query leaves a task.
<1>9. ASSUME s.state = "high", m = 10025 PROVE s.current = 2
  <2>1. OpeningRuns
    BY <1>5, <1>7, <1>9
  <2>2. CASE \E j \in DOMAIN exe : kind[exe[j]] = "OPEN"
    <3>1. exe \in Seq(Request) /\ exe # <<>>
      BY <2>2, Facts
    <3>2. Len(exe) # 0
      BY <3>1, EmptySeq
    <3>3. current >= 2 /\ current \in Nat
      BY <1>5, <1>6, <3>2
    <3> QED BY <1>5, <1>7, <1>9, <3>3 DEF Shape
  <2>3. CASE \E j \in DOMAIN inbox : inbox[j] = 10024
    <3>1. PICK j \in DOMAIN inbox : inbox[j] = 10024
      BY <2>3
    <3>6. inbox[1] = 10025 /\ 10024 \in Done
      BY <1>4, <1>9 DEF Done
    <3>5. j # 1 /\ 10024 \in Done
      BY <3>1, <3>6
    <3>2. j - 1 \in DOMAIN inbox' /\ inbox'[j - 1] \in Done
      BY <1>4, <3>1, <3>5
    <3>3. Count(inbox', Done) >= 1
      BY <1>4, <3>2, CountSome
    <3>4. current >= 2 /\ current \in Nat
      BY <1>5, <1>6, <3>3
    <3> QED BY <1>5, <1>7, <1>9, <3>4 DEF Shape
  <2>4. CASE \E x \in swept : kind[x] = "OPEN"
    <3>1. swept # {} /\ IsFiniteSet(swept)
      BY <2>4 DEF IInv, Starts
    <3>2. Cardinality(swept) # 0
      BY <3>1, FS_EmptySet
    <3>3. current >= 2 /\ current \in Nat
      BY <1>5, <1>6, <3>2
    <3> QED BY <1>5, <1>7, <1>9, <3>3 DEF Shape
  <2> QED BY <2>1, <2>2, <2>3, <2>4 DEF OpeningRuns
<1>10. s.current # 0
  BY <1>5, <1>6, <1>7
<1>11. /\ u \in Sched /\ Shape(u)
       /\ u.current - Len(u.exe) = (s.current - Len(s.exe)) - 1
       /\ \A S : Holds(u, S) = Holds(s, S)
       /\ \/ u.high = s.high
          \/ s.high # <<>> /\ u.high = Tail(s.high)
       /\ u.state = "high" =>
            \/ s.state = "high" /\ m = 10025 /\ u.exe = s.exe
            \/ s.high # <<>> /\ u.exe = Append(s.exe, Head(s.high))
  <2>1. m \in Done /\ s \in Sched /\ Shape(s)
    BY <1>4, <1>5
  <2>2. s.state = "high" /\ m = 10025 => s.current = 2
    BY <1>9
  <2> QED BY <1>2, <1>10, <2>1, <2>2, CompletedIs, SMTT(30)
<1>12. Become(u)
  BY <1>3, <1>11, WokenIs
<1>13. exe \in Seq(Request) /\ highlist \in Seq(Request)
  BY DEF IInv, TypeOK
<1>14. ASSUME u.state = "high" PROVE OpeningRuns'
  <2>1. CASE s.state = "high" /\ m = 10025 /\ u.exe = s.exe
    <3>1. exe' = exe
      BY <1>7, <1>12, <2>1 DEF Become
    <3> QED BY <1>5, <1>7, <1>8, <2>1, <3>1
  <2>2. CASE s.high # <<>> /\ u.exe = Append(s.exe, Head(s.high))
    <3>1. /\ Head(highlist) \in Request /\ Head(highlist) = highlist[1] /\ 1 \in DOMAIN highlist
      BY <1>7, <1>13, <2>2, FirstTaken
    <3>2. kind[Head(highlist)] = "OPEN"
      BY <3>1 DEF IInv, Priority
    <3>3. exe' = Append(exe, Head(highlist))
      BY <1>7, <1>12, <2>2 DEF Become
    <3>4. Len(exe) + 1 \in DOMAIN exe' /\ exe'[Len(exe) + 1] = Head(highlist)
      BY <1>5, <1>13, <3>1, <3>3, LastPut
    <3> QED BY <1>3, <3>2, <3>4 DEF OpeningRuns
  <2> QED BY <1>11, <1>14, <2>1, <2>2
<1>15. ASSUME NEW j \in DOMAIN u.high PROVE kind[u.high[j]] = "OPEN"
  <2>1. CASE u.high = highlist
    BY <1>15, <2>1 DEF IInv, Priority
  <2>2. CASE highlist # <<>> /\ u.high = Tail(highlist)
    <3>1. j + 1 \in DOMAIN highlist /\ u.high[j] = highlist[j + 1]
      BY <1>13, <1>15, <2>2, FirstTaken
    <3> QED BY <3>1 DEF IInv, Priority
  <2> QED BY <1>7, <1>11, <2>1, <2>2
<1>16. ASSUME NEW x \in Request
       PROVE  answers'[x] + Holds(u, {x}) = answers[x] + Holds(Now, {x}) + (IF x = m THEN 1 ELSE 0)
  <2>1. x # m
    BY <1>4, LoRaAssumption
  <2>2. Holds(u, {x}) = Holds(Now, {x})
    BY <1>1, <1>11
  <2>3. answers[x] \in Nat /\ Holds(Now, {x}) \in Nat
    BY Facts
  <2> QED BY <1>3, <2>1, <2>2, <2>3
<1>17. u.current - Len(u.exe) = (current - Len(exe)) - (IF m \in Done THEN 1 ELSE 0)
  BY <1>4, <1>7, <1>11
<1>18. answers' \in [Request -> Nat] /\ overheard' \in [Request -> SUBSET Request]
  BY <1>1, <1>4 DEF IInv, TypeOK, run
<1>19. Makes(u, m)
  BY <1>11, <1>14, <1>15, <1>16, <1>17, <1>18 DEF Makes
<1> QED BY <1>1, <1>11, <1>12, <1>19, RoundKeeps

\* The scheduler takes a request: it is refused, started, or waits.
LEMMA RequestKeeps == ASSUME IInv, run, Head(inbox) \notin Done PROVE IInv'
<1>1. PICK m, s : m = Head(inbox) /\ s = Now
  OBVIOUS
<1>2. /\ inbox \in Seq(Request \cup Done) /\ inbox # <<>> /\ inbox' = Tail(inbox)
      /\ kind' = kind /\ swept' = swept
      /\ exe \in Seq(Request) /\ highlist \in Seq(Request) /\ midlist \in Seq(Request)
      /\ answers \in [Request -> Nat] /\ overheard \in [Request -> SUBSET Request]
  BY DEF IInv, TypeOK, run, startup
<1>3. /\ m \in Request /\ m \notin Done /\ m = inbox[1] /\ Len(inbox) \in Nat \ {0}
      /\ DOMAIN inbox = 1..Len(inbox) /\ DOMAIN inbox' = 1..(Len(inbox) - 1)
      /\ \A j \in 1..(Len(inbox) - 1) : inbox'[j] = inbox[j + 1]
  BY <1>1, <1>2, FirstTaken
<1>4. /\ s \in Sched /\ Shape(s) /\ Len(exe) \in Nat /\ s.current = current /\ current \in Nat
      /\ s.exe = exe /\ s.high = highlist /\ s.mid = midlist /\ s.state = state
      /\ state = "high" => OpeningRuns
  BY <1>1, Facts DEF IInv, TypeOK, StateIs, Now
\* A message that is not the end of a task leaves what tells that an opening is
\* under way.
<1>5. ASSUME OpeningRuns, \A j \in DOMAIN exe : j \in DOMAIN exe' /\ exe'[j] = exe[j]
      PROVE  OpeningRuns'
  <2>1. CASE \E j \in DOMAIN exe : kind[exe[j]] = "OPEN"
    BY <1>2, <1>5, <2>1 DEF OpeningRuns
  <2>2. CASE \E j \in DOMAIN inbox : inbox[j] = 10024
    <3>1. PICK j \in DOMAIN inbox : inbox[j] = 10024
      BY <2>2
    <3>2. j # 1
      BY <1>3, <3>1 DEF Done
    <3>3. j - 1 \in DOMAIN inbox' /\ inbox'[j - 1] = 10024
      BY <1>3, <3>1, <3>2
    <3> QED BY <3>3 DEF OpeningRuns
  <2>3. CASE \E x \in swept : kind[x] = "OPEN"
    BY <1>2, <2>3 DEF OpeningRuns
  <2> QED BY <1>5, <2>1, <2>2, <2>3 DEF OpeningRuns
<1>6. ASSUME NEW x \in Request
      PROVE  answers[x] \in Nat /\ Holds(s, {x}) \in Nat
  BY <1>4, Facts, HoldsNat
\* Every case but the last one of a round comes to this.
<1>7. ASSUME NEW u \in Sched, Become(u), Shape(u), answers' = answers, overheard' = overheard,
             u.current - Len(u.exe) = current - Len(exe),
             \A S : Holds(u, S) = Holds(s, S) + (IF m \in S THEN 1 ELSE 0),
             u.state = "high" => OpeningRuns',
             \A j \in DOMAIN u.high : kind[u.high[j]] = "OPEN"
      PROVE  IInv'
  <2>1. ASSUME NEW x \in Request
        PROVE  answers'[x] + Holds(u, {x}) = answers[x] + Holds(Now, {x}) + (IF x = m THEN 1 ELSE 0)
    <3>1. Holds(u, {x}) = Holds(s, {x}) + (IF m \in {x} THEN 1 ELSE 0)
      BY <1>7
    <3> QED BY <1>1, <1>6, <1>7, <3>1
  <2>2. u.current - Len(u.exe) = (current - Len(exe)) - (IF m \in Done THEN 1 ELSE 0)
    BY <1>3, <1>4, <1>7
  <2>3. answers' \in [Request -> Nat] /\ overheard' \in [Request -> SUBSET Request]
    BY <1>2, <1>7
  <2>4. Makes(u, m)
    BY <1>7, <2>1, <2>2, <2>3 DEF Makes
  <2> QED BY <1>1, <1>7, <2>4, RoundKeeps
<1>8. \A j \in DOMAIN highlist : kind[highlist[j]] = "OPEN"
  BY DEF IInv, Priority
<1>9. CASE Refused(m)
  <2>9. Become(Woken(s)) /\ Refuse(m)
    BY <1>1, <1>3, <1>9 DEF run
  <2>1. Become(Woken(s)) /\ answers' = [answers EXCEPT ![m] = @ + 1]
    BY <2>9 DEF Refuse, Answered
  <2>2. Become(s)
    BY <1>4, <2>1, WokenIs
  <2>3. ASSUME NEW x \in Request
        PROVE  answers'[x] + Holds(s, {x}) = answers[x] + Holds(Now, {x}) + (IF x = m THEN 1 ELSE 0)
    <3>1. answers'[x] = answers[x] + (IF x = m THEN 1 ELSE 0)
      BY <1>2, <1>3, <1>6, <2>1
    <3> QED BY <1>1, <1>6, <3>1
  <2>4. answers' \in [Request -> Nat] /\ overheard' \in [Request -> SUBSET Request]
    BY <1>2, <1>3, <2>1, <2>9 DEF Refuse
  <2>5. s.current - Len(s.exe) = (current - Len(exe)) - (IF m \in Done THEN 1 ELSE 0)
    BY <1>3, <1>4
  <2>6. ASSUME s.state = "high" PROVE OpeningRuns'
    <3>1. exe' = exe
      BY <1>4, <2>2 DEF Become
    <3> QED BY <1>4, <1>5, <2>6, <3>1
  <2>7. \A j \in DOMAIN s.high : kind[s.high[j]] = "OPEN"
    BY <1>4, <1>8
  <2>8. Makes(s, m)
    BY <1>4, <2>3, <2>4, <2>5, <2>6, <2>7 DEF Makes
  <2> QED BY <1>1, <1>4, <2>2, <2>8, RoundKeeps
<1>10. CASE ~Refused(m) /\ kind[m] = "OPEN"
  <2>1. PICK u : u = Opened(s, m)
    OBVIOUS
  <2>2. Become(Woken(u)) /\ answers' = answers /\ overheard' = overheard
    BY <1>1, <1>3, <1>10, <2>1 DEF run, KindOf
  <2>3. CASE s.state # "high"
    <3>1. PICK a : a = "high"
      OBVIOUS
    <3>2. a \in {"high", "mid"} /\ u = Start(s, m, a)
      BY <2>1, <2>3, <3>1 DEF Opened
    <3>3. /\ u \in Sched /\ u.state = a /\ u.current = s.current + 1
          /\ u.high = s.high /\ u.exe = Append(s.exe, m)
          /\ Len(u.exe) = Len(s.exe) + 1
          /\ \A S : Holds(u, S) = Holds(s, S) + (IF m \in S THEN 1 ELSE 0)
      <4>1. s \in Sched /\ m \in Request
        BY <1>3, <1>4
      <4> QED BY <3>2, <4>1, StartIs
    <3>4. Shape(u)
      BY <1>4, <2>3, <3>1, <3>3 DEF Shape, Sched
    <3>5. Become(u)
      BY <2>2, <3>3, <3>4, WokenIs
    <3>6. OpeningRuns'
      <4>1. exe' = Append(exe, m)
        BY <1>4, <3>3, <3>5 DEF Become
      <4>2. Len(exe) + 1 \in DOMAIN exe' /\ exe'[Len(exe) + 1] = m
        BY <1>2, <1>3, <1>4, <4>1, LastPut
      <4> QED BY <1>2, <1>10, <4>2 DEF OpeningRuns
    <3>7. u.current - Len(u.exe) = current - Len(exe)
      BY <1>4, <3>3
    <3>8. \A j \in DOMAIN u.high : kind[u.high[j]] = "OPEN"
      BY <1>4, <1>8, <3>3
    <3> QED BY <1>7, <2>2, <3>3, <3>4, <3>5, <3>6, <3>7, <3>8
  <2>4. CASE s.state = "high"
    <3>1. PICK h : h = Append(highlist, m)
      OBVIOUS
    <3>2. /\ h \in Seq(Request) /\ Len(highlist) \in Nat /\ DOMAIN highlist = 1..Len(highlist)
          /\ DOMAIN h = 1..(Len(highlist) + 1) /\ h[Len(highlist) + 1] = m
          /\ \A j \in 1..Len(highlist) : h[j] = highlist[j]
      BY <1>2, <1>3, <3>1, LastPut
    <3>3. u = [s EXCEPT !.high = h]
      BY <1>4, <2>1, <2>4, <3>1 DEF Opened
    <3>4. /\ u \in Sched /\ u.state = s.state /\ u.current = s.current
          /\ u.high = h /\ u.mid = s.mid /\ u.exe = s.exe
      BY <1>4, <3>2, <3>3 DEF Sched
    <3>5. Shape(u)
      BY <1>4, <2>4, <3>4 DEF Shape
    <3>6. Become(u)
      BY <2>2, <3>4, <3>5, WokenIs
    <3>7. OpeningRuns'
      <4>1. exe' = exe
        BY <1>4, <3>4, <3>6 DEF Become
      <4> QED BY <1>4, <1>5, <2>4, <4>1
    <3>8. \A j \in DOMAIN u.high : kind[u.high[j]] = "OPEN"
      BY <1>8, <1>10, <3>2, <3>4
    <3>9. ASSUME NEW S PROVE Holds(u, S) = Holds(s, S) + (IF m \in S THEN 1 ELSE 0)
      <4>1. Count(h, S) = Count(highlist, S) + (IF m \in S THEN 1 ELSE 0)
        BY <1>2, <1>3, <3>1, CountPut
      <4>2. Count(highlist, S) \in Nat /\ Count(midlist, S) \in Nat /\ Count(exe, S) \in Nat
        BY <1>2, PlacesFinite
      <4> QED BY <1>4, <3>4, <4>1, <4>2 DEF Holds
    <3>10. u.current - Len(u.exe) = current - Len(exe)
      BY <1>4, <3>4
    <3> QED BY <1>7, <2>2, <3>4, <3>5, <3>6, <3>7, <3>8, <3>9, <3>10
  <2> QED BY <2>3, <2>4
<1>11. CASE ~Refused(m) /\ kind[m] # "OPEN"
  <2>1. PICK u : u = Queried(s, m)
    OBVIOUS
  <2>2. Become(Woken(u)) /\ answers' = answers /\ overheard' = overheard
    BY <1>1, <1>3, <1>11, <2>1 DEF run, KindOf
  <2>3. CASE s.state = "low"
    <3>1. PICK a : a = "mid"
      OBVIOUS
    <3>2. a \in {"high", "mid"} /\ u = Start(s, m, a)
      BY <2>1, <2>3, <3>1 DEF Queried
    <3>3. /\ u \in Sched /\ u.state = a /\ u.current = s.current + 1
          /\ u.high = s.high /\ u.exe = Append(s.exe, m)
          /\ Len(u.exe) = Len(s.exe) + 1
          /\ \A S : Holds(u, S) = Holds(s, S) + (IF m \in S THEN 1 ELSE 0)
      <4>1. s \in Sched /\ m \in Request
        BY <1>3, <1>4
      <4> QED BY <3>2, <4>1, StartIs
    <3>4. Shape(u)
      BY <1>4, <2>3, <3>1, <3>3 DEF Shape
    <3>5. Become(u)
      BY <2>2, <3>3, <3>4, WokenIs
    <3>6. u.current - Len(u.exe) = current - Len(exe)
      BY <1>4, <3>3
    <3>7. \A j \in DOMAIN u.high : kind[u.high[j]] = "OPEN"
      BY <1>4, <1>8, <3>3
    <3>8. u.state # "high"
      BY <3>1, <3>3
    <3> QED BY <1>7, <2>2, <3>3, <3>4, <3>5, <3>6, <3>7, <3>8
  <2>4. CASE s.state # "low"
    <3>1. PICK h : h = Append(midlist, m)
      OBVIOUS
    <3>2. h \in Seq(Request)
      BY <1>2, <1>3, <3>1, LastPut
    <3>3. u = [s EXCEPT !.mid = h]
      BY <1>4, <2>1, <2>4, <3>1 DEF Queried
    <3>4. /\ u \in Sched /\ u.state = s.state /\ u.current = s.current
          /\ u.high = s.high /\ u.mid = h /\ u.exe = s.exe
      BY <1>4, <3>2, <3>3 DEF Sched
    <3>5. Shape(u)
      BY <1>4, <2>4, <3>4 DEF Shape
    <3>6. Become(u)
      BY <2>2, <3>4, <3>5, WokenIs
    <3>7. ASSUME u.state = "high" PROVE OpeningRuns'
      <4>1. exe' = exe
        BY <1>4, <3>4, <3>6 DEF Become
      <4> QED BY <1>4, <1>5, <3>4, <3>7, <4>1
    <3>8. \A j \in DOMAIN u.high : kind[u.high[j]] = "OPEN"
      BY <1>4, <1>8, <3>4
    <3>9. ASSUME NEW S PROVE Holds(u, S) = Holds(s, S) + (IF m \in S THEN 1 ELSE 0)
      <4>1. Count(h, S) = Count(midlist, S) + (IF m \in S THEN 1 ELSE 0)
        BY <1>2, <1>3, <3>1, CountPut
      <4>2. Count(highlist, S) \in Nat /\ Count(midlist, S) \in Nat /\ Count(exe, S) \in Nat
        BY <1>2, PlacesFinite
      <4> QED BY <1>4, <3>4, <4>1, <4>2 DEF Holds
    <3>10. u.current - Len(u.exe) = current - Len(exe)
      BY <1>4, <3>4
    <3> QED BY <1>7, <2>2, <3>4, <3>5, <3>6, <3>7, <3>8, <3>9, <3>10
  <2> QED BY <2>3, <2>4
<1> QED BY <1>9, <1>10, <1>11

\* A station is asked.
LEMMA AskKeeps ==
  ASSUME IInv, NEW ret \in {0, 1, 2, 3, 9}, NEW box \in Box, ask(ret, box)
  PROVE  IInv'
<1>1. PICK t : t = IF ret = 0 THEN [b \in DOMAIN temp \cup {box} |-> IF b = box THEN i ELSE temp[b]]
                   ELSE temp
  OBVIOUS
<1>2. PICK seen : seen = IF ret = 0 THEN found \cup {box} ELSE found
  OBVIOUS
<1>3. /\ i \in Station /\ Stations \in Nat \ {0}
      /\ DOMAIN temp \subseteq Box /\ (\A b \in DOMAIN temp : temp[b] \in Station)
      /\ DOMAIN temp \subseteq found /\ found \subseteq Box
      /\ UNCHANGED <<inbox, state, current, highlist, midlist, exe, kind, answers, overheard>>
      /\ UNCHANGED scans
      /\ UNCHANGED <<sched_on, serial_on, missed, swept>>
  BY LoRaAssumption DEF IInv, TypeOK, Fresh, ask, sched, startup
<1>4. /\ DOMAIN t \subseteq Box /\ (\A b \in DOMAIN t : t[b] \in Station)
      /\ DOMAIN t \subseteq seen /\ seen \subseteq Box
  BY <1>1, <1>2, <1>3
<1>5. /\ i' \in Station \cup {-1} /\ has_task' \in BOOLEAN
      /\ \/ IDList' = t /\ DOMAIN temp' = {} /\ found' = {}
         \/ IDList' = IDList /\ temp' = t /\ found' = seen
  <2>1. CASE ret \in {0, 2} /\ i + 1 = Stations
    BY <1>1, <2>1 DEF ask, Publish
  <2>2. CASE ~(ret \in {0, 2} /\ i + 1 = Stations)
    <3>1. i + 1 # Stations => i + 1 \in Station
      BY <1>3 DEF Station
    <3>2. temp' = t /\ found' = seen /\ IDList' = IDList
      BY <1>1, <1>2, <2>2 DEF ask
    <3>3. i' = IF ret \in {0, 2} THEN i + 1 ELSE -1
      BY <2>2 DEF ask
    <3>4. has_task' \in BOOLEAN
      BY <2>2 DEF ask, IInv, TypeOK
    <3> QED BY <2>2, <3>1, <3>2, <3>3, <3>4
  <2> QED BY <2>1, <2>2
<1>6. TypeOK'
  BY <1>3, <1>4, <1>5 DEF IInv, TypeOK
<1>7. TasksCounted' /\ OnePlace' /\ StateIs'
  BY <1>3 DEF IInv, TasksCounted, OnePlace, Place, Holds, StateIs, Shape, Now, OpeningRuns
<1>8. Priority' /\ Starts' /\ Fresh'
  BY <1>3, <1>4, <1>5 DEF IInv, Priority, Starts, Fresh
<1> QED BY <1>6, <1>7, <1>8 DEF IInv

\* Two minutes pass, or nothing does.
LEMMA OtherKeeps == ASSUME IInv, rescan \/ UNCHANGED vars PROVE IInv'
<1>1. /\ UNCHANGED <<inbox, state, current, highlist, midlist, exe, kind, answers, overheard>>
      /\ UNCHANGED <<sched_on, serial_on, missed, swept, temp, IDList, found>>
      /\ i' \in Station \cup {-1} /\ scans' \in 0..MaxScans
      /\ has_task' \in BOOLEAN
  <2>1. 0 \in Station /\ (scans < MaxScans => scans + 1 \in 0..MaxScans)
    BY LoRaAssumption DEF Station, IInv, TypeOK
  <2> QED BY <2>1 DEF rescan, vars, sched, startup, IInv, TypeOK
<1>2. TypeOK'
  BY <1>1 DEF IInv, TypeOK
<1>3. TasksCounted' /\ OnePlace' /\ StateIs'
  BY <1>1 DEF IInv, TasksCounted, OnePlace, Place, Holds, StateIs, Shape, Now, OpeningRuns
<1>4. Priority' /\ Starts' /\ Fresh'
  BY <1>1 DEF IInv, Priority, Starts, Fresh
<1> QED BY <1>2, <1>3, <1>4 DEF IInv

LEMMA NextKeeps == IInv /\ [Next]_vars => IInv'
<1> SUFFICES ASSUME IInv, [Next]_vars PROVE IInv'
  OBVIOUS
<1>1. ASSUME NEW r \in Request, NEW k \in Kind, SetProcessData(r, k) PROVE IInv'
  BY <1>1, SetProcessDataKeeps
<1>2. CASE sched_start
  BY <1>2, SchedStartKeeps
<1>3. CASE run
  BY <1>3, DoneKeeps, RequestKeeps
<1>4. CASE serial_start
  BY <1>4, SerialStartKeeps
<1>5. CASE execute
  BY <1>5, ExecuteKeeps
<1>6. ASSUME NEW ret \in {0, 1, 2, 3, 9}, NEW box \in Box, ask(ret, box) PROVE IInv'
  BY <1>6, AskKeeps
<1>7. CASE rescan \/ UNCHANGED vars
  BY <1>7, OtherKeeps
<1> QED BY <1>1, <1>2, <1>3, <1>4, <1>5, <1>6, <1>7 DEF Next

-------------------------------------------------------------------------------
(* What clients overhear.                                                  *)

\* What a client heard besides is an answered request like its own, and not an opening.
Overhears ==
  \A r \in Request : \A x \in overheard[r] :
    /\ r \in DOMAIN kind /\ x \in DOMAIN kind /\ x # r /\ answers[x] >= 1
    /\ kind[x] = kind[r] /\ kind[x] # "OPEN" /\ About[x] = About[r]

\* A step forgets neither an answer nor a request, and only a refusal is overheard.
LEMMA StepAnswers ==
  ASSUME IInv, [Next]_vars
  PROVE  /\ \A x \in Request : answers'[x] >= answers[x]
         /\ \A x \in DOMAIN kind : x \in DOMAIN kind' /\ kind'[x] = kind[x]
         /\ \/ overheard' = overheard
            \/ /\ run /\ Refuse(Head(inbox)) /\ kind' = kind
               /\ Head(inbox) \in DOMAIN kind
<1>1. /\ answers \in [Request -> Nat] /\ DOMAIN kind \subseteq Request
      /\ \A x \in Request : answers[x] \in Nat /\ answers[x] >= answers[x]
  BY DEF IInv, TypeOK
<1>2. ASSUME NEW r \in Request, NEW k \in Kind, SetProcessData(r, k)
      PROVE  /\ answers' = answers /\ overheard' = overheard
             /\ \A x \in DOMAIN kind : x \in DOMAIN kind' /\ kind'[x] = kind[x]
  BY <1>2 DEF SetProcessData
<1>3. CASE execute
  <2>1. PICK r : r = Head(exe)
    OBVIOUS
  <2>2. r \in Request
    BY <1>3, <2>1, FirstTaken DEF execute, IInv, TypeOK
  <2>3. answers' = answers \/ answers' = [answers EXCEPT ![r] = @ + 1]
    BY <1>3, <2>1 DEF execute, Answered
  <2>4. \A x \in Request : answers'[x] >= answers[x]
    BY <1>1, <2>2, <2>3
  <2> QED BY <1>3, <2>4 DEF execute
<1>4. CASE run
  <2>1. PICK m : m = Head(inbox)
    OBVIOUS
  <2>2. kind' = kind /\ inbox # <<>> /\ inbox \in Seq(Request \cup Done)
    BY <1>4 DEF run, IInv, TypeOK
  <2>3. CASE m \notin Done /\ Refused(m)
    <3>1. Refuse(m)
      BY <1>4, <2>1, <2>3 DEF run
    <3>2. m \in Request /\ 1 \in DOMAIN inbox /\ m = inbox[1]
      BY <2>1, <2>2, <2>3, FirstTaken
    <3>3. m \in DOMAIN kind
      BY <3>2, Facts
    <3>4. answers' = [answers EXCEPT ![m] = @ + 1]
      BY <3>1 DEF Refuse, Answered
    <3>5. \A x \in Request : answers'[x] >= answers[x]
      BY <1>1, <3>2, <3>4
    <3> QED BY <1>4, <2>1, <2>2, <3>1, <3>3, <3>5
  <2>4. CASE ~(m \notin Done /\ Refused(m))
    <3>1. answers' = answers /\ overheard' = overheard
      BY <1>4, <2>1, <2>4 DEF run
    <3> QED BY <1>1, <2>2, <3>1
  <2> QED BY <2>3, <2>4
<1>5. CASE sched_start \/ serial_start \/ rescan \/ UNCHANGED vars
  <2>1. answers' = answers /\ overheard' = overheard /\ kind' = kind
    BY <1>5 DEF sched_start, serial_start, rescan, vars
  <2> QED BY <1>1, <2>1
<1>6. ASSUME NEW ret \in {0, 1, 2, 3, 9}, NEW box \in Box, ask(ret, box)
      PROVE  answers' = answers /\ overheard' = overheard /\ kind' = kind
  BY <1>6 DEF ask
<1> QED BY <1>1, <1>2, <1>3, <1>4, <1>5, <1>6 DEF Next

LEMMA OverhearsKeeps == IInv /\ Overhears /\ [Next]_vars => Overhears'
<1> SUFFICES ASSUME IInv, Overhears, [Next]_vars, NEW r \in Request, NEW x \in overheard'[r]
             PROVE  /\ r \in DOMAIN kind' /\ x \in DOMAIN kind' /\ x # r /\ answers'[x] >= 1
                    /\ kind'[x] = kind'[r] /\ kind'[x] # "OPEN" /\ About[x] = About[r]
  BY DEF Overhears
<1>1. /\ \A y \in Request : answers'[y] >= answers[y]
      /\ \A y \in DOMAIN kind : y \in DOMAIN kind' /\ kind'[y] = kind[y]
      /\ \/ overheard' = overheard
         \/ /\ run /\ Refuse(Head(inbox)) /\ kind' = kind
            /\ Head(inbox) \in DOMAIN kind
  BY StepAnswers
<1>2. answers \in [Request -> Nat] /\ DOMAIN kind \subseteq Request
  BY DEF IInv, TypeOK
<1>3. IInv'
  BY NextKeeps
<1>4. answers' \in [Request -> Nat]
  BY <1>3 DEF IInv, TypeOK
<1>5. CASE x \in overheard[r]
  <2>1. /\ r \in DOMAIN kind /\ x \in DOMAIN kind /\ x # r /\ answers[x] >= 1
        /\ kind[x] = kind[r] /\ kind[x] # "OPEN" /\ About[x] = About[r]
    BY <1>5 DEF Overhears
  <2>2. answers[x] \in Nat /\ answers'[x] \in Nat /\ answers'[x] >= answers[x]
    BY <1>1, <1>2, <1>4, <2>1
  <2>3. answers'[x] >= 1
    BY <2>1, <2>2
  <2> QED BY <1>1, <2>1, <2>3
<1>6. CASE x \notin overheard[r]
  <2>1. PICK m : m = Head(inbox)
    OBVIOUS
  <2>2. Refuse(m) /\ kind' = kind /\ m \in DOMAIN kind
    BY <1>1, <1>6, <2>1
  <2>3. x = m /\ r \in Alike(m) /\ KindOf(m) # "OPEN"
    BY <1>6, <2>2 DEF Refuse
  <2>4. answers'[m] >= 1
    BY <1>2, <2>2 DEF Refuse, Answered
  <2> QED BY <2>2, <2>3, <2>4 DEF Alike, KindOf
<1> QED BY <1>5, <1>6

-------------------------------------------------------------------------------
(* The theorems.                                                           *)

LEMMA InvariantKept == Spec => []IInv
BY InitKeeps, NextKeeps, PTL DEF Spec

\* The threads of the LoRa server, run and run of iotServerForLoRaSerial, lose no
\* completion and count none twice, whatever waits will be started by one that is
\* to come, and an opening waits for no more than one query.
THEOREM ScheduleKept == Spec => []ScheduleInv
<1>1. IInv => ScheduleInv
  <2> SUFFICES ASSUME IInv PROVE ScheduleInv
    OBVIOUS
  <2>1. /\ Len(exe) \in Nat /\ Count(inbox, Done) \in Nat /\ Cardinality(swept) \in Nat
        /\ current = Len(exe) + Count(inbox, Done) + Cardinality(swept) /\ exe \in Seq(Request)
    BY Facts
  <2>2. WaitingIsWoken /\ current <= 2
    <3>1. /\ state \in {"high", "mid", "low"}
          /\ state = "low" => current = 0 /\ highlist = <<>> /\ midlist = <<>>
          /\ state = "mid" => current = 1 /\ highlist = <<>>
          /\ state = "high" => current \in {1, 2}
      BY DEF IInv, TypeOK, StateIs, Shape, Now
    <3> QED BY <3>1 DEF WaitingIsWoken
  <2>3. Len(exe) <= 2
    BY <2>1, <2>2
  <2>4. ASSUME NEW j \in DOMAIN exe
        PROVE  Cardinality({l \in 1..(j - 1) : KindOf(exe[l]) # "OPEN"}) <= 1
    <3>1. j \in 1..2
      BY <2>1, <2>3, LenProperties
    <3>2. {l \in 1..(j - 1) : KindOf(exe[l]) # "OPEN"} \subseteq {1}
      BY <3>1
    <3>3. IsFiniteSet({1}) /\ Cardinality({1}) = 1
      BY FS_Singleton
    <3> QED BY <3>2, <3>3, FS_Subset
  <2> QED BY <2>2, <2>3, <2>4 DEF ScheduleInv, OpeningWaitsForOne, IInv
<1> QED BY <1>1, InvariantKept, PTL

\* No request is answered by both threads, or by one of them twice; and a refusal that reaches
\* the client of another request, which takes it for its own answer, is never of an opening and
\* is the only answer to what was refused, which is in no queue any more.
THEOREM AnswersKept == Spec => []AnsweredOnce
<1>1. Init => Overhears
  BY DEF Init, Overhears
<1>2. Spec => []Overhears
  BY <1>1, OverhearsKeeps, InvariantKept, PTL DEF Spec
<1>3. ASSUME IInv, NEW r \in Request PROVE answers[r] <= 1
  <2>1. answers[r] \in Nat /\ Count(inbox, {r}) \in Nat /\ Holds(Now, {r}) \in Nat
    BY <1>3, Facts
  <2>2. answers[r] + Count(inbox, {r}) + Holds(Now, {r}) <= IF r \in DOMAIN kind THEN 1 ELSE 0
    BY <1>3 DEF IInv, OnePlace, Place
  <2> QED BY <2>1, <2>2
<1>4. ASSUME IInv, NEW x \in Request, answers[x] >= 1
      PROVE  /\ answers[x] = 1
             /\ x \notin Members(inbox) /\ x \notin Members(highlist)
             /\ x \notin Members(midlist) /\ x \notin Members(exe)
  <2>1. /\ inbox \in Seq(Request \cup Done) /\ highlist \in Seq(Request)
        /\ midlist \in Seq(Request) /\ exe \in Seq(Request)
    BY <1>4 DEF IInv, TypeOK
  <2>2. /\ Count(inbox, {x}) \in Nat /\ Count(highlist, {x}) \in Nat
        /\ Count(midlist, {x}) \in Nat /\ Count(exe, {x}) \in Nat
    BY <2>1, PlacesFinite
  <2>3. answers[x] \in Nat
    BY <1>4, Facts
  <2>4. answers[x] + Count(inbox, {x}) + (Count(highlist, {x}) + Count(midlist, {x}) + Count(exe, {x}))
          <= IF x \in DOMAIN kind THEN 1 ELSE 0
    BY <1>4 DEF IInv, OnePlace, Place, Holds, Now
  <2>5. PICK n, a, h, d, e : /\ n = answers[x] /\ a = Count(inbox, {x}) /\ h = Count(highlist, {x})
                             /\ d = Count(midlist, {x}) /\ e = Count(exe, {x})
    OBVIOUS
  <2>6. n \in Nat /\ a \in Nat /\ h \in Nat /\ d \in Nat /\ e \in Nat
    BY <2>2, <2>3, <2>5
  <2>7. n + a + (h + d + e) <= 1 /\ n >= 1
    <3>1. n + a + (h + d + e) <= IF x \in DOMAIN kind THEN 1 ELSE 0
      BY <2>4, <2>5
    <3>2. n >= 1
      BY <1>4, <2>5
    <3> QED BY <2>6, <3>1, <3>2
  <2>8. n = 1 /\ a = 0 /\ h = 0 /\ d = 0 /\ e = 0
    BY <2>6, <2>7
  <2>9. ASSUME NEW M, NEW queue \in Seq(M), Count(queue, {x}) = 0 PROVE x \notin Members(queue)
    <3>1. \A j \in DOMAIN queue : queue[j] \notin {x}
      BY <2>9, PlacesFinite
    <3> QED BY <3>1 DEF Members
  <2>10. x \notin Members(inbox)
    BY <2>1, <2>5, <2>8, <2>9
  <2>11. x \notin Members(highlist) /\ x \notin Members(midlist)
    BY <2>1, <2>5, <2>8, <2>9
  <2>12. x \notin Members(exe)
    BY <2>1, <2>5, <2>8, <2>9
  <2> QED BY <2>5, <2>8, <2>10, <2>11, <2>12
<1>5. IInv /\ Overhears => AnsweredOnce
  <2> SUFFICES ASSUME IInv, Overhears PROVE AnsweredOnce
    OBVIOUS
  <2>1. DOMAIN kind \subseteq Request
    BY DEF IInv, TypeOK
  <2>2. ASSUME NEW r \in Request, NEW x \in overheard[r]
        PROVE  /\ x # r /\ KindOf(x) = KindOf(r) /\ KindOf(x) # "OPEN" /\ About[x] = About[r]
               /\ answers[x] = 1
               /\ x \notin Members(inbox) \cup Members(highlist) \cup Members(midlist) \cup Members(exe)
    <3>1. /\ x \in Request /\ x # r /\ answers[x] >= 1
          /\ kind[x] = kind[r] /\ kind[x] # "OPEN" /\ About[x] = About[r]
      BY <2>1 DEF Overhears
    <3> QED BY <1>4, <3>1 DEF KindOf
  <2> QED BY <1>3, <2>2 DEF AnsweredOnce
<1> QED BY <1>2, <1>5, InvariantKept, PTL

\* A list of boxes that the serial thread publishes has none that did not answer
\* since the one before, whatever round was broken off in between.
THEOREM PublishedFresh == Spec => PublishedIsFresh
<1>1. IInv /\ [Next]_vars
        => [IDList' # IDList => \A b \in DOMAIN IDList' : b \in found \/ IDList'[b] = Stations - 1]_vars
  <2> SUFFICES ASSUME IInv, Next, IDList' # IDList, NEW b \in DOMAIN IDList'
               PROVE  b \in found \/ IDList'[b] = Stations - 1
    OBVIOUS
  <2>1. PICK ret \in {0, 1, 2, 3, 9}, box \in Box : ask(ret, box)
    <3>1. ASSUME NEW r \in Request, NEW k \in Kind, SetProcessData(r, k) PROVE FALSE
      BY <3>1 DEF SetProcessData, scan
    <3>2. ~sched_start /\ ~run
      BY DEF sched_start, run, scan
    <3>3. ~serial_start /\ ~execute
      BY DEF serial_start, execute, scan
    <3>4. ~rescan
      BY DEF rescan
    <3> QED BY <3>1, <3>2, <3>3, <3>4 DEF Next
  <2>2. PICK t : t = IF ret = 0 THEN [x \in DOMAIN temp \cup {box} |-> IF x = box THEN i ELSE temp[x]]
                     ELSE temp
    OBVIOUS
  <2>3. IDList' = t /\ i + 1 = Stations
    BY <2>1, <2>2 DEF ask, Publish
  <2>4. DOMAIN temp \subseteq found /\ i \in Int
    BY <2>1 DEF IInv, Fresh, TypeOK, ask, Station
  <2>5. b \in DOMAIN temp \/ (b = box /\ t[b] = i)
    BY <2>2, <2>3
  <2> QED BY <2>3, <2>4, <2>5
<1> QED BY <1>1, InvariantKept, PTL DEF Spec, PublishedIsFresh
===============================================================================
