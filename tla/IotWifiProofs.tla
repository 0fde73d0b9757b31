----------------------------- MODULE IotWifiProofs -----------------------------
(***************************************************************************)
(* For any connections, addresses, names and requests: a device has one    *)
(* entry, its queue keeps to its limit, a request is answered at most once *)
(* and not held any more when it was, and only a CLOSEDOOR request is      *)
(* dropped without an answer.                                              *)
(***************************************************************************)
EXTENDS IotWifi, FiniteSetTheorems, SequenceTheorems, TLAPS

-------------------------------------------------------------------------------
(* Members of a list.                                                      *)

LEMMA PositionsFinite ==
  ASSUME NEW X, NEW s \in Seq(X), NEW S \in SUBSET DOMAIN s
  PROVE  /\ IsFiniteSet(S) /\ Cardinality(S) \in Nat /\ Cardinality(S) <= Len(s)
         /\ S \subseteq 1..Len(s) /\ Len(s) \in Nat
<1>1. Len(s) \in Nat /\ DOMAIN s = 1..Len(s)
  BY LenProperties, SMTT(30)
<1>2. PICK n \in Nat : n = Len(s)
  BY <1>1
<1>i. IsFiniteSet(1..n) /\ Cardinality(1..n) = n
  <2>1. 1 \in Int /\ n \in Int
    OBVIOUS
  <2>2. IsFiniteSet(1..n) /\ Cardinality(1..n) = IF 1 > n THEN 0 ELSE n - 1 + 1
    BY <2>1, FS_Interval
  <2> QED BY <2>2
<1>3. IsFiniteSet(1..Len(s)) /\ Cardinality(1..Len(s)) = Len(s)
  BY <1>2, <1>i
<1>4. IsFiniteSet(S) /\ Cardinality(S) <= Len(s)
  BY <1>1, <1>3, FS_Subset
<1> QED BY <1>1, <1>4, FS_CardinalityType

\* Each place in the order of a set of numbers is somebody's.
LEMMA Ranks ==
  ASSUME NEW P, P \subseteq Nat, IsFiniteSet(P)
  PROVE  \A n \in 1..Cardinality(P) : \E i \in P : Cardinality({j \in P : j <= i}) = n
<1> DEFINE upto(i) == {j \in P : j <= i}
           N == Cardinality(P)
           f == [i \in P |-> Cardinality(upto(i))]
<1>1. N \in Nat /\ IsFiniteSet(1..N) /\ Cardinality(1..N) = N
  <2>1. N \in Nat
    BY FS_CardinalityType
  <2>2. 1 \in Int /\ N \in Int
    BY <2>1
  <2> HIDE DEF N
  <2> QED BY <2>1, <2>2, FS_Interval
<1>2. ASSUME NEW i \in P
      PROVE  IsFiniteSet(upto(i)) /\ Cardinality(upto(i)) \in 1..N
  <2>1. upto(i) \in SUBSET P /\ i \in upto(i)
    OBVIOUS
  <2> HIDE DEF upto
  <2>2. IsFiniteSet(upto(i)) /\ Cardinality(upto(i)) <= N
    BY <2>1, FS_Subset
  <2>3. Cardinality(upto(i)) \in Nat /\ Cardinality(upto(i)) # 0
    BY <2>1, <2>2, FS_CardinalityType, FS_EmptySet
  <2> QED BY <1>1, <2>2, <2>3
<1>3. ASSUME NEW i \in P, NEW k \in P, i < k PROVE Cardinality(upto(i)) # Cardinality(upto(k))
  <2>1. upto(i) \in SUBSET upto(k) /\ k \in upto(k) /\ k \notin upto(i)
    <3>1. \A j \in P : j \in Nat
      OBVIOUS
    <3>2. \A j \in P : j <= i => j <= k
      BY <1>3, <3>1
    <3>3. ~(k <= i) /\ k <= k
      BY <1>3, <3>1
    <3> QED BY <3>2, <3>3
  <2>2. IsFiniteSet(upto(k))
    BY <1>2
  <2> HIDE DEF upto
  <2>3. upto(i) # upto(k)
    BY <2>1
  <2> QED BY <2>1, <2>2, <2>3, FS_Subset
<1>4. f \in Injection(P, 1..N)
  <2>1. f \in [P -> 1..N]
    BY <1>2
  <2>2. ASSUME NEW i \in P, NEW k \in P, f[i] = f[k] PROVE i = k
    <3>1. i \in Nat /\ k \in Nat /\ (i < k \/ k < i \/ i = k)
      OBVIOUS
    <3>2. Cardinality(upto(i)) = Cardinality(upto(k))
      BY <2>2
    <3> HIDE DEF upto, f
    <3> QED BY <1>3, <3>1, <3>2
  <2> HIDE DEF f
  <2> QED BY <2>1, <2>2 DEF Injection, IsInjective
<1>5. f \in Surjection(P, 1..N)
  <2> HIDE DEF f, N
  <2>1. Cardinality(P) = N
    BY DEF N
  <2> QED BY <1>1, <1>4, <2>1, FS_Injection
<1>6. \A n \in 1..N : \E i \in P : f[i] = n
  <2> HIDE DEF f
  <2> QED BY <1>5 DEF Surjection
<1> QED BY <1>6

\* f tells where in S the members of o are from, each from somewhere else.
From(f, o, s, S) ==
  /\ f \in [1..Len(o) -> S \cap DOMAIN s]
  /\ \A n \in 1..Len(o) : o[n] = s[f[n]]
  /\ \A n, m \in 1..Len(o) : f[n] = f[m] => n = m

\* Only picks different positions.
LEMMA OnlyIs ==
  ASSUME NEW X, NEW s \in Seq(X), NEW S
  PROVE  /\ Only(s, S) \in Seq(X)
         /\ Len(Only(s, S)) = Cardinality(S \cap DOMAIN s) /\ Len(Only(s, S)) <= Len(s)
         /\ \E f : From(f, Only(s, S), s, S)
<1> DEFINE at == S \cap DOMAIN s
           N == Cardinality(at)
           rank(i) == Cardinality({j \in at : j <= i})
           f == [n \in 1..N |-> CHOOSE i \in at : rank(i) = n]
<1>1. at \in SUBSET DOMAIN s /\ DOMAIN s = 1..Len(s)
  BY LenProperties
<1>2. IsFiniteSet(at) /\ N \in Nat /\ N <= Len(s) /\ at \subseteq Nat
  <2> HIDE DEF at
  <2> QED BY <1>1, PositionsFinite
<1>3. \A n \in 1..N : \E i \in at : rank(i) = n
  <2> HIDE DEF at
  <2> QED BY <1>2, Ranks
<1>4. \A n \in 1..N : f[n] \in at /\ rank(f[n]) = n
  <2> HIDE DEF at, N, rank
  <2>1. ASSUME NEW n \in 1..N PROVE f[n] \in at /\ rank(f[n]) = n
    <3>1. f[n] = CHOOSE i \in at : rank(i) = n
      OBVIOUS
    <3>2. \E i \in at : rank(i) = n
      BY <1>3
    <3> HIDE DEF f
    <3> QED BY <3>1, <3>2
  <2> QED BY <2>1
<1>5. Only(s, S) = [n \in 1..N |-> s[f[n]]]
  BY DEF Only
<1> HIDE DEF f, N, rank
<1>6. \A n \in 1..N : s[f[n]] \in X
  <2>1. \A i \in DOMAIN s : s[i] \in X
    BY <1>1
  <2> QED BY <1>1, <1>4, <2>1
<1>7. Only(s, S) \in Seq(X) /\ Len(Only(s, S)) = N /\ \A n \in 1..N : Only(s, S)[n] = s[f[n]]
  <2>1. PICK o : o = Only(s, S)
    OBVIOUS
  <2>2. o = [n \in 1..N |-> s[f[n]]]
    BY <1>5, <2>1
  <2>3. o \in Seq(X) /\ Len(o) = N /\ \A n \in 1..N : o[n] = s[f[n]]
    BY <1>2, <1>6, <2>2
  <2> QED BY <2>1, <2>3
<1>8. f \in [1..N -> at] /\ \A n, m \in 1..N : f[n] = f[m] => n = m
  <2>1. f = [n \in 1..N |-> f[n]]
    BY DEF f
  <2> HIDE DEF at
  <2> QED BY <1>4, <2>1
<1>9. N = Cardinality(S \cap DOMAIN s)
  BY DEF N
<1> HIDE DEF at
<1>10. at = S \cap DOMAIN s
  BY DEF at
<1>11. From(f, Only(s, S), s, S)
  BY <1>7, <1>8, <1>10 DEF From
<1> QED BY <1>2, <1>7, <1>9, <1>11

-------------------------------------------------------------------------------
(* How often a request is in a list.                                       *)

LEMMA CountNat ==
  ASSUME NEW X, NEW s \in Seq(X), NEW r
  PROVE  Count(s, r) \in Nat /\ IsFiniteSet(Positions(s, r)) /\ Positions(s, r) \subseteq DOMAIN s
<1>1. Positions(s, r) \in SUBSET DOMAIN s
  BY DEF Positions
<1> QED BY <1>1, PositionsFinite DEF Count

\* A list whose members of r come from different positions P of s, or are new.
LEMMA Injected ==
  ASSUME NEW A, NEW B, IsFiniteSet(B), NEW f \in [A -> B], \A x, y \in A : f[x] = f[y] => x = y
  PROVE  IsFiniteSet(A) /\ Cardinality(A) <= Cardinality(B)
<1>1. f \in Injection(A, B)
  BY DEF Injection, IsInjective
<1> QED BY <1>1, FS_Injection

LEMMA CountSplit ==
  ASSUME NEW X, NEW s \in Seq(X), NEW S, NEW r
  PROVE  Count(Only(s, S), r) + Count(Without(s, S), r) <= Count(s, r)
<1>1. ASSUME NEW T PROVE Count(Only(s, T), r) <= Cardinality(Positions(s, r) \cap T)
  <2>1. PICK f : From(f, Only(s, T), s, T)
    BY OnlyIs
  <2>2. PICK o : o = Only(s, T)
    OBVIOUS
  <2>8. /\ f \in [1..Len(o) -> T \cap DOMAIN s]
        /\ \A n \in 1..Len(o) : o[n] = s[f[n]]
        /\ \A n, m \in 1..Len(o) : f[n] = f[m] => n = m
    BY <2>1, <2>2 DEF From
  <2>3. o \in Seq(X) /\ DOMAIN o = 1..Len(o)
    BY <2>2, OnlyIs, LenProperties
  <2>4. \A n \in Positions(o, r) : n \in 1..Len(o) /\ f[n] \in Positions(s, r) \cap T
    BY <2>3, <2>8 DEF Positions
  <2>5. PICK g : g = [n \in Positions(o, r) |-> f[n]]
    OBVIOUS
  <2>6. /\ g \in [Positions(o, r) -> Positions(s, r) \cap T]
        /\ \A n, m \in Positions(o, r) : g[n] = g[m] => n = m
    BY <2>4, <2>5, <2>8
  <2>7. IsFiniteSet(Positions(s, r) \cap T)
    BY CountNat, FS_Intersection
  <2> QED BY <2>2, <2>6, <2>7, Injected DEF Count
<1>2. PICK P : P = Positions(s, r)
  OBVIOUS
<1>3. IsFiniteSet(P) /\ P \subseteq DOMAIN s /\ Cardinality(P) = Count(s, r)
  BY <1>2, CountNat DEF Count
<1>4. P \cap (DOMAIN s \ S) = P \ S
  BY <1>3
<1>5. Cardinality(P \ S) = Cardinality(P) - Cardinality(P \cap S)
  BY <1>3, FS_Difference
<1>6. Cardinality(P) \in Nat /\ Cardinality(P \cap S) \in Nat
  BY <1>3, FS_Intersection, FS_CardinalityType
<1>7. /\ Count(Only(s, S), r) <= Cardinality(P \cap S)
      /\ Count(Without(s, S), r) <= Cardinality(P \ S)
  BY <1>1, <1>2, <1>4 DEF Without
<1>8. Count(Only(s, S), r) \in Nat /\ Count(Without(s, S), r) \in Nat
  BY OnlyIs, CountNat DEF Without
<1> QED BY <1>3, <1>5, <1>6, <1>7, <1>8

LEMMA CountEmpty == \A r : Count(<<>>, r) = 0
<1>1. \A r : Positions(<<>>, r) = {}
  BY DEF Positions
<1> QED BY <1>1, FS_EmptySet DEF Count

One(x, r) == IF x = r THEN 1 ELSE 0

LEMMA CountAppend ==
  ASSUME NEW X, NEW s \in Seq(X), NEW e \in X, NEW r
  PROVE  Count(Append(s, e), r) <= Count(s, r) + One(e.r, r)
<1>1. PICK a : a = Append(s, e)
  OBVIOUS
<1>2. /\ a \in Seq(X) /\ Len(a) = Len(s) + 1 /\ a[Len(s) + 1] = e
      /\ \A j \in 1..Len(s) : a[j] = s[j]
  BY <1>1, AppendProperties
<1>3. Len(s) \in Nat /\ DOMAIN s = 1..Len(s) /\ DOMAIN a = 1..(Len(s) + 1)
  BY <1>2, LenProperties
<1>4. \A j \in 1..(Len(s) + 1) : j \in 1..Len(s) \/ j = Len(s) + 1
  BY <1>3
<1>5. PICK n, P : n = Len(s) + 1 /\ P = Positions(s, r)
  OBVIOUS
<1>6. /\ IsFiniteSet(P) /\ Count(s, r) = Cardinality(P) /\ Cardinality(P) \in Nat
  BY <1>5, CountNat DEF Count
<1>7. CASE e.r = r
  <2>1. Positions(a, r) \in SUBSET (P \cup {n})
    BY <1>2, <1>3, <1>4, <1>5 DEF Positions
  <2>2. IsFiniteSet(P \cup {n}) /\ Cardinality(P \cup {n}) <= Cardinality(P) + 1
    <3>1. n \notin P
      BY <1>3, <1>5, CountNat
    <3>2. IsFiniteSet(P \cup {n}) /\ Cardinality(P \cup {n}) = Cardinality(P) + 1
      BY <1>6, <3>1, FS_AddElement, Zenon
    <3> QED BY <1>6, <3>2
  <2>3. Cardinality(Positions(a, r)) <= Cardinality(P \cup {n})
    BY <2>1, <2>2, FS_Subset
  <2>4. Cardinality(Positions(a, r)) \in Nat /\ Cardinality(P \cup {n}) \in Nat
    BY <2>1, <2>2, FS_Subset, FS_CardinalityType
  <2> QED BY <1>1, <1>6, <1>7, <2>2, <2>3, <2>4 DEF Count, One
<1>8. CASE e.r # r
  <2>1. Positions(a, r) \in SUBSET P
    BY <1>2, <1>3, <1>4, <1>5, <1>8 DEF Positions
  <2>2. Cardinality(Positions(a, r)) <= Cardinality(P)
    BY <1>6, <2>1, FS_Subset
  <2> QED BY <1>1, <1>6, <1>8, <2>2 DEF Count, One
<1> QED BY <1>7, <1>8

LEMMA CountTail ==
  ASSUME NEW X, NEW s \in Seq(X), s # <<>>, NEW r
  PROVE  Count(Tail(s), r) + One(Head(s).r, r) <= Count(s, r)
<1>1. PICK t : t = Tail(s)
  OBVIOUS
<1>2. /\ t \in Seq(X) /\ Len(t) = Len(s) - 1 /\ Head(s) = s[1] /\ Len(s) \in Nat
      /\ \A j \in 1..(Len(s) - 1) : t[j] = s[j + 1]
  BY <1>1, HeadTailProperties, LenProperties
<1>3. DOMAIN t = 1..(Len(s) - 1) /\ DOMAIN s = 1..Len(s) /\ 1 \in DOMAIN s
  BY <1>2, LenProperties, EmptySeq
<1>4. PICK P, Q : P = Positions(s, r) /\ Q = Positions(t, r)
  OBVIOUS
<1>5. /\ IsFiniteSet(P) /\ Count(s, r) = Cardinality(P) /\ Cardinality(P) \in Nat
      /\ Count(t, r) = Cardinality(Q) /\ Cardinality(Q) \in Nat
  BY <1>2, <1>4, CountNat DEF Count
<1>6. \A j \in Q : j + 1 \in P \ {1} /\ j \in Nat
  BY <1>2, <1>3, <1>4 DEF Positions
<1>7. IsFiniteSet(P \ {1})
  BY <1>5, FS_RemoveElement
<1>8. PICK f : f = [j \in Q |-> j + 1]
  OBVIOUS
<1>9. f \in [Q -> P \ {1}] /\ \A x, y \in Q : f[x] = f[y] => x = y
  BY <1>6, <1>8
<1>10. Cardinality(Q) <= Cardinality(P \ {1})
  BY <1>7, <1>9, Injected
<1>11. CASE Head(s).r = r
  <2>1. 1 \in P
    BY <1>2, <1>3, <1>4, <1>11 DEF Positions
  <2>2. Cardinality(P \ {1}) = Cardinality(P) - 1
    BY <1>5, <2>1, FS_RemoveElement
  <2> QED BY <1>1, <1>5, <1>10, <1>11, <2>2 DEF One
<1>12. CASE Head(s).r # r
  <2>1. Cardinality(P \ {1}) <= Cardinality(P) /\ Cardinality(P \ {1}) \in Nat
    BY <1>5, <1>7, FS_Subset, FS_CardinalityType
  <2> QED BY <1>1, <1>5, <1>10, <1>12, <2>1 DEF One
<1> QED BY <1>11, <1>12

-------------------------------------------------------------------------------
(* How often a batch answers a request.                                    *)

Pair == (Request \cup {NoRequest}) \X (0..6)
Batch == Seq(Pair)
Hits(batch, r) == {i \in DOMAIN batch : batch[i][1] = r}
Hit(batch, r) == Cardinality(Hits(batch, r))

LEMMA HitNat ==
  ASSUME NEW b \in Batch, NEW r
  PROVE  Hit(b, r) \in Nat /\ IsFiniteSet(Hits(b, r)) /\ Hits(b, r) \subseteq DOMAIN b
<1>1. Hits(b, r) \in SUBSET DOMAIN b
  BY DEF Hits
<1>2. b \in Seq(Pair)
  BY DEF Batch
<1> QED BY <1>1, <1>2, PositionsFinite DEF Hit

LEMMA HitNone == <<>> \in Batch /\ \A r : Hit(<<>>, r) = 0
<1>1. \A r : Hits(<<>>, r) = {}
  BY DEF Hits
<1> QED BY <1>1, FS_EmptySet DEF Hit, Batch

LEMMA HitOne ==
  ASSUME NEW x \in Request \cup {NoRequest}, NEW code \in 0..6, NEW r
  PROVE  <<<<x, code>>>> \in Batch /\ Hit(<<<<x, code>>>>, r) = One(x, r)
<1>1. PICK b : b = <<<<x, code>>>>
  OBVIOUS
<1>2. b \in Batch /\ DOMAIN b = {1} /\ b[1][1] = x
  <2>1. PICK p \in Pair : p = <<x, code>>
    BY DEF Pair
  <2>2. b = <<p>> /\ p[1] = x
    BY <1>1, <2>1
  <2>3. <<p>> \in Seq(Pair) /\ Len(<<p>>) = 1 /\ <<p>>[1] = p
    OBVIOUS
  <2>4. DOMAIN <<p>> = {1}
    OBVIOUS
  <2> QED BY <2>2, <2>3, <2>4 DEF Batch
<1>3. CASE x = r
  <2>1. Hits(b, r) = {1}
    BY <1>2, <1>3 DEF Hits
  <2>2. Cardinality({1}) = 1
    BY FS_Singleton
  <2> QED BY <1>1, <1>2, <1>3, <2>1, <2>2 DEF Hit, One
<1>4. CASE x # r
  <2>1. Hits(b, r) = {}
    BY <1>2, <1>4 DEF Hits
  <2> QED BY <1>1, <1>2, <1>4, <2>1, FS_EmptySet DEF Hit, One
<1> QED BY <1>3, <1>4

LEMMA HitConcat ==
  ASSUME NEW a \in Batch, NEW b \in Batch, NEW r
  PROVE  a \o b \in Batch /\ Hit(a \o b, r) <= Hit(a, r) + Hit(b, r)
<1>1. PICK c : c = a \o b
  OBVIOUS
<1>2. /\ c \in Seq(Pair) /\ Len(c) = Len(a) + Len(b)
      /\ \A i \in 1..(Len(a) + Len(b)) : c[i] = IF i <= Len(a) THEN a[i] ELSE b[i - Len(a)]
  BY <1>1, ConcatProperties DEF Batch
<1>3. PICK n, m : n = Len(a) /\ m = Len(b)
  OBVIOUS
<1>4. /\ n \in Nat /\ m \in Nat /\ DOMAIN a = 1..n /\ DOMAIN b = 1..m /\ DOMAIN c = 1..(n + m)
      /\ \A i \in 1..(n + m) : c[i] = IF i <= n THEN a[i] ELSE b[i - n]
  BY <1>2, <1>3, LenProperties DEF Batch
<1>5. PICK A, B, C, D : /\ A = Hits(a, r) /\ B = Hits(b, r) /\ C = Hits(c, r)
                        /\ D = {i \in C : ~(i <= n)}
  OBVIOUS
<1>6. /\ IsFiniteSet(A) /\ Hit(a, r) = Cardinality(A) /\ Cardinality(A) \in Nat
      /\ IsFiniteSet(B) /\ Hit(b, r) = Cardinality(B) /\ Cardinality(B) \in Nat
  BY <1>5, HitNat DEF Hit
<1>7. \A i \in C : i \in Int /\ (i <= n => i \in A) /\ (~(i <= n) => i - n \in B)
  <2>1. ASSUME NEW i \in C PROVE i \in Int /\ (i <= n => i \in A) /\ (~(i <= n) => i - n \in B)
    <3>1. i \in 1..(n + m) /\ c[i][1] = r
      BY <1>4, <1>5 DEF Hits
    <3>2. CASE i <= n
      <4>1. i \in 1..n /\ c[i] = a[i]
        BY <1>4, <3>1, <3>2
      <4> QED BY <1>4, <1>5, <3>1, <3>2, <4>1 DEF Hits
    <3>3. CASE ~(i <= n)
      <4>1. i - n \in 1..m /\ c[i] = b[i - n]
        BY <1>4, <3>1, <3>3
      <4> QED BY <1>4, <1>5, <3>1, <3>3, <4>1 DEF Hits
    <3> QED BY <3>2, <3>3
  <2> QED BY <2>1
<1>8. PICK f : f = [i \in D |-> i - n]
  OBVIOUS
<1>9. f \in [D -> B] /\ \A x, y \in D : f[x] = f[y] => x = y
  <2>1. \A x \in D : x \in Int /\ x - n \in B
    BY <1>5, <1>7
  <2> QED BY <1>4, <1>8, <2>1
<1>10. IsFiniteSet(D) /\ Cardinality(D) <= Cardinality(B) /\ Cardinality(D) \in Nat
  BY <1>6, <1>9, Injected, FS_CardinalityType
<1>11. C \in SUBSET (A \cup D)
  BY <1>5, <1>7
<1>12. IsFiniteSet(A \cup D) /\ Cardinality(A \cup D) = Cardinality(A) + Cardinality(D) - Cardinality(A \cap D)
  BY <1>6, <1>10, FS_Union
<1>13. Cardinality(A \cap D) \in Nat /\ Cardinality(A \cup D) \in Nat
  BY <1>6, <1>12, FS_Intersection, FS_CardinalityType
<1>14. Cardinality(C) <= Cardinality(A \cup D) /\ Cardinality(C) \in Nat
  BY <1>11, <1>12, FS_Subset, FS_CardinalityType
<1>15. Hit(c, r) = Cardinality(C)
  BY <1>5 DEF Hit
<1>16. Hit(c, r) <= Hit(a, r) + Hit(b, r)
  BY <1>6, <1>10, <1>12, <1>13, <1>14, <1>15
<1> QED BY <1>1, <1>2, <1>16 DEF Batch

\* Requests and reports that a list may hold.
Listed(X) == \A e \in X : e.r \in Request \cup {NoRequest} /\ e.res \in 0..6

LEMMA HitAll ==
  ASSUME NEW X, Listed(X), NEW s \in Seq(X), NEW code \in 0..6, NEW r
  PROVE  AllWith(s, code) \in Batch /\ Hit(AllWith(s, code), r) = Count(s, r)
<1>1. Len(s) \in Nat /\ DOMAIN s = 1..Len(s) /\ \A i \in DOMAIN s : s[i] \in X
  BY LenProperties, ElementOfSeq
<1>2. PICK b : b = AllWith(s, code)
  OBVIOUS
<1>3. b = [i \in 1..Len(s) |-> <<s[i].r, code>>]
  BY <1>1, <1>2 DEF AllWith
<1>4. \A i \in 1..Len(s) : <<s[i].r, code>> \in Pair
  BY <1>1 DEF Listed, Pair
<1>5. b \in Batch /\ DOMAIN b = DOMAIN s /\ \A i \in DOMAIN s : b[i][1] = s[i].r
  BY <1>1, <1>3, <1>4 DEF Batch
<1>6. Hits(b, r) = Positions(s, r)
  BY <1>5 DEF Hits, Positions
<1> QED BY <1>2, <1>5, <1>6 DEF Hit, Count

LEMMA HitResults ==
  ASSUME NEW X, Listed(X), NEW s \in Seq(X), NEW r
  PROVE  Results(s) \in Batch /\ Hit(Results(s), r) = Count(s, r)
<1>1. Len(s) \in Nat /\ DOMAIN s = 1..Len(s) /\ \A i \in DOMAIN s : s[i] \in X
  BY LenProperties, ElementOfSeq
<1>2. PICK b : b = Results(s)
  OBVIOUS
<1>3. b = [i \in 1..Len(s) |-> <<s[i].r, s[i].res>>]
  BY <1>1, <1>2 DEF Results
<1>4. \A i \in 1..Len(s) : <<s[i].r, s[i].res>> \in Pair
  BY <1>1 DEF Listed, Pair
<1>5. b \in Batch /\ DOMAIN b = DOMAIN s /\ \A i \in DOMAIN s : b[i][1] = s[i].r
  BY <1>1, <1>3, <1>4 DEF Batch
<1>6. Hits(b, r) = Positions(s, r)
  BY <1>5 DEF Hits, Positions
<1> QED BY <1>2, <1>5, <1>6 DEF Hit, Count

\* What a batch adds to the answers.
Gave(b) ==
  /\ ans' \in [Request -> Seq(0..6)]
  /\ \A r \in Request : Len(ans'[r]) = Len(ans[r]) + Hit(b, r)

LEMMA AnswerGives ==
  ASSUME ans \in [Request -> Seq(0..6)], NEW b \in Batch, Answer(b)
  PROVE  Gave(b)
<1>1. ASSUME NEW r \in Request
      PROVE  /\ [i \in DOMAIN Mine(b, r) |-> Mine(b, r)[i][2]] \in Seq(0..6)
             /\ Len([i \in DOMAIN Mine(b, r) |-> Mine(b, r)[i][2]]) = Hit(b, r)
  <2>1. PICK m : m = Mine(b, r)
    OBVIOUS
  <2>2. m = Only(b, Hits(b, r)) /\ b \in Seq(Pair)
    BY <2>1 DEF Mine, Hits, Batch
  <2>3. Hits(b, r) \cap DOMAIN b = Hits(b, r)
    BY DEF Hits
  <2>4. m \in Seq(Pair) /\ Len(m) = Hit(b, r)
    BY <2>2, <2>3, OnlyIs DEF Hit
  <2>5. Len(m) \in Nat /\ DOMAIN m = 1..Len(m) /\ \A i \in DOMAIN m : m[i] \in Pair
    BY <2>4, LenProperties, ElementOfSeq
  <2>6. \A i \in 1..Len(m) : m[i][2] \in 0..6
    BY <2>5 DEF Pair
  <2>7. PICK l : l = [i \in 1..Len(m) |-> m[i][2]]
    OBVIOUS
  <2>8. l \in Seq(0..6) /\ Len(l) = Len(m)
    BY <2>5, <2>6, <2>7
  <2> QED BY <2>1, <2>4, <2>5, <2>7, <2>8
<1>2. ASSUME NEW r \in Request
      PROVE  ans'[r] \in Seq(0..6) /\ Len(ans'[r]) = Len(ans[r]) + Hit(b, r)
  <2>1. PICK l : l = [i \in DOMAIN Mine(b, r) |-> Mine(b, r)[i][2]]
    OBVIOUS
  <2>2. ans'[r] = ans[r] \o l
    BY <2>1 DEF Answer
  <2>3. PICK a \in Seq(0..6) : a = ans[r]
    OBVIOUS
  <2>4. l \in Seq(0..6) /\ Len(l) = Hit(b, r)
    BY <1>1, <2>1
  <2>5. a \o l \in Seq(0..6) /\ Len(a \o l) = Len(a) + Len(l)
    BY <2>4, ConcatProperties
  <2>6. ans'[r] = a \o l
    BY <2>2, <2>3
  <2> QED BY <2>3, <2>4, <2>5, <2>6
<1>3. DOMAIN ans' = Request /\ ans' = [r \in Request |-> ans'[r]]
  BY DEF Answer
<1> QED BY <1>2, <1>3 DEF Gave

LEMMA NoAnswer ==
  ASSUME ans \in [Request -> Seq(0..6)], UNCHANGED ans
  PROVE  Gave(<<>>)
<1>1. \A r \in Request : Len(ans[r]) \in Nat
  BY LenProperties
<1> QED BY <1>1, HitNone DEF Gave

-------------------------------------------------------------------------------
(* A device: its lists, what is taken from them and what is answered.      *)

Weight(c, r) == Count(c.send, r) + Count(c.wait, r) + Count(c.report, r)

\* d is what becomes of c when b is answered.
Passes(c, d, b) ==
  /\ d \in Device /\ b \in Batch
  /\ d.ip \in {c.ip, NoIp} /\ d.id \in {c.id, NoId}
  /\ Len(c.send) <= QueueLimit => Len(d.send) <= QueueLimit
  /\ \A r \in Request : Weight(d, r) + Hit(b, r) <= Weight(c, r)

LEMMA Lists ==
  /\ Listed(Item) /\ Listed(Report)
  /\ GetList \in Item /\ GetList.r = NoRequest /\ Report \subseteq [r : Request, k : Kind, res : {0, 6}]
<1>1. Listed(Report)
  BY DEF Report, Listed
<1>2. GetList.r = NoRequest /\ GetList.res = 0
  BY DEF GetList
<1>3. Listed(Item)
  BY <1>2 DEF Item, Listed
<1> QED BY <1>1, <1>2, <1>3 DEF Item, Report, Kind

LEMMA DeviceIs ==
  ASSUME NEW c \in Device
  PROVE  /\ c.send \in Seq(Item) /\ c.wait \in Seq(Item) /\ c.report \in Seq(Report)
         /\ Len(c.send) \in Nat
         /\ \A r : /\ Count(c.send, r) \in Nat /\ Count(c.wait, r) \in Nat
                   /\ Count(c.report, r) \in Nat /\ Weight(c, r) \in Nat
<1>1. c.send \in Seq(Item) /\ c.wait \in Seq(Item) /\ c.report \in Seq(Report)
  BY DEF Device
<1>2. \A r : Count(c.send, r) \in Nat /\ Count(c.wait, r) \in Nat /\ Count(c.report, r) \in Nat
  BY <1>1, CountNat
<1> QED BY <1>1, <1>2, LenProperties DEF Weight

LEMMA PassesOn ==
  ASSUME NEW c \in Device, NEW d, NEW e, NEW a, NEW b, Passes(c, d, a), Passes(d, e, b)
  PROVE  Passes(c, e, a \o b)
<1>1. /\ d \in Device /\ e \in Device /\ a \in Batch /\ b \in Batch
      /\ e.ip \in {c.ip, NoIp} /\ e.id \in {c.id, NoId}
      /\ Len(c.send) <= QueueLimit => Len(e.send) <= QueueLimit
  BY DEF Passes
<1>2. a \o b \in Batch
  BY <1>1, HitConcat
<1>3. ASSUME NEW r \in Request PROVE Weight(e, r) + Hit(a \o b, r) <= Weight(c, r)
  <2>1. PICK wc, wd, we, ha, hb, hc :
          /\ wc = Weight(c, r) /\ wd = Weight(d, r) /\ we = Weight(e, r)
          /\ ha = Hit(a, r) /\ hb = Hit(b, r) /\ hc = Hit(a \o b, r)
    OBVIOUS
  <2>2. /\ wc \in Nat /\ wd \in Nat /\ we \in Nat /\ ha \in Nat /\ hb \in Nat /\ hc \in Nat
    BY <1>1, <1>2, <2>1, DeviceIs, HitNat
  <2>3. wd + ha <= wc /\ we + hb <= wd /\ hc <= ha + hb
    BY <1>1, <2>1, HitConcat DEF Passes
  <2>4. we + hc <= wc
    BY <2>2, <2>3
  <2> QED BY <2>1, <2>4
<1> QED BY <1>1, <1>2, <1>3 DEF Passes

\* Only the flags change.
LEMMA PassesSame ==
  ASSUME NEW c \in Device, NEW d, NEW e \in Device, NEW a, Passes(c, d, a),
         e.send = d.send, e.wait = d.wait, e.report = d.report, e.ip = d.ip, e.id = d.id
  PROVE  Passes(c, e, a)
BY DEF Passes, Weight

LEMMA PassesNothing ==
  ASSUME NEW c \in Device
  PROVE  Passes(c, c, <<>>)
<1>1. \A r \in Request : Weight(c, r) \in Nat /\ Hit(<<>>, r) = 0
  BY DeviceIs, HitNone
<1>2. \A r \in Request : Weight(c, r) + Hit(<<>>, r) <= Weight(c, r)
  BY <1>1
<1> QED BY <1>2, HitNone DEF Passes

\* Three answers one after the other, from three lists.
LEMMA Three ==
  ASSUME NEW a \in Batch, NEW b \in Batch, NEW c \in Batch, NEW r
  PROVE  /\ (a \o b) \o c \in Batch /\ Hit((a \o b) \o c, r) \in Nat
         /\ Hit((a \o b) \o c, r) <= Hit(a, r) + Hit(b, r) + Hit(c, r)
<1>1. PICK d : d = a \o b
  OBVIOUS
<1>2. d \in Batch /\ Hit(d, r) <= Hit(a, r) + Hit(b, r)
  BY <1>1, HitConcat
<1>3. d \o c \in Batch /\ Hit(d \o c, r) <= Hit(d, r) + Hit(c, r)
  BY <1>2, HitConcat
<1>4. /\ Hit(a, r) \in Nat /\ Hit(b, r) \in Nat /\ Hit(c, r) \in Nat /\ Hit(d, r) \in Nat
      /\ Hit(d \o c, r) \in Nat
  BY <1>2, <1>3, HitNat
<1> QED BY <1>1, <1>2, <1>3, <1>4

LEMMA FlushedIs ==
  ASSUME NEW c \in Device
  PROVE  /\ Flushed(c) \in Batch
         /\ \A r : Hit(Flushed(c), r) \in Nat
                   /\ Hit(Flushed(c), r) <= Count(c.wait, r) + Count(c.report, r)
<1>1. c.wait \in Seq(Item) /\ c.report \in Seq(Report)
  BY DeviceIs
<1>2. AllWith(c.wait, 2) \in Batch /\ \A r : Hit(AllWith(c.wait, 2), r) = Count(c.wait, r)
  BY <1>1, HitAll, Lists
<1>3. Results(c.report) \in Batch /\ \A r : Hit(Results(c.report), r) = Count(c.report, r)
  BY <1>1, HitResults, Lists
<1>4. Flushed(c) \in Batch
  BY <1>2, <1>3, HitConcat DEF Flushed
<1>5. ASSUME NEW r PROVE Hit(Flushed(c), r) <= Count(c.wait, r) + Count(c.report, r)
  BY <1>2, <1>3, HitConcat DEF Flushed
<1> QED BY <1>4, <1>5, HitNat

LEMMA RemainingIs ==
  ASSUME NEW c \in Device
  PROVE  /\ Remaining(c) \in Batch
         /\ \A r : Hit(Remaining(c), r) \in Nat /\ Hit(Remaining(c), r) <= Weight(c, r)
<1>1. c.send \in Seq(Item) /\ c.wait \in Seq(Item) /\ c.report \in Seq(Report)
  BY DeviceIs
<1>2. /\ AllWith(c.send, 2) \in Batch /\ \A r : Hit(AllWith(c.send, 2), r) = Count(c.send, r)
      /\ AllWith(c.wait, 2) \in Batch /\ \A r : Hit(AllWith(c.wait, 2), r) = Count(c.wait, r)
  BY <1>1, HitAll, Lists
<1>3. Results(c.report) \in Batch /\ \A r : Hit(Results(c.report), r) = Count(c.report, r)
  BY <1>1, HitResults, Lists
<1>4. Remaining(c) \in Batch
  BY <1>2, <1>3, Three DEF Remaining
<1>5. ASSUME NEW r PROVE Hit(Remaining(c), r) \in Nat /\ Hit(Remaining(c), r) <= Weight(c, r)
  BY <1>2, <1>3, Three DEF Remaining, Weight
<1> QED BY <1>4, <1>5

LEMMA CleanedPasses ==
  ASSUME NEW c \in Device, NEW od
  PROVE  Passes(c, Cleaned(c, od), CleanedAnswers(c, od))
<1>1. c.send \in Seq(Item) /\ c.wait \in Seq(Item) /\ c.report \in Seq(Report) /\ Len(c.send) \in Nat
  BY DeviceIs
<1>2. PICK s, w, p, so, wo, po :
        /\ s = Without(c.send, od[1]) /\ so = Only(c.send, od[1])
        /\ w = Without(c.wait, od[2]) /\ wo = Only(c.wait, od[2])
        /\ p = Without(c.report, od[3]) /\ po = Only(c.report, od[3])
  OBVIOUS
<1>3. /\ s \in Seq(Item) /\ w \in Seq(Item) /\ p \in Seq(Report)
      /\ so \in Seq(Item) /\ wo \in Seq(Item) /\ po \in Seq(Report)
      /\ Len(s) <= Len(c.send) /\ Len(s) \in Nat
  BY <1>1, <1>2, OnlyIs, LenProperties DEF Without
<1>4. \A r : /\ Count(so, r) + Count(s, r) <= Count(c.send, r)
             /\ Count(wo, r) + Count(w, r) <= Count(c.wait, r)
             /\ Count(po, r) + Count(p, r) <= Count(c.report, r)
  BY <1>1, <1>2, CountSplit
<1>5. PICK d : d = Cleaned(c, od)
  OBVIOUS
<1>6. /\ d \in Device /\ d.ip = c.ip /\ d.id = c.id
      /\ d.send = s /\ d.wait = w /\ d.report = p
  <2>1. d = [c EXCEPT !.send = s, !.wait = w, !.report = p]
    BY <1>2, <1>5 DEF Cleaned, Device
  <2> QED BY <1>3, <2>1 DEF Device
<1>7. PICK b : b = CleanedAnswers(c, od)
  OBVIOUS
<1>8. b = (AllWith(so, 2) \o AllWith(wo, 2)) \o Results(po)
  BY <1>2, <1>7 DEF CleanedAnswers
<1>9. /\ AllWith(so, 2) \in Batch /\ \A r : Hit(AllWith(so, 2), r) = Count(so, r)
      /\ AllWith(wo, 2) \in Batch /\ \A r : Hit(AllWith(wo, 2), r) = Count(wo, r)
  BY <1>3, HitAll, Lists
<1>10. Results(po) \in Batch /\ \A r : Hit(Results(po), r) = Count(po, r)
  BY <1>3, HitResults, Lists
<1>11. b \in Batch /\ \A r : Hit(b, r) \in Nat /\ Hit(b, r) <= Count(so, r) + Count(wo, r) + Count(po, r)
  BY <1>8, <1>9, <1>10, Three
<1>12. ASSUME NEW r \in Request PROVE Weight(d, r) + Hit(b, r) <= Weight(c, r)
  <2>1. /\ Count(so, r) \in Nat /\ Count(wo, r) \in Nat /\ Count(po, r) \in Nat
        /\ Count(s, r) \in Nat /\ Count(w, r) \in Nat /\ Count(p, r) \in Nat
        /\ Count(c.send, r) \in Nat /\ Count(c.wait, r) \in Nat /\ Count(c.report, r) \in Nat
    BY <1>1, <1>3, CountNat
  <2>2. Weight(d, r) = Count(s, r) + Count(w, r) + Count(p, r)
    BY <1>6 DEF Weight
  <2> QED BY <1>4, <1>11, <2>1, <2>2 DEF Weight
<1>13. Len(c.send) <= QueueLimit => Len(d.send) <= QueueLimit
  BY <1>1, <1>3, <1>6, IotWifiAssumption
<1> QED BY <1>5, <1>6, <1>7, <1>11, <1>12, <1>13 DEF Passes

LEMMA SentPasses ==
  ASSUME NEW c \in Device, c.send # <<>>, NEW w
  PROVE  Passes(c, Sent(c, w), SentAnswers(c, w))
<1>1. c.send \in Seq(Item) /\ c.wait \in Seq(Item) /\ Len(c.send) \in Nat
  BY DeviceIs
<1>2. PICK s, e : s = Tail(c.send) /\ e = Head(c.send)
  OBVIOUS
<1>3. s \in Seq(Item) /\ e \in Item /\ Len(s) \in Nat /\ Len(s) <= Len(c.send)
  BY <1>1, <1>2, HeadTailProperties, LenProperties
<1>4. PICK n \in Seq(Item) : n = IF w = "error" THEN c.wait ELSE Append(c.wait, e)
  BY <1>1, <1>3, AppendProperties
<1>5. PICK d, b : d = Sent(c, w) /\ b = SentAnswers(c, w)
  OBVIOUS
<1>6. /\ d \in Device /\ d.ip = c.ip /\ d.id = c.id
      /\ d.send = s /\ d.wait = n /\ d.report = c.report
  <2>1. PICK re \in BOOLEAN : re = (w # "all")
    OBVIOUS
  <2>2. d = [c EXCEPT !.ready = re, !.send = s, !.wait = n]
    BY <1>2, <1>4, <1>5, <2>1 DEF Sent, Device
  <2> QED BY <1>3, <2>2 DEF Device
<1>7. e.r \in Request \cup {NoRequest}
  BY <1>3, Lists DEF Listed
<1>8. b \in Batch /\ \A r : Hit(b, r) = IF w = "error" THEN One(e.r, r) ELSE 0
  <2>1. CASE w = "error"
    <3>1. b = <<<<e.r, 1>>>> /\ 1 \in 0..6
      BY <1>2, <1>5, <2>1 DEF SentAnswers
    <3> QED BY <1>7, <2>1, <3>1, HitOne
  <2>2. CASE w # "error"
    <3>1. b = <<>>
      BY <1>5, <2>2 DEF SentAnswers
    <3> QED BY <2>2, <3>1, HitNone
  <2> QED BY <2>1, <2>2
<1>9. ASSUME NEW r \in Request PROVE Weight(d, r) + Hit(b, r) <= Weight(c, r)
  <2>1. Count(s, r) + One(e.r, r) <= Count(c.send, r)
    BY <1>1, <1>2, CountTail
  <2>2. Count(n, r) <= Count(c.wait, r) + (IF w = "error" THEN 0 ELSE One(e.r, r))
    <3>1. Count(c.wait, r) \in Nat
      BY <1>1, CountNat
    <3> QED BY <1>1, <1>3, <1>4, <3>1, CountAppend
  <2>3. /\ Count(s, r) \in Nat /\ Count(n, r) \in Nat /\ Count(c.send, r) \in Nat
        /\ Count(c.wait, r) \in Nat /\ Count(c.report, r) \in Nat
    BY <1>1, <1>3, CountNat, DeviceIs
  <2>4. One(e.r, r) \in Nat
    BY DEF One
  <2>5. Weight(d, r) = Count(s, r) + Count(n, r) + Count(c.report, r)
    BY <1>6 DEF Weight
  <2>6. Hit(b, r) = IF w = "error" THEN One(e.r, r) ELSE 0
    BY <1>8
  <2> QED BY <2>1, <2>2, <2>3, <2>4, <2>5, <2>6, SMTT(30) DEF Weight
<1>10. Len(c.send) <= QueueLimit => Len(d.send) <= QueueLimit
  BY <1>1, <1>3, <1>6, IotWifiAssumption
<1> QED BY <1>5, <1>6, <1>8, <1>9, <1>10 DEF Passes

LEMMA OfflinePasses ==
  ASSUME NEW c \in Device
  PROVE  Passes(c, Offline(c), Flushed(c))
<1>1. PICK d : d = Offline(c)
  OBVIOUS
<1>2. /\ d \in Device /\ d.ip = c.ip /\ d.id = c.id
      /\ d.send = c.send /\ d.wait = <<>> /\ d.report = <<>>
  <2>0. <<>> \in Seq(Item) /\ <<>> \in Seq(Report) /\ FALSE \in BOOLEAN
    OBVIOUS
  <2>1. PICK w, p, on :
          /\ w = <<>> /\ p = <<>> /\ on = FALSE
          /\ w \in Seq(Item) /\ p \in Seq(Report) /\ on \in BOOLEAN
    BY <2>0
  <2>2. d = [c EXCEPT !.online = on, !.wait = w, !.report = p]
    BY <1>1, <2>1 DEF Offline
  <2> QED BY <2>1, <2>2 DEF Device
<1>3. ASSUME NEW r \in Request PROVE Weight(d, r) + Hit(Flushed(c), r) <= Weight(c, r)
  <2>1. Weight(d, r) = Count(c.send, r) + 0 + 0
    BY <1>2, CountEmpty DEF Weight
  <2>2. PICK s, w, p, f : /\ s = Count(c.send, r) /\ w = Count(c.wait, r)
                          /\ p = Count(c.report, r) /\ f = Hit(Flushed(c), r)
    OBVIOUS
  <2>3. s \in Nat /\ w \in Nat /\ p \in Nat /\ f \in Nat /\ f <= w + p
    BY <2>2, DeviceIs, FlushedIs
  <2>4. Weight(c, r) = s + w + p /\ Weight(d, r) = s
    BY <2>1, <2>2, <2>3 DEF Weight
  <2> QED BY <2>2, <2>3, <2>4
<1> QED BY <1>1, <1>2, <1>3, FlushedIs DEF Passes

LEMMA BeatenIs ==
  ASSUME NEW c \in Device, NEW w
  PROVE  /\ Beaten(c, w) \in Device
         /\ Beaten(c, w).send = c.send /\ Beaten(c, w).wait = c.wait
         /\ Beaten(c, w).report = c.report
         /\ Beaten(c, w).ip = c.ip /\ Beaten(c, w).id = c.id
BY DEF Beaten, Device

-------------------------------------------------------------------------------
(* The inductive invariant.                                                *)

\* What the entry of h holds of r.
W(h, r) == IF h \in DOMAIN dev THEN Weight(dev[h], r) ELSE 0

\* What was answered to r, and what has not reached a device.
Given(r) == Len(ans[r]) + Count(msgs, r)

\* A request is once with the module thread, with one device, or answered.  No two
\* devices share one; three would not either.
OnceInv ==
  \A r \in Request :
    /\ r \notin posted => Given(r) = 0 /\ \A h \in Handle : W(h, r) = 0
    /\ Given(r) <= 1
    /\ \A h \in Handle : Given(r) + W(h, r) <= 1
    /\ \A h, o \in Handle : h # o => Given(r) + W(h, r) + W(o, r) <= 1

\* An entry is of an open connection: a callback that finds none makes none.
Connected == DOMAIN dev \subseteq conn

IInv == EntriesInv /\ QueueBounded /\ Connected /\ OnceInv

\* A step writes d to the entry of h; others stay as they are or go.
Writes(h, d) ==
  /\ \A g \in DOMAIN dev' : g # h => g \in DOMAIN dev /\ dev'[g] = dev[g]
  /\ h \in DOMAIN dev' => dev'[h] = d

\* d, for h, is not of a device that has another entry.
Alone(h, d) ==
  \A g \in DOMAIN dev' : g # h => /\ d.id = dev[g].id => d.id = NoId
                                  /\ d.ip = dev[g].ip => d.ip = NoIp

LEMMA Numbers ==
  ASSUME TypeOK, NEW r \in Request
  PROVE  /\ Len(ans[r]) \in Nat /\ Count(msgs, r) \in Nat /\ Given(r) \in Nat
         /\ \A h : W(h, r) \in Nat
<1>1. Len(ans[r]) \in Nat
  <2>1. ans[r] \in Seq(0..6)
    BY DEF TypeOK
  <2> QED BY <2>1, LenProperties
<1>2. Count(msgs, r) \in Nat
  BY CountNat DEF TypeOK
<1>3. ASSUME NEW h PROVE W(h, r) \in Nat
  <2>1. CASE h \in DOMAIN dev
    <3>1. dev[h] \in Device
      BY <2>1 DEF TypeOK
    <3> QED BY <2>1, <3>1, DeviceIs DEF W
  <2>2. CASE h \notin DOMAIN dev
    BY <2>2 DEF W
  <2> QED BY <2>1, <2>2
<1> QED BY <1>1, <1>2, <1>3 DEF Given

LEMMA EntriesNext ==
  ASSUME EntriesInv, QueueBounded, NEW h \in Handle, NEW d, Writes(h, d),
         \A g \in DOMAIN dev' : g \in conn',
         h \in DOMAIN dev' => d \in Device /\ Len(d.send) <= QueueLimit /\ Alone(h, d),
         conn' \in SUBSET Handle, msgs' \in Seq([r : Request, k : Kind, to : Id]),
         posted' \in SUBSET Request, ans' \in [Request -> Seq(0..6)]
  PROVE  EntriesInv' /\ QueueBounded' /\ Connected'
<1>1. \A g \in DOMAIN dev : g \in Handle /\ dev[g] \in Device /\ Len(dev[g].send) <= QueueLimit
  BY DEF EntriesInv, TypeOK, QueueBounded
<1>2. \A g \in DOMAIN dev' : g \in Handle /\ dev'[g] \in Device /\ Len(dev'[g].send) <= QueueLimit
  BY <1>1 DEF Writes
<1>3. TypeOK'
  BY <1>2 DEF TypeOK
<1>4. ASSUME NEW g \in DOMAIN dev', NEW o \in DOMAIN dev', g # o
      PROVE  /\ dev'[g].id = dev'[o].id => dev'[g].id = NoId
             /\ dev'[g].ip = dev'[o].ip => dev'[g].ip = NoIp
  <2>1. CASE g # h /\ o # h
    <3>1. g \in DOMAIN dev /\ o \in DOMAIN dev /\ dev'[g] = dev[g] /\ dev'[o] = dev[o]
      BY <2>1 DEF Writes
    <3> QED BY <1>4, <3>1 DEF EntriesInv, OneEntryPerDevice
  <2>2. CASE g = h
    <3>1. dev'[o] = dev[o] /\ dev'[g] = d
      BY <1>4, <2>2 DEF Writes
    <3> QED BY <1>4, <2>2, <3>1 DEF Alone
  <2>3. CASE o = h
    <3>1. dev'[g] = dev[g] /\ dev'[o] = d
      BY <1>4, <2>3 DEF Writes
    <3> QED BY <1>4, <2>3, <3>1 DEF Alone
  <2> QED BY <2>1, <2>2, <2>3
<1>5. OneEntryPerDevice'
  BY <1>4 DEF OneEntryPerDevice
<1>6. QueueBounded'
  BY <1>2 DEF QueueBounded
<1>7. Connected'
  BY DEF Connected
<1> QED BY <1>3, <1>5, <1>6, <1>7 DEF EntriesInv

\* What h has more, or was answered, h or o had: o = h when no other entry goes.
LEMMA OnceNext ==
  ASSUME TypeOK, TypeOK', OnceInv, UNCHANGED posted,
         NEW h \in Handle, NEW o \in Handle, NEW d, Writes(h, d), o # h => o \notin DOMAIN dev',
         \A r \in Request :
           Given(r)' + W(h, r)' <= Given(r) + W(h, r) + (IF o = h THEN 0 ELSE W(o, r))
  PROVE  OnceInv'
<1> SUFFICES ASSUME NEW r \in Request
    PROVE  /\ r \notin posted' => Given(r)' = 0 /\ \A x \in Handle : W(x, r)' = 0
           /\ Given(r)' <= 1
           /\ \A x \in Handle : Given(r)' + W(x, r)' <= 1
           /\ \A x, y \in Handle : x # y => Given(r)' + W(x, r)' + W(y, r)' <= 1
  BY DEF OnceInv
<1>1. PICK G, H : G = Given(r) /\ H = Given(r)'
  OBVIOUS
<1>2. PICK w : w = [x \in Handle |-> W(x, r)]
  OBVIOUS
<1>3. PICK v : v = [x \in Handle |-> W(x, r)']
  OBVIOUS
<1>4. G \in Nat /\ H \in Nat /\ w \in [Handle -> Nat] /\ v \in [Handle -> Nat]
  <2>1. G \in Nat /\ \A x \in Handle : W(x, r) \in Nat
    BY <1>1, Numbers
  <2>2. H \in Nat /\ \A x \in Handle : W(x, r)' \in Nat
    <3>1. PICK a, m, n : /\ a = ans'[r] /\ m = msgs' /\ n = dev'
                         /\ a \in Seq(0..6) /\ m \in Seq([r : Request, k : Kind, to : Id])
                         /\ \A x \in DOMAIN n : n[x] \in Device
      BY DEF TypeOK
    <3>2. Len(a) \in Nat /\ Count(m, r) \in Nat
      BY <3>1, LenProperties, CountNat
    <3>3. H = Len(a) + Count(m, r)
      BY <1>1, <3>1 DEF Given, Count, Positions
    <3>4. \A x : W(x, r)' = IF x \in DOMAIN n THEN Weight(n[x], r) ELSE 0
      BY <3>1 DEF W, Weight
    <3>5. \A x \in DOMAIN n : Weight(n[x], r) \in Nat
      BY <3>1, DeviceIs
    <3> QED BY <3>2, <3>3, <3>4, <3>5
  <2> QED BY <1>2, <1>3, <2>1, <2>2
<1>5. /\ r \notin posted => G = 0 /\ \A x \in Handle : w[x] = 0
      /\ G <= 1 /\ \A x \in Handle : G + w[x] <= 1
      /\ \A x, y \in Handle : x # y => G + w[x] + w[y] <= 1
  BY <1>1, <1>2 DEF OnceInv
<1>6. ASSUME NEW x \in Handle, x # h PROVE v[x] <= w[x] /\ (x = o => v[x] = 0)
  <2>1. v[x] = IF x \in DOMAIN dev' THEN Weight(dev'[x], r) ELSE 0
    BY <1>3 DEF W, Weight
  <2>2. w[x] = IF x \in DOMAIN dev THEN Weight(dev[x], r) ELSE 0
    BY <1>2 DEF W
  <2>3. CASE x \in DOMAIN dev'
    <3>1. x \in DOMAIN dev /\ dev'[x] = dev[x] /\ x # o
      BY <1>6, <2>3 DEF Writes
    <3>2. v[x] = w[x]
      BY <2>1, <2>2, <2>3, <3>1
    <3> QED BY <1>4, <3>1, <3>2
  <2>4. CASE x \notin DOMAIN dev'
    <3>1. v[x] = 0
      BY <2>1, <2>4
    <3> QED BY <1>4, <3>1
  <2> QED BY <2>3, <2>4
<1>7. PICK l : l = IF o = h THEN 0 ELSE w[o]
  OBVIOUS
<1>8. H + v[h] <= G + w[h] + l
  BY <1>1, <1>2, <1>3, <1>7
<1>9. l \in Nat /\ w[h] \in Nat /\ v[h] \in Nat /\ \A x \in Handle : w[x] \in Nat /\ v[x] \in Nat
  BY <1>4, <1>7
<1>10. G + w[h] + l <= 1
  BY <1>4, <1>5, <1>7, <1>9
<1>11. ASSUME NEW x \in Handle, x # h, x # o PROVE G + w[h] + l + w[x] <= 1
  <2>1. G + w[h] + w[x] <= 1 /\ (o # h => G + w[o] + w[x] <= 1 /\ G + w[h] + w[o] <= 1)
    BY <1>5, <1>11
  <2> QED BY <1>4, <1>7, <1>9, <2>1
<1>12. ASSUME NEW x \in Handle, NEW y \in Handle, x # y, x # h, y # h, x # o, y # o
       PROVE  G + w[h] + l + w[x] + w[y] <= 1
  <2>1. /\ G + w[h] + l + w[x] <= 1 /\ G + w[h] + l + w[y] <= 1 /\ G + w[x] + w[y] <= 1
    BY <1>5, <1>11, <1>12
  <2> QED BY <1>4, <1>9, <2>1
<1>13. ASSUME NEW x \in Handle, x # h PROVE H + v[h] + v[x] <= 1
  <2>1. CASE x = o
    BY <1>4, <1>6, <1>8, <1>9, <1>10, <1>13, <2>1
  <2>2. CASE x # o
    BY <1>4, <1>6, <1>8, <1>9, <1>11, <1>13, <2>2
  <2> QED BY <2>1, <2>2
<1>14. ASSUME NEW x \in Handle, NEW y \in Handle, x # y PROVE H + v[x] + v[y] <= 1
  <2>1. CASE x = h \/ y = h
    <3>1. H + v[x] + v[y] = H + v[y] + v[x]
      BY <1>4, <1>9
    <3> QED BY <1>13, <1>14, <2>1, <3>1
  <2>2. CASE x # h /\ y # h /\ (x = o \/ y = o)
    <3>1. PICK z \in Handle : z # h /\ H + v[x] + v[y] = H + v[z]
      <4>1. CASE x = o
        <5>1. v[x] = 0
          BY <1>6, <2>2, <4>1
        <5> QED BY <1>4, <1>9, <2>2, <5>1
      <4>2. CASE y = o
        <5>1. v[y] = 0
          BY <1>6, <2>2, <4>2
        <5> QED BY <1>4, <1>9, <2>2, <5>1
      <4> QED BY <2>2, <4>1, <4>2
    <3>2. H + v[h] + v[z] <= 1
      BY <1>13, <3>1
    <3> QED BY <1>4, <1>9, <3>1, <3>2
  <2>3. CASE x # h /\ y # h /\ x # o /\ y # o
    <3>1. v[x] <= w[x] /\ v[y] <= w[y]
      BY <1>6, <2>3
    <3>2. G + w[h] + l + w[x] + w[y] <= 1
      BY <1>12, <1>14, <2>3
    <3> QED BY <1>4, <1>8, <1>9, <3>1, <3>2
  <2> QED BY <2>1, <2>2, <2>3
<1>15. H <= 1 /\ \A x \in Handle : H + v[x] <= 1
  <2>1. H + v[h] <= 1
    BY <1>4, <1>8, <1>9, <1>10
  <2>2. ASSUME NEW x \in Handle, x # h PROVE H + v[x] <= 1
    BY <1>4, <1>9, <1>13, <2>2
  <2> QED BY <1>4, <1>9, <2>1, <2>2
<1>16. r \notin posted' => H = 0 /\ \A x \in Handle : v[x] = 0
  <2> SUFFICES ASSUME r \notin posted PROVE H = 0 /\ \A x \in Handle : v[x] = 0
    OBVIOUS
  <2>1. G = 0 /\ l = 0 /\ \A x \in Handle : w[x] = 0
    BY <1>5, <1>7
  <2>2. H = 0 /\ v[h] = 0
    BY <1>4, <1>8, <1>9, <2>1
  <2>3. ASSUME NEW x \in Handle, x # h PROVE v[x] = 0
    BY <1>6, <1>9, <2>1, <2>3
  <2> QED BY <2>2, <2>3
<1>17. \A x \in Handle : W(x, r)' = v[x]
  BY <1>3
<1> QED BY <1>1, <1>14, <1>15, <1>16, <1>17

\* The entry of h is written, that of o may go, b is answered.
LEMMA Changed ==
  ASSUME IInv, NEW h \in Handle, NEW o \in Handle, NEW d, NEW b \in Batch,
         Writes(h, d), o # h => o \notin DOMAIN dev',
         h \in DOMAIN dev' => d \in Device /\ Len(d.send) <= QueueLimit /\ Alone(h, d),
         \A g \in DOMAIN dev' : g \in conn',
         conn' \in SUBSET Handle, UNCHANGED <<msgs, posted>>, Gave(b),
         \A r \in Request : (IF h \in DOMAIN dev' THEN Weight(d, r) ELSE 0) + Hit(b, r)
                              <= W(h, r) + (IF o = h THEN 0 ELSE W(o, r))
  PROVE  IInv'
<1>0. TypeOK /\ EntriesInv /\ QueueBounded /\ OnceInv
  BY DEF IInv, EntriesInv
<1>1. EntriesInv' /\ QueueBounded' /\ Connected'
  <2>1. /\ msgs' \in Seq([r : Request, k : Kind, to : Id])
        /\ posted' \in SUBSET Request /\ ans' \in [Request -> Seq(0..6)]
    BY <1>0 DEF TypeOK, Gave
  <2> QED BY <1>0, <2>1, EntriesNext
<1>2. ASSUME NEW r \in Request
      PROVE  Given(r)' + W(h, r)' <= Given(r) + W(h, r) + (IF o = h THEN 0 ELSE W(o, r))
  <2>1. PICK a, m, n, v, w, l :
          /\ a = Len(ans[r]) /\ m = Count(msgs, r) /\ n = Hit(b, r)
          /\ v = (IF h \in DOMAIN dev' THEN Weight(d, r) ELSE 0)
          /\ w = W(h, r) /\ l = (IF o = h THEN 0 ELSE W(o, r))
    OBVIOUS
  <2>2. a \in Nat /\ m \in Nat /\ n \in Nat /\ w \in Nat /\ l \in Nat
    BY <1>0, <2>1, Numbers, HitNat
  <2>3. v \in Nat
    BY <2>1, DeviceIs
  <2>4. v + n <= w + l
    BY <2>1
  <2>5. Given(r) = a + m
    BY <2>1 DEF Given
  <2>6. Given(r)' = (a + n) + m
    BY <2>1 DEF Given, Gave, Count, Positions
  <2>7. W(h, r)' = v
    BY <2>1 DEF W, Weight, Writes
  <2>8. ((a + n) + m) + v <= (a + m) + w + l
    BY <2>2, <2>3, <2>4
  <2> QED BY <2>1, <2>5, <2>6, <2>7, <2>8
<1>3. TypeOK'
  BY <1>1 DEF EntriesInv
<1>4. OnceInv'
  BY <1>0, <1>2, <1>3, OnceNext
<1> QED BY <1>1, <1>4 DEF IInv

\* A device goes on: b is answered, the others stay.
LEMMA Updated ==
  ASSUME IInv, NEW h \in DOMAIN dev, NEW d, NEW b, dev' = [dev EXCEPT ![h] = d],
         Passes(dev[h], d, b), Gave(b), UNCHANGED <<conn, msgs, posted>>
  PROVE  IInv'
<1>1. /\ h \in Handle /\ dev[h] \in Device /\ h \in conn /\ Len(dev[h].send) <= QueueLimit
      /\ conn \in SUBSET Handle /\ \A g \in DOMAIN dev : g \in conn
  BY DEF IInv, EntriesInv, TypeOK, QueueBounded, Connected
<1>2. DOMAIN dev' = DOMAIN dev /\ dev'[h] = d /\ \A g \in DOMAIN dev : g # h => dev'[g] = dev[g]
  OBVIOUS
<1>3. Writes(h, d)
  BY <1>2 DEF Writes
<1>4. /\ d \in Device /\ Len(d.send) <= QueueLimit /\ b \in Batch
      /\ d.ip \in {dev[h].ip, NoIp} /\ d.id \in {dev[h].id, NoId}
  BY <1>1 DEF Passes
<1>5. Alone(h, d)
  <2>1. \A g \in DOMAIN dev : g # h => /\ dev[h].id = dev[g].id => dev[h].id = NoId
                                       /\ dev[h].ip = dev[g].ip => dev[h].ip = NoIp
    BY DEF IInv, EntriesInv, OneEntryPerDevice
  <2> QED BY <1>2, <1>4, <2>1 DEF Alone
<1>6. ASSUME NEW r \in Request
      PROVE  (IF h \in DOMAIN dev' THEN Weight(d, r) ELSE 0) + Hit(b, r) <= W(h, r) + 0
  <2>1. Weight(d, r) + Hit(b, r) <= W(h, r)
    BY DEF Passes, W
  <2>2. W(h, r) + 0 = W(h, r)
    BY Numbers DEF IInv, EntriesInv
  <2> QED BY <1>2, <2>1, <2>2
<1>7. /\ \A g \in DOMAIN dev' : g \in conn'
      /\ conn' \in SUBSET Handle /\ UNCHANGED <<msgs, posted>>
  BY <1>1, <1>2
<1>8. \A r \in Request : (IF h \in DOMAIN dev' THEN Weight(d, r) ELSE 0) + Hit(b, r)
                           <= W(h, r) + (IF h = h THEN 0 ELSE W(h, r))
  BY <1>6
<1> QED BY <1>1, <1>3, <1>4, <1>5, <1>7, <1>8, Changed

\* Only the module thread's queue and the answers change.
LEMMA OnceSame ==
  ASSUME TypeOK, OnceInv, UNCHANGED <<dev, posted>>,
         \A r \in Request : Given(r)' \in Nat /\ Given(r)' <= Given(r)
  PROVE  OnceInv'
<1>1. \A r \in Request, h \in Handle : W(h, r)' = W(h, r)
  BY DEF W, Weight
<1>2. \A r \in Request : Given(r) \in Nat /\ \A h \in Handle : W(h, r) \in Nat
  BY Numbers
<1> SUFFICES ASSUME NEW r \in Request
    PROVE  /\ r \notin posted' => Given(r)' = 0 /\ \A x \in Handle : W(x, r)' = 0
           /\ Given(r)' <= 1
           /\ \A x \in Handle : Given(r)' + W(x, r)' <= 1
           /\ \A x, y \in Handle : x # y => Given(r)' + W(x, r)' + W(y, r)' <= 1
  BY DEF OnceInv
<1>3. PICK G, H, w : G = Given(r) /\ H = Given(r)' /\ w = [x \in Handle |-> W(x, r)]
  OBVIOUS
<1>4. G \in Nat /\ H \in Nat /\ H <= G /\ w \in [Handle -> Nat]
  BY <1>2, <1>3
<1>5. /\ r \notin posted => G = 0 /\ \A x \in Handle : w[x] = 0
      /\ G <= 1 /\ \A x \in Handle : G + w[x] <= 1
      /\ \A x, y \in Handle : x # y => G + w[x] + w[y] <= 1
  BY <1>3 DEF OnceInv
<1>6. /\ r \notin posted => H = 0 /\ \A x \in Handle : w[x] = 0
      /\ H <= 1 /\ \A x \in Handle : H + w[x] <= 1
      /\ \A x, y \in Handle : x # y => H + w[x] + w[y] <= 1
  BY <1>4, <1>5
<1>7. \A x \in Handle : W(x, r)' = w[x]
  BY <1>1, <1>3
<1> QED BY <1>3, <1>6, <1>7

-------------------------------------------------------------------------------
(* The module thread.                                                      *)

Message == [r : Request, k : Kind, to : Id]

LEMMA SetProcessDataKeeps ==
  ASSUME IInv, NEW q \in Request, NEW k \in ClientKind, NEW id \in Id, SetProcessData(q, k, id)
  PROVE  IInv'
<1>0. TypeOK /\ EntriesInv /\ QueueBounded /\ OnceInv /\ msgs \in Seq(Message)
  BY DEF IInv, EntriesInv, TypeOK, Message
<1>1. PICK m \in Message : m = [r |-> q, k |-> k, to |-> id]
  BY IotWifiAssumption DEF Message
<1>2. /\ q \notin posted /\ posted' = posted \cup {q} /\ msgs' = Append(msgs, m)
      /\ UNCHANGED <<dev, conn, ans>> /\ m.r = q
  BY <1>1 DEF SetProcessData
<1>3. msgs' \in Seq(Message)
  BY <1>0, <1>2, AppendProperties
<1>4. EntriesInv' /\ QueueBounded' /\ Connected'
  BY <1>2, <1>3 DEF IInv, EntriesInv, TypeOK, OneEntryPerDevice, QueueBounded, Connected, Message
<1>5. ASSUME NEW r \in Request
      PROVE  /\ Given(r)' \in Nat /\ Given(r)' <= Given(r) + One(q, r)
             /\ \A h : W(h, r)' = W(h, r)
  <2>1. Count(msgs', r) <= Count(msgs, r) + One(q, r) /\ Count(msgs', r) \in Nat
    BY <1>0, <1>2, <1>3, CountAppend, CountNat
  <2>2. Len(ans[r]) \in Nat /\ Count(msgs, r) \in Nat
    BY <1>0, Numbers
  <2>3. Given(r)' = Len(ans[r]) + Count(msgs', r)
    BY <1>2 DEF Given, Count, Positions
  <2>4. One(q, r) \in Nat
    BY DEF One
  <2>5. \A h : W(h, r)' = W(h, r)
    BY <1>2 DEF W, Weight
  <2> QED BY <2>1, <2>2, <2>3, <2>4, <2>5, SMTT(30) DEF Given
<1>6. OnceInv'
  <2> SUFFICES ASSUME NEW r \in Request
      PROVE  /\ r \notin posted' => Given(r)' = 0 /\ \A x \in Handle : W(x, r)' = 0
             /\ Given(r)' <= 1
             /\ \A x \in Handle : Given(r)' + W(x, r)' <= 1
             /\ \A x, y \in Handle : x # y => Given(r)' + W(x, r)' + W(y, r)' <= 1
    BY DEF OnceInv
  <2>1. PICK G, H, w : G = Given(r) /\ H = Given(r)' /\ w = [x \in Handle |-> W(x, r)]
    OBVIOUS
  <2>2. G \in Nat /\ H \in Nat /\ w \in [Handle -> Nat] /\ \A x \in Handle : W(x, r)' = w[x]
    BY <1>0, <1>5, <2>1, Numbers
  <2>3. /\ r \notin posted => G = 0 /\ \A x \in Handle : w[x] = 0
        /\ G <= 1 /\ \A x \in Handle : G + w[x] <= 1
        /\ \A x, y \in Handle : x # y => G + w[x] + w[y] <= 1
    BY <1>0, <2>1 DEF OnceInv
  <2>4. CASE r = q
    <3>1. G = 0 /\ H <= 1 /\ r \in posted' /\ \A x \in Handle : w[x] = 0
      BY <1>2, <1>5, <2>1, <2>2, <2>3, <2>4 DEF One
    <3> QED BY <2>1, <2>2, <3>1
  <2>5. CASE r # q
    <3>1. H <= G /\ (r \notin posted' => r \notin posted)
      BY <1>2, <1>5, <2>1, <2>2, <2>5 DEF One
    <3>2. /\ r \notin posted' => H = 0 /\ \A x \in Handle : w[x] = 0
          /\ H <= 1 /\ \A x \in Handle : H + w[x] <= 1
          /\ \A x, y \in Handle : x # y => H + w[x] + w[y] <= 1
      BY <2>2, <2>3, <3>1
    <3> QED BY <2>1, <2>2, <3>2
  <2> QED BY <2>4, <2>5
<1> QED BY <1>4, <1>6 DEF IInv

\* The request leaves the queue: it is answered or joins the list of a device.
LEMMA MsgProcessKeeps ==
  ASSUME IInv, msg_process
  PROVE  IInv'
<1>0. TypeOK /\ EntriesInv /\ QueueBounded /\ Connected /\ OnceInv /\ msgs \in Seq(Message)
  BY DEF IInv, EntriesInv, TypeOK, Message
<1>1. msgs # <<>> /\ msgs' = Tail(msgs) /\ UNCHANGED <<conn, posted>>
  BY DEF msg_process
<1>2. PICK m \in Message : m = Head(msgs)
  BY <1>0, <1>1, HeadTailProperties
<1>3. msgs' \in Seq(Message) /\ m.r \in Request
  BY <1>0, <1>1, HeadTailProperties DEF Message
<1>4. ASSUME NEW r \in Request
      PROVE  /\ Count(msgs', r) \in Nat /\ Count(msgs, r) \in Nat
             /\ Count(msgs', r) + One(m.r, r) <= Count(msgs, r)
  BY <1>0, <1>1, <1>2, <1>3, CountTail, CountNat
<1>5. ASSUME NEW code \in 0..6, Answer(<<<<m.r, code>>>>), UNCHANGED dev
      PROVE  IInv'
  <2>1. <<<<m.r, code>>>> \in Batch /\ \A r : Hit(<<<<m.r, code>>>>, r) = One(m.r, r)
    BY <1>3, HitOne
  <2>2. Gave(<<<<m.r, code>>>>)
    BY <1>0, <1>5, <2>1, AnswerGives DEF TypeOK
  <2>3. EntriesInv' /\ QueueBounded' /\ Connected'
    BY <1>0, <1>1, <1>3, <1>5, <2>2
    DEF EntriesInv, TypeOK, OneEntryPerDevice, QueueBounded, Connected, Message, Gave
  <2>4. ASSUME NEW r \in Request PROVE Given(r)' \in Nat /\ Given(r)' <= Given(r)
    <3>1. Len(ans'[r]) = Len(ans[r]) + One(m.r, r) /\ Len(ans[r]) \in Nat
      BY <1>0, <2>1, <2>2, Numbers DEF Gave
    <3>2. Given(r)' = Len(ans'[r]) + Count(msgs', r)
      BY DEF Given, Count, Positions
    <3>3. One(m.r, r) \in Nat
      BY DEF One
    <3>4. PICK a, o, p, s : /\ a = Len(ans[r]) /\ o = One(m.r, r) /\ p = Count(msgs', r)
                            /\ s = Count(msgs, r)
      OBVIOUS
    <3>5. /\ a \in Nat /\ o \in Nat /\ p \in Nat /\ s \in Nat /\ p + o <= s
      BY <1>4, <3>1, <3>3, <3>4
    <3>6. Given(r) = a + s /\ Given(r)' = (a + o) + p
      BY <3>1, <3>2, <3>4 DEF Given
    <3> QED BY <3>5, <3>6
  <2>5. OnceInv'
    BY <1>0, <1>1, <1>5, <2>4, OnceSame
  <2> QED BY <2>3, <2>5 DEF IInv
<1>6. ASSUME NEW h \in DOMAIN dev, Len(dev[h].send) < QueueLimit, UNCHANGED ans,
             dev' = [dev EXCEPT ![h].send = Append(@, [r |-> m.r, k |-> m.k, res |-> 0])]
      PROVE  IInv'
  <2>1. PICK e \in Item : e = [r |-> m.r, k |-> m.k, res |-> 0] /\ e.r = m.r
    <3>1. m.r \in Request /\ m.k \in Kind
      BY <1>2 DEF Message
    <3>2. [r |-> m.r, k |-> m.k, res |-> 0] \in [r : Request, k : Kind, res : {0}]
      BY <3>1
    <3>3. [r |-> m.r, k |-> m.k, res |-> 0].r = m.r
      OBVIOUS
    <3>4. [r |-> m.r, k |-> m.k, res |-> 0] \in Item
      BY <3>2 DEF Item
    <3> QED BY <3>3, <3>4
  <2>2. /\ h \in Handle /\ dev[h] \in Device /\ dev[h].send \in Seq(Item)
    BY <1>0, DeviceIs DEF TypeOK
  <2>3. PICK s : s = Append(dev[h].send, e)
    OBVIOUS
  <2>4. s \in Seq(Item) /\ Len(s) = Len(dev[h].send) + 1 /\ Len(dev[h].send) \in Nat
    BY <2>2, <2>3, AppendProperties, LenProperties
  <2>5. PICK d : d = [dev[h] EXCEPT !.send = s]
    OBVIOUS
  <2>6. /\ d \in Device /\ d.send = s /\ d.wait = dev[h].wait /\ d.report = dev[h].report
        /\ d.ip = dev[h].ip /\ d.id = dev[h].id
    BY <2>2, <2>4, <2>5 DEF Device
  <2>7. dev' = [dev EXCEPT ![h] = d]
    BY <1>6, <2>1, <2>3, <2>5
  <2>8. DOMAIN dev' = DOMAIN dev /\ dev'[h] = d /\ \A g \in DOMAIN dev : g # h => dev'[g] = dev[g]
    BY <2>7
  <2>9. Writes(h, d)
    BY <2>8 DEF Writes
  <2>10. Alone(h, d)
    BY <1>0, <2>6, <2>8 DEF Alone, EntriesInv, OneEntryPerDevice
  <2>11. Len(d.send) <= QueueLimit
    BY <1>6, <2>4, <2>6, IotWifiAssumption
  <2>12. EntriesInv' /\ QueueBounded' /\ Connected'
    <3>1. /\ \A g \in DOMAIN dev' : g \in conn'
          /\ conn' \in SUBSET Handle /\ msgs' \in Seq([r : Request, k : Kind, to : Id])
          /\ posted' \in SUBSET Request /\ ans' \in [Request -> Seq(0..6)]
      BY <1>0, <1>1, <1>3, <1>6, <2>8 DEF TypeOK, Connected, Message
    <3> QED BY <1>0, <2>2, <2>6, <2>9, <2>10, <2>11, <3>1, EntriesNext
  <2>13. ASSUME NEW r \in Request PROVE Given(r)' + W(h, r)' <= Given(r) + W(h, r) + 0
    <3>1. PICK a, o, p, t, n, v, x, y :
            /\ a = Len(ans[r]) /\ o = One(m.r, r) /\ p = Count(msgs', r) /\ t = Count(msgs, r)
            /\ n = Count(s, r) /\ v = Count(dev[h].send, r)
            /\ x = Count(dev[h].wait, r) /\ y = Count(dev[h].report, r)
      OBVIOUS
    <3>2. /\ a \in Nat /\ o \in Nat /\ p \in Nat /\ t \in Nat /\ n \in Nat /\ v \in Nat
          /\ x \in Nat /\ y \in Nat
      BY <1>0, <1>4, <2>2, <2>4, <3>1, Numbers, CountNat, DeviceIs DEF One
    <3>3. p + o <= t /\ n <= v + o
      BY <1>4, <2>1, <2>2, <2>3, <3>1, CountAppend
    <3>4. Given(r) = a + t /\ Given(r)' = a + p
      BY <1>6, <3>1 DEF Given, Count, Positions
    <3>5. W(h, r) = v + x + y
      BY <3>1 DEF W, Weight
    <3>6. W(h, r)' = n + x + y
      BY <2>6, <2>8, <3>1 DEF W, Weight
    <3> QED BY <3>2, <3>3, <3>4, <3>5, <3>6
  <2>14. \A r \in Request :
           Given(r)' + W(h, r)' <= Given(r) + W(h, r) + (IF h = h THEN 0 ELSE W(h, r))
    BY <2>13
  <2>15. TypeOK'
    BY <2>12 DEF EntriesInv
  <2>16. OnceInv'
    BY <1>0, <1>1, <2>2, <2>9, <2>14, <2>15, OnceNext
  <2> QED BY <2>12, <2>16 DEF IInv
<1>7. PICK f : f = {h \in DOMAIN dev : dev[h].id = m.to}
  OBVIOUS
<1>8. CASE f = {}
  <2>1. Answer(<<<<m.r, 3>>>>) /\ UNCHANGED dev
    BY <1>2, <1>7, <1>8 DEF msg_process
  <2> QED BY <1>5, <2>1
<1>9. CASE f # {}
  <2>1. PICK h \in f :
          \/ Answer(<<<<m.r, 4>>>>) /\ UNCHANGED dev
          \/ Answer(<<<<m.r, 5>>>>) /\ UNCHANGED dev
          \/ /\ ~(Len(dev[h].send) >= QueueLimit) /\ UNCHANGED ans
             /\ dev' = [dev EXCEPT ![h].send = Append(@, [r |-> m.r, k |-> m.k, res |-> 0])]
    BY <1>2, <1>7, <1>9 DEF msg_process
  <2>2. h \in DOMAIN dev /\ Len(dev[h].send) \in Nat
    BY <1>0, <1>7, DeviceIs DEF TypeOK
  <2>3. ~(Len(dev[h].send) >= QueueLimit) => Len(dev[h].send) < QueueLimit
    BY <2>2, IotWifiAssumption
  <2>4. 4 \in 0..6 /\ 5 \in 0..6
    OBVIOUS
  <2>5. CASE Answer(<<<<m.r, 4>>>>) /\ UNCHANGED dev
    BY <1>5, <2>4, <2>5
  <2>6. CASE Answer(<<<<m.r, 5>>>>) /\ UNCHANGED dev
    BY <1>5, <2>4, <2>6
  <2>7. CASE /\ ~(Len(dev[h].send) >= QueueLimit) /\ UNCHANGED ans
             /\ dev' = [dev EXCEPT ![h].send = Append(@, [r |-> m.r, k |-> m.k, res |-> 0])]
    BY <1>6, <2>2, <2>3, <2>7
  <2> QED BY <2>1, <2>5, <2>6, <2>7
<1> QED BY <1>8, <1>9

\* A visit: what is overdue is answered; the first request is sent, the device is asked
\* for its name, or it has been silent too long.
LEMMA TimeoutKeeps ==
  ASSUME IInv, NEW h, NEW od, NEW due, NEW idle, NEW w, timeout(h, od, due, idle, w)
  PROVE  IInv'
<1>1. h \in DOMAIN dev /\ UNCHANGED <<conn, msgs, posted>>
  BY DEF timeout
<1>2. dev[h] \in Device /\ ans \in [Request -> Seq(0..6)]
  BY <1>1 DEF IInv, EntriesInv, TypeOK
<1>3. PICK late, c, clean :
        /\ late = Cleanable(dev[h], od) /\ c = Cleaned(dev[h], late)
        /\ clean = CleanedAnswers(dev[h], late)
  OBVIOUS
<1>4. Passes(dev[h], c, clean) /\ c \in Device /\ clean \in Batch
  BY <1>2, <1>3, CleanedPasses DEF Passes
\* What the four ways to go on have in common.
<1>5. ASSUME NEW d, NEW b, Passes(dev[h], d, b), dev' = [dev EXCEPT ![h] = d], Answer(b)
      PROVE  IInv'
  <2>1. Gave(b)
    BY <1>2, <1>5, AnswerGives DEF Passes
  <2> QED BY <1>1, <1>5, <2>1, Updated
<1>6. \/ /\ c.send # <<>> /\ dev' = [dev EXCEPT ![h] = Sent(c, w)]
         /\ Answer(clean \o SentAnswers(c, w))
      \/ dev' = [dev EXCEPT ![h] = Beaten(c, w)] /\ Answer(clean)
      \/ dev' = [dev EXCEPT ![h] = c] /\ Answer(clean)
      \/ dev' = [dev EXCEPT ![h] = Beaten(Offline(c), w)] /\ Answer(clean \o Flushed(c))
  BY <1>3 DEF timeout
<1>7. CASE c.send # <<>> /\ dev' = [dev EXCEPT ![h] = Sent(c, w)] /\ Answer(clean \o SentAnswers(c, w))
  <2>1. Passes(c, Sent(c, w), SentAnswers(c, w))
    BY <1>4, <1>7, SentPasses
  <2>2. Passes(dev[h], Sent(c, w), clean \o SentAnswers(c, w))
    BY <1>2, <1>4, <2>1, PassesOn
  <2> QED BY <1>5, <1>7, <2>2
<1>8. CASE dev' = [dev EXCEPT ![h] = Beaten(c, w)] /\ Answer(clean)
  <2>1. Passes(dev[h], Beaten(c, w), clean)
    BY <1>2, <1>4, BeatenIs, PassesSame
  <2> QED BY <1>5, <1>8, <2>1
<1>9. CASE dev' = [dev EXCEPT ![h] = c] /\ Answer(clean)
  BY <1>4, <1>5, <1>9
<1>10. CASE dev' = [dev EXCEPT ![h] = Beaten(Offline(c), w)] /\ Answer(clean \o Flushed(c))
  <2>1. Passes(c, Offline(c), Flushed(c)) /\ Offline(c) \in Device
    BY <1>4, OfflinePasses DEF Passes
  <2>2. Passes(c, Beaten(Offline(c), w), Flushed(c))
    BY <1>4, <2>1, BeatenIs, PassesSame
  <2>3. Passes(dev[h], Beaten(Offline(c), w), clean \o Flushed(c))
    BY <1>2, <1>4, <2>2, PassesOn
  <2> QED BY <1>5, <1>10, <2>3
<1> QED BY <1>6, <1>7, <1>8, <1>9, <1>10

-------------------------------------------------------------------------------
(* The callbacks.                                                          *)

LEMMA NewIs ==
  /\ NewContext \in Device /\ NewContext.id = NoId /\ NewContext.ip = NoIp
  /\ NewContext.send = <<>> /\ NewContext.wait = <<>> /\ NewContext.report = <<>>
<1>1. <<>> \in Seq(Item) /\ <<>> \in Seq(Report)
  OBVIOUS
<1>2. NoId \in Id \cup {NoId} /\ NoIp \in Ip \cup {NoIp} /\ TRUE \in BOOLEAN /\ FALSE \in BOOLEAN
  OBVIOUS
<1> QED BY <1>1, <1>2 DEF NewContext, Device

LEMMA NoWeight ==
  ASSUME NEW d, d.send = <<>>, d.wait = <<>>, d.report = <<>>, NEW r
  PROVE  Weight(d, r) = 0
BY CountEmpty DEF Weight

\* The queue moves: the old entry keeps what is answered.
LEMMA ShiftedIs ==
  ASSUME NEW c \in Device, NEW old \in Device, NEW d, d = Shifted(c, old)
  PROVE  /\ d \in Device /\ d.ip = c.ip /\ d.id = c.id
         /\ d.wait = c.wait /\ d.report = c.report
         /\ old.send # <<>> => d.send = old.send
         /\ old.send = <<>> => d.send = c.send
<1>1. CASE old.send # <<>>
  <2>1. PICK s \in Seq(Item) : s = old.send
    BY DeviceIs
  <2>2. d = [c EXCEPT !.send = s]
    BY <1>1, <2>1 DEF Shifted
  <2> QED BY <1>1, <2>1, <2>2 DEF Device
<1>2. CASE old.send = <<>>
  <2>1. d = c
    BY <1>2 DEF Shifted
  <2> QED BY <1>2, <2>1
<1> QED BY <1>1, <1>2

\* c, for h, takes the place of the entry of o.
LEMMA TakesOver ==
  ASSUME IInv, NEW h \in Handle, NEW o \in DOMAIN dev, o # h, NEW c \in Device,
         Len(c.send) <= QueueLimit,
         dev' = Put(Erase(dev, o), h, Shifted(c, dev[o])),
         Answer(Flushed(dev[o])), UNCHANGED <<msgs, posted>>,
         conn' \in SUBSET Handle, conn \subseteq conn', h \in conn',
         \A g \in DOMAIN dev : g # h /\ g # o => /\ c.id = dev[g].id => c.id = NoId
                                                 /\ c.ip = dev[g].ip => c.ip = NoIp,
         \A r \in Request : Weight(c, r) <= W(h, r)
  PROVE  IInv'
<1>0. /\ TypeOK /\ o \in Handle /\ dev[o] \in Device /\ Len(dev[o].send) <= QueueLimit
      /\ ans \in [Request -> Seq(0..6)] /\ DOMAIN dev \subseteq conn
  BY DEF IInv, EntriesInv, TypeOK, QueueBounded, Connected
<1>1. PICK d : d = Shifted(c, dev[o])
  OBVIOUS
<1>2. /\ d \in Device /\ d.ip = c.ip /\ d.id = c.id
      /\ d.wait = c.wait /\ d.report = c.report
      /\ dev[o].send # <<>> => d.send = dev[o].send
      /\ dev[o].send = <<>> => d.send = c.send
  BY <1>0, <1>1, ShiftedIs
<1>3. /\ DOMAIN dev' = (DOMAIN dev \ {o}) \cup {h} /\ dev'[h] = d
      /\ \A g \in DOMAIN dev' : g # h => g \in DOMAIN dev /\ g # o /\ dev'[g] = dev[g]
  BY <1>1 DEF Put, Erase
<1>4. Writes(h, d) /\ o \notin DOMAIN dev'
  BY <1>3 DEF Writes
<1>5. Alone(h, d)
  BY <1>2, <1>3 DEF Alone
<1>6. Len(d.send) <= QueueLimit
  BY <1>0, <1>2
<1>7. Flushed(dev[o]) \in Batch
  BY <1>0, FlushedIs
<1>8. Gave(Flushed(dev[o]))
  BY <1>0, <1>7, AnswerGives
<1>9. ASSUME NEW r \in Request
      PROVE  (IF h \in DOMAIN dev' THEN Weight(d, r) ELSE 0) + Hit(Flushed(dev[o]), r)
               <= W(h, r) + (IF o = h THEN 0 ELSE W(o, r))
  <2>1. PICK s, w, p, os, ow, op, f, x :
          /\ s = Count(c.send, r) /\ w = Count(c.wait, r) /\ p = Count(c.report, r)
          /\ os = Count(dev[o].send, r) /\ ow = Count(dev[o].wait, r)
          /\ op = Count(dev[o].report, r) /\ f = Hit(Flushed(dev[o]), r) /\ x = W(h, r)
    OBVIOUS
  <2>2. /\ s \in Nat /\ w \in Nat /\ p \in Nat /\ os \in Nat /\ ow \in Nat /\ op \in Nat
        /\ f \in Nat /\ x \in Nat
    BY <1>0, <2>1, DeviceIs, FlushedIs, Numbers
  <2>3. f <= ow + op
    BY <1>0, <2>1, FlushedIs
  <2>4. s + w + p <= x
    BY <2>1 DEF Weight
  <2>5. W(o, r) = os + ow + op
    BY <2>1 DEF W, Weight
  <2>6. Weight(d, r) = os + w + p \/ Weight(d, r) = s + w + p
    BY <1>2, <2>1 DEF Weight
  <2>7. Weight(d, r) + f <= x + W(o, r)
    BY <2>2, <2>3, <2>4, <2>5, <2>6
  <2> QED BY <1>3, <2>1, <2>7
<1>10. \A g \in DOMAIN dev' : g \in conn'
  BY <1>0, <1>3
<1> QED BY <1>0, <1>2, <1>4, <1>5, <1>6, <1>7, <1>8, <1>9, <1>10, Changed

LEMMA OnAcceptKeeps ==
  ASSUME IInv, NEW h \in Handle, NEW ip \in Ip, onAccept(h, ip)
  PROVE  IInv'
<1>0. TypeOK /\ conn \in SUBSET Handle /\ DOMAIN dev \subseteq conn /\ ans \in [Request -> Seq(0..6)]
  BY DEF IInv, EntriesInv, TypeOK, Connected
<1>1. /\ h \notin conn /\ conn' = conn \cup {h} /\ UNCHANGED <<msgs, posted>> /\ h \notin DOMAIN dev
  BY <1>0 DEF onAccept
<1>2. PICK new, olds : /\ new = [NewContext EXCEPT !.ip = ip]
                       /\ olds = {o \in DOMAIN dev \ {h} : dev[o].ip = ip}
  OBVIOUS
<1>3. /\ new \in Device /\ new.ip = ip /\ new.id = NoId
      /\ new.send = <<>> /\ new.wait = <<>> /\ new.report = <<>>
  BY <1>2, NewIs DEF Device
<1>4. Len(<<>>) = 0 /\ 0 <= QueueLimit
  BY IotWifiAssumption
<1>5. CASE olds = {}
  <2>1. dev' = Put(dev, h, new) /\ UNCHANGED ans
    BY <1>2, <1>5 DEF onAccept
  <2>2. /\ DOMAIN dev' = DOMAIN dev \cup {h} /\ dev'[h] = new
        /\ \A g \in DOMAIN dev' : g # h => g \in DOMAIN dev /\ dev'[g] = dev[g]
    BY <2>1 DEF Put
  <2>3. Writes(h, new)
    BY <2>2 DEF Writes
  <2>4. Alone(h, new)
    BY <1>2, <1>3, <1>5, <2>2 DEF Alone
  <2>5. Gave(<<>>) /\ <<>> \in Batch
    BY <1>0, <2>1, NoAnswer, HitNone
  <2>6. ASSUME NEW r \in Request
        PROVE  (IF h \in DOMAIN dev' THEN Weight(new, r) ELSE 0) + Hit(<<>>, r)
                 <= W(h, r) + (IF h = h THEN 0 ELSE W(h, r))
    <3>1. Weight(new, r) = 0 /\ Hit(<<>>, r) = 0
      BY <1>3, NoWeight, HitNone
    <3>2. W(h, r) \in Nat
      BY <1>0, Numbers
    <3> QED BY <3>1, <3>2
  <2>7. /\ \A g \in DOMAIN dev' : g \in conn'
        /\ conn' \in SUBSET Handle
    BY <1>0, <1>1, <2>2
  <2>8. Len(new.send) <= QueueLimit
    BY <1>3, <1>4
  <2> QED BY <1>1, <1>3, <2>3, <2>4, <2>5, <2>6, <2>7, <2>8, Changed
<1>6. CASE olds # {}
  <2>1. PICK o \in olds :
          /\ dev' = Put(Erase(dev, o), h, Shifted([new EXCEPT !.id = dev[o].id], dev[o]))
          /\ Answer(Flushed(dev[o]))
    BY <1>2, <1>6 DEF onAccept
  <2>2. o \in DOMAIN dev /\ o # h /\ dev[o].ip = ip /\ dev[o].id \in Id \cup {NoId}
    BY <1>0, <1>2 DEF TypeOK, Device
  <2>3. PICK c : c = [new EXCEPT !.id = dev[o].id]
    OBVIOUS
  <2>4. /\ c \in Device /\ c.ip = dev[o].ip /\ c.id = dev[o].id
        /\ c.send = <<>> /\ c.wait = <<>> /\ c.report = <<>>
    BY <1>3, <2>2, <2>3 DEF Device
  <2>5. \A g \in DOMAIN dev : g # h /\ g # o => /\ c.id = dev[g].id => c.id = NoId
                                                /\ c.ip = dev[g].ip => c.ip = NoIp
    BY <2>2, <2>4 DEF IInv, EntriesInv, OneEntryPerDevice
  <2>6. \A r \in Request : Weight(c, r) <= W(h, r)
    <3>1. \A r \in Request : Weight(c, r) = 0 /\ W(h, r) \in Nat
      BY <1>0, <2>4, NoWeight, Numbers
    <3> QED BY <3>1
  <2>7. conn' \in SUBSET Handle /\ conn \subseteq conn' /\ h \in conn'
    BY <1>0, <1>1
  <2>8. Len(c.send) <= QueueLimit
    BY <1>4, <2>4
  <2>9. dev' = Put(Erase(dev, o), h, Shifted(c, dev[o])) /\ Answer(Flushed(dev[o]))
    BY <2>1, <2>3
  <2> QED BY <1>1, <2>2, <2>4, <2>5, <2>6, <2>7, <2>8, <2>9, TakesOver
<1> QED BY <1>5, <1>6

LEMMA OnCloseKeeps ==
  ASSUME IInv, NEW h \in Handle, onClose(h)
  PROVE  IInv'
<1>0. TypeOK /\ conn \in SUBSET Handle /\ DOMAIN dev \subseteq conn /\ ans \in [Request -> Seq(0..6)]
  BY DEF IInv, EntriesInv, TypeOK, Connected
<1>1. conn' = conn \ {h} /\ UNCHANGED <<msgs, posted>> /\ conn' \in SUBSET Handle
  BY <1>0 DEF onClose
<1>2. ASSUME NEW b \in Batch, Gave(b), h \notin DOMAIN dev',
             \A g \in DOMAIN dev' : g \in DOMAIN dev /\ dev'[g] = dev[g],
             \A r \in Request : Hit(b, r) <= W(h, r)
      PROVE  IInv'
  <2>1. Writes(h, dev) /\ \A g \in DOMAIN dev' : g \in conn'
    BY <1>0, <1>1, <1>2 DEF Writes
  <2>2. ASSUME NEW r \in Request
        PROVE  (IF h \in DOMAIN dev' THEN Weight(dev, r) ELSE 0) + Hit(b, r)
                 <= W(h, r) + (IF h = h THEN 0 ELSE W(h, r))
    <3>1. Hit(b, r) <= W(h, r) /\ Hit(b, r) \in Nat /\ W(h, r) \in Nat
      BY <1>0, <1>2, HitNat, Numbers
    <3> QED BY <1>2, <3>1
  <2> QED BY <1>1, <1>2, <2>1, <2>2, Changed
<1>3. CASE h \in DOMAIN dev
  <2>1. dev' = Erase(dev, h) /\ Answer(Remaining(dev[h])) /\ dev[h] \in Device
    BY <1>0, <1>3 DEF onClose, TypeOK
  <2>2. Remaining(dev[h]) \in Batch /\ \A r \in Request : Hit(Remaining(dev[h]), r) <= W(h, r)
    BY <1>3, <2>1, RemainingIs DEF W
  <2>3. Gave(Remaining(dev[h]))
    BY <1>0, <2>1, <2>2, AnswerGives
  <2>4. h \notin DOMAIN dev' /\ \A g \in DOMAIN dev' : g \in DOMAIN dev /\ dev'[g] = dev[g]
    BY <2>1 DEF Erase
  <2> QED BY <1>2, <2>2, <2>3, <2>4
<1>4. CASE h \notin DOMAIN dev
  <2>1. UNCHANGED <<dev, ans>>
    BY <1>4 DEF onClose
  <2>2. Gave(<<>>) /\ <<>> \in Batch /\ \A r \in Request : Hit(<<>>, r) <= W(h, r)
    <3>1. \A r \in Request : Hit(<<>>, r) = 0 /\ W(h, r) \in Nat
      BY <1>0, HitNone, Numbers
    <3> QED BY <1>0, <2>1, <3>1, NoAnswer, HitNone
  <2> QED BY <1>2, <1>4, <2>1, <2>2
<1> QED BY <1>3, <1>4

\* The request that waits first leaves its list.
LEMMA TailIs ==
  ASSUME NEW c \in Device, c.wait # <<>>
  PROVE  /\ Tail(c.wait) \in Seq(Item) /\ Head(c.wait) \in Item
         /\ \A r : /\ Count(Tail(c.wait), r) \in Nat
                   /\ Count(Tail(c.wait), r) + One(Head(c.wait).r, r) <= Count(c.wait, r)
<1>1. c.wait \in Seq(Item)
  BY DeviceIs
<1>2. Tail(c.wait) \in Seq(Item) /\ Head(c.wait) \in Item
  BY <1>1, HeadTailProperties
<1> QED BY <1>1, <1>2, CountTail, CountNat

LEMMA ReadyUnnamedKeeps ==
  ASSUME IInv, NEW h \in Handle, read_ready_unnamed(h)
  PROVE  IInv'
<1>0. /\ h \in DOMAIN dev /\ dev[h] \in Device /\ ans \in [Request -> Seq(0..6)]
      /\ UNCHANGED <<conn, msgs, posted, ans>>
  BY DEF read_ready_unnamed, IInv, EntriesInv, TypeOK
<1>1. PICK c \in Device : c = dev[h]
  BY <1>0
<1>2. PICK s : s = IF c.send = <<>> /\ c.wait = <<>> THEN <<GetList>> ELSE c.send
  OBVIOUS
<1>3. PICK d : d = [c EXCEPT !.online = TRUE, !.ready = TRUE, !.send = s]
  OBVIOUS
<1>4. dev' = [dev EXCEPT ![h] = d]
  BY <1>0, <1>1, <1>2, <1>3 DEF read_ready_unnamed
<1>5. /\ s \in Seq(Item) /\ (Len(c.send) <= QueueLimit => Len(s) <= QueueLimit)
      /\ \A r \in Request : Count(s, r) <= Count(c.send, r)
  <2>1. CASE s = c.send
    <3>1. c.send \in Seq(Item) /\ \A r : Count(c.send, r) \in Nat
      BY DeviceIs
    <3> QED BY <2>1, <3>1
  <2>2. CASE s = <<GetList>>
    <3>1. <<>> \in Seq(Item) /\ GetList \in Item /\ GetList.r = NoRequest
      BY Lists
    <3>2. s = Append(<<>>, GetList)
      BY <2>2
    <3>3. s \in Seq(Item) /\ Len(s) = 1
      BY <2>2, <3>1
    <3>4. \A r \in Request : One(NoRequest, r) = 0
      BY IotWifiAssumption DEF One
    <3>5. ASSUME NEW r \in Request PROVE Count(s, r) <= Count(c.send, r)
      <4>1. Count(Append(<<>>, GetList), r) <= Count(<<>>, r) + One(GetList.r, r)
        BY <3>1, CountAppend
      <4>2. Count(<<>>, r) = 0 /\ One(GetList.r, r) = 0
        BY <3>1, <3>4, CountEmpty
      <4>3. Count(s, r) <= 0
        BY <3>2, <4>1, <4>2
      <4>4. Count(s, r) \in Nat /\ Count(c.send, r) \in Nat
        BY <3>3, CountNat, DeviceIs
      <4> QED BY <4>3, <4>4
    <3> QED BY <3>3, <3>5, IotWifiAssumption
  <2> QED BY <1>2, <2>1, <2>2
<1>6. /\ d \in Device /\ d.ip = c.ip /\ d.id = c.id
      /\ d.send = s /\ d.wait = c.wait /\ d.report = c.report
  BY <1>3, <1>5 DEF Device
<1>7. Passes(c, d, <<>>)
  <2>1. ASSUME NEW r \in Request PROVE Weight(d, r) + Hit(<<>>, r) <= Weight(c, r)
    <3>1. PICK n, v, x, y : /\ n = Count(s, r) /\ v = Count(c.send, r) /\ x = Count(c.wait, r)
                            /\ y = Count(c.report, r)
      OBVIOUS
    <3>2. n \in Nat /\ v \in Nat /\ x \in Nat /\ y \in Nat /\ n <= v
      BY <1>5, <3>1, CountNat, DeviceIs
    <3>3. Weight(d, r) = n + x + y /\ Weight(c, r) = v + x + y /\ Hit(<<>>, r) = 0
      BY <1>6, <3>1, HitNone DEF Weight
    <3> QED BY <3>2, <3>3
  <2> QED BY <1>5, <1>6, <2>1, HitNone DEF Passes
<1>8. Gave(<<>>)
  BY <1>0, NoAnswer
<1> QED BY <1>0, <1>1, <1>4, <1>7, <1>8, Updated

LEMMA ReadyNamedKeeps ==
  ASSUME IInv, NEW h \in Handle, read_ready_named(h)
  PROVE  IInv'
<1>0. /\ h \in DOMAIN dev /\ dev[h] \in Device /\ ans \in [Request -> Seq(0..6)]
      /\ UNCHANGED <<conn, msgs, posted>>
  BY DEF read_ready_named, IInv, EntriesInv, TypeOK
<1>1. PICK b0 \in Device : b0 = dev[h]
  BY <1>0
<1>2. PICK c : c = [b0 EXCEPT !.online = TRUE]
  OBVIOUS
<1>3. /\ c \in Device /\ c.ip = b0.ip /\ c.id = b0.id
      /\ c.send = b0.send /\ c.wait = b0.wait /\ c.report = b0.report
  BY <1>2 DEF Device
<1>4. c.report \in Seq(Report)
  BY <1>3, DeviceIs
<1>5. CASE c.report = <<>>
  <2>1. dev' = [dev EXCEPT ![h] = [c EXCEPT !.ready = TRUE]] /\ UNCHANGED ans
    BY <1>1, <1>2, <1>5 DEF read_ready_named
  <2>2. PICK d : d = [c EXCEPT !.ready = TRUE]
    OBVIOUS
  <2>3. /\ d \in Device /\ d.ip = b0.ip /\ d.id = b0.id
        /\ d.send = b0.send /\ d.wait = b0.wait /\ d.report = b0.report
    BY <1>3, <2>2 DEF Device
  <2>4. Passes(b0, d, <<>>)
    BY <2>3, PassesNothing, PassesSame
  <2>5. Gave(<<>>)
    BY <1>0, <2>1, NoAnswer
  <2> QED BY <1>0, <1>1, <2>1, <2>2, <2>4, <2>5, Updated
<1>6. CASE c.report # <<>>
  <2>1. PICK first, p : first = Head(c.report) /\ p = Tail(c.report)
    OBVIOUS
  <2>2. first \in Report /\ p \in Seq(Report)
    BY <1>4, <1>6, <2>1, HeadTailProperties
  <2>3. first.r \in Request /\ first.res \in 0..6
    BY <2>2 DEF Report
  <2>4. PICK rest : rest = [c EXCEPT !.report = p]
    OBVIOUS
  <2>5. /\ rest \in Device /\ rest.ip = c.ip /\ rest.id = c.id
        /\ rest.send = c.send /\ rest.wait = c.wait /\ rest.report = p
    BY <1>3, <2>2, <2>4 DEF Device
  <2>6. PICK a : a = <<<<first.r, first.res>>>>
    OBVIOUS
  <2>7. a \in Batch /\ \A r : Hit(a, r) = One(first.r, r)
    BY <2>3, <2>6, HitOne
  <2>8. Passes(b0, rest, a)
    <3>1. ASSUME NEW r \in Request PROVE Weight(rest, r) + Hit(a, r) <= Weight(b0, r)
      <4>1. Count(p, r) + One(first.r, r) <= Count(c.report, r)
        BY <1>4, <1>6, <2>1, CountTail
      <4>2. PICK s, w, n, o, v : /\ s = Count(c.send, r) /\ w = Count(c.wait, r)
                                 /\ n = Count(p, r) /\ o = One(first.r, r)
                                 /\ v = Count(c.report, r)
        OBVIOUS
      <4>3. s \in Nat /\ w \in Nat /\ n \in Nat /\ o \in Nat /\ v \in Nat /\ n + o <= v
        BY <1>3, <2>2, <4>1, <4>2, DeviceIs, CountNat DEF One
      <4>4. Weight(rest, r) = s + w + n /\ Hit(a, r) = o /\ Weight(b0, r) = s + w + v
        BY <1>3, <2>5, <2>7, <4>2 DEF Weight
      <4> QED BY <4>3, <4>4
    <3> QED BY <1>3, <2>5, <2>7, <3>1 DEF Passes
  <2>9. CASE first.k = "SETBOXAP"
    <3>1. PICK d : d = [NewContext EXCEPT !.ready = TRUE]
      OBVIOUS
    <3>2. dev' = [dev EXCEPT ![h] = d] /\ Answer(a \o Remaining(rest))
      BY <1>1, <1>2, <1>6, <2>1, <2>4, <2>6, <2>9, <3>1 DEF read_ready_named
    <3>3. /\ d \in Device /\ d.ip = NoIp /\ d.id = NoId
          /\ d.send = <<>> /\ d.wait = <<>> /\ d.report = <<>>
      BY <3>1, NewIs DEF Device
    <3>4. Passes(rest, d, Remaining(rest))
      <4>1. ASSUME NEW r \in Request PROVE Weight(d, r) + Hit(Remaining(rest), r) <= Weight(rest, r)
        <5>1. Weight(d, r) = 0
          BY <3>3, NoWeight
        <5>2. /\ Hit(Remaining(rest), r) \in Nat /\ Weight(rest, r) \in Nat
              /\ Hit(Remaining(rest), r) <= Weight(rest, r)
          BY <2>5, RemainingIs, DeviceIs
        <5> QED BY <5>1, <5>2
      <4>2. Len(d.send) <= QueueLimit
        <5>1. Len(d.send) = 0
          BY <3>3
        <5> QED BY <5>1, IotWifiAssumption
      <4> QED BY <2>5, <3>3, <4>1, <4>2, RemainingIs DEF Passes
    <3>5. Passes(b0, d, a \o Remaining(rest))
      BY <2>8, <3>4, PassesOn
    <3>6. Gave(a \o Remaining(rest))
      BY <1>0, <3>2, <3>5, AnswerGives DEF Passes
    <3> QED BY <1>0, <1>1, <3>2, <3>5, <3>6, Updated
  <2>10. CASE first.k # "SETBOXAP"
    <3>1. PICK d : d = [rest EXCEPT !.ready = TRUE]
      OBVIOUS
    <3>2. dev' = [dev EXCEPT ![h] = d] /\ Answer(a)
      BY <1>1, <1>2, <1>6, <2>1, <2>4, <2>6, <2>10, <3>1 DEF read_ready_named
    <3>3. /\ d \in Device /\ d.ip = rest.ip /\ d.id = rest.id
          /\ d.send = rest.send /\ d.wait = rest.wait /\ d.report = rest.report
      BY <2>5, <3>1 DEF Device
    <3>4. Passes(b0, d, a)
      BY <2>8, <3>3, PassesSame
    <3>5. Gave(a)
      BY <1>0, <2>7, <3>2, AnswerGives
    <3> QED BY <1>0, <1>1, <3>2, <3>4, <3>5, Updated
  <2> QED BY <2>9, <2>10
<1> QED BY <1>5, <1>6

\* The request that waits first leaves its list, and no one is answered.
LEMMA FirstGone ==
  ASSUME NEW c \in Device, c.wait # <<>>, NEW d \in Device, d.ip \in {c.ip, NoIp}, d.id \in {c.id, NoId},
         d.send = c.send, d.wait = Tail(c.wait),
         \A r \in Request : Count(d.report, r) <= Count(c.report, r) + One(Head(c.wait).r, r)
  PROVE  Passes(c, d, <<>>)
<1>1. ASSUME NEW r \in Request PROVE Weight(d, r) + Hit(<<>>, r) <= Weight(c, r)
  <2>1. PICK s, w, t, n, o, v : /\ s = Count(c.send, r) /\ w = Count(c.wait, r)
                                /\ t = Count(Tail(c.wait), r) /\ n = Count(d.report, r)
                                /\ o = One(Head(c.wait).r, r) /\ v = Count(c.report, r)
    OBVIOUS
  <2>2. /\ s \in Nat /\ w \in Nat /\ t \in Nat /\ n \in Nat /\ o \in Nat /\ v \in Nat
        /\ t + o <= w /\ n <= v + o
    BY <2>1, DeviceIs, TailIs DEF One
  <2>3. Weight(d, r) = s + t + n /\ Weight(c, r) = s + w + v /\ Hit(<<>>, r) = 0
    BY <2>1, HitNone DEF Weight
  <2> QED BY <2>2, <2>3
<1> QED BY <1>1, HitNone DEF Passes

LEMMA ReadResponseKeeps ==
  ASSUME IInv, NEW h \in Handle, NEW good \in BOOLEAN, read_response(h, good)
  PROVE  IInv'
<1>0. /\ h \in DOMAIN dev /\ dev[h] \in Device /\ ans \in [Request -> Seq(0..6)]
      /\ UNCHANGED <<conn, msgs, posted, ans>>
  BY DEF read_response, IInv, EntriesInv, TypeOK
<1>1. PICK b0 \in Device : b0 = dev[h]
  BY <1>0
<1>2. PICK c, res : c = [b0 EXCEPT !.online = TRUE] /\ res = IF good THEN 0 ELSE 6
  OBVIOUS
<1>3. /\ c \in Device /\ c.ip = b0.ip /\ c.id = b0.id
      /\ c.send = b0.send /\ c.wait = b0.wait /\ c.report = b0.report
  BY <1>2 DEF Device
<1>4. Gave(<<>>)
  BY <1>0, NoAnswer
<1>5. CASE c.wait = <<>>
  <2>1. dev' = [dev EXCEPT ![h] = c]
    BY <1>1, <1>2, <1>5 DEF read_response
  <2>2. Passes(b0, c, <<>>)
    BY <1>3, PassesNothing, PassesSame
  <2> QED BY <1>0, <1>1, <1>4, <2>1, <2>2, Updated
<1>6. CASE c.wait # <<>>
  <2>1. PICK e, first, w : /\ e = Head(c.wait) /\ first = [e EXCEPT !.res = res] /\ w = Tail(c.wait)
    OBVIOUS
  <2>2. e \in Item /\ w \in Seq(Item) /\ c.report \in Seq(Report)
    BY <1>3, <1>6, <2>1, TailIs, DeviceIs
  <2>3. PICK p : p = IF first.k \in {"OPENDOOR", "SETBOXAP"} THEN Append(c.report, first) ELSE c.report
    OBVIOUS
  <2>4. first.k \in {"OPENDOOR", "SETBOXAP"} => first \in Report /\ first.r = e.r
    <3>1. first.k = e.k
      BY <2>1, <2>2 DEF Item, GetList
    <3>2. CASE e = GetList
      BY <3>1, <3>2 DEF GetList
    <3>3. CASE e \in [r : Request, k : Kind, res : {0}]
      <4>1. res \in {0, 6}
        BY <1>2
      <4> QED BY <2>1, <3>3, <4>1 DEF Report
    <3> QED BY <2>2, <3>2, <3>3 DEF Item
  <2>5. p \in Seq(Report) /\ \A r : Count(p, r) <= Count(c.report, r) + One(e.r, r)
    <3>1. CASE first.k \in {"OPENDOOR", "SETBOXAP"}
      <4>1. first \in Report /\ first.r = e.r /\ p = Append(c.report, first)
        BY <2>3, <2>4, <3>1
      <4> QED BY <2>2, <4>1, AppendProperties, CountAppend
    <3>2. CASE first.k \notin {"OPENDOOR", "SETBOXAP"}
      <4>1. p = c.report
        BY <2>3, <3>2
      <4>2. \A r : Count(c.report, r) \in Nat /\ One(e.r, r) \in Nat
        BY <1>3, DeviceIs DEF One
      <4> QED BY <2>2, <4>1, <4>2
    <3> QED BY <3>1, <3>2
  <2>6. PICK d : d = [c EXCEPT !.wait = w, !.report = p]
    OBVIOUS
  <2>7. /\ d \in Device /\ d.ip = c.ip /\ d.id = c.id
        /\ d.send = c.send /\ d.wait = w /\ d.report = p
    BY <1>3, <2>2, <2>5, <2>6 DEF Device
  <2>8. dev' = [dev EXCEPT ![h] = d]
    BY <1>1, <1>2, <1>6, <2>1, <2>3, <2>6 DEF read_response
  <2>9. Passes(b0, d, <<>>)
    BY <1>3, <1>6, <2>1, <2>5, <2>7, FirstGone
  <2> QED BY <1>0, <1>1, <1>4, <2>8, <2>9, Updated
<1> QED BY <1>5, <1>6

LEMMA ReadNameKeeps ==
  ASSUME IInv, NEW h \in Handle, NEW id \in Id, read_name(h, id)
  PROVE  IInv'
<1>0. /\ h \in DOMAIN dev /\ dev[h] \in Device /\ h \in conn /\ conn \in SUBSET Handle
      /\ TypeOK /\ ans \in [Request -> Seq(0..6)] /\ DOMAIN dev \subseteq conn
      /\ Len(dev[h].send) <= QueueLimit /\ UNCHANGED <<conn, msgs, posted>>
  BY DEF read_name, IInv, EntriesInv, TypeOK, QueueBounded, Connected
<1>1. PICK b0 \in Device : b0 = dev[h]
  BY <1>0
<1>2. PICK w : w = Tail(b0.wait)
  OBVIOUS
<1>3. PICK c : c = [b0 EXCEPT !.online = TRUE, !.wait = w]
  OBVIOUS
<1>4. b0.wait # <<>> /\ w \in Seq(Item)
  <2>1. b0.wait # <<>>
    BY <1>1 DEF read_name
  <2> QED BY <1>2, <2>1, TailIs
<1>5. /\ c \in Device /\ c.ip = b0.ip /\ c.id = b0.id
      /\ c.send = b0.send /\ c.wait = w /\ c.report = b0.report
  BY <1>3, <1>4 DEF Device
<1>6. Passes(b0, c, <<>>)
  <2>1. \A r \in Request : Count(c.report, r) <= Count(b0.report, r) + One(Head(b0.wait).r, r)
    <3>1. \A r : Count(b0.report, r) \in Nat /\ One(Head(b0.wait).r, r) \in Nat
      BY DeviceIs DEF One
    <3> QED BY <1>5, <3>1
  <2> QED BY <1>2, <1>4, <1>5, <2>1, FirstGone
<1>7. PICK olds : olds = {o \in DOMAIN dev \ {h} : dev[o].id = id}
  OBVIOUS
<1>8. CASE c.id # NoId
  <2>1. dev' = [dev EXCEPT ![h] = c] /\ UNCHANGED ans
    BY <1>1, <1>2, <1>3, <1>8 DEF read_name
  <2>2. Gave(<<>>)
    BY <1>0, <2>1, NoAnswer
  <2> QED BY <1>0, <1>1, <1>6, <2>1, <2>2, Updated
<1>9. ASSUME c.id = NoId PROVE IInv'
  <2>1. PICK d : d = [c EXCEPT !.id = id]
    OBVIOUS
  <2>2. /\ d \in Device /\ d.ip = b0.ip /\ d.id = id
        /\ d.send = c.send /\ d.wait = c.wait /\ d.report = c.report
    BY <1>5, <2>1 DEF Device
  <2>3. Len(d.send) <= QueueLimit
    BY <1>0, <1>1, <1>5, <2>2
  <2>4. \A r \in Request : Weight(d, r) \in Nat /\ Weight(d, r) <= W(h, r)
    <3>1. ASSUME NEW r \in Request PROVE Weight(d, r) \in Nat /\ Weight(d, r) <= W(h, r)
      <4>1. Weight(d, r) = Weight(c, r)
        BY <2>2 DEF Weight
      <4>2. Weight(c, r) + Hit(<<>>, r) <= Weight(b0, r)
        BY <1>6 DEF Passes
      <4>3. Weight(c, r) \in Nat /\ Hit(<<>>, r) = 0 /\ Weight(b0, r) \in Nat
        BY <1>5, DeviceIs, HitNone
      <4>4. W(h, r) = Weight(b0, r)
        BY <1>0, <1>1 DEF W
      <4> QED BY <4>1, <4>2, <4>3, <4>4
    <3> QED BY <3>1
  <2>5. \A g \in DOMAIN dev : g # h => (b0.ip = dev[g].ip => b0.ip = NoIp)
    BY <1>0, <1>1 DEF IInv, EntriesInv, OneEntryPerDevice
  <2>6. CASE olds = {}
    <3>1. dev' = [dev EXCEPT ![h] = d] /\ UNCHANGED ans
      BY <1>1, <1>2, <1>3, <1>7, <1>9, <2>1, <2>6 DEF read_name
    <3>2. DOMAIN dev' = DOMAIN dev /\ dev'[h] = d /\ \A g \in DOMAIN dev : g # h => dev'[g] = dev[g]
      BY <1>0, <3>1
    <3>3. Writes(h, d)
      BY <3>2 DEF Writes
    <3>4. Alone(h, d)
      <4>1. \A g \in DOMAIN dev : g # h => dev[g].id # id
        BY <1>7, <2>6
      <4> QED BY <2>2, <2>5, <3>2, <4>1 DEF Alone
    <3>5. Gave(<<>>) /\ <<>> \in Batch
      BY <1>0, <3>1, NoAnswer, HitNone
    <3>6. ASSUME NEW r \in Request
          PROVE  (IF h \in DOMAIN dev' THEN Weight(d, r) ELSE 0) + Hit(<<>>, r)
                   <= W(h, r) + (IF h = h THEN 0 ELSE W(h, r))
      <4>1. Weight(d, r) \in Nat /\ Weight(d, r) <= W(h, r) /\ Hit(<<>>, r) = 0
        BY <2>4, HitNone
      <4>2. W(h, r) \in Nat
        BY <1>0, Numbers
      <4> QED BY <1>0, <3>2, <4>1, <4>2
    <3>7. (\A g \in DOMAIN dev' : g \in conn') /\ conn' \in SUBSET Handle
      BY <1>0, <3>2
    <3> QED BY <1>0, <2>2, <2>3, <3>3, <3>4, <3>5, <3>6, <3>7, Changed
  <2>7. CASE olds # {}
    <3>1. PICK o \in olds :
            dev' = Put(Erase(dev, o), h, Shifted(d, dev[o])) /\ Answer(Flushed(dev[o]))
      BY <1>1, <1>2, <1>3, <1>7, <1>9, <2>1, <2>7 DEF read_name
    <3>2. o \in DOMAIN dev /\ o # h /\ dev[o].id = id
      BY <1>7
    <3>3. \A g \in DOMAIN dev : g # h /\ g # o => /\ d.id = dev[g].id => d.id = NoId
                                                  /\ d.ip = dev[g].ip => d.ip = NoIp
      <4>1. \A g \in DOMAIN dev : g # o => (id = dev[g].id => id = NoId)
        BY <3>2 DEF IInv, EntriesInv, OneEntryPerDevice
      <4> QED BY <2>2, <2>5, <4>1
    <3>4. conn' \in SUBSET Handle /\ conn \subseteq conn' /\ h \in conn' /\ UNCHANGED <<msgs, posted>>
      BY <1>0
    <3> QED BY <2>2, <2>3, <2>4, <3>1, <3>2, <3>3, <3>4, TakesOver
  <2> QED BY <2>6, <2>7
<1> QED BY <1>8, <1>9

-------------------------------------------------------------------------------
(* The invariant holds.                                                    *)

LEMMA InitKeeps == Init => IInv
<1> SUFFICES ASSUME Init PROVE IInv
  OBVIOUS
<1>1. DOMAIN dev = {} /\ conn = {} /\ msgs = <<>> /\ posted = {} /\ ans = [r \in Request |-> <<>>]
  BY DEF Init
<1>2. TypeOK
  <2>1. <<>> \in Seq([r : Request, k : Kind, to : Id]) /\ <<>> \in Seq(0..6)
    OBVIOUS
  <2> QED BY <1>1, <2>1 DEF TypeOK
<1>3. \A r \in Request : Given(r) = 0
  <2>1. ASSUME NEW r \in Request PROVE Given(r) = 0
    <3>1. Len(ans[r]) = 0
      BY <1>1
    <3>2. Count(msgs, r) = 0
      BY <1>1, CountEmpty
    <3> QED BY <3>1, <3>2 DEF Given
  <2> QED BY <2>1
<1>4. \A r, h : W(h, r) = 0
  BY <1>1 DEF W
<1>5. OnceInv
  BY <1>3, <1>4 DEF OnceInv
<1>6. EntriesInv /\ QueueBounded /\ Connected
  BY <1>1, <1>2 DEF EntriesInv, OneEntryPerDevice, QueueBounded, Connected
<1> QED BY <1>5, <1>6 DEF IInv

LEMMA NextKeeps == IInv /\ [Next]_vars => IInv'
<1> SUFFICES ASSUME IInv, [Next]_vars PROVE IInv'
  OBVIOUS
<1>1. ASSUME NEW r \in Request, NEW k \in ClientKind, NEW id \in Id, SetProcessData(r, k, id)
      PROVE  IInv'
  BY <1>1, SetProcessDataKeeps
<1>2. CASE msg_process
  BY <1>2, MsgProcessKeeps
<1>3. ASSUME NEW h \in DOMAIN dev, NEW od \in Overdue(h), NEW due \in BOOLEAN,
             NEW idle \in BOOLEAN, NEW w \in Written, timeout(h, od, due, idle, w)
      PROVE  IInv'
  BY <1>3, TimeoutKeeps
<1>4. ASSUME NEW h \in Handle, NEW ip \in Ip, onAccept(h, ip) PROVE IInv'
  BY <1>4, OnAcceptKeeps
<1>5. ASSUME NEW h \in Handle, read_ready_unnamed(h) PROVE IInv'
  BY <1>5, ReadyUnnamedKeeps
<1>6. ASSUME NEW h \in Handle, read_ready_named(h) PROVE IInv'
  BY <1>6, ReadyNamedKeeps
<1>7. ASSUME NEW h \in Handle, NEW id \in Id, read_name(h, id) PROVE IInv'
  BY <1>7, ReadNameKeeps
<1>8. ASSUME NEW h \in Handle, NEW good \in BOOLEAN, read_response(h, good) PROVE IInv'
  BY <1>8, ReadResponseKeeps
<1>9. ASSUME NEW h \in Handle, onClose(h) PROVE IInv'
  BY <1>9, OnCloseKeeps
<1>10. CASE UNCHANGED vars
  <2>1. UNCHANGED <<dev, conn, msgs, posted, ans>>
    BY <1>10 DEF vars
  <2>2. EntriesInv' /\ QueueBounded' /\ Connected'
    BY <2>1 DEF IInv, EntriesInv, TypeOK, OneEntryPerDevice, QueueBounded, Connected
  <2>3. \A r, h : Given(r)' = Given(r) /\ W(h, r)' = W(h, r)
    BY <2>1 DEF Given, W, Weight, Count, Positions
  <2>4. OnceInv'
    BY <2>1, <2>3 DEF IInv, OnceInv
  <2> QED BY <2>2, <2>4 DEF IInv
<1> QED BY <1>1, <1>2, <1>3, <1>4, <1>5, <1>6, <1>7, <1>8, <1>9, <1>10 DEF Next

\* What is in the lists of devices: at most one place when their weights say so.
LEMMA OnePlace ==
  ASSUME IInv, NEW r \in Request
  PROVE  /\ Len(ans[r]) + Held(r) <= 1
         /\ Places(r) = {} \/ \E p : Places(r) = {p}
<1>0. TypeOK /\ OnceInv
  BY DEF IInv, EntriesInv
<1>1. PICK G : G = Given(r)
  OBVIOUS
<1>2. G \in Nat /\ \A h : W(h, r) \in Nat
  BY <1>0, <1>1, Numbers
<1>3. ASSUME NEW p \in Places(r)
      PROVE  \E h \in DOMAIN dev, l \in {"send", "wait", "report"} :
               \E i \in Positions(dev[h][l], r) : p = <<h, l, i>>
  BY <1>3 DEF Places
<1>4. ASSUME NEW h \in DOMAIN dev
      PROVE  /\ h \in Handle /\ W(h, r) = Weight(dev[h], r)
             /\ \A l \in {"send", "wait", "report"} :
                  /\ IsFiniteSet(Positions(dev[h][l], r)) /\ Count(dev[h][l], r) \in Nat
                  /\ Count(dev[h][l], r) <= W(h, r)
             /\ Count(dev[h].send, r) + Count(dev[h].wait, r) + Count(dev[h].report, r) <= W(h, r)
  <2>1. h \in Handle /\ dev[h] \in Device
    BY <1>0 DEF TypeOK
  <2>2. W(h, r) = Count(dev[h].send, r) + Count(dev[h].wait, r) + Count(dev[h].report, r)
    BY DEF W, Weight
  <2>3. /\ dev[h].send \in Seq(Item) /\ dev[h].wait \in Seq(Item) /\ dev[h].report \in Seq(Report)
    BY <2>1, DeviceIs
  <2>4. /\ IsFiniteSet(Positions(dev[h].send, r)) /\ IsFiniteSet(Positions(dev[h].wait, r))
        /\ IsFiniteSet(Positions(dev[h].report, r))
        /\ Count(dev[h].send, r) \in Nat /\ Count(dev[h].wait, r) \in Nat
        /\ Count(dev[h].report, r) \in Nat
    BY <2>3, CountNat
  <2>5. W(h, r) = Weight(dev[h], r)
    BY DEF W
  <2>6. \A l \in {"send", "wait", "report"} :
          \/ l = "send" /\ dev[h][l] = dev[h].send
          \/ l = "wait" /\ dev[h][l] = dev[h].wait
          \/ l = "report" /\ dev[h][l] = dev[h].report
    OBVIOUS
  <2>7. PICK a, b, c : /\ a = Count(dev[h].send, r) /\ b = Count(dev[h].wait, r)
                       /\ c = Count(dev[h].report, r)
    OBVIOUS
  <2>8. a <= W(h, r) /\ b <= W(h, r) /\ c <= W(h, r) /\ a + b + c <= W(h, r)
    BY <2>2, <2>4, <2>7
  <2> QED BY <2>1, <2>4, <2>5, <2>6, <2>7, <2>8
<1>5. ASSUME NEW h \in DOMAIN dev, NEW l \in {"send", "wait", "report"},
             NEW i \in Positions(dev[h][l], r)
      PROVE  Count(dev[h][l], r) >= 1 /\ W(h, r) >= 1
  <2>1. IsFiniteSet(Positions(dev[h][l], r)) /\ Positions(dev[h][l], r) # {}
    BY <1>4
  <2>2. Count(dev[h][l], r) # 0
    BY <2>1, FS_EmptySet DEF Count
  <2> QED BY <1>2, <1>4, <2>2
<1>6. G <= 1 /\ \A h \in Handle : G + W(h, r) <= 1
  BY <1>0, <1>1 DEF OnceInv
<1>7. \A h, o \in Handle : h # o => G + W(h, r) + W(o, r) <= 1
  BY <1>0, <1>1 DEF OnceInv
<1>8. ASSUME NEW p \in Places(r), NEW q \in Places(r) PROVE p = q
  <2>1. PICK h \in DOMAIN dev, l \in {"send", "wait", "report"} :
          \E i \in Positions(dev[h][l], r) : p = <<h, l, i>>
    BY <1>3
  <2>2. PICK i \in Positions(dev[h][l], r) : p = <<h, l, i>>
    BY <2>1
  <2>3. PICK g \in DOMAIN dev, m \in {"send", "wait", "report"} :
          \E j \in Positions(dev[g][m], r) : q = <<g, m, j>>
    BY <1>3
  <2>4. PICK j \in Positions(dev[g][m], r) : q = <<g, m, j>>
    BY <2>3
  <2>5. /\ W(h, r) >= 1 /\ W(g, r) >= 1 /\ h \in Handle /\ g \in Handle
        /\ Count(dev[h][l], r) >= 1 /\ Count(dev[g][m], r) >= 1
    BY <1>4, <1>5
  <2>6. h = g
    BY <1>2, <1>7, <2>5
  <2>7. l = m
    <3>1. PICK a, b, c : /\ a = Count(dev[h].send, r) /\ b = Count(dev[h].wait, r)
                         /\ c = Count(dev[h].report, r)
      OBVIOUS
    <3>2. a \in Nat /\ b \in Nat /\ c \in Nat /\ a + b + c <= W(h, r) /\ W(h, r) <= 1
      BY <1>2, <1>4, <1>6, <2>5, <3>1
    <3>3. ~(a >= 1 /\ b >= 1) /\ ~(a >= 1 /\ c >= 1) /\ ~(b >= 1 /\ c >= 1)
      BY <1>2, <3>2
    <3>4. (l = "send" => a >= 1) /\ (l = "wait" => b >= 1) /\ (l = "report" => c >= 1)
      BY <2>5, <3>1
    <3>5. (m = "send" => a >= 1) /\ (m = "wait" => b >= 1) /\ (m = "report" => c >= 1)
      BY <2>5, <2>6, <3>1
    <3> QED BY <3>3, <3>4, <3>5
  <2>8. i = j
    <3>1. PICK P : P = Positions(dev[h][l], r)
      OBVIOUS
    <3>2. IsFiniteSet(P) /\ Cardinality(P) <= 1 /\ i \in P /\ j \in P
      BY <1>2, <1>4, <1>6, <2>5, <2>6, <2>7, <3>1 DEF Count
    <3>3. CASE i # j
      <4>1. IsFiniteSet({i}) /\ Cardinality({i}) = 1
        BY FS_Singleton
      <4>i. j \notin {i}
        BY <3>3
      <4>2. Cardinality({i} \cup {j}) = Cardinality({i}) + 1 /\ IsFiniteSet({i} \cup {j})
        BY <4>1, <4>i, FS_AddElement
      <4>3. {i} \cup {j} \in SUBSET P
        BY <3>2
      <4>4. Cardinality({i} \cup {j}) <= Cardinality(P) /\ Cardinality(P) \in Nat
        BY <3>2, <4>3, FS_Subset, FS_CardinalityType
      <4> QED BY <3>2, <4>1, <4>2, <4>4
    <3> QED BY <3>3
  <2> QED BY <2>2, <2>4, <2>6, <2>7, <2>8
<1>9. Held(r) = Count(msgs, r) + Cardinality(Places(r)) /\ G = Len(ans[r]) + Count(msgs, r)
      /\ Len(ans[r]) \in Nat /\ Count(msgs, r) \in Nat
  BY <1>0, <1>1, Numbers DEF Held, Given
<1>10. CASE Places(r) = {}
  <2>1. Cardinality(Places(r)) = 0
    BY <1>10, FS_EmptySet
  <2> QED BY <1>6, <1>9, <1>10, <2>1
<1>11. CASE Places(r) # {}
  <2>1. PICK p : p \in Places(r)
    BY <1>11
  <2>2. Places(r) = {p}
    BY <1>8, <2>1
  <2>3. Cardinality(Places(r)) = 1
    BY <2>2, FS_Singleton
  <2>4. PICK h \in DOMAIN dev : W(h, r) >= 1 /\ h \in Handle
    BY <1>3, <1>4, <1>5, <2>1
  <2>5. G = 0
    BY <1>2, <1>6, <2>4
  <2>6. Len(ans[r]) + Held(r) <= 1
    <3>1. PICK a \in Nat, m \in Nat : a = Len(ans[r]) /\ m = Count(msgs, r)
      BY <1>9
    <3>2. a + m = 0 /\ Held(r) = m + 1
      BY <1>9, <2>3, <2>5, <3>1
    <3> QED BY <3>1, <3>2
  <2> QED BY <2>2, <2>6
<1> QED BY <1>10, <1>11

LEMMA OnceIs == IInv => AnsweredOnce
BY OnePlace DEF AnsweredOnce

-------------------------------------------------------------------------------
(* What is dropped.  A request that was posted is present: answered, with the module     *)
(* thread, or with a device.  The device without a name is the one whose queue is lost.  *)

\* The answers of b are for r, too.
Told(b, r) == \E i \in DOMAIN b : b[i][1] = r

\* A device holds r.
In(c, r) == Holds(c.send, r) \/ Holds(c.wait, r) \/ Holds(c.report, r)

Present(r) == Len(ans[r]) # 0 \/ Holds(msgs, r) \/ \E h \in DOMAIN dev : In(dev[h], r)

\* No client's request waits to be sent to a device that has no name.
Anon(c) == c.id = NoId => \A r \in Request : ~Holds(c.send, r)
Nameless == \A h \in DOMAIN dev : Anon(dev[h])

\* What c held d holds, or b answers.
Covers(c, d, b) ==
  /\ Anon(c) => Anon(d)
  /\ \A r \in Request : In(c, r) => In(d, r) \/ Told(b, r)

\* makeresponse takes r off its list and has no branch for it.
CloseDoor(r) ==
  \E h \in DOMAIN dev :
    dev[h].wait # <<>> /\ Head(dev[h].wait).r = r /\ Head(dev[h].wait).k = "CLOSEDOOR"

LEMMA HoldsCount ==
  ASSUME NEW X, NEW s \in Seq(X), NEW r
  PROVE  Count(s, r) # 0 <=> Holds(s, r)
<1>1. IsFiniteSet(Positions(s, r))
  BY CountNat
<1>2. Positions(s, r) # {} <=> Holds(s, r)
  BY DEF Positions, Holds
<1> QED BY <1>1, <1>2, FS_EmptySet DEF Count

LEMMA ToldHit ==
  ASSUME NEW b \in Batch, NEW r
  PROVE  Hit(b, r) # 0 <=> Told(b, r)
<1>1. IsFiniteSet(Hits(b, r))
  BY HitNat
<1>2. Hits(b, r) # {} <=> Told(b, r)
  BY DEF Hits, Told
<1> QED BY <1>1, <1>2, FS_EmptySet DEF Hit

LEMMA ToldConcat ==
  ASSUME NEW a \in Batch, NEW b \in Batch, NEW r
  PROVE  Told(a, r) \/ Told(b, r) => Told(a \o b, r)
<1>1. PICK c : c = a \o b
  OBVIOUS
<1>2. /\ Len(c) = Len(a) + Len(b) /\ c \in Seq(Pair) /\ a \in Seq(Pair) /\ b \in Seq(Pair)
      /\ \A i \in 1..(Len(a) + Len(b)) : c[i] = IF i <= Len(a) THEN a[i] ELSE b[i - Len(a)]
  BY <1>1, ConcatProperties DEF Batch
<1>3. /\ DOMAIN a = 1..Len(a) /\ DOMAIN b = 1..Len(b) /\ DOMAIN c = 1..Len(c)
      /\ Len(a) \in Nat /\ Len(b) \in Nat /\ Len(c) \in Nat
  BY <1>2, LenProperties
<1>4. ASSUME NEW i \in DOMAIN a, a[i][1] = r PROVE Told(c, r)
  <2>1. i \in DOMAIN c /\ c[i] = a[i]
    BY <1>2, <1>3
  <2> QED BY <1>4, <2>1 DEF Told
<1>5. ASSUME NEW i \in DOMAIN b, b[i][1] = r PROVE Told(c, r)
  <2>1. PICK j : j = i + Len(a)
    OBVIOUS
  <2>2. j \in DOMAIN c /\ c[j] = b[i]
    BY <1>2, <1>3, <2>1
  <2> QED BY <1>5, <2>2 DEF Told
<1> QED BY <1>1, <1>4, <1>5 DEF Told

\* Telling a list tells whom it holds.
LEMMA ToldAll ==
  ASSUME NEW s, NEW code, NEW r
  PROVE  /\ Holds(s, r) => Told(AllWith(s, code), r)
         /\ Holds(s, r) => Told(Results(s), r)
<1>1. Holds(s, r) => Told(AllWith(s, code), r)
  BY DEF Holds, Told, AllWith
<1>2. Holds(s, r) => Told(Results(s), r)
  BY DEF Holds, Told, Results
<1> QED BY <1>1, <1>2

LEMMA HoldsNone == \A r : ~Holds(<<>>, r)
BY DEF Holds

LEMMA HoldsAppend ==
  ASSUME NEW X, NEW s \in Seq(X), NEW e \in X, NEW r
  PROVE  Holds(Append(s, e), r) <=> Holds(s, r) \/ e.r = r
<1>1. PICK a : a = Append(s, e)
  OBVIOUS
<1>2. /\ a \in Seq(X) /\ Len(a) = Len(s) + 1 /\ a[Len(s) + 1] = e
      /\ \A j \in 1..Len(s) : a[j] = s[j]
  BY <1>1, AppendProperties
<1>3. /\ DOMAIN a = 1..(Len(s) + 1) /\ DOMAIN s = 1..Len(s) /\ Len(s) \in Nat
  BY <1>2, LenProperties
<1>4. \A j \in DOMAIN a : j \in DOMAIN s \/ j = Len(s) + 1
  BY <1>3
<1>5. Len(s) + 1 \in DOMAIN a /\ \A j \in DOMAIN s : j \in DOMAIN a
  BY <1>3
<1> QED BY <1>1, <1>2, <1>3, <1>4, <1>5 DEF Holds

LEMMA HoldsTail ==
  ASSUME NEW X, NEW s \in Seq(X), s # <<>>, NEW r, Holds(s, r)
  PROVE  Head(s).r = r \/ Holds(Tail(s), r)
<1>1. PICK t : t = Tail(s)
  OBVIOUS
<1>2. /\ t \in Seq(X) /\ Len(t) = Len(s) - 1 /\ Head(s) = s[1] /\ Len(s) \in Nat
      /\ \A j \in 1..(Len(s) - 1) : t[j] = s[j + 1]
  BY <1>1, HeadTailProperties, LenProperties
<1>3. DOMAIN s = 1..Len(s) /\ DOMAIN t = 1..(Len(s) - 1)
  BY <1>2, LenProperties
<1>4. PICK i \in DOMAIN s : s[i].r = r
  BY DEF Holds
<1>5. CASE i = 1
  BY <1>2, <1>4, <1>5
<1>6. CASE i # 1
  <2>1. PICK j : j = i - 1
    OBVIOUS
  <2>2. j \in DOMAIN t /\ t[j] = s[i]
    BY <1>2, <1>3, <1>6, <2>1
  <2> QED BY <1>1, <1>4, <2>2 DEF Holds
<1> QED BY <1>5, <1>6

\* Whoever is at a position that is picked is picked.
LEMMA OnlyAll ==
  ASSUME NEW X, NEW s \in Seq(X), NEW S, NEW i \in S \cap DOMAIN s
  PROVE  \E n \in DOMAIN Only(s, S) : Only(s, S)[n] = s[i]
<1>1. PICK o : o = Only(s, S)
  OBVIOUS
<1>2. PICK A : A = S \cap DOMAIN s
  OBVIOUS
<1>3. o \in Seq(X) /\ Len(o) = Cardinality(A) /\ \E f : From(f, o, s, S)
  BY <1>1, <1>2, OnlyIs
<1>4. PICK f : From(f, o, s, S)
  BY <1>3
<1>5. IsFiniteSet(A) /\ Cardinality(A) \in Nat
  BY <1>2, PositionsFinite
<1>6. PICK N \in Nat : N = Len(o) /\ N = Cardinality(A)
  BY <1>3, <1>5
<1>7. IsFiniteSet(1..N) /\ Cardinality(1..N) = N
  <2>1. 1 \in Int /\ N \in Int
    OBVIOUS
  <2>2. IsFiniteSet(1..N) /\ Cardinality(1..N) = IF 1 > N THEN 0 ELSE N - 1 + 1
    BY <2>1, FS_Interval
  <2> QED BY <2>2
<1>8. f \in Injection(1..N, A)
  BY <1>2, <1>4, <1>6 DEF From, Injection, IsInjective
<1>9. f \in Surjection(1..N, A)
  BY <1>5, <1>6, <1>7, <1>8, FS_Injection
<1>10. PICK n \in 1..N : f[n] = i
  BY <1>2, <1>9 DEF Surjection
<1>11. DOMAIN o = 1..N /\ o[n] = s[f[n]]
  BY <1>3, <1>4, <1>6, <1>10, LenProperties DEF From
<1> QED BY <1>1, <1>10, <1>11

LEMMA HoldsSplit ==
  ASSUME NEW X, NEW s \in Seq(X), NEW S, NEW r, Holds(s, r)
  PROVE  Holds(Only(s, S), r) \/ Holds(Without(s, S), r)
<1>1. PICK i \in DOMAIN s : s[i].r = r
  BY DEF Holds
<1>2. CASE i \in S
  <2>1. i \in S \cap DOMAIN s
    BY <1>2
  <2>2. \E n \in DOMAIN Only(s, S) : Only(s, S)[n] = s[i]
    BY <2>1, OnlyAll
  <2> QED BY <1>1, <2>2 DEF Holds
<1>3. CASE i \notin S
  <2>1. i \in (DOMAIN s \ S) \cap DOMAIN s
    BY <1>3
  <2>2. \E n \in DOMAIN Only(s, DOMAIN s \ S) : Only(s, DOMAIN s \ S)[n] = s[i]
    BY <2>1, OnlyAll
  <2> QED BY <1>1, <2>2 DEF Holds, Without
<1> QED BY <1>2, <1>3

LEMMA HoldsLeft ==
  ASSUME NEW X, NEW s \in Seq(X), NEW S, NEW r, Holds(Without(s, S), r)
  PROVE  Holds(s, r)
<1>1. PICK w : w = Without(s, S)
  OBVIOUS
<1>2. w = Only(s, DOMAIN s \ S)
  BY <1>1 DEF Without
<1>3. PICK f : From(f, w, s, DOMAIN s \ S)
  BY <1>2, OnlyIs
<1>4. w \in Seq(X)
  BY <1>2, OnlyIs
<1>5. PICK i \in DOMAIN w : w[i].r = r
  BY <1>1 DEF Holds
<1>6. f[i] \in DOMAIN s /\ w[i] = s[f[i]]
  BY <1>3, <1>4, <1>5, LenProperties DEF From
<1> QED BY <1>5, <1>6 DEF Holds

LEMMA CoversOn ==
  ASSUME NEW c, NEW d, NEW e, NEW a \in Batch, NEW b \in Batch, Covers(c, d, a), Covers(d, e, b)
  PROVE  Covers(c, e, a \o b)
BY ToldConcat DEF Covers

LEMMA CoversSame ==
  ASSUME NEW c, NEW d, NEW e, NEW a, Covers(c, d, a),
         e.send = d.send, e.wait = d.wait, e.report = d.report, e.id = d.id
  PROVE  Covers(c, e, a)
BY DEF Covers, Anon, In

LEMMA CoversNothing == ASSUME NEW c PROVE Covers(c, c, <<>>)
BY DEF Covers

LEMMA FlushedTold ==
  ASSUME NEW c \in Device, NEW r, Holds(c.wait, r) \/ Holds(c.report, r)
  PROVE  Told(Flushed(c), r)
<1>1. c.wait \in Seq(Item) /\ c.report \in Seq(Report)
  BY DeviceIs
<1>2. AllWith(c.wait, 2) \in Batch /\ Results(c.report) \in Batch
  <2>1. AllWith(c.wait, 2) \in Batch /\ \A q : Hit(AllWith(c.wait, 2), q) = Count(c.wait, q)
    BY <1>1, HitAll, Lists
  <2>2. Results(c.report) \in Batch
    BY <1>1, HitResults, Lists
  <2> QED BY <2>1, <2>2
<1>3. Told(AllWith(c.wait, 2), r) \/ Told(Results(c.report), r)
  BY ToldAll
<1> QED BY <1>2, <1>3, ToldConcat DEF Flushed

LEMMA RemainingTold ==
  ASSUME NEW c \in Device, NEW r, In(c, r)
  PROVE  Told(Remaining(c), r)
<1>1. c.send \in Seq(Item) /\ c.wait \in Seq(Item) /\ c.report \in Seq(Report)
  BY DeviceIs
<1>2. /\ AllWith(c.send, 2) \in Batch /\ AllWith(c.wait, 2) \in Batch
      /\ Results(c.report) \in Batch
  <2>1. AllWith(c.send, 2) \in Batch /\ \A q : Hit(AllWith(c.send, 2), q) = Count(c.send, q)
    BY <1>1, HitAll, Lists
  <2>2. AllWith(c.wait, 2) \in Batch /\ \A q : Hit(AllWith(c.wait, 2), q) = Count(c.wait, q)
    BY <1>1, HitAll, Lists
  <2>3. Results(c.report) \in Batch
    BY <1>1, HitResults, Lists
  <2> QED BY <2>1, <2>2, <2>3
<1>3. PICK a \in Batch : a = AllWith(c.send, 2) \o AllWith(c.wait, 2)
  BY <1>2, HitConcat
<1>4. Remaining(c) = a \o Results(c.report)
  BY <1>3 DEF Remaining
<1>5. CASE Holds(c.report, r)
  BY <1>2, <1>4, <1>5, ToldAll, ToldConcat
<1>6. CASE Holds(c.send, r) \/ Holds(c.wait, r)
  <2>1. Told(AllWith(c.send, 2), r) \/ Told(AllWith(c.wait, 2), r)
    BY <1>6, ToldAll
  <2>2. Told(a, r)
    BY <1>2, <1>3, <2>1, ToldConcat
  <2> QED BY <1>2, <1>4, <2>2, ToldConcat
<1> QED BY <1>5, <1>6 DEF In

LEMMA CleanedCovers ==
  ASSUME NEW c \in Device, NEW od
  PROVE  Covers(c, Cleaned(c, od), CleanedAnswers(c, od))
<1>1. c.send \in Seq(Item) /\ c.wait \in Seq(Item) /\ c.report \in Seq(Report)
  BY DeviceIs
<1>2. PICK s, w, p, so, wo, po :
        /\ s = Without(c.send, od[1]) /\ so = Only(c.send, od[1])
        /\ w = Without(c.wait, od[2]) /\ wo = Only(c.wait, od[2])
        /\ p = Without(c.report, od[3]) /\ po = Only(c.report, od[3])
  OBVIOUS
<1>3. so \in Seq(Item) /\ wo \in Seq(Item) /\ po \in Seq(Report)
  BY <1>1, <1>2, OnlyIs
<1>4. PICK d : d = Cleaned(c, od)
  OBVIOUS
<1>5. d.send = s /\ d.wait = w /\ d.report = p /\ d.id = c.id
  BY <1>2, <1>4 DEF Cleaned, Device
<1>6. PICK a \in Batch : a = AllWith(so, 2) \o AllWith(wo, 2)
  <2>1. AllWith(so, 2) \in Batch /\ AllWith(wo, 2) \in Batch
    BY <1>3, HitAll, Lists
  <2> QED BY <2>1, HitConcat
<1>7. PICK b : b = CleanedAnswers(c, od)
  OBVIOUS
<1>8. b = a \o Results(po) /\ Results(po) \in Batch
  BY <1>2, <1>3, <1>6, <1>7, HitResults, Lists DEF CleanedAnswers
<1>9. \A r : Told(a, r) \/ Told(Results(po), r) => Told(b, r)
  BY <1>8, ToldConcat
<1>10. \A r : Holds(so, r) \/ Holds(wo, r) => Told(a, r)
  <2>1. AllWith(so, 2) \in Batch /\ AllWith(wo, 2) \in Batch
    BY <1>3, HitAll, Lists
  <2> QED BY <1>6, <2>1, ToldAll, ToldConcat
<1>11. \A r : Holds(po, r) => Told(Results(po), r)
  BY ToldAll
<1>12. ASSUME NEW r, In(c, r) PROVE In(d, r) \/ Told(b, r)
  <2>1. Holds(c.send, r) => Holds(so, r) \/ Holds(s, r)
    BY <1>1, <1>2, HoldsSplit
  <2>2. Holds(c.wait, r) => Holds(wo, r) \/ Holds(w, r)
    BY <1>1, <1>2, HoldsSplit
  <2>3. Holds(c.report, r) => Holds(po, r) \/ Holds(p, r)
    BY <1>1, <1>2, HoldsSplit
  <2> QED BY <1>5, <1>9, <1>10, <1>11, <1>12, <2>1, <2>2, <2>3 DEF In
<1>13. Anon(c) => Anon(d)
  <2>1. \A r : Holds(s, r) => Holds(c.send, r)
    BY <1>1, <1>2, HoldsLeft
  <2> QED BY <1>5, <2>1 DEF Anon
<1> QED BY <1>4, <1>7, <1>12, <1>13 DEF Covers

LEMMA SentCovers ==
  ASSUME NEW c \in Device, c.send # <<>>, NEW w
  PROVE  Covers(c, Sent(c, w), SentAnswers(c, w))
<1>1. c.send \in Seq(Item) /\ c.wait \in Seq(Item)
  BY DeviceIs
<1>2. PICK s, e : s = Tail(c.send) /\ e = Head(c.send)
  OBVIOUS
<1>3. s \in Seq(Item) /\ e \in Item
  BY <1>1, <1>2, HeadTailProperties
<1>4. PICK n : n = IF w = "error" THEN c.wait ELSE Append(c.wait, e)
  OBVIOUS
<1>5. PICK d, b : d = Sent(c, w) /\ b = SentAnswers(c, w)
  OBVIOUS
<1>6. d.send = s /\ d.wait = n /\ d.report = c.report /\ d.id = c.id
  BY <1>2, <1>4, <1>5 DEF Sent, Device
<1>7. w = "error" => Told(b, e.r)
  <2>1. w = "error" => b = <<<<e.r, 1>>>>
    BY <1>2, <1>5 DEF SentAnswers
  <2>2. Told(<<<<e.r, 1>>>>, e.r)
    BY DEF Told
  <2> QED BY <2>1, <2>2
<1>8. \A r : Holds(c.wait, r) => Holds(n, r)
  BY <1>1, <1>3, <1>4, HoldsAppend
<1>9. w # "error" => Holds(n, e.r)
  BY <1>1, <1>3, <1>4, HoldsAppend
<1>10. \A r : Holds(c.send, r) => e.r = r \/ Holds(s, r)
  BY <1>1, <1>2, HoldsTail
<1>11. \A r : Holds(s, r) => Holds(c.send, r)
  <2> SUFFICES ASSUME NEW r, Holds(s, r) PROVE Holds(c.send, r)
    OBVIOUS
  <2>1. /\ s \in Seq(Item) /\ Len(s) = Len(c.send) - 1 /\ Len(c.send) \in Nat
        /\ \A j \in 1..(Len(c.send) - 1) : s[j] = c.send[j + 1]
    BY <1>1, <1>2, HeadTailProperties, LenProperties
  <2>2. DOMAIN s = 1..(Len(c.send) - 1) /\ DOMAIN c.send = 1..Len(c.send)
    BY <1>1, <2>1, LenProperties
  <2>3. PICK j \in DOMAIN s : s[j].r = r
    BY DEF Holds
  <2>4. PICK k : k = j + 1
    OBVIOUS
  <2>5. k \in DOMAIN c.send /\ c.send[k] = s[j]
    BY <2>1, <2>2, <2>4
  <2> QED BY <2>3, <2>5 DEF Holds
<1>12. Anon(c) => Anon(d)
  BY <1>6, <1>11 DEF Anon
<1>13. ASSUME NEW r, In(c, r) PROVE In(d, r) \/ Told(b, r)
  BY <1>6, <1>7, <1>8, <1>9, <1>10, <1>13 DEF In
<1> QED BY <1>5, <1>12, <1>13 DEF Covers

LEMMA OfflineCovers ==
  ASSUME NEW c \in Device
  PROVE  Covers(c, Offline(c), Flushed(c))
<1>1. PICK d : d = Offline(c)
  OBVIOUS
<1>2. d.send = c.send /\ d.id = c.id
  BY <1>1 DEF Offline, Device
<1>3. ASSUME NEW r, In(c, r) PROVE In(d, r) \/ Told(Flushed(c), r)
  BY <1>2, <1>3, FlushedTold DEF In
<1>4. Anon(c) => Anon(d)
  BY <1>2 DEF Anon
<1> QED BY <1>1, <1>3, <1>4 DEF Covers

-------------------------------------------------------------------------------
(* Steps keep what is present, but for CLOSEDOOR.                          *)

\* The entry of h is written, that of o may go, b is answered.
LEMMA StaysPresent ==
  ASSUME TypeOK, Nameless, NEW h, NEW o, NEW d, NEW b \in Batch, Gave(b), UNCHANGED msgs,
         h \in DOMAIN dev' => dev'[h] = d,
         \A g \in DOMAIN dev' : g # h => g \in DOMAIN dev /\ dev'[g] = dev[g],
         \A g \in DOMAIN dev : g # h /\ g # o => g \in DOMAIN dev' /\ dev'[g] = dev[g],
         h \in DOMAIN dev' => Anon(d),
         NEW r \in Request,
         \A g \in DOMAIN dev : g \in {h, o} /\ In(dev[g], r)
                                 => (h \in DOMAIN dev' /\ In(d, r)) \/ Told(b, r)
  PROVE  Nameless' /\ (Present(r) => Present(r)')
<1>1. Nameless'
  <2>1. ASSUME NEW g \in DOMAIN dev' PROVE Anon(dev'[g])
    BY <2>1 DEF Nameless
  <2>2. \A g \in DOMAIN dev' : dev'[g].id = NoId => \A q \in Request : ~Holds(dev'[g].send, q)
    BY <2>1 DEF Anon
  <2> QED BY <2>2 DEF Nameless, Anon, Holds
<1>2. Len(ans'[r]) = Len(ans[r]) + Hit(b, r) /\ Len(ans[r]) \in Nat /\ Hit(b, r) \in Nat
  BY Numbers, HitNat DEF Gave
<1>3. Told(b, r) => Len(ans'[r]) # 0
  BY <1>2, ToldHit
<1>4. Len(ans[r]) # 0 => Len(ans'[r]) # 0
  BY <1>2
<1>5. ASSUME NEW g \in DOMAIN dev, In(dev[g], r)
      PROVE  Told(b, r) \/ \E x \in DOMAIN dev' : In(dev'[x], r)
  <2>1. CASE g \in {h, o}
    BY <1>5, <2>1
  <2>2. CASE g \notin {h, o}
    BY <1>5, <2>2
  <2> QED BY <2>1, <2>2
<1>6. Present(r)' <=> Len(ans'[r]) # 0 \/ Holds(msgs', r) \/ \E x \in DOMAIN dev' : In(dev'[x], r)
  BY DEF Present, In, Holds
<1> QED BY <1>1, <1>3, <1>4, <1>5, <1>6 DEF Present

\* A device goes on, and b is answered.
LEMMA GoesOn ==
  ASSUME TypeOK, Nameless, NEW h \in DOMAIN dev, NEW d, NEW b \in Batch,
         dev' = [dev EXCEPT ![h] = d], Covers(dev[h], d, b), Gave(b), UNCHANGED msgs
  PROVE  Nameless' /\ \A r \in Request : Present(r) => Present(r)'
<1>1. /\ h \in DOMAIN dev' /\ dev'[h] = d
      /\ \A g \in DOMAIN dev' : g # h => g \in DOMAIN dev /\ dev'[g] = dev[g]
      /\ \A g \in DOMAIN dev : g # h /\ g # h => g \in DOMAIN dev' /\ dev'[g] = dev[g]
  OBVIOUS
<1>2. Anon(d)
  BY DEF Covers, Nameless
<1>3. ASSUME NEW r \in Request
      PROVE  \A g \in DOMAIN dev : g \in {h, h} /\ In(dev[g], r)
                                     => (h \in DOMAIN dev' /\ In(d, r)) \/ Told(b, r)
  BY <1>1 DEF Covers
<1>4. \A r \in Request : Nameless' /\ (Present(r) => Present(r)')
  BY <1>1, <1>2, <1>3, StaysPresent
<1>5. Nameless'
  <2>1. ASSUME NEW g \in DOMAIN dev' PROVE Anon(dev'[g])
    BY <1>1, <1>2 DEF Nameless
  <2>2. \A g \in DOMAIN dev' : dev'[g].id = NoId => \A q \in Request : ~Holds(dev'[g].send, q)
    BY <2>1 DEF Anon
  <2> QED BY <2>2 DEF Nameless, Anon, Holds
<1> QED BY <1>4, <1>5

\* What a step does to what is present.
Loses ==
  /\ Nameless'
  /\ \A r \in Request : Present(r) => Present(r)' \/ CloseDoor(r)

LEMMA NamelessNext ==
  ASSUME NEW h, NEW d, Nameless, h \in DOMAIN dev' => Anon(d),
         h \in DOMAIN dev' => dev'[h] = d,
         \A g \in DOMAIN dev' : g # h => g \in DOMAIN dev /\ dev'[g] = dev[g]
  PROVE  Nameless'
<1>1. ASSUME NEW g \in DOMAIN dev' PROVE Anon(dev'[g])
  BY DEF Nameless
<1>2. \A g \in DOMAIN dev' : dev'[g].id = NoId => \A q \in Request : ~Holds(dev'[g].send, q)
  BY <1>1 DEF Anon
<1> QED BY <1>2 DEF Nameless, Anon, Holds

LEMMA SetProcessDataLoses ==
  ASSUME IInv, Nameless, NEW q \in Request, NEW k \in ClientKind, NEW id \in Id,
         SetProcessData(q, k, id)
  PROVE  Loses
<1>0. msgs \in Seq(Message)
  BY DEF IInv, EntriesInv, TypeOK, Message
<1>1. PICK m \in Message : m = [r |-> q, k |-> k, to |-> id]
  BY IotWifiAssumption DEF Message
<1>2. msgs' = Append(msgs, m) /\ UNCHANGED <<dev, ans>>
  BY <1>1 DEF SetProcessData
<1>3. \A r : Holds(msgs, r) => Holds(msgs', r)
  BY <1>0, <1>2, HoldsAppend
<1>4. \A r : Present(r)' <=> Len(ans[r]) # 0 \/ Holds(msgs', r) \/ \E h \in DOMAIN dev : In(dev[h], r)
  BY <1>2 DEF Present, In, Holds
<1>5. Nameless'
  BY <1>2 DEF Nameless, Anon, Holds
<1> QED BY <1>3, <1>4, <1>5 DEF Present, Loses

LEMMA MsgProcessLoses ==
  ASSUME IInv, Nameless, msg_process
  PROVE  Loses
<1>0. TypeOK /\ msgs \in Seq(Message) /\ ans \in [Request -> Seq(0..6)]
  BY DEF IInv, EntriesInv, TypeOK, Message
<1>1. msgs # <<>> /\ msgs' = Tail(msgs)
  BY DEF msg_process
<1>2. PICK m \in Message : m = Head(msgs)
  BY <1>0, <1>1, HeadTailProperties
<1>3. m.r \in Request /\ m.to \in Id /\ m.k \in Kind
  BY DEF Message
<1>4. \A r : Holds(msgs, r) => m.r = r \/ Holds(msgs', r)
  BY <1>0, <1>1, <1>2, HoldsTail
<1>5. ASSUME NEW code \in 0..6, Answer(<<<<m.r, code>>>>), UNCHANGED dev
      PROVE  Loses
  <2>1. <<<<m.r, code>>>> \in Batch /\ \A r : Hit(<<<<m.r, code>>>>, r) = One(m.r, r)
    BY <1>3, HitOne
  <2>2. Gave(<<<<m.r, code>>>>)
    BY <1>0, <1>5, <2>1, AnswerGives
  <2>3. ASSUME NEW r \in Request PROVE (Len(ans[r]) # 0 \/ m.r = r) => Len(ans'[r]) # 0
    <3>1. Len(ans'[r]) = Len(ans[r]) + One(m.r, r)
      BY <2>1, <2>2 DEF Gave
    <3>2. PICK a \in Nat : a = Len(ans[r])
      BY <1>0, Numbers
    <3>3. One(m.r, r) \in Nat /\ (m.r = r => One(m.r, r) = 1)
      BY DEF One
    <3>4. (a # 0 \/ m.r = r) => a + One(m.r, r) # 0
      BY <3>3
    <3> QED BY <3>1, <3>2, <3>4
  <2>4. \A r : Present(r)' <=> Len(ans'[r]) # 0 \/ Holds(msgs', r)
                                 \/ \E h \in DOMAIN dev : In(dev[h], r)
    BY <1>5 DEF Present, In, Holds
  <2>5. Nameless'
    BY <1>5 DEF Nameless, Anon, Holds
  <2> QED BY <1>4, <2>3, <2>4, <2>5 DEF Present, Loses
<1>6. ASSUME NEW h \in DOMAIN dev, dev[h].id = m.to, UNCHANGED ans,
             dev' = [dev EXCEPT ![h].send = Append(@, [r |-> m.r, k |-> m.k, res |-> 0])]
      PROVE  Loses
  <2>1. PICK e \in Item : e = [r |-> m.r, k |-> m.k, res |-> 0] /\ e.r = m.r
    <3>1. [r |-> m.r, k |-> m.k, res |-> 0] \in [r : Request, k : Kind, res : {0}]
      BY <1>3
    <3>2. [r |-> m.r, k |-> m.k, res |-> 0].r = m.r
      OBVIOUS
    <3>3. [r |-> m.r, k |-> m.k, res |-> 0] \in Item
      BY <3>1 DEF Item
    <3> QED BY <3>2, <3>3
  <2>2. dev[h] \in Device /\ dev[h].send \in Seq(Item)
    BY <1>0, DeviceIs DEF TypeOK
  <2>3. PICK s : s = Append(dev[h].send, e)
    OBVIOUS
  <2>4. PICK d : d = [dev[h] EXCEPT !.send = s]
    OBVIOUS
  <2>5. /\ d.send = s /\ d.wait = dev[h].wait /\ d.report = dev[h].report /\ d.id = m.to
    BY <1>6, <2>2, <2>4 DEF Device
  <2>6. dev' = [dev EXCEPT ![h] = d]
    BY <1>6, <2>1, <2>3, <2>4
  <2>7. DOMAIN dev' = DOMAIN dev /\ dev'[h] = d /\ \A g \in DOMAIN dev : g # h => dev'[g] = dev[g]
    BY <2>6
  <2>8. \A r : Holds(s, r) <=> Holds(dev[h].send, r) \/ m.r = r
    BY <2>1, <2>2, <2>3, HoldsAppend
  <2>9. \A r : (In(dev[h], r) \/ m.r = r) => In(d, r)
    BY <2>5, <2>8 DEF In
  <2>10. ASSUME NEW r \in Request, Present(r) PROVE Present(r)'
    <3>1. Present(r)' <=> Len(ans[r]) # 0 \/ Holds(msgs', r)
                            \/ \E g \in DOMAIN dev' : In(dev'[g], r)
      BY <1>6 DEF Present, In, Holds
    <3>2. m.r = r => \E g \in DOMAIN dev' : In(dev'[g], r)
      BY <2>7, <2>9
    <3>3. ASSUME NEW g \in DOMAIN dev, In(dev[g], r)
          PROVE  \E x \in DOMAIN dev' : In(dev'[x], r)
      BY <2>7, <2>9, <3>3
    <3> QED BY <1>4, <2>10, <3>1, <3>2, <3>3 DEF Present
  <2>11. Anon(d)
    BY <1>3, <2>5, IotWifiAssumption DEF Anon
  <2>12. Nameless'
    BY <2>7, <2>11, NamelessNext
  <2> QED BY <2>10, <2>12 DEF Loses
<1>7. PICK f : f = {h \in DOMAIN dev : dev[h].id = m.to}
  OBVIOUS
<1>8. 3 \in 0..6 /\ 4 \in 0..6 /\ 5 \in 0..6
  OBVIOUS
<1>9. CASE f = {}
  <2>1. Answer(<<<<m.r, 3>>>>) /\ UNCHANGED dev
    BY <1>2, <1>7, <1>9 DEF msg_process
  <2> QED BY <1>5, <1>8, <2>1
<1>10. CASE f # {}
  <2>1. PICK h \in f :
          \/ Answer(<<<<m.r, 4>>>>) /\ UNCHANGED dev
          \/ Answer(<<<<m.r, 5>>>>) /\ UNCHANGED dev
          \/ /\ UNCHANGED ans
             /\ dev' = [dev EXCEPT ![h].send = Append(@, [r |-> m.r, k |-> m.k, res |-> 0])]
    BY <1>2, <1>7, <1>10 DEF msg_process
  <2>2. CASE Answer(<<<<m.r, 4>>>>) /\ UNCHANGED dev
    BY <1>5, <1>8, <2>2
  <2>3. CASE Answer(<<<<m.r, 5>>>>) /\ UNCHANGED dev
    BY <1>5, <1>8, <2>3
  <2>4. CASE /\ UNCHANGED ans
             /\ dev' = [dev EXCEPT ![h].send = Append(@, [r |-> m.r, k |-> m.k, res |-> 0])]
    BY <1>6, <1>7, <2>4
  <2> QED BY <2>1, <2>2, <2>3, <2>4
<1> QED BY <1>9, <1>10

LEMMA TimeoutLoses ==
  ASSUME IInv, Nameless, NEW h, NEW od, NEW due, NEW idle, NEW w, timeout(h, od, due, idle, w)
  PROVE  Loses
<1>0. TypeOK /\ ans \in [Request -> Seq(0..6)]
  BY DEF IInv, EntriesInv, TypeOK
<1>1. h \in DOMAIN dev /\ UNCHANGED msgs
  BY DEF timeout
<1>2. dev[h] \in Device
  BY <1>0, <1>1 DEF TypeOK
<1>3. PICK late, c, clean :
        /\ late = Cleanable(dev[h], od) /\ c = Cleaned(dev[h], late)
        /\ clean = CleanedAnswers(dev[h], late)
  OBVIOUS
<1>4. Passes(dev[h], c, clean) /\ Covers(dev[h], c, clean)
  BY <1>2, <1>3, CleanedPasses, CleanedCovers
<1>5. c \in Device /\ clean \in Batch
  BY <1>4 DEF Passes
<1>6. ASSUME NEW d, NEW b \in Batch, Covers(dev[h], d, b), dev' = [dev EXCEPT ![h] = d], Answer(b)
      PROVE  Loses
  <2>1. Gave(b)
    BY <1>0, <1>6, AnswerGives
  <2> QED BY <1>0, <1>1, <1>6, <2>1, GoesOn DEF Loses
<1>7. \/ /\ c.send # <<>> /\ dev' = [dev EXCEPT ![h] = Sent(c, w)]
         /\ Answer(clean \o SentAnswers(c, w))
      \/ dev' = [dev EXCEPT ![h] = Beaten(c, w)] /\ Answer(clean)
      \/ dev' = [dev EXCEPT ![h] = c] /\ Answer(clean)
      \/ dev' = [dev EXCEPT ![h] = Beaten(Offline(c), w)] /\ Answer(clean \o Flushed(c))
  BY <1>3 DEF timeout
<1>8. CASE c.send # <<>> /\ dev' = [dev EXCEPT ![h] = Sent(c, w)] /\ Answer(clean \o SentAnswers(c, w))
  <2>1. Covers(c, Sent(c, w), SentAnswers(c, w)) /\ Passes(c, Sent(c, w), SentAnswers(c, w))
    BY <1>5, <1>8, SentCovers, SentPasses
  <2>2. SentAnswers(c, w) \in Batch
    BY <2>1 DEF Passes
  <2>3. Covers(dev[h], Sent(c, w), clean \o SentAnswers(c, w))
    BY <1>4, <1>5, <2>1, <2>2, CoversOn
  <2>4. clean \o SentAnswers(c, w) \in Batch
    BY <1>5, <2>2, HitConcat
  <2> QED BY <1>6, <1>8, <2>3, <2>4
<1>9. CASE dev' = [dev EXCEPT ![h] = Beaten(c, w)] /\ Answer(clean)
  <2>1. Covers(dev[h], Beaten(c, w), clean)
    BY <1>4, <1>5, BeatenIs, CoversSame
  <2> QED BY <1>5, <1>6, <1>9, <2>1
<1>10. CASE dev' = [dev EXCEPT ![h] = c] /\ Answer(clean)
  BY <1>4, <1>5, <1>6, <1>10
<1>11. CASE dev' = [dev EXCEPT ![h] = Beaten(Offline(c), w)] /\ Answer(clean \o Flushed(c))
  <2>1. Offline(c) \in Device /\ Flushed(c) \in Batch
    BY <1>5, OfflinePasses DEF Passes
  <2>2. Covers(c, Offline(c), Flushed(c))
    BY <1>5, OfflineCovers
  <2>3. Covers(c, Beaten(Offline(c), w), Flushed(c))
    BY <2>1, <2>2, BeatenIs, CoversSame
  <2>4. Covers(dev[h], Beaten(Offline(c), w), clean \o Flushed(c))
    BY <1>4, <1>5, <2>1, <2>3, CoversOn
  <2>5. clean \o Flushed(c) \in Batch
    BY <1>5, <2>1, HitConcat
  <2> QED BY <1>6, <1>11, <2>4, <2>5
<1> QED BY <1>7, <1>8, <1>9, <1>10, <1>11

\* A new connection takes over: what the old one waited for is answered, and the
\* queue that is replaced holds no request of a client.
LEMMA TakesOverLoses ==
  ASSUME TypeOK, Nameless, NEW h, NEW o \in DOMAIN dev, o # h, NEW c \in Device,
         dev' = Put(Erase(dev, o), h, Shifted(c, dev[o])),
         Answer(Flushed(dev[o])), UNCHANGED msgs,
         c.id = NoId => dev[o].id = NoId,
         \A r \in Request : /\ ~Holds(c.send, r)
                            /\ h \in DOMAIN dev /\ In(dev[h], r)
                                 => Holds(c.wait, r) \/ Holds(c.report, r)
  PROVE  Loses
<1>0. dev[o] \in Device /\ ans \in [Request -> Seq(0..6)]
  BY DEF TypeOK
<1>1. PICK d : d = Shifted(c, dev[o])
  OBVIOUS
<1>2. /\ d.id = c.id /\ d.wait = c.wait /\ d.report = c.report
      /\ dev[o].send # <<>> => d.send = dev[o].send
      /\ dev[o].send = <<>> => d.send = c.send
  BY <1>0, <1>1, ShiftedIs
<1>3. /\ h \in DOMAIN dev' /\ dev'[h] = d
      /\ \A g \in DOMAIN dev' : g # h => g \in DOMAIN dev /\ dev'[g] = dev[g]
      /\ \A g \in DOMAIN dev : g # h /\ g # o => g \in DOMAIN dev' /\ dev'[g] = dev[g]
  BY <1>1 DEF Put, Erase
<1>4. PICK b : b = Flushed(dev[o])
  OBVIOUS
<1>5. b \in Batch /\ Gave(b)
  BY <1>0, <1>4, FlushedIs, AnswerGives
<1>6. Anon(d)
  <2>1. Anon(dev[o])
    BY DEF Nameless
  <2> QED BY <1>2, <2>1 DEF Anon
<1>7. \A r : Holds(dev[o].send, r) => Holds(d.send, r)
  BY <1>2, HoldsNone
<1>8. ASSUME NEW r \in Request
      PROVE  \A g \in DOMAIN dev : g \in {h, o} /\ In(dev[g], r)
                                     => (h \in DOMAIN dev' /\ In(d, r)) \/ Told(b, r)
  <2>1. In(dev[o], r) => In(d, r) \/ Told(b, r)
    BY <1>0, <1>4, <1>7, FlushedTold DEF In
  <2>2. h \in DOMAIN dev /\ In(dev[h], r) => In(d, r)
    BY <1>2 DEF In
  <2> QED BY <1>3, <2>1, <2>2
<1>9. \A r \in Request : Present(r) => Present(r)'
  BY <1>3, <1>5, <1>6, <1>8, StaysPresent
<1>10. Nameless'
  BY <1>3, <1>6, NamelessNext
<1> QED BY <1>9, <1>10 DEF Loses

LEMMA OnAcceptLoses ==
  ASSUME IInv, Nameless, NEW h \in Handle, NEW ip \in Ip, onAccept(h, ip)
  PROVE  Loses
<1>0. TypeOK /\ DOMAIN dev \subseteq conn /\ ans \in [Request -> Seq(0..6)]
  BY DEF IInv, EntriesInv, TypeOK, Connected
<1>1. h \notin conn /\ UNCHANGED msgs /\ h \notin DOMAIN dev
  BY <1>0 DEF onAccept
<1>2. PICK new, olds : /\ new = [NewContext EXCEPT !.ip = ip]
                       /\ olds = {o \in DOMAIN dev \ {h} : dev[o].ip = ip}
  OBVIOUS
<1>3. /\ new \in Device /\ new.id = NoId
      /\ new.send = <<>> /\ new.wait = <<>> /\ new.report = <<>>
  BY <1>2, NewIs DEF Device
<1>4. CASE olds = {}
  <2>1. dev' = Put(dev, h, new) /\ UNCHANGED ans
    BY <1>2, <1>4 DEF onAccept
  <2>2. /\ h \in DOMAIN dev' /\ dev'[h] = new
        /\ \A g \in DOMAIN dev' : g # h => g \in DOMAIN dev /\ dev'[g] = dev[g]
        /\ \A g \in DOMAIN dev : g # h /\ g # h => g \in DOMAIN dev' /\ dev'[g] = dev[g]
    BY <2>1 DEF Put
  <2>3. Gave(<<>>) /\ <<>> \in Batch
    BY <1>0, <2>1, NoAnswer, HitNone
  <2>4. Anon(new)
    BY <1>3, HoldsNone DEF Anon
  <2>5. \A r \in Request : \A g \in DOMAIN dev :
          g \in {h, h} /\ In(dev[g], r) => (h \in DOMAIN dev' /\ In(new, r)) \/ Told(<<>>, r)
    BY <1>1
  <2>6. \A r \in Request : Present(r) => Present(r)'
    BY <1>0, <1>1, <2>2, <2>3, <2>4, <2>5, StaysPresent
  <2>7. Nameless'
    BY <2>2, <2>4, NamelessNext
  <2> QED BY <2>6, <2>7 DEF Loses
<1>5. CASE olds # {}
  <2>1. PICK o \in olds :
          /\ dev' = Put(Erase(dev, o), h, Shifted([new EXCEPT !.id = dev[o].id], dev[o]))
          /\ Answer(Flushed(dev[o]))
    BY <1>2, <1>5 DEF onAccept
  <2>2. o \in DOMAIN dev /\ o # h /\ dev[o].id \in Id \cup {NoId}
    BY <1>0, <1>2 DEF TypeOK, Device
  <2>3. PICK c : c = [new EXCEPT !.id = dev[o].id]
    OBVIOUS
  <2>4. c \in Device /\ c.id = dev[o].id /\ c.send = <<>>
    BY <1>3, <2>2, <2>3 DEF Device
  <2>5. \A r \in Request : /\ ~Holds(c.send, r)
                           /\ h \in DOMAIN dev /\ In(dev[h], r)
                                => Holds(c.wait, r) \/ Holds(c.report, r)
    BY <1>1, <2>4, HoldsNone
  <2> QED BY <1>0, <1>1, <2>1, <2>2, <2>3, <2>4, <2>5, TakesOverLoses
<1> QED BY <1>4, <1>5

LEMMA OnCloseLoses ==
  ASSUME IInv, Nameless, NEW h \in Handle, onClose(h)
  PROVE  Loses
<1>0. TypeOK /\ ans \in [Request -> Seq(0..6)]
  BY DEF IInv, EntriesInv, TypeOK
<1>1. CASE h \in DOMAIN dev
  <2>1. dev' = Erase(dev, h) /\ Answer(Remaining(dev[h])) /\ UNCHANGED msgs
    BY <1>1 DEF onClose
  <2>2. /\ h \notin DOMAIN dev'
        /\ \A g \in DOMAIN dev' : g # h => g \in DOMAIN dev /\ dev'[g] = dev[g]
        /\ \A g \in DOMAIN dev : g # h /\ g # h => g \in DOMAIN dev' /\ dev'[g] = dev[g]
    BY <2>1 DEF Erase
  <2>3. dev[h] \in Device
    BY <1>0, <1>1 DEF TypeOK
  <2>4. PICK b : b = Remaining(dev[h])
    OBVIOUS
  <2>5. b \in Batch /\ Gave(b)
    BY <1>0, <2>1, <2>3, <2>4, RemainingIs, AnswerGives
  <2>6. \A r \in Request : \A g \in DOMAIN dev :
          g \in {h, h} /\ In(dev[g], r) => (h \in DOMAIN dev' /\ In(dev[h], r)) \/ Told(b, r)
    <3>1. \A r \in Request : In(dev[h], r) => Told(b, r)
      BY <2>3, <2>4, RemainingTold
    <3> QED BY <3>1
  <2>7. \A r \in Request : Present(r) => Present(r)'
    BY <1>0, <2>1, <2>2, <2>5, <2>6, StaysPresent
  <2>8. Nameless'
    BY <2>2, NamelessNext
  <2> QED BY <2>7, <2>8 DEF Loses
<1>2. CASE h \notin DOMAIN dev
  <2>1. UNCHANGED <<dev, ans, msgs>>
    BY <1>2 DEF onClose
  <2>2. Nameless' /\ \A r : Present(r)' <=> Present(r)
    BY <2>1 DEF Nameless, Anon, Holds, Present, In
  <2> QED BY <2>2 DEF Loses
<1> QED BY <1>1, <1>2

LEMMA ReadyUnnamedLoses ==
  ASSUME IInv, Nameless, NEW h \in Handle, read_ready_unnamed(h)
  PROVE  Loses
<1>0. /\ TypeOK /\ h \in DOMAIN dev /\ dev[h] \in Device /\ UNCHANGED <<msgs, ans>>
      /\ ans \in [Request -> Seq(0..6)]
  BY DEF read_ready_unnamed, IInv, EntriesInv, TypeOK
<1>1. PICK c \in Device : c = dev[h]
  BY <1>0
<1>2. PICK s : s = IF c.send = <<>> /\ c.wait = <<>> THEN <<GetList>> ELSE c.send
  OBVIOUS
<1>3. PICK d : d = [c EXCEPT !.online = TRUE, !.ready = TRUE, !.send = s]
  OBVIOUS
<1>4. dev' = [dev EXCEPT ![h] = d]
  BY <1>0, <1>1, <1>2, <1>3 DEF read_ready_unnamed
<1>5. d.send = s /\ d.wait = c.wait /\ d.report = c.report /\ d.id = c.id
  BY <1>3 DEF Device
<1>6. \A r \in Request : Holds(s, r) <=> Holds(c.send, r)
  <2>1. CASE s = c.send
    BY <2>1
  <2>2. CASE s = <<GetList>> /\ c.send = <<>>
    <3>1. \A r \in Request : GetList.r # r
      BY Lists, IotWifiAssumption
    <3>2. <<>> \in Seq(Item) /\ GetList \in Item /\ <<GetList>> = Append(<<>>, GetList)
      BY Lists
    <3>3. \A r : Holds(Append(<<>>, GetList), r) <=> Holds(<<>>, r) \/ GetList.r = r
      BY <3>2, HoldsAppend
    <3>4. \A r \in Request : ~Holds(s, r)
      BY <2>2, <3>1, <3>2, <3>3, HoldsNone
    <3> QED BY <2>2, <3>4, HoldsNone
  <2> QED BY <1>2, <2>1, <2>2
<1>7. Covers(c, d, <<>>)
  BY <1>5, <1>6 DEF Covers, Anon, In
<1>8. Gave(<<>>) /\ <<>> \in Batch
  BY <1>0, NoAnswer, HitNone
<1> QED BY <1>0, <1>1, <1>4, <1>7, <1>8, GoesOn DEF Loses

LEMMA ReadyNamedLoses ==
  ASSUME IInv, Nameless, NEW h \in Handle, read_ready_named(h)
  PROVE  Loses
<1>0. /\ TypeOK /\ h \in DOMAIN dev /\ dev[h] \in Device /\ ans \in [Request -> Seq(0..6)]
      /\ UNCHANGED msgs
  BY DEF read_ready_named, IInv, EntriesInv, TypeOK
<1>1. PICK b0 \in Device : b0 = dev[h]
  BY <1>0
<1>2. PICK c : c = [b0 EXCEPT !.online = TRUE]
  OBVIOUS
<1>3. /\ c \in Device /\ c.id = b0.id
      /\ c.send = b0.send /\ c.wait = b0.wait /\ c.report = b0.report
  BY <1>2 DEF Device
<1>4. ASSUME NEW d, NEW b \in Batch, Covers(b0, d, b), dev' = [dev EXCEPT ![h] = d], Gave(b)
      PROVE  Loses
  BY <1>0, <1>1, <1>4, GoesOn DEF Loses
<1>5. CASE c.report = <<>>
  <2>1. dev' = [dev EXCEPT ![h] = [c EXCEPT !.ready = TRUE]] /\ UNCHANGED ans
    BY <1>1, <1>2, <1>5 DEF read_ready_named
  <2>2. PICK d : d = [c EXCEPT !.ready = TRUE]
    OBVIOUS
  <2>3. d.send = b0.send /\ d.wait = b0.wait /\ d.report = b0.report /\ d.id = b0.id
    BY <1>3, <2>2 DEF Device
  <2>4. Covers(b0, d, <<>>)
    BY <2>3, CoversNothing, CoversSame
  <2>5. Gave(<<>>) /\ <<>> \in Batch
    BY <1>0, <2>1, NoAnswer, HitNone
  <2> QED BY <1>4, <2>1, <2>2, <2>4, <2>5
<1>6. CASE c.report # <<>>
  <2>1. PICK first, p : first = Head(c.report) /\ p = Tail(c.report)
    OBVIOUS
  <2>2. first \in Report /\ p \in Seq(Report) /\ c.report \in Seq(Report)
    BY <1>3, <1>6, <2>1, HeadTailProperties, DeviceIs
  <2>3. first.r \in Request /\ first.res \in 0..6
    BY <2>2 DEF Report
  <2>4. PICK rest : rest = [c EXCEPT !.report = p]
    OBVIOUS
  <2>5. /\ rest \in Device /\ rest.id = c.id
        /\ rest.send = c.send /\ rest.wait = c.wait /\ rest.report = p
    BY <1>3, <2>2, <2>4 DEF Device
  <2>6. PICK a : a = <<<<first.r, first.res>>>>
    OBVIOUS
  <2>7. a \in Batch /\ Told(a, first.r)
    <3>1. a \in Batch /\ \A r : Hit(a, r) = One(first.r, r)
      BY <2>3, <2>6, HitOne
    <3> QED BY <2>6, <3>1 DEF Told
  <2>8. \A r : Holds(c.report, r) => first.r = r \/ Holds(p, r)
    BY <1>6, <2>1, <2>2, HoldsTail
  <2>9. Covers(b0, rest, a)
    BY <1>3, <2>5, <2>7, <2>8 DEF Covers, Anon, In
  <2>10. CASE first.k = "SETBOXAP"
    <3>1. PICK d, b : d = [NewContext EXCEPT !.ready = TRUE] /\ b = Remaining(rest)
      OBVIOUS
    <3>2. dev' = [dev EXCEPT ![h] = d] /\ Answer(a \o b)
      BY <1>1, <1>2, <1>6, <2>1, <2>4, <2>6, <2>10, <3>1 DEF read_ready_named
    <3>3. d.send = <<>>
      BY <3>1, NewIs DEF Device
    <3>4. Covers(rest, d, b)
      BY <2>5, <3>1, <3>3, RemainingTold, HoldsNone DEF Covers, Anon
    <3>5. b \in Batch
      BY <2>5, <3>1, RemainingIs
    <3>6. Covers(b0, d, a \o b)
      BY <2>7, <2>9, <3>4, <3>5, CoversOn
    <3>7. a \o b \in Batch
      BY <2>7, <3>5, HitConcat
    <3>8. Gave(a \o b)
      BY <1>0, <3>2, <3>7, AnswerGives
    <3> QED BY <1>4, <3>2, <3>6, <3>7, <3>8
  <2>11. CASE first.k # "SETBOXAP"
    <3>1. PICK d : d = [rest EXCEPT !.ready = TRUE]
      OBVIOUS
    <3>2. dev' = [dev EXCEPT ![h] = d] /\ Answer(a)
      BY <1>1, <1>2, <1>6, <2>1, <2>4, <2>6, <2>11, <3>1 DEF read_ready_named
    <3>3. d.send = rest.send /\ d.wait = rest.wait /\ d.report = rest.report /\ d.id = rest.id
      BY <2>5, <3>1 DEF Device
    <3>4. Covers(b0, d, a)
      BY <2>9, <3>3, CoversSame
    <3>5. Gave(a)
      BY <1>0, <2>7, <3>2, AnswerGives
    <3> QED BY <1>4, <2>7, <3>2, <3>4, <3>5
  <2> QED BY <2>10, <2>11
<1> QED BY <1>5, <1>6

\* Here a request of kind CLOSEDOOR is lost, and no other.
LEMMA ReadResponseLoses ==
  ASSUME IInv, Nameless, NEW h \in Handle, NEW good \in BOOLEAN, read_response(h, good)
  PROVE  Loses
<1>0. /\ TypeOK /\ h \in DOMAIN dev /\ dev[h] \in Device /\ ans \in [Request -> Seq(0..6)]
      /\ UNCHANGED <<msgs, ans>>
  BY DEF read_response, IInv, EntriesInv, TypeOK
<1>1. PICK b0 \in Device : b0 = dev[h]
  BY <1>0
<1>2. PICK c, res : c = [b0 EXCEPT !.online = TRUE] /\ res = IF good THEN 0 ELSE 6
  OBVIOUS
<1>3. /\ c \in Device /\ c.id = b0.id
      /\ c.send = b0.send /\ c.wait = b0.wait /\ c.report = b0.report
  BY <1>2 DEF Device
<1>4. Gave(<<>>) /\ <<>> \in Batch
  BY <1>0, NoAnswer, HitNone
<1>5. CASE c.wait = <<>>
  <2>1. dev' = [dev EXCEPT ![h] = c]
    BY <1>1, <1>2, <1>5 DEF read_response
  <2>2. Covers(b0, c, <<>>)
    BY <1>3, CoversNothing, CoversSame
  <2> QED BY <1>0, <1>1, <1>4, <2>1, <2>2, GoesOn DEF Loses
<1>6. CASE c.wait # <<>>
  <2>1. PICK e, first, w : /\ e = Head(c.wait) /\ first = [e EXCEPT !.res = res] /\ w = Tail(c.wait)
    OBVIOUS
  <2>2. e \in Item /\ c.wait \in Seq(Item) /\ c.report \in Seq(Report)
    BY <1>3, <1>6, <2>1, TailIs, DeviceIs
  <2>3. PICK p : p = IF first.k \in {"OPENDOOR", "SETBOXAP"} THEN Append(c.report, first) ELSE c.report
    OBVIOUS
  <2>4. first.k = e.k /\ first.r = e.r
    BY <2>1, <2>2 DEF Item, GetList
  <2>5. first.k \in {"OPENDOOR", "SETBOXAP"} => first \in Report
    <3>1. CASE e = GetList
      BY <2>4, <3>1 DEF GetList
    <3>2. CASE e \in [r : Request, k : Kind, res : {0}]
      <4>1. res \in {0, 6}
        BY <1>2
      <4> QED BY <2>1, <3>2, <4>1 DEF Report
    <3> QED BY <2>2, <3>1, <3>2 DEF Item
  <2>6. \A r : Holds(c.report, r) => Holds(p, r)
    BY <2>2, <2>3, <2>5, HoldsAppend
  <2>7. first.k \in {"OPENDOOR", "SETBOXAP"} => Holds(p, e.r)
    BY <2>2, <2>3, <2>4, <2>5, HoldsAppend
  <2>8. \A r : Holds(c.wait, r) => e.r = r \/ Holds(w, r)
    BY <1>6, <2>1, <2>2, HoldsTail
  <2>9. PICK d : d = [c EXCEPT !.wait = w, !.report = p]
    OBVIOUS
  <2>10. d.send = c.send /\ d.wait = w /\ d.report = p /\ d.id = c.id
    BY <1>3, <2>9 DEF Device
  <2>11. dev' = [dev EXCEPT ![h] = d]
    BY <1>1, <1>2, <1>6, <2>1, <2>3, <2>9 DEF read_response
  <2>12. /\ h \in DOMAIN dev' /\ dev'[h] = d
         /\ \A g \in DOMAIN dev' : g # h => g \in DOMAIN dev /\ dev'[g] = dev[g]
         /\ \A g \in DOMAIN dev : g # h /\ g # h => g \in DOMAIN dev' /\ dev'[g] = dev[g]
    BY <1>0, <2>11
  <2>13. Anon(d)
    BY <1>0, <1>1, <1>3, <2>10 DEF Nameless, Anon
  <2>14. ASSUME NEW r \in Request, In(b0, r), ~CloseDoor(r) PROVE In(d, r)
    <3>1. CASE Holds(c.send, r) \/ Holds(c.report, r) \/ Holds(w, r)
      BY <2>6, <2>10, <3>1 DEF In
    <3>2. CASE e.r = r
      <4>1. e # GetList
        BY <3>2, Lists, IotWifiAssumption
      <4>2. e.k \in Kind
        BY <2>2, <4>1 DEF Item
      <4>3. e.k # "CLOSEDOOR"
        BY <1>0, <1>1, <1>3, <1>6, <2>1, <2>14, <3>2 DEF CloseDoor
      <4>4. Holds(p, r)
        BY <2>4, <2>7, <3>2, <4>2, <4>3 DEF Kind
      <4> QED BY <2>10, <4>4 DEF In
    <3> QED BY <1>3, <2>8, <2>14, <3>1, <3>2 DEF In
  <2>15. ASSUME NEW r \in Request, ~CloseDoor(r) PROVE Present(r) => Present(r)'
    <3>1. \A g \in DOMAIN dev : g \in {h, h} /\ In(dev[g], r)
                                  => (h \in DOMAIN dev' /\ In(d, r)) \/ Told(<<>>, r)
      BY <1>1, <2>12, <2>14, <2>15
    <3> QED BY <1>0, <1>4, <2>12, <2>13, <3>1, StaysPresent
  <2>16. Nameless'
    BY <2>12, <2>13, NamelessNext
  <2> QED BY <2>15, <2>16 DEF Loses
<1> QED BY <1>5, <1>6

LEMMA ReadNameLoses ==
  ASSUME IInv, Nameless, NEW h \in Handle, NEW id \in Id, read_name(h, id)
  PROVE  Loses
<1>0. /\ TypeOK /\ h \in DOMAIN dev /\ dev[h] \in Device /\ ans \in [Request -> Seq(0..6)]
      /\ UNCHANGED msgs
  BY DEF read_name, IInv, EntriesInv, TypeOK
<1>1. PICK b0 \in Device : b0 = dev[h]
  BY <1>0
<1>2. PICK w : w = Tail(b0.wait)
  OBVIOUS
<1>3. PICK c : c = [b0 EXCEPT !.online = TRUE, !.wait = w]
  OBVIOUS
<1>4. b0.wait # <<>> /\ Head(b0.wait).k = "GETLIST"
  BY <1>1 DEF read_name
<1>5. b0.wait \in Seq(Item) /\ w \in Seq(Item) /\ Head(b0.wait) \in Item
  BY <1>2, <1>4, TailIs, DeviceIs
<1>6. /\ c \in Device /\ c.id = b0.id /\ c.send = b0.send /\ c.wait = w /\ c.report = b0.report
  BY <1>3, <1>5 DEF Device
<1>7. \A r \in Request : Holds(b0.wait, r) => Holds(w, r)
  <2>1. Head(b0.wait) = GetList
    BY <1>4, <1>5 DEF Item, Kind
  <2>2. \A r \in Request : Head(b0.wait).r # r
    BY <2>1, Lists, IotWifiAssumption
  <2> QED BY <1>2, <1>4, <1>5, <2>2, HoldsTail
<1>8. PICK olds : olds = {o \in DOMAIN dev \ {h} : dev[o].id = id}
  OBVIOUS
<1>9. <<>> \in Batch /\ (UNCHANGED ans => Gave(<<>>))
  BY <1>0, NoAnswer, HitNone
<1>10. CASE c.id # NoId
  <2>1. dev' = [dev EXCEPT ![h] = c] /\ UNCHANGED ans
    BY <1>1, <1>2, <1>3, <1>10 DEF read_name
  <2>2. Covers(b0, c, <<>>)
    BY <1>6, <1>7 DEF Covers, Anon, In
  <2> QED BY <1>0, <1>1, <1>9, <2>1, <2>2, GoesOn DEF Loses
<1>11. CASE c.id = NoId
  <2>1. PICK d : d = [c EXCEPT !.id = id]
    OBVIOUS
  <2>2. /\ d \in Device /\ d.id = id /\ d.id # NoId
        /\ d.send = c.send /\ d.wait = c.wait /\ d.report = c.report
    BY <1>6, <2>1, IotWifiAssumption DEF Device
  <2>3. CASE olds = {}
    <3>1. dev' = [dev EXCEPT ![h] = d] /\ UNCHANGED ans
      BY <1>1, <1>2, <1>3, <1>8, <1>11, <2>1, <2>3 DEF read_name
    <3>2. Covers(b0, d, <<>>)
      BY <1>6, <1>7, <2>2 DEF Covers, Anon, In
    <3> QED BY <1>0, <1>1, <1>9, <3>1, <3>2, GoesOn DEF Loses
  <2>4. CASE olds # {}
    <3>1. PICK o \in olds :
            dev' = Put(Erase(dev, o), h, Shifted(d, dev[o])) /\ Answer(Flushed(dev[o]))
      BY <1>1, <1>2, <1>3, <1>8, <1>11, <2>1, <2>4 DEF read_name
    <3>2. o \in DOMAIN dev /\ o # h
      BY <1>8
    <3>3. \A r \in Request : ~Holds(d.send, r)
      BY <1>0, <1>1, <1>6, <1>11, <2>2 DEF Nameless, Anon
    <3>4. \A r \in Request : In(dev[h], r) => Holds(d.wait, r) \/ Holds(d.report, r)
      BY <1>1, <1>6, <1>7, <2>2, <3>3 DEF In
    <3> QED BY <1>0, <2>2, <3>1, <3>2, <3>3, <3>4, TakesOverLoses
  <2> QED BY <2>3, <2>4
<1> QED BY <1>10, <1>11

LEMMA NextLoses == IInv /\ Nameless /\ [Next]_vars => Loses
<1> SUFFICES ASSUME IInv, Nameless, [Next]_vars PROVE Loses
  OBVIOUS
<1>1. ASSUME NEW r \in Request, NEW k \in ClientKind, NEW id \in Id, SetProcessData(r, k, id)
      PROVE  Loses
  BY <1>1, SetProcessDataLoses
<1>2. CASE msg_process
  BY <1>2, MsgProcessLoses
<1>3. ASSUME NEW h \in DOMAIN dev, NEW od \in Overdue(h), NEW due \in BOOLEAN,
             NEW idle \in BOOLEAN, NEW w \in Written, timeout(h, od, due, idle, w)
      PROVE  Loses
  BY <1>3, TimeoutLoses
<1>4. ASSUME NEW h \in Handle, NEW ip \in Ip, onAccept(h, ip) PROVE Loses
  BY <1>4, OnAcceptLoses
<1>5. ASSUME NEW h \in Handle, read_ready_unnamed(h) PROVE Loses
  BY <1>5, ReadyUnnamedLoses
<1>6. ASSUME NEW h \in Handle, read_ready_named(h) PROVE Loses
  BY <1>6, ReadyNamedLoses
<1>7. ASSUME NEW h \in Handle, NEW id \in Id, read_name(h, id) PROVE Loses
  BY <1>7, ReadNameLoses
<1>8. ASSUME NEW h \in Handle, NEW good \in BOOLEAN, read_response(h, good) PROVE Loses
  BY <1>8, ReadResponseLoses
<1>9. ASSUME NEW h \in Handle, onClose(h) PROVE Loses
  BY <1>9, OnCloseLoses
<1>10. CASE UNCHANGED vars
  <2>1. UNCHANGED <<dev, ans, msgs>>
    BY <1>10 DEF vars
  <2>2. Nameless' /\ \A r : Present(r)' <=> Present(r)
    BY <2>1 DEF Nameless, Anon, Holds, Present, In
  <2> QED BY <2>2 DEF Loses
<1> QED BY <1>1, <1>2, <1>3, <1>4, <1>5, <1>6, <1>7, <1>8, <1>9, <1>10 DEF Next

\* The count of AnsweredOnce and DroppedOnlyCloseDoor says who is present.
Accounted == \A r \in Request : Len(ans[r]) + Held(r) # 0 <=> Present(r)

LEMMA AccountedIs == IInv => Accounted
<1> SUFFICES ASSUME IInv, NEW r \in Request PROVE Len(ans[r]) + Held(r) # 0 <=> Present(r)
  BY DEF Accounted
<1>0. TypeOK /\ msgs \in Seq(Message)
  BY DEF IInv, EntriesInv, TypeOK, Message
<1>1. Len(ans[r]) \in Nat /\ Count(msgs, r) \in Nat
  BY <1>0, Numbers
<1>2. Count(msgs, r) # 0 <=> Holds(msgs, r)
  BY <1>0, HoldsCount
<1>3. Places(r) # {} <=> \E h \in DOMAIN dev : In(dev[h], r)
  <2>1. ASSUME NEW h \in DOMAIN dev, NEW l \in {"send", "wait", "report"}, Holds(dev[h][l], r)
        PROVE  Places(r) # {}
    <3>1. PICK i \in Positions(dev[h][l], r) : TRUE
      BY <2>1 DEF Holds, Positions
    <3>2. PICK S : S = {<<h, l, j>> : j \in Positions(dev[h][l], r)}
      OBVIOUS
    <3>3. <<h, l, i>> \in S
      BY <3>2
    <3>4. S \in {{<<g, m, j>> : j \in Positions(dev[g][m], r)} :
                   g \in DOMAIN dev, m \in {"send", "wait", "report"}}
      BY <3>2
    <3> QED BY <3>3, <3>4 DEF Places
  <2>2. ASSUME NEW h \in DOMAIN dev, In(dev[h], r) PROVE Places(r) # {}
    <3>1. PICK l \in {"send", "wait", "report"} : Holds(dev[h][l], r)
      <4>1. CASE Holds(dev[h].send, r)
        BY <4>1
      <4>2. CASE Holds(dev[h].wait, r)
        BY <4>2
      <4>3. CASE Holds(dev[h].report, r)
        BY <4>3
      <4> QED BY <2>2, <4>1, <4>2, <4>3 DEF In
    <3> QED BY <2>1, <3>1
  <2>3. ASSUME NEW p \in Places(r) PROVE \E h \in DOMAIN dev : In(dev[h], r)
    <3>1. PICK h \in DOMAIN dev, l \in {"send", "wait", "report"} :
            \E i \in Positions(dev[h][l], r) : p = <<h, l, i>>
      BY DEF Places
    <3>2. Holds(dev[h][l], r)
      BY <3>1 DEF Positions, Holds
    <3> QED BY <3>1, <3>2 DEF In
  <2> QED BY <2>2, <2>3
<1>4. PICK n \in Nat : n = Cardinality(Places(r)) /\ (n # 0 <=> Places(r) # {})
  <2>1. CASE Places(r) = {}
    <3>1. Cardinality(Places(r)) = 0
      BY <2>1, FS_EmptySet
    <3> QED BY <2>1, <3>1
  <2>2. CASE \E p : Places(r) = {p}
    <3>1. Cardinality(Places(r)) = 1 /\ Places(r) # {}
      BY <2>2, FS_Singleton
    <3> QED BY <3>1
  <2> QED BY <2>1, <2>2, OnePlace
<1>5. PICK a \in Nat, m \in Nat : a = Len(ans[r]) /\ m = Count(msgs, r)
  BY <1>1
<1>6. Len(ans[r]) + Held(r) = a + (m + n)
  BY <1>4, <1>5 DEF Held
<1>7. a + (m + n) # 0 <=> a # 0 \/ m # 0 \/ n # 0
  OBVIOUS
<1> QED BY <1>2, <1>3, <1>4, <1>5, <1>6, <1>7 DEF Present

-------------------------------------------------------------------------------
(* The theorems.                                                           *)

\* Of every state: each entry is well formed, and a device has one entry.
THEOREM EntriesKept == Spec => []EntriesInv
<1>1. IInv => EntriesInv
  BY DEF IInv
<1> QED BY InitKeeps, NextKeeps, <1>1, PTL DEF Spec

\* The queue of a device keeps to the limit, whoever takes it over (msg_process,
\* shifttask, process_STMresponse).
THEOREM QueueKept == Spec => []QueueBounded
<1>1. IInv => QueueBounded
  BY DEF IInv
<1> QED BY InitKeeps, NextKeeps, <1>1, PTL DEF Spec

\* A request is answered at most once, and then not held any more, for any number
\* of devices, names, addresses and requests.
THEOREM OnceKept == Spec => []AnsweredOnce
BY InitKeeps, NextKeeps, OnceIs, PTL DEF Spec

\* Of every step: no request is dropped but the CLOSEDOOR request that waits first with
\* its device (makeresponse), whatever becomes of the devices.
THEOREM DroppedKept == Spec => DroppedOnlyCloseDoor
<1>1. Init => Nameless
  BY DEF Init, Nameless
<1>2. IInv /\ Nameless /\ [Next]_vars => Nameless'
  BY NextLoses DEF Loses
<1>3. IInv /\ Nameless /\ Accounted /\ Accounted' /\ [Next]_vars
        => [\A r \in posted : Len(ans[r]) + Held(r) = 1 /\ Len(ans'[r]) + Held(r)' = 0
              => \E h \in DOMAIN dev :
                   dev[h].wait # <<>> /\ Head(dev[h].wait).r = r
                     /\ Head(dev[h].wait).k = "CLOSEDOOR"]_vars
  <2> SUFFICES ASSUME IInv, Nameless, Accounted, Accounted', [Next]_vars,
                      NEW r \in posted, Len(ans[r]) + Held(r) = 1, Len(ans'[r]) + Held(r)' = 0
      PROVE  CloseDoor(r)
    BY DEF CloseDoor
  <2>1. r \in Request
    BY DEF IInv, EntriesInv, TypeOK
  <2>2. Present(r)
    BY <2>1 DEF Accounted
  <2>3. ~Present(r)'
    BY <2>1 DEF Accounted
  <2> QED BY <2>1, <2>2, <2>3, NextLoses DEF Loses
<1> QED BY <1>1, <1>2, <1>3, InitKeeps, NextKeeps, AccountedIs, PTL DEF Spec, DroppedOnlyCloseDoor
===============================================================================
