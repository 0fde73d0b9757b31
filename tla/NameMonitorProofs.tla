--------------------------- MODULE NameMonitorProofs ---------------------------
(***************************************************************************)
(* For any modules and names: the two maps of robot_mcs_monitor always     *)
(* agree, so the directory is a set of watches, and a query tells exactly  *)
(* the watchers.  For any threads and registrations: the copies of the     *)
(* faces follow the database, and what comes twice or back is what the     *)
(* code lets.  For any controllers and clients: an answer is that of the   *)
(* task it is given to, but for tasks that were dropped.                   *)
(***************************************************************************)
EXTENDS MCNameMonitor, FiniteSetTheorems, SequenceTheorems, WellFoundedInduction, TLAPS

\* append_name_monitor adds one pair to each map.
LEMMA AppendKeeps ==
  ASSUME DirectoryInv, NEW m \in Module, NEW n \in Name, NEW t \in Mode,
         append_name_monitor(m, n, t)
  PROVE  DirectoryInv'
<1>1. TypeOK'
  <2>1. /\ DOMAIN map_list' = DOMAIN map_list \cup {n}
        /\ \A x \in DOMAIN map_list' : map_list'[x] \in (SUBSET Module) \ {{}}
    BY DEF DirectoryInv, TypeOK, append_name_monitor, With, ModulesOf
  <2>2. /\ DOMAIN With(TypesOf(m), n, t) = DOMAIN TypesOf(m) \cup {n}
        /\ With(TypesOf(m), n, t) \in [DOMAIN TypesOf(m) \cup {n} -> Mode]
        /\ DOMAIN TypesOf(m) \subseteq Name
    BY DEF DirectoryInv, TypeOK, TypesOf, With
  <2>3. /\ DOMAIN module_map_type' = DOMAIN module_map_type \cup {m}
        /\ module_map_type'[m] = With(TypesOf(m), n, t)
        /\ \A x \in DOMAIN module_map_type \ {m} : module_map_type'[x] = module_map_type[x]
    BY DEF append_name_monitor, With
  <2> QED BY <2>1, <2>2, <2>3 DEF DirectoryInv, TypeOK
<1>2. MapsAgree'
  BY DEF DirectoryInv, TypeOK, MapsAgree, append_name_monitor, With, ModulesOf, TypesOf
<1> QED BY <1>1, <1>2 DEF DirectoryInv

LEMMA RemoveKeeps ==
  ASSUME DirectoryInv, NEW m \in Module, NEW n \in Name, remove_name_monitor(m, n)
  PROVE  DirectoryInv'
<1>1. TypeOK'
  <2>1. /\ DOMAIN map_list' \subseteq Name
        /\ \A x \in DOMAIN map_list' : map_list'[x] \in (SUBSET Module) \ {{}}
    BY DEF DirectoryInv, TypeOK, remove_name_monitor, With, Without, ModulesOf
  <2>2. CASE n \notin DOMAIN TypesOf(m)
    BY <2>1, <2>2 DEF DirectoryInv, TypeOK, remove_name_monitor
  <2>3. CASE n \in DOMAIN TypesOf(m)
    <3>1. m \in DOMAIN module_map_type /\ TypesOf(m) = module_map_type[m]
      BY <2>3 DEF TypesOf
    <3>2. /\ DOMAIN Without(module_map_type[m], n) \subseteq Name
          /\ Without(module_map_type[m], n)
               \in [DOMAIN Without(module_map_type[m], n) -> Mode]
      BY <3>1 DEF DirectoryInv, TypeOK, Without
    <3>3. /\ DOMAIN module_map_type' \subseteq DOMAIN module_map_type
          /\ \A x \in DOMAIN module_map_type' :
               module_map_type'[x] = IF x = m THEN Without(module_map_type[m], n)
                                     ELSE module_map_type[x]
      BY <2>3, <3>1 DEF remove_name_monitor, With, Without
    <3> QED BY <2>1, <3>2, <3>3 DEF DirectoryInv, TypeOK
  <2> QED BY <2>2, <2>3
<1>2. MapsAgree'
  BY DEF DirectoryInv, TypeOK, MapsAgree, remove_name_monitor, With, Without, ModulesOf, TypesOf
<1> QED BY <1>1, <1>2 DEF DirectoryInv

LEMMA OfflineKeeps ==
  ASSUME DirectoryInv, NEW n \in Name, offline_name(n)
  PROVE  DirectoryInv'
<1>1. TypeOK'
  <2>1. CASE UNCHANGED vars
    BY <2>1 DEF DirectoryInv, TypeOK, vars
  <2>2. CASE n \in DOMAIN map_list
    <3>1. /\ DOMAIN map_list' \subseteq Name
          /\ \A x \in DOMAIN map_list' : map_list'[x] \in (SUBSET Module) \ {{}}
      BY <2>2 DEF DirectoryInv, TypeOK, offline_name, Without
    <3>2. \A x \in DOMAIN module_map_type :
            /\ DOMAIN Without(module_map_type[x], n) \subseteq Name
            /\ Without(module_map_type[x], n)
                 \in [DOMAIN Without(module_map_type[x], n) -> Mode]
      BY DEF DirectoryInv, TypeOK, Without
    <3>3. /\ DOMAIN module_map_type' = DOMAIN module_map_type
          /\ \A x \in DOMAIN module_map_type' :
               module_map_type'[x] = Without(module_map_type[x], n)
                 \/ module_map_type'[x] = module_map_type[x]
      BY <2>2 DEF offline_name
    <3> QED BY <3>1, <3>2, <3>3 DEF DirectoryInv, TypeOK
  <2> QED BY <2>1, <2>2 DEF offline_name
<1>2. MapsAgree'
  <2>1. CASE UNCHANGED vars
    BY <2>1 DEF DirectoryInv, MapsAgree, vars, ModulesOf, TypesOf
  <2>2. CASE n \in DOMAIN map_list /\ offline_name(n)
    <3>1. \A x \in Name : ModulesOf(x)' = IF x = n THEN {} ELSE ModulesOf(x)
      BY <2>2 DEF offline_name, Without, ModulesOf
    <3>2. \A m \in Module : DOMAIN TypesOf(m)' = DOMAIN TypesOf(m) \ {n}
      <4> SUFFICES ASSUME NEW m \in Module
                   PROVE  DOMAIN TypesOf(m)' = DOMAIN TypesOf(m) \ {n}
        OBVIOUS
      <4>1. m \in map_list[n] <=> n \in DOMAIN TypesOf(m)
        BY <2>2 DEF DirectoryInv, MapsAgree, ModulesOf
      <4> QED BY <2>2, <4>1 DEF offline_name, Without, TypesOf
    <3> QED BY <3>1, <3>2 DEF DirectoryInv, MapsAgree
  <2> QED BY <2>1, <2>2 DEF offline_name
<1> QED BY <1>1, <1>2 DEF DirectoryInv

LEMMA InvIsInvariant == Spec => []DirectoryInv
<1>1. Init => DirectoryInv
  BY DEF Init, DirectoryInv, TypeOK, MapsAgree, ModulesOf, TypesOf
<1>2. DirectoryInv /\ [Next]_vars => DirectoryInv'
  <2> SUFFICES ASSUME DirectoryInv, [Next]_vars PROVE DirectoryInv'
    OBVIOUS
  <2>1. CASE \E m \in Module, n \in Name, t \in Mode : append_name_monitor(m, n, t)
    BY <2>1, AppendKeeps
  <2>2. CASE \E m \in Module, n \in Name : remove_name_monitor(m, n)
    BY <2>2, RemoveKeeps
  <2>3. CASE \E n \in Name \ {NoName} : offline_name(n)
    BY <2>3, OfflineKeeps
  <2>4. CASE UNCHANGED vars
    BY <2>4 DEF vars, DirectoryInv, TypeOK, MapsAgree, ModulesOf, TypesOf
  <2> QED BY <2>1, <2>2, <2>3, <2>4 DEF Next
<1> QED BY <1>1, <1>2, PTL DEF Spec

\* The two maps of robot_mcs_monitor agree at all times.
THEOREM DirectoryConsistent == Spec => []DirectoryInv
BY InvIsInvariant

-------------------------------------------------------------------------------

\* A query tells every watcher, and only watchers (get_name_monitor_list).
THEOREM QueryExact == Spec => []ToldWhatIsWatched
<1>1. DirectoryInv => ToldWhatIsWatched
  <2> SUFFICES ASSUME DirectoryInv, NEW i \in monitor_info, NEW m \in Module
               PROVE  LET byModule == Watches(m, i.module_name, i.module_type)
                          byClient == Watches(m, i.guid, i.guid_type)
                          byType == <<m, i.message_type>> \in DOMAIN Watch
                          told == m \in get_name_monitor_list(i)
                      IN /\ byModule \/ (byClient /\ i.guid # NoName)
                              \/ (byType /\ i.message_type # NoName) => told
                         /\ told => byModule \/ byClient \/ byType
                         /\ told => \E n \in {i.module_name, i.guid, i.message_type} \ {NoName} :
                                      <<m, n>> \in DOMAIN Watch
    BY DEF ToldWhatIsWatched
  <2>1. /\ i.module_name \in Name \ {NoName}
        /\ i.guid \in Name /\ i.message_type \in Name
        /\ i.module_type \in {1, 2} /\ i.guid_type \in 0..2
    BY DEF monitor_info
  <2>2. \A n \in Name : <<m, n>> \in DOMAIN Watch <=> n \in DOMAIN TypesOf(m)
    BY DEF DirectoryInv, MapsAgree, Watch
  <2>3. \A n \in Name : n \in DOMAIN TypesOf(m) => Watch[<<m, n>>] = TypesOf(m)[n]
    BY DEF DirectoryInv, MapsAgree, Watch
  <2>4. \A n \in Name : n \in DOMAIN TypesOf(m) <=> m \in ModulesOf(n)
    BY DEF DirectoryInv, MapsAgree
  <2> QED
    BY <2>1, <2>2, <2>3, <2>4, SMTT(30) DEF Watches, get_name_monitor_list
<1> QED BY <1>1, InvIsInvariant, PTL

-------------------------------------------------------------------------------

\* Watch as a function of the two maps.
LEMMA WatchFacts ==
  ASSUME DirectoryInv
  PROVE  /\ DOMAIN Watch = {q \in Module \X Name : q[2] \in DOMAIN TypesOf(q[1])}
         /\ \A q \in DOMAIN Watch : Watch[q] = TypesOf(q[1])[q[2]]
BY DEF DirectoryInv, MapsAgree, Watch

\* The directory implements the abstract set of watches (MonitorSet): each call
\* of robot_mcs_monitor is one call on the set.
THEOREM DirectoryImplementsSet == Spec => AbstractSpec
<1>1. Init => Abstract!Init
  BY DEF Init, Abstract!Init, Watch, ModulesOf
<1>2. DirectoryInv /\ DirectoryInv' /\ [Next]_vars => [Abstract!Next]_Watch
  <2> SUFFICES ASSUME DirectoryInv, DirectoryInv', [Next]_vars PROVE [Abstract!Next]_Watch
    OBVIOUS
  <2>w. /\ DOMAIN Watch = {q \in Module \X Name : q[2] \in DOMAIN TypesOf(q[1])}
        /\ \A q \in DOMAIN Watch : Watch[q] = TypesOf(q[1])[q[2]]
    BY WatchFacts
  <2>wp. /\ Watch' = [p \in {q \in Module \X Name : q[2] \in DOMAIN TypesOf(q[1])'}
                        |-> TypesOf(p[1])'[p[2]]]
    BY DEF DirectoryInv, MapsAgree, Watch
  <2>1. ASSUME NEW m \in Module, NEW n \in Name, NEW t \in Mode,
               append_name_monitor(m, n, t)
        PROVE  Abstract!append_name_monitor(m, n, t)
    <3>1. /\ TypesOf(m)' = With(TypesOf(m), n, t)
          /\ \A o \in Module \ {m} : TypesOf(o)' = TypesOf(o)
      BY <2>1 DEF append_name_monitor, TypesOf, With
    <3>2. {q \in Module \X Name : q[2] \in DOMAIN TypesOf(q[1])'} = DOMAIN Watch \cup {<<m, n>>}
      BY <3>1, <2>w DEF With
    <3>3. \A p \in DOMAIN Watch \cup {<<m, n>>} :
            TypesOf(p[1])'[p[2]] = IF p = <<m, n>> THEN t ELSE Watch[p]
      BY <3>1, <2>w DEF With
    <3> QED BY <3>2, <3>3, <2>wp DEF Abstract!append_name_monitor
  <2>2. ASSUME NEW m \in Module, NEW n \in Name, remove_name_monitor(m, n)
        PROVE  Abstract!remove_name_monitor(m, n)
    <3>1. /\ DOMAIN TypesOf(m)' = DOMAIN TypesOf(m) \ {n}
          /\ \A x \in DOMAIN TypesOf(m)' : TypesOf(m)'[x] = TypesOf(m)[x]
          /\ \A o \in Module \ {m} : TypesOf(o)' = TypesOf(o)
      BY <2>2 DEF remove_name_monitor, TypesOf, With, Without
    <3>2. {q \in Module \X Name : q[2] \in DOMAIN TypesOf(q[1])'} = DOMAIN Watch \ {<<m, n>>}
      BY <3>1, <2>w
    <3>3. \A p \in DOMAIN Watch \ {<<m, n>>} : TypesOf(p[1])'[p[2]] = Watch[p]
      BY <3>1, <3>2, <2>w
    <3> QED BY <3>2, <3>3, <2>wp DEF Abstract!remove_name_monitor
  <2>3. ASSUME NEW n \in Name, offline_name(n)
        PROVE  Abstract!offline_name(n)
    <3>1. \A m \in Module :
            /\ DOMAIN TypesOf(m)' = DOMAIN TypesOf(m) \ {n}
            /\ \A x \in DOMAIN TypesOf(m)' : TypesOf(m)'[x] = TypesOf(m)[x]
      <4> SUFFICES ASSUME NEW m \in Module
                   PROVE  /\ DOMAIN TypesOf(m)' = DOMAIN TypesOf(m) \ {n}
                          /\ \A x \in DOMAIN TypesOf(m)' : TypesOf(m)'[x] = TypesOf(m)[x]
        OBVIOUS
      <4>1. n \in DOMAIN map_list /\ m \in map_list[n] <=> n \in DOMAIN TypesOf(m)
        BY DEF DirectoryInv, MapsAgree, ModulesOf
      <4>2. CASE n \in DOMAIN map_list
        BY <2>3, <4>1, <4>2, ZenonT(30) DEF offline_name, Without, TypesOf
      <4>3. CASE n \notin DOMAIN map_list
        BY <2>3, <4>1, <4>3 DEF offline_name, vars, TypesOf
      <4> QED BY <4>2, <4>3
    <3>2. {q \in Module \X Name : q[2] \in DOMAIN TypesOf(q[1])'}
            = {q \in DOMAIN Watch : q[2] # n}
      <4>1. \A q \in Module \X Name :
              q[1] \in Module /\ (q[2] \in DOMAIN TypesOf(q[1])'
                                   <=> q[2] \in DOMAIN TypesOf(q[1]) /\ q[2] # n)
        BY <3>1
      <4> QED BY <4>1, <2>w
    <3>3. \A p \in {q \in DOMAIN Watch : q[2] # n} : TypesOf(p[1])'[p[2]] = Watch[p]
      BY <3>1, <3>2, <2>w
    <3> QED BY <3>2, <3>3, <2>wp DEF Abstract!offline_name
  <2>4. CASE UNCHANGED vars
    BY <2>4 DEF vars, Watch, ModulesOf, TypesOf
  <2> QED
    BY <2>1, <2>2, <2>3, <2>4 DEF Next, Abstract!Next, Mode, Abstract!Mode
<1> QED BY <1>1, <1>2, InvIsInvariant, PTL DEF Spec, AbstractSpec, Abstract!Spec

-------------------------------------------------------------------------------
\* A set of naturals has a smallest one, which Unused and Min choose.
LEMMA Smallest == \A S \in SUBSET Nat : S # {} => \E m \in S : \A n \in S : m <= n
<1> DEFINE R == OpToRel(<, Nat)
<1>1. IsWellFoundedOn(R, Nat)
  BY NatLessThanWellFounded
<1> SUFFICES ASSUME NEW S \in SUBSET Nat, S # {}
             PROVE  \E m \in S : \A n \in S : m <= n
  OBVIOUS
<1>2. PICK m \in S : \A n \in S : ~(<<n, m>> \in R)
  <2> HIDE DEF R
  <2> QED BY <1>1, WFMin
<1>3. ASSUME NEW n \in S PROVE m <= n
  <2>1. ~(n < m)
    BY <1>2, <1>3 DEF OpToRel
  <2> QED BY <2>1
<1> QED BY <1>3

-------------------------------------------------------------------------------
(* The faces that are known.                                               *)

Works(t) == feature_task[t] # NoFaces

\* Those that know a face know the same of it.
Same(a, b) == a.person = b.person /\ a.name = b.name /\ a.id = b.id /\ a.made = b.made
Agree(f, h) == \A g \in DOMAIN f \cap DOMAIN h : Same(f[g], h[g])
CopiesAgree ==
  /\ \A t \in Feature : Agree(m_facelist, m_facedb[t])
  /\ \A t, u \in Feature : Agree(m_facedb[t], m_facedb[u])

\* A thread that registers has in its copy what its earlier registrations made, and what
\* of its copy is gone has been removed since.
KnowsItsOwn ==
  \A t \in Feature : Works(t) =>
    \A h \in DOMAIN m_facelist :
      m_facelist[h].made[1] = t /\ m_facelist[h].made # Doing(t) /\ m_facelist[h].back = Nobody
      => h \in DOMAIN m_facedb[t]
GoneIsTold ==
  \A t \in Feature : Works(t) =>
    \A g \in DOMAIN m_facedb[t] \ DOMAIN m_facelist : <<g, Doing(t)>> \in stale_copies

FacesIInv ==
  /\ FaceTemplateInv /\ CopiesAgree /\ KnowsItsOwn /\ GoneIsTold
  /\ \A t \in Feature : Works(t) => t \in m_cb_list

\* There is an id that a copy does not use, so that Unused is one.
LEMMA UnusedIs ==
  ASSUME FaceDbTypeOK, NEW t \in Feature
  PROVE  Unused(t) \in Nat /\ \A g \in DOMAIN m_facedb[t] : m_facedb[t][g].id # Unused(t)
<1> DEFINE D == DOMAIN m_facedb[t]
           N == Cardinality(D)
           used == {m_facedb[t][g].id : g \in D}
           free == {i \in 0..N : i \notin used}
<1>1. IsFiniteSet(D) /\ N \in Nat
  <2>1. D \subseteq 1..face_guids /\ face_guids \in Nat
    BY DEF FaceDbTypeOK, Known
  <2>2. IsFiniteSet(1..face_guids)
    BY <2>1, FS_Interval
  <2>3. IsFiniteSet(D)
    BY <2>1, <2>2, FS_Subset
  <2> QED BY <2>3, FS_CardinalityType
<1>2. IsFiniteSet(used) /\ Cardinality(used) <= N /\ Cardinality(used) \in Nat
  <2> DEFINE f == [g \in D |-> m_facedb[t][g].id]
  <2>1. f \in Surjection(D, used)
    BY DEF Surjection
  <2>2. IsFiniteSet(used) /\ Cardinality(used) <= Cardinality(D)
    <3> HIDE DEF f, used, D
    <3> QED BY <1>1, <2>1, FS_Surjection
  <2> HIDE DEF used
  <2> QED BY <2>2, FS_CardinalityType
<1>3. free # {}
  <2> SUFFICES ASSUME free = {} PROVE FALSE
    OBVIOUS
  <2>1. 0..N \subseteq used
    OBVIOUS
  <2>2. IsFiniteSet(0..N) /\ Cardinality(0..N) = N + 1
    <3> HIDE DEF N
    <3> QED BY <1>1, FS_Interval
  <2>3. Cardinality(0..N) <= Cardinality(used)
    <3> HIDE DEF used, N
    <3> QED BY <1>2, <2>1, FS_Subset
  <2> HIDE DEF used, N
  <2> QED BY <1>1, <1>2, <2>2, <2>3
<1>4. PICK i \in free : \A j \in free : i <= j
  <2>1. free \subseteq Nat
    BY <1>1
  <2> HIDE DEF free
  <2> QED BY <1>3, <2>1, Smallest
<1>5. /\ i \in 0..N
      /\ \A g \in DOMAIN m_facedb[t] : m_facedb[t][g].id # i
      /\ \A j \in 0..i - 1 : \E g \in DOMAIN m_facedb[t] : m_facedb[t][g].id = j
  <2>1. ASSUME NEW j \in 0..i - 1 PROVE j \in used
    <3>1. j \in 0..N /\ ~(i <= j)
      BY <1>1
    <3> QED BY <1>4, <3>1
  <2> QED BY <2>1
<1>6. /\ Unused(t) \in 0..N
      /\ \A g \in DOMAIN m_facedb[t] : m_facedb[t][g].id # Unused(t)
  <2> HIDE DEF N
  <2> QED BY <1>5 DEF Unused, N
<1> QED BY <1>1, <1>6

LEMMA FacesOf == \A l \in FaceList : l \in Seq(Face) /\ l # <<>>
<1> SUFFICES ASSUME NEW l \in FaceList PROVE l \in Seq(Face) /\ l # <<>>
  OBVIOUS
<1>1. l \in Seq([person : STRING, name : STRING]) /\ l # <<>>
  BY FaceTemplateAssumption
<1>2. \A i \in 1..Len(l) : l[i] \in Face
  BY <1>1 DEF Face
<1>3. Len(l) \in Nat /\ l = [i \in 1..Len(l) |-> l[i]]
  BY <1>1
<1> QED BY <1>1, <1>2, <1>3

\* Every thread that listens is told of a change before anything else.
LEMMA ToldFirst ==
  ASSUME FaceDbTypeOK, UNCHANGED m_cb_list, feature_q' = Notified(feature_q)
  PROVE  /\ feature_q' \in [Feature -> Seq(FaceList \cup {Update})]
         /\ \A t \in m_cb_list' : feature_q'[t] # <<>> /\ Head(feature_q'[t]) = Update
<1> DEFINE Q == FaceList \cup {Update}
<1>1. \A s \in Seq(Q) : LET q == <<Update>> \o s IN q \in Seq(Q) /\ q # <<>> /\ Head(q) = Update
  <2> SUFFICES ASSUME NEW s \in Seq(Q)
               PROVE  LET q == <<Update>> \o s IN q \in Seq(Q) /\ q # <<>> /\ Head(q) = Update
    OBVIOUS
  <2>1. <<Update>> \in Seq(Q) /\ Len(<<Update>>) = 1 /\ <<Update>>[1] = Update
    OBVIOUS
  <2> HIDE DEF Q
  <2> QED BY <2>1, ConcatProperties
<1> QED BY <1>1 DEF FaceDbTypeOK, Notified

\* What add_feature_handler, face_register, UpdateFaceTemplate and face_registerimp do.
LEMMA BeginKeeps ==
  ASSUME FacesIInv, NEW t \in Feature, add_feature_handler(t) PROVE FacesIInv'
<1> DEFINE Q == FaceList \cup {Update}
<1>1. feature_q[t] \in Seq(Q) /\ feature_q' = [feature_q EXCEPT ![t] = <<Update>> \o @]
  BY DEF FacesIInv, FaceTemplateInv, FaceDbTypeOK, add_feature_handler
<1>2. LET q == <<Update>> \o feature_q[t] IN q \in Seq(Q) /\ q # <<>> /\ Head(q) = Update
  <2>1. <<Update>> \in Seq(Q) /\ Len(<<Update>>) = 1 /\ <<Update>>[1] = Update
    OBVIOUS
  <2> HIDE DEF Q
  <2> QED BY <1>1, <2>1, ConcatProperties
<1>3. FaceDbTypeOK'
  BY <1>1, <1>2 DEF FacesIInv, FaceTemplateInv, FaceDbTypeOK, add_feature_handler, Known, FaceEntry
<1>4. CopiesFollow'
  BY <1>1, <1>2 DEF FacesIInv, FaceTemplateInv, FaceDbTypeOK, add_feature_handler, CopiesFollow
<1>5. KnownOnce' /\ RemovedStaysAway' /\ CopiesAgree'
  BY DEF FacesIInv, FaceTemplateInv, add_feature_handler, KnownOnce, RemovedStaysAway, CopiesAgree,
         Agree, Same
<1>6. KnowsItsOwn' /\ GoneIsTold'
  BY DEF FacesIInv, add_feature_handler, KnowsItsOwn, GoneIsTold, Doing, Works
<1> QED BY <1>3, <1>4, <1>5, <1>6 DEF FacesIInv, FaceTemplateInv, add_feature_handler, Works

LEMMA RegisterKeeps ==
  ASSUME FacesIInv, NEW t \in Feature, NEW l \in FaceList, face_register(t, l) PROVE FacesIInv'
<1> DEFINE Q == FaceList \cup {Update}
<1>1. feature_q[t] \in Seq(Q) /\ feature_q' = [feature_q EXCEPT ![t] = Append(@, l)]
  BY DEF FacesIInv, FaceTemplateInv, FaceDbTypeOK, face_register
<1>2. LET q == Append(feature_q[t], l)
      IN q \in Seq(Q) /\ (feature_q[t] # <<>> => q # <<>> /\ Head(q) = Head(feature_q[t]))
  <2>1. l \in Q
    OBVIOUS
  <2> HIDE DEF Q
  <2> QED BY <1>1, <2>1, AppendProperties
<1>3. FaceDbTypeOK'
  BY <1>1, <1>2 DEF FacesIInv, FaceTemplateInv, FaceDbTypeOK, face_register, Known, FaceEntry
<1>4. CopiesFollow'
  BY <1>1, <1>2 DEF FacesIInv, FaceTemplateInv, FaceDbTypeOK, face_register, CopiesFollow
<1>5. KnownOnce' /\ RemovedStaysAway' /\ CopiesAgree'
  BY DEF FacesIInv, FaceTemplateInv, face_register, KnownOnce, RemovedStaysAway, CopiesAgree,
         Agree, Same
<1>6. KnowsItsOwn' /\ GoneIsTold'
  BY DEF FacesIInv, face_register, KnowsItsOwn, GoneIsTold, Doing, Works
<1> QED BY <1>3, <1>4, <1>5, <1>6 DEF FacesIInv, FaceTemplateInv, face_register, Works

LEMMA UpdateKeeps ==
  ASSUME FacesIInv, NEW t \in Feature, UpdateFaceTemplate(t) PROVE FacesIInv'
<1> DEFINE Q == FaceList \cup {Update}
<1>1. feature_q[t] \in Seq(Q) /\ feature_q[t] # <<>> /\ Tail(feature_q[t]) \in Seq(Q)
  BY DEF FacesIInv, FaceTemplateInv, FaceDbTypeOK, UpdateFaceTemplate
<1>2. /\ ~Works(t) /\ UNCHANGED <<m_facelist, m_cb_list, feature_task, registered, stale_copies>>
      /\ m_facedb' = [m_facedb EXCEPT ![t] = m_facelist]
      /\ \A u \in Feature \ {t} : feature_q'[u] = feature_q[u]
  BY DEF UpdateFaceTemplate, Idle, Works, FacesIInv, FaceTemplateInv, FaceDbTypeOK
<1>3. \A u \in Feature : m_facedb'[u] = IF u = t THEN m_facelist ELSE m_facedb[u]
  BY <1>2 DEF FacesIInv, FaceTemplateInv, FaceDbTypeOK
<1>4. FaceDbTypeOK'
  BY <1>1, <1>2, <1>3
  DEF FacesIInv, FaceTemplateInv, FaceDbTypeOK, UpdateFaceTemplate, Known, FaceEntry
<1>5. CopiesFollow'
  BY <1>2, <1>3 DEF FacesIInv, FaceTemplateInv, FaceDbTypeOK, CopiesFollow
<1>6. KnownOnce' /\ RemovedStaysAway'
  BY <1>2 DEF FacesIInv, FaceTemplateInv, KnownOnce, RemovedStaysAway
<1>7. CopiesAgree'
  BY <1>2, <1>3 DEF FacesIInv, CopiesAgree, Agree, Same
<1>8. KnowsItsOwn' /\ GoneIsTold'
  BY <1>2, <1>3 DEF FacesIInv, KnowsItsOwn, GoneIsTold, Doing, Works
<1> QED BY <1>2, <1>4, <1>5, <1>6, <1>7, <1>8 DEF FacesIInv, FaceTemplateInv, Works

\* It begins with a copy that is the database.
LEMMA RegistrationKeeps ==
  ASSUME FacesIInv, NEW t \in Feature, face_registerimp(t) PROVE FacesIInv'
<1> DEFINE Q == FaceList \cup {Update}
<1>1. /\ feature_q[t] \in Seq(Q) /\ feature_q[t] # <<>> /\ Head(feature_q[t]) # Update
      /\ t \in m_cb_list
      /\ UNCHANGED <<m_facelist, m_facedb, m_cb_list, face_guids, stale_copies>>
  BY DEF FacesIInv, FaceTemplateInv, FaceDbTypeOK, face_registerimp, Idle
<1>2. Tail(feature_q[t]) \in Seq(Q) /\ Head(feature_q[t]) \in FaceList
  BY <1>1
<1>3. m_facedb[t] = m_facelist
  BY <1>1 DEF FacesIInv, FaceTemplateInv, CopiesFollow
<1>4. PICK faces \in Seq(Face) : feature_task' = [feature_task EXCEPT ![t] = faces]
  <2>1. Head(feature_q[t]) \in Seq(Face) /\ Head(feature_q[t]) # <<>>
    BY <1>2, FacesOf
  <2>2. Head(Head(feature_q[t])) \in Face
    BY <2>1
  <2>3. <<Head(Head(feature_q[t]))>> \in Seq(Face)
    BY <2>2
  <2>4. PICK faces \in {Head(feature_q[t]), <<Head(Head(feature_q[t]))>>} :
               feature_task' = [feature_task EXCEPT ![t] = faces]
    BY DEF face_registerimp
  <2>5. faces \in Seq(Face)
    BY <2>1, <2>3, <2>4
  <2> QED BY <2>4, <2>5
<1>5. /\ feature_q' = [feature_q EXCEPT ![t] = Tail(@)]
      /\ registered' = [registered EXCEPT ![t] = @ + 1]
  BY DEF face_registerimp
<1>6. FaceDbTypeOK'
  BY <1>1, <1>2, <1>4, <1>5 DEF FacesIInv, FaceTemplateInv, FaceDbTypeOK, Known, FaceEntry
<1>7. CopiesFollow'
  BY <1>1, <1>3, <1>5 DEF FacesIInv, FaceTemplateInv, FaceDbTypeOK, CopiesFollow
<1>8. KnownOnce' /\ RemovedStaysAway' /\ CopiesAgree'
  BY <1>1 DEF FacesIInv, FaceTemplateInv, KnownOnce, RemovedStaysAway, CopiesAgree, Agree, Same
<1>9. \A u \in Feature \ {t} : feature_task'[u] = feature_task[u] /\ registered'[u] = registered[u]
  BY <1>4, <1>5 DEF FacesIInv, FaceTemplateInv, FaceDbTypeOK
<1>10. KnowsItsOwn' /\ GoneIsTold'
  BY <1>1, <1>3, <1>9 DEF FacesIInv, KnowsItsOwn, GoneIsTold, Doing, Works
<1>11. \A u \in Feature : Works(u)' => u \in m_cb_list'
  BY <1>1, <1>9 DEF FacesIInv, Works
<1> QED BY <1>6, <1>7, <1>8, <1>10, <1>11 DEF FacesIInv, FaceTemplateInv

LEMMA RemovalKeeps ==
  ASSUME FacesIInv, NEW gone \in SUBSET DOMAIN m_facelist, delTemplatebyName(gone)
  PROVE  FacesIInv'
<1>1. /\ UNCHANGED <<m_facedb, m_cb_list, feature_task, registered, face_guids>>
      /\ DOMAIN m_facelist' = DOMAIN m_facelist \ gone
      /\ m_facelist' = [g \in DOMAIN m_facelist' |-> m_facelist[g]]
      /\ feature_q' = Notified(feature_q)
      /\ stale_copies \subseteq stale_copies'
  BY DEF delTemplatebyName
<1>2. ASSUME NEW t \in Feature, Works(t), NEW g \in gone PROVE <<g, Doing(t)>> \in stale_copies'
  BY <1>2 DEF delTemplatebyName, Works
<1>3. FaceDbTypeOK'
  BY <1>1, ToldFirst DEF FacesIInv, FaceTemplateInv, FaceDbTypeOK, Known, FaceEntry
<1>4. CopiesFollow'
  BY <1>1, ToldFirst DEF FacesIInv, FaceTemplateInv, CopiesFollow
<1>5. KnownOnce' /\ RemovedStaysAway'
  BY <1>1 DEF FacesIInv, FaceTemplateInv, KnownOnce, RemovedStaysAway
<1>6. CopiesAgree'
  BY <1>1 DEF FacesIInv, CopiesAgree, Agree, Same
<1>7. KnowsItsOwn'
  BY <1>1 DEF FacesIInv, KnowsItsOwn, Doing, Works
<1>8. GoneIsTold'
  BY <1>1, <1>2 DEF FacesIInv, GoneIsTold, Doing, Works
<1> QED BY <1>1, <1>3, <1>4, <1>5, <1>6, <1>7, <1>8 DEF FacesIInv, FaceTemplateInv, Works

\* A new face is under a guid nobody has, and under an id and of a person that the copy
\* does not have.
LEMMA NewKeeps ==
  ASSUME FacesIInv, NEW t \in Feature, NEW f \in Face, Works(t), insert_new(t, f),
         feature_task' \in [Feature -> Seq(Face)], \A u \in Feature : Works(u)' => Works(u),
         UNCHANGED <<m_facedb, m_cb_list, registered, stale_copies>>
  PROVE  FacesIInv'
<1> DEFINE g0 == face_guids + 1
           e == [person |-> f.person, name |-> f.name, id |-> Unused(t), made |-> Doing(t),
                 back |-> Nobody]
<1>1. /\ Alike(t, f) = {} /\ face_guids' = g0 /\ feature_q' = Notified(feature_q)
      /\ m_facelist' = [x \in DOMAIN m_facelist \cup {g0} |-> IF x = g0 THEN e ELSE m_facelist[x]]
  BY DEF insert_new, setTemplate
<1>2. /\ face_guids \in Nat /\ Known(m_facelist) /\ \A u \in Feature : Known(m_facedb[u])
      /\ FaceDbTypeOK
  BY DEF FacesIInv, FaceTemplateInv, FaceDbTypeOK
<1>3. g0 \notin DOMAIN m_facelist /\ \A u \in Feature : g0 \notin DOMAIN m_facedb[u]
  BY <1>2 DEF Known
<1>4. Unused(t) \in Nat /\ \A g \in DOMAIN m_facedb[t] : m_facedb[t][g].id # Unused(t)
  BY <1>2, UnusedIs
<1>5. e \in FaceEntry
  BY <1>2, <1>4 DEF FaceEntry, Registration, Doing, FaceDbTypeOK
<1>6. /\ DOMAIN m_facelist' = DOMAIN m_facelist \cup {g0} /\ m_facelist'[g0] = e
      /\ \A g \in DOMAIN m_facelist : m_facelist'[g] = m_facelist[g]
  BY <1>1, <1>3
<1>7. e.person = f.person /\ e.id = Unused(t) /\ e.made = Doing(t) /\ e.back = Nobody
  OBVIOUS
<1> HIDE DEF e
<1>8. FaceDbTypeOK'
  <2>1. Known(m_facelist)'
    BY <1>1, <1>2, <1>5, <1>6 DEF Known, FaceEntry
  <2>2. ASSUME NEW u \in Feature PROVE Known(m_facedb[u])'
    BY <1>1, <1>2, <2>2 DEF Known, FaceEntry
  <2> QED BY <1>1, <1>2, <2>1, <2>2, ToldFirst DEF FaceDbTypeOK
<1>9. CopiesFollow'
  BY <1>1, <1>2, ToldFirst DEF CopiesFollow
<1>10. CopiesAgree'
  BY <1>3, <1>6 DEF FacesIInv, CopiesAgree, Agree, Same
<1>11. RemovedStaysAway'
  BY <1>6, <1>7 DEF FacesIInv, FaceTemplateInv, RemovedStaysAway
<1>12. GoneIsTold'
  BY <1>6 DEF FacesIInv, GoneIsTold, Doing, Works
<1>13. KnowsItsOwn'
  <2> SUFFICES ASSUME NEW u \in Feature, Works(u)', NEW h \in DOMAIN m_facelist',
                      m_facelist'[h].made[1] = u, m_facelist'[h].made # Doing(u)',
                      m_facelist'[h].back = Nobody
               PROVE  h \in DOMAIN m_facedb'[u]
    BY DEF KnowsItsOwn
  <2>1. Doing(u)' = Doing(u)
    BY DEF Doing
  <2>2. CASE h = g0
    BY <1>6, <1>7, <2>1, <2>2 DEF Doing
  <2>3. CASE h # g0
    BY <1>6, <2>1, <2>3 DEF FacesIInv, KnowsItsOwn
  <2> QED BY <2>2, <2>3
<1>14. KnownOnce'
  <2>1. ASSUME NEW h \in DOMAIN m_facelist,
               m_facelist[h].id = e.id \/ m_facelist[h].person = e.person
        PROVE  \/ m_facelist[h].made = e.made \/ m_facelist[h].made[1] # e.made[1]
               \/ m_facelist[h].back # Nobody
    <3> SUFFICES ASSUME m_facelist[h].made # Doing(t), m_facelist[h].made[1] = t,
                        m_facelist[h].back = Nobody
                 PROVE  FALSE
      BY <1>7 DEF Doing
    <3>1. h \in DOMAIN m_facedb[t]
      BY DEF FacesIInv, KnowsItsOwn
    <3>2. m_facedb[t][h].id = m_facelist[h].id /\ m_facedb[t][h].person = m_facelist[h].person
      BY <3>1 DEF FacesIInv, CopiesAgree, Agree, Same
    <3>3. m_facedb[t][h].id # e.id /\ m_facedb[t][h].person # e.person
      BY <1>1, <1>4, <1>7, <3>1 DEF Alike
    <3> QED BY <2>1, <3>2, <3>3
  <2> QED BY <1>6, <2>1 DEF FacesIInv, FaceTemplateInv, KnownOnce
<1> QED BY <1>8, <1>9, <1>10, <1>11, <1>12, <1>13, <1>14 DEF FacesIInv, FaceTemplateInv

\* A face that is merged keeps what it is; when it had been removed, the copy was stale.
LEMMA MergeKeeps ==
  ASSUME FacesIInv, NEW t \in Feature, NEW f \in Face, Works(t), insert_known(t, f),
         feature_task' \in [Feature -> Seq(Face)], \A u \in Feature : Works(u)' => Works(u),
         UNCHANGED <<m_facedb, m_cb_list, registered, stale_copies>>
  PROVE  FacesIInv'
<1>1. PICK g \in Alike(t, f) :
        IF m_facedb[t][g].name = f.name
        THEN setTemplate(g, [m_facedb[t][g] EXCEPT
                               !.back = IF g \in DOMAIN m_facelist
                                        THEN m_facelist[g].back ELSE Doing(t)])
        ELSE UNCHANGED <<m_facelist, feature_q>>
  BY DEF insert_known
<1> DEFINE e == [m_facedb[t][g] EXCEPT
                   !.back = IF g \in DOMAIN m_facelist THEN m_facelist[g].back ELSE Doing(t)]
<1>2. CASE UNCHANGED <<m_facelist, feature_q>>
  <2>1. UNCHANGED face_guids
    BY DEF insert_known
  <2>2. FaceDbTypeOK'
    BY <1>2, <2>1 DEF FacesIInv, FaceTemplateInv, FaceDbTypeOK, Known, FaceEntry
  <2>3. CopiesFollow' /\ KnownOnce' /\ RemovedStaysAway' /\ CopiesAgree'
    BY <1>2 DEF FacesIInv, FaceTemplateInv, CopiesFollow, KnownOnce, RemovedStaysAway, CopiesAgree,
                Agree, Same
  <2>4. KnowsItsOwn' /\ GoneIsTold'
    BY <1>2 DEF FacesIInv, KnowsItsOwn, GoneIsTold, Doing
  <2> QED BY <2>2, <2>3, <2>4 DEF FacesIInv, FaceTemplateInv
<1>3. CASE setTemplate(g, e)
  <2>1. /\ face_guids' = face_guids /\ feature_q' = Notified(feature_q)
        /\ m_facelist' = [x \in DOMAIN m_facelist \cup {g} |-> IF x = g THEN e ELSE m_facelist[x]]
    BY <1>3 DEF insert_known, setTemplate
  <2>2. /\ face_guids \in Nat /\ Known(m_facelist) /\ \A u \in Feature : Known(m_facedb[u])
        /\ FaceDbTypeOK
    BY DEF FacesIInv, FaceTemplateInv, FaceDbTypeOK
  <2>3. g \in DOMAIN m_facedb[t] /\ m_facedb[t][g] \in FaceEntry
    BY <1>1, <2>2 DEF Alike, Known
  <2>4. /\ e \in FaceEntry /\ Same(e, m_facedb[t][g])
        /\ e.back = IF g \in DOMAIN m_facelist THEN m_facelist[g].back ELSE Doing(t)
    <3>1. Doing(t) \in Registration
      BY <2>2 DEF Doing, Registration, FaceDbTypeOK
    <3>2. g \in DOMAIN m_facelist => m_facelist[g].back \in Registration \cup {Nobody}
      BY <2>2 DEF Known, FaceEntry
    <3> QED BY <2>3, <3>1, <3>2 DEF FaceEntry, Same
  <2>5. /\ DOMAIN m_facelist' = DOMAIN m_facelist \cup {g} /\ m_facelist'[g] = e
        /\ \A h \in DOMAIN m_facelist \ {g} : m_facelist'[h] = m_facelist[h]
    BY <2>1
  <2> HIDE DEF e
  <2>6. /\ g \in DOMAIN m_facelist => Same(e, m_facelist[g]) /\ e.back = m_facelist[g].back
        /\ g \notin DOMAIN m_facelist => e.back = Doing(t) /\ e.back # Nobody
    <3>1. g \in DOMAIN m_facelist => Same(m_facelist[g], m_facedb[t][g])
      BY <2>3 DEF FacesIInv, CopiesAgree, Agree
    <3>2. Doing(t) # Nobody
      BY DEF Doing, Nobody
    <3> QED BY <2>4, <3>1, <3>2 DEF Same
  <2>7. FaceDbTypeOK'
    <3>1. Known(m_facelist)'
      BY <2>1, <2>2, <2>3, <2>4, <2>5 DEF Known, FaceEntry
    <3>2. ASSUME NEW u \in Feature PROVE Known(m_facedb[u])'
      BY <2>1, <2>2, <3>2 DEF Known, FaceEntry
    <3> QED BY <2>1, <2>2, <3>1, <3>2, ToldFirst DEF FaceDbTypeOK
  <2>8. CopiesFollow'
    BY <2>1, <2>2, ToldFirst DEF CopiesFollow
  <2>9. CopiesAgree'
    BY <2>3, <2>4, <2>5 DEF FacesIInv, CopiesAgree, Agree, Same
  <2>10. RemovedStaysAway'
    <3>1. g \notin DOMAIN m_facelist => <<g, Doing(t)>> \in stale_copies
      BY <2>3 DEF FacesIInv, GoneIsTold
    <3> QED BY <2>5, <2>6, <3>1 DEF FacesIInv, FaceTemplateInv, RemovedStaysAway
  <2>11. GoneIsTold'
    BY <2>5 DEF FacesIInv, GoneIsTold, Doing
  <2>12. KnowsItsOwn'
    <3> SUFFICES ASSUME NEW u \in Feature, Works(u)', NEW h \in DOMAIN m_facelist',
                        m_facelist'[h].made[1] = u, m_facelist'[h].made # Doing(u)',
                        m_facelist'[h].back = Nobody
                 PROVE  h \in DOMAIN m_facedb'[u]
      BY DEF KnowsItsOwn
    <3>1. Doing(u)' = Doing(u)
      BY DEF Doing
    <3>2. /\ h \in DOMAIN m_facelist /\ m_facelist[h].made = m_facelist'[h].made
          /\ m_facelist[h].back = Nobody
      BY <2>5, <2>6 DEF Same
    <3> QED BY <3>1, <3>2 DEF FacesIInv, KnowsItsOwn
  <2>13. KnownOnce'
    <3>1. ASSUME NEW h \in DOMAIN m_facelist', m_facelist'[h].back = Nobody
          PROVE  /\ h \in DOMAIN m_facelist /\ m_facelist[h].back = Nobody
                 /\ Same(m_facelist'[h], m_facelist[h])
      BY <2>5, <2>6, <3>1 DEF Same
    <3> SUFFICES ASSUME NEW h \in DOMAIN m_facelist', NEW k \in DOMAIN m_facelist', h # k,
                        m_facelist'[h].back = Nobody, m_facelist'[k].back = Nobody,
                        \/ m_facelist'[h].id = m_facelist'[k].id
                        \/ m_facelist'[h].person = m_facelist'[k].person
                 PROVE  \/ m_facelist'[h].made = m_facelist'[k].made
                        \/ m_facelist'[h].made[1] # m_facelist'[k].made[1]
      BY DEF KnownOnce
    <3>2. /\ h \in DOMAIN m_facelist /\ k \in DOMAIN m_facelist
          /\ m_facelist[h].back = Nobody /\ m_facelist[k].back = Nobody
          /\ Same(m_facelist'[h], m_facelist[h]) /\ Same(m_facelist'[k], m_facelist[k])
      BY <3>1
    <3>3. \/ m_facelist[h].id = m_facelist[k].id
          \/ m_facelist[h].person = m_facelist[k].person
      BY <3>2 DEF Same
    <3>4. \/ m_facelist[h].made = m_facelist[k].made
          \/ m_facelist[h].made[1] # m_facelist[k].made[1]
      BY <3>2, <3>3 DEF FacesIInv, FaceTemplateInv, KnownOnce
    <3> QED BY <3>2, <3>4 DEF Same
  <2> QED BY <2>7, <2>8, <2>9, <2>10, <2>11, <2>12, <2>13 DEF FacesIInv, FaceTemplateInv
<1> QED BY <1>1, <1>2, <1>3

LEMMA InsertKeeps ==
  ASSUME FacesIInv, NEW t \in Feature, face_insert_map(t) PROVE FacesIInv'
<1> DEFINE f == Head(feature_task[t])
<1>1. /\ Works(t) /\ feature_task' = [feature_task EXCEPT ![t] = Tail(@)]
      /\ UNCHANGED <<m_facedb, m_cb_list, registered, stale_copies>>
      /\ insert_new(t, f) \/ insert_known(t, f) \/ UNCHANGED <<m_facelist, feature_q, face_guids>>
  BY DEF face_insert_map, Works
<1>2. f \in Face /\ Tail(feature_task[t]) \in Seq(Face) /\ feature_task \in [Feature -> Seq(Face)]
  <2>1. feature_task[t] \in Seq(Face) /\ feature_task[t] # <<>>
    BY <1>1 DEF FacesIInv, FaceTemplateInv, FaceDbTypeOK, Works, NoFaces
  <2> QED BY <2>1 DEF FacesIInv, FaceTemplateInv, FaceDbTypeOK
<1>3. feature_task' \in [Feature -> Seq(Face)] /\ \A u \in Feature : Works(u)' => Works(u)
  BY <1>1, <1>2 DEF Works
<1>4. CASE insert_new(t, f) \/ insert_known(t, f)
  BY <1>1, <1>2, <1>3, <1>4, NewKeeps, MergeKeeps
<1>5. CASE UNCHANGED <<m_facelist, feature_q, face_guids>>
  <2>2. FaceDbTypeOK'
    BY <1>1, <1>3, <1>5 DEF FacesIInv, FaceTemplateInv, FaceDbTypeOK, Known, FaceEntry
  <2>3. CopiesFollow' /\ KnownOnce' /\ RemovedStaysAway' /\ CopiesAgree'
    BY <1>1, <1>5 DEF FacesIInv, FaceTemplateInv, CopiesFollow, KnownOnce, RemovedStaysAway,
                      CopiesAgree, Agree, Same
  <2>4. KnowsItsOwn' /\ GoneIsTold'
    BY <1>1, <1>3, <1>5 DEF FacesIInv, KnowsItsOwn, GoneIsTold, Doing
  <2> QED BY <1>1, <1>3, <2>2, <2>3, <2>4 DEF FacesIInv, FaceTemplateInv
<1> QED BY <1>1, <1>4, <1>5

LEMMA FacesStep == FacesIInv /\ [FaceDbNext]_faceDbVars => FacesIInv'
<1> SUFFICES ASSUME FacesIInv, [FaceDbNext]_faceDbVars PROVE FacesIInv'
  OBVIOUS
<1>1. CASE remove_face
  <2>1. PICK gone \in SUBSET DOMAIN m_facelist : delTemplatebyName(gone)
    BY <1>1 DEF remove_face
  <2> QED BY <2>1, RemovalKeeps
<1>2. ASSUME NEW t \in Feature,
             \/ add_feature_handler(t) \/ UpdateFaceTemplate(t) \/ face_registerimp(t)
             \/ face_insert_map(t) \/ \E l \in FaceList : face_register(t, l)
      PROVE  FacesIInv'
  BY <1>2, BeginKeeps, UpdateKeeps, RegistrationKeeps, InsertKeeps, RegisterKeeps
<1>3. CASE UNCHANGED faceDbVars
  <2>1. FaceDbTypeOK'
    BY <1>3 DEF faceDbVars, FacesIInv, FaceTemplateInv, FaceDbTypeOK, Known, FaceEntry
  <2>2. CopiesFollow' /\ KnownOnce' /\ RemovedStaysAway' /\ CopiesAgree'
    BY <1>3 DEF faceDbVars, FacesIInv, FaceTemplateInv, CopiesFollow, KnownOnce, RemovedStaysAway,
                CopiesAgree, Agree, Same
  <2>3. KnowsItsOwn' /\ GoneIsTold'
    BY <1>3 DEF faceDbVars, FacesIInv, KnowsItsOwn, GoneIsTold, Doing, Works
  <2> QED BY <1>3, <2>1, <2>2, <2>3 DEF faceDbVars, FacesIInv, FaceTemplateInv, Works
<1> QED BY <1>1, <1>2, <1>3 DEF FaceDbNext

LEMMA FacesInit == FaceDbInit => FacesIInv
<1> SUFFICES ASSUME FaceDbInit PROVE FacesIInv
  OBVIOUS
<1>1. DOMAIN m_facelist = {} /\ \A t \in Feature : DOMAIN m_facedb[t] = {}
  BY DEF FaceDbInit
<1>2. Known(m_facelist) /\ \A t \in Feature : Known(m_facedb[t])
  BY <1>1 DEF FaceDbInit, Known
<1>3. FaceDbTypeOK
  BY <1>2 DEF FaceDbInit, FaceDbTypeOK, NoFaces
<1>4. CopiesFollow /\ KnownOnce /\ RemovedStaysAway
  BY <1>1 DEF FaceDbInit, CopiesFollow, KnownOnce, RemovedStaysAway
<1>5. CopiesAgree
  BY <1>1 DEF CopiesAgree, Agree
<1>6. \A t \in Feature : ~Works(t)
  BY DEF FaceDbInit, Works
<1> QED BY <1>3, <1>4, <1>5, <1>6 DEF FacesIInv, FaceTemplateInv, KnowsItsOwn, GoneIsTold

-------------------------------------------------------------------------------
(* The expression controllers.                                             *)

Task == [id : ExprId, from : Asker, left : SUBSET Expresser]

\* A request older than i that c was passed, and whose task was dropped.
Dropped(gone, i, c) == \E d \in gone : d < i /\ c \in posted[d]

\* What the tasks say of the requests when those of gone have been dropped.
OwnTask(t, gone) ==
  /\ t.left \subseteq expression_client_list /\ t.id \notin answered \cup gone
  /\ t.left = {} => departed[t.id] # {}
  /\ \A c \in posted[t.id] \ t.left :
       c \in performed[t.id] \cup departed[t.id] \/ Dropped(gone, t.id, c)
  /\ \A c \in t.left : \E n \in DOMAIN inbox[c] : inbox[c][n] = t.id

AnswersOwn(gone) ==
  \A i \in answered : \A c \in posted[i] :
    c \in performed[i] \cup departed[i] \/ Dropped(gone, i, c)

TasksInv(ts, gone) ==
  /\ ts \in Seq(Task)
  /\ \A i, j \in DOMAIN ts : i < j => ts[i].id < ts[j].id
  /\ Ids(ts) \cup answered \cup gone \subseteq DOMAIN posted
  /\ DOMAIN posted \subseteq Ids(ts) \cup answered \cup gone
  /\ \A k \in DOMAIN ts : OwnTask(ts[k], gone)
  /\ AnswersOwn(gone)

\* A controller has before it, in their order, requests it was passed and did not answer.
InboxInv ==
  \A c \in Expresser :
    /\ \A i, j \in DOMAIN inbox[c] : i < j => inbox[c][i] < inbox[c][j]
    /\ inbox[c] # <<>> => c \in expression_client_list
    /\ \A i \in DOMAIN inbox[c] :
         LET n == inbox[c][i]
         IN n \in DOMAIN posted /\ c \in posted[n] /\ c \notin performed[n] \cup departed[n]

Unheard == \A i \in ExprId \ DOMAIN posted : performed[i] = {} /\ departed[i] = {}

ExprIInv == ExprTypeOK /\ InboxInv /\ Unheard /\ TasksInv(m_tasklist, forgotten)

\* Some tasks, in the order they have in a longer list.
Picked(f, ts, of) ==
  /\ f \in [1..Len(ts) -> 1..Len(of)]
  /\ \A i, j \in 1..Len(ts) : i < j => f[i] < f[j]
  /\ \A i \in 1..Len(ts) : ts[i] = of[f[i]]

LEMMA PassedIds == ExprTypeOK => DOMAIN posted \subseteq ExprId
<1> SUFFICES ASSUME ExprTypeOK PROVE DOMAIN posted \subseteq ExprId
  OBVIOUS
<1>1. DOMAIN posted = 1..Len(posted) /\ Len(posted) <= MaxExpr /\ Len(posted) \in Nat
  BY DEF ExprTypeOK
<1> QED BY <1>1, ExpressionAssumption DEF ExprId

\* Dropping tasks, whichever.
LEMMA PickedKeeps ==
  ASSUME ExprTypeOK, NEW of \in Seq(Task), NEW gone, TasksInv(of, gone),
         NEW ts \in Seq(Task), NEW f, Picked(f, ts, of)
  PROVE  TasksInv(ts, gone \cup (Ids(of) \ Ids(ts)))
<1> DEFINE now == gone \cup (Ids(of) \ Ids(ts))
<1>1. /\ DOMAIN ts = 1..Len(ts) /\ DOMAIN of = 1..Len(of)
      /\ Len(ts) \in Nat /\ Len(of) \in Nat
  OBVIOUS
<1>2. \A k \in DOMAIN ts : f[k] \in DOMAIN of /\ ts[k] = of[f[k]]
  BY <1>1 DEF Picked
<1>3. \A i, j \in DOMAIN ts : i < j => ts[i].id < ts[j].id
  BY <1>1, <1>2 DEF Picked, TasksInv
<1>4. Ids(ts) \subseteq Ids(of)
  BY <1>2 DEF Ids
<1>5. /\ Ids(ts) \cup answered \cup now \subseteq DOMAIN posted
      /\ DOMAIN posted \subseteq Ids(ts) \cup answered \cup now
  BY <1>4 DEF TasksInv
<1>6. \A i, c : Dropped(gone, i, c) => Dropped(now, i, c)
  BY DEF Dropped
<1>7. AnswersOwn(now)
  BY <1>6 DEF TasksInv, AnswersOwn
<1>8. ASSUME NEW k \in DOMAIN ts PROVE OwnTask(ts[k], now)
  <2>1. ts[k].id \in Ids(ts)
    BY DEF Ids
  <2>2. f[k] \in DOMAIN of /\ ts[k] = of[f[k]]
    BY <1>2
  <2>3. OwnTask(ts[k], gone)
    BY <2>2 DEF TasksInv
  <2>4. ts[k].id \notin now
    BY <2>1, <2>3 DEF OwnTask
  <2> HIDE DEF now
  <2> QED BY <1>6, <2>3, <2>4 DEF OwnTask
<1> QED BY <1>3, <1>5, <1>7, <1>8 DEF TasksInv

\* What remove_overdue leaves.
LEMMA RestKeeps ==
  ASSUME ExprIInv, NEW rest \in Rests
  PROVE  rest \in Seq(Task) /\ TasksInv(rest, forgotten \cup Overdue(rest))
<1>1. m_tasklist \in Seq(Task)
  BY DEF ExprIInv, ExprTypeOK, Task
<1>2. PICK n \in 0..Len(m_tasklist) : rest = SubSeq(m_tasklist, n + 1, Len(m_tasklist))
  BY DEF Rests
<1>3. /\ rest \in Seq(Task) /\ Len(rest) = Len(m_tasklist) - n
      /\ \A i \in 1..Len(rest) : rest[i] = m_tasklist[n + i]
  <2>1. \A i \in n + 1..Len(m_tasklist) : m_tasklist[i] \in Task
    BY <1>1, <1>2
  <2>2. n + 1 \in Int /\ Len(m_tasklist) \in Int
    BY <1>1, <1>2
  <2>3. /\ rest \in Seq(Task)
        /\ Len(rest) = IF n + 1 <= Len(m_tasklist) THEN Len(m_tasklist) - (n + 1) + 1 ELSE 0
        /\ \A i \in 1..Len(m_tasklist) - (n + 1) + 1 : rest[i] = m_tasklist[n + 1 + i - 1]
    BY <1>2, <2>1, <2>2, SubSeqProperties
  <2> QED BY <1>1, <1>2, <2>3
<1>4. Picked([i \in 1..Len(rest) |-> n + i], rest, m_tasklist)
  <2>1. Len(rest) \in Nat /\ Len(m_tasklist) \in Nat /\ n \in Nat
    BY <1>1, <1>2, <1>3
  <2> QED BY <1>3, <2>1 DEF Picked
<1> QED BY <1>1, <1>3, <1>4, PickedKeeps DEF ExprIInv, Overdue

LEMMA RestIds == \A rest \in Rests : ExprTypeOK => Ids(rest) \subseteq Ids(m_tasklist)
<1> SUFFICES ASSUME NEW rest \in Rests, ExprTypeOK PROVE Ids(rest) \subseteq Ids(m_tasklist)
  OBVIOUS
<1>1. m_tasklist \in Seq(Task)
  BY DEF ExprTypeOK, Task
<1>2. PICK n \in 0..Len(m_tasklist) : rest = SubSeq(m_tasklist, n + 1, Len(m_tasklist))
  BY DEF Rests
<1>3. \A k \in DOMAIN rest : k + n \in DOMAIN m_tasklist /\ rest[k] = m_tasklist[k + n]
  BY <1>1, <1>2
<1> QED BY <1>3 DEF Ids

\* A request of which nobody is asked is answered; another one is a task of its own.
LEMMA RequestKeeps ==
  ASSUME ExprIInv, NEW a \in Asker, NEW rest \in Rests, change_request(a, rest)
  PROVE  ExprIInv'
<1> PICK id : id = Len(posted) + 1
  OBVIOUS
<1> PICK to : to = expression_client_list
  OBVIOUS
<1> PICK task : task = [id |-> id, from |-> a, left |-> to]
  OBVIOUS
<1> PICK gone : gone = forgotten \cup Overdue(rest)
  OBVIOUS
<1>1. /\ posted' = Append(posted, to) /\ id \in ExprId
      /\ inbox' = [c \in Expresser |-> IF c \in to THEN Append(inbox[c], id) ELSE inbox[c]]
      /\ IF to = {} THEN answered' = answered \cup {id} /\ m_tasklist' = rest
         ELSE m_tasklist' = Append(rest, task) /\ UNCHANGED answered
      /\ forgotten' = gone
      /\ UNCHANGED <<expression_client_list, performed, departed, off_list>>
  BY ExpressionAssumption DEF change_request, ExprIInv, ExprTypeOK, ExprId
<1>2. rest \in Seq(Task) /\ TasksInv(rest, gone)
  BY RestKeeps
<1>3. /\ DOMAIN posted = 1..Len(posted) /\ Len(posted) \in Nat /\ to \subseteq Expresser
      /\ DOMAIN posted' = DOMAIN posted \cup {id} /\ id \notin DOMAIN posted
      /\ \A i \in DOMAIN posted : posted'[i] = posted[i] /\ i < id
      /\ posted'[id] = to
  BY <1>1 DEF ExprIInv, ExprTypeOK
<1>4. ASSUME NEW c \in Expresser
      PROVE  /\ inbox'[c] \in Seq(ExprId)
             /\ \A i \in DOMAIN inbox[c] : i \in DOMAIN inbox'[c] /\ inbox'[c][i] = inbox[c][i]
             /\ c \notin to => inbox'[c] = inbox[c]
             /\ c \in to => /\ DOMAIN inbox'[c] = DOMAIN inbox[c] \cup {Len(inbox[c]) + 1}
                            /\ inbox'[c][Len(inbox[c]) + 1] = id
             /\ DOMAIN inbox[c] = 1..Len(inbox[c]) /\ Len(inbox[c]) \in Nat
  <2>1. inbox[c] \in Seq(ExprId)
    BY DEF ExprIInv, ExprTypeOK
  <2>2. inbox'[c] = IF c \in to THEN Append(inbox[c], id) ELSE inbox[c]
    BY <1>1
  <2> QED BY <1>1, <2>1, <2>2
<1>5. InboxInv'
  <2> SUFFICES ASSUME NEW c \in Expresser
               PROVE  /\ \A i, j \in DOMAIN inbox'[c] : i < j => inbox'[c][i] < inbox'[c][j]
                      /\ inbox'[c] # <<>> => c \in expression_client_list'
                      /\ \A i \in DOMAIN inbox'[c] :
                           LET n == inbox'[c][i]
                           IN /\ n \in DOMAIN posted' /\ c \in posted'[n]
                              /\ c \notin performed'[n] \cup departed'[n]
    BY DEF InboxInv
  <2>1. /\ \A i, j \in DOMAIN inbox[c] : i < j => inbox[c][i] < inbox[c][j]
        /\ inbox[c] # <<>> => c \in to
        /\ \A i \in DOMAIN inbox[c] :
             /\ inbox[c][i] \in DOMAIN posted /\ c \in posted[inbox[c][i]]
             /\ c \notin performed[inbox[c][i]] \cup departed[inbox[c][i]]
    BY DEF ExprIInv, InboxInv
  <2>2. CASE c \notin to
    BY <1>1, <1>3, <1>4, <2>1, <2>2
  <2>3. CASE c \in to
    <3>1. c \notin performed[id] \cup departed[id]
      BY <1>1, <1>3 DEF ExprIInv, Unheard
    <3>2. \A i, j \in DOMAIN inbox'[c] : i < j => inbox'[c][i] < inbox'[c][j]
      BY <1>3, <1>4, <2>1, <2>3
    <3> QED BY <1>1, <1>3, <1>4, <2>1, <2>3, <3>1, <3>2
  <2> QED BY <2>2, <2>3
<1>6. Unheard'
  BY <1>1, <1>3 DEF ExprIInv, Unheard
<1>7. \A i \in DOMAIN posted : \A c : Dropped(gone, i, c) => Dropped(gone, i, c)'
  <2>1. gone \subseteq DOMAIN posted
    BY <1>2 DEF TasksInv
  <2> QED BY <1>3, <2>1 DEF Dropped
<1>8. AnswersOwn(gone)'
  <2>1. answered \subseteq DOMAIN posted /\ answered' \subseteq answered \cup {id}
    BY <1>1, <1>2 DEF TasksInv
  <2>2. id \in answered' => to = {}
    BY <1>1, <1>3, <2>1
  <2>3. AnswersOwn(gone)
    BY <1>2 DEF TasksInv
  <2> QED BY <1>1, <1>3, <1>7, <2>1, <2>2, <2>3 DEF AnswersOwn
<1>9. ASSUME NEW k \in DOMAIN rest PROVE OwnTask(rest[k], gone)'
  <2> PICK t : t = rest[k]
    OBVIOUS
  <2>1. t.id \in DOMAIN posted /\ t.left \subseteq Expresser
    <3>1. t \in Task /\ t.id \in Ids(rest)
      BY <1>2 DEF Ids
    <3> QED BY <1>2, <3>1 DEF TasksInv, Task
  <2>2. /\ t.left \subseteq expression_client_list /\ t.id \notin answered \cup gone
        /\ t.left = {} => departed[t.id] # {}
        /\ \A c \in posted[t.id] \ t.left :
             c \in performed[t.id] \cup departed[t.id] \/ Dropped(gone, t.id, c)
        /\ \A c \in t.left : \E n \in DOMAIN inbox[c] : inbox[c][n] = t.id
    BY <1>2 DEF TasksInv, OwnTask
  <2>3. t.id \notin answered'
    BY <1>1, <1>3, <2>1, <2>2
  <2>4. ASSUME NEW c \in t.left
        PROVE \E n \in DOMAIN inbox'[c] : inbox'[c][n] = t.id
    <3>1. c \in Expresser
      BY <2>1, <2>4
    <3> QED BY <1>4, <2>2, <2>4, <3>1
  <2>5. ASSUME NEW c \in posted'[t.id] \ t.left
        PROVE  c \in performed'[t.id] \cup departed'[t.id] \/ Dropped(gone, t.id, c)'
    <3>1. c \in posted[t.id] \ t.left
      BY <1>3, <2>1, <2>5
    <3> QED BY <1>1, <1>7, <2>1, <2>2, <3>1
  <2>6. t.left \subseteq expression_client_list' /\ (t.left = {} => departed'[t.id] # {})
    BY <1>1, <2>2
  <2>7. OwnTask(t, gone)'
    BY <2>2, <2>3, <2>4, <2>5, <2>6 DEF OwnTask
  <2> QED BY <2>7
<1>10. CASE to = {}
  <2>1. /\ m_tasklist' = rest /\ answered' = answered \cup {id}
    BY <1>1, <1>10
  <2>2. ExprTypeOK'
    <3>1. m_tasklist' \in Seq(Task)
      BY <1>2, <2>1
    <3>2. inbox' \in [Expresser -> Seq(ExprId)]
      BY <1>1, <1>4
    <3>3. posted' \in Seq(SUBSET Expresser) /\ Len(posted') <= MaxExpr
      BY <1>1, <1>3 DEF ExprIInv, ExprTypeOK, ExprId
    <3>4. forgotten' \subseteq ExprId
      <4>1. gone \subseteq 1..Len(posted) /\ 1..Len(posted) \subseteq ExprId
        BY <1>1, <1>2, <1>3, ExpressionAssumption DEF TasksInv, ExprId
      <4> QED BY <1>1, <4>1
    <3> QED BY <1>1, <2>1, <3>1, <3>2, <3>3, <3>4 DEF ExprIInv, ExprTypeOK, Task
  <2>3. TasksInv(rest, gone)'
    BY <1>2, <1>3, <1>8, <1>9, <2>1 DEF TasksInv
  <2> QED BY <1>1, <1>5, <1>6, <2>1, <2>2, <2>3 DEF ExprIInv
<1>11. CASE to # {}
  <2> PICK ts : ts = Append(rest, task)
    OBVIOUS
  <2>1. /\ m_tasklist' = ts /\ answered' = answered
    BY <1>1, <1>11
  <2>2. task \in Task /\ task.id = id /\ task.left = to
    BY <1>1, <1>3 DEF Task
  <2>3. /\ ts \in Seq(Task) /\ DOMAIN rest = 1..Len(rest) /\ Len(rest) \in Nat
        /\ DOMAIN ts = DOMAIN rest \cup {Len(rest) + 1}
        /\ \A k \in DOMAIN rest : ts[k] = rest[k]
        /\ ts[Len(rest) + 1] = task
    BY <1>2, <2>2, SMTT(30)
  <2>4. ExprTypeOK'
    <3>2. inbox' \in [Expresser -> Seq(ExprId)]
      BY <1>1, <1>4
    <3>3. posted' \in Seq(SUBSET Expresser) /\ Len(posted') <= MaxExpr
      BY <1>1, <1>3 DEF ExprIInv, ExprTypeOK, ExprId
    <3>4. forgotten' \subseteq ExprId
      <4>1. gone \subseteq 1..Len(posted) /\ 1..Len(posted) \subseteq ExprId
        BY <1>1, <1>2, <1>3, ExpressionAssumption DEF TasksInv, ExprId
      <4> QED BY <1>1, <4>1
    <3> QED BY <1>1, <2>1, <2>3, <3>2, <3>3, <3>4 DEF ExprIInv, ExprTypeOK, Task
  <2>5. Ids(ts) = Ids(rest) \cup {id}
    BY <2>2, <2>3 DEF Ids
  <2>6. \A i, j \in DOMAIN ts : i < j => ts[i].id < ts[j].id
    <3>1. \A i \in DOMAIN rest : rest[i].id \in DOMAIN posted
      BY <1>2 DEF TasksInv, Ids
    <3>2. \A i, j \in DOMAIN rest : i < j => rest[i].id < rest[j].id
      BY <1>2 DEF TasksInv
    <3> QED BY <1>3, <2>2, <2>3, <3>1, <3>2
  <2>7. ASSUME NEW k \in DOMAIN ts PROVE OwnTask(ts[k], gone)'
    <3>1. ASSUME NEW c \in to PROVE \E n \in DOMAIN inbox'[c] : inbox'[c][n] = id
      BY <1>3, <1>4, <3>1
    <3>2. id \notin answered' \cup gone
      BY <1>2, <1>3, <2>1 DEF TasksInv
    <3>3. posted'[task.id] = to /\ task.left = expression_client_list'
      BY <1>1, <1>3, <2>2
    <3>4. OwnTask(task, gone)'
      BY <1>11, <2>2, <3>1, <3>2, <3>3 DEF OwnTask
    <3>5. CASE k \in DOMAIN rest
      <4>1. ts[k] = rest[k]
        BY <2>3, <3>5
      <4> QED BY <1>9, <3>5, <4>1
    <3>6. CASE k \notin DOMAIN rest
      <4>1. ts[k] = task
        BY <2>3, <3>6
      <4> QED BY <3>4, <4>1
    <3> QED BY <3>5, <3>6
  <2>8. TasksInv(ts, gone)'
    BY <1>2, <1>3, <1>8, <2>1, <2>3, <2>5, <2>6, <2>7 DEF TasksInv
  <2> QED BY <1>1, <1>5, <1>6, <2>1, <2>4, <2>8 DEF ExprIInv
<1> QED BY <1>10, <1>11

LEMMA RemovedIs ==
  ASSUME NEW S, NEW s \in Seq(S), NEW i \in DOMAIN s
  PROVE  /\ RemoveAt(s, i) \in Seq(S) /\ Len(RemoveAt(s, i)) = Len(s) - 1
         /\ \A k \in 1..Len(s) - 1 : RemoveAt(s, i)[k] = IF k < i THEN s[k] ELSE s[k + 1]
<1>1. /\ i \in 1..Len(s) /\ Len(s) \in Nat /\ \A k \in 1..Len(s) : s[k] \in S
  OBVIOUS
<1> DEFINE u == SubSeq(s, 1, i - 1)
           v == SubSeq(s, i + 1, Len(s))
<1>2. /\ u \in Seq(S) /\ Len(u) = i - 1 /\ \A k \in 1..i - 1 : u[k] = s[k]
  <2>1. \A k \in 1..i - 1 : s[k] \in S
    BY <1>1
  <2>2. /\ u \in Seq(S) /\ Len(u) = IF 1 <= i - 1 THEN i - 1 - 1 + 1 ELSE 0
        /\ \A k \in 1..i - 1 - 1 + 1 : u[k] = s[1 + k - 1]
    BY <1>1, <2>1, SubSeqProperties
  <2> QED BY <1>1, <2>2
<1>3. /\ v \in Seq(S) /\ Len(v) = Len(s) - i /\ \A k \in 1..Len(s) - i : v[k] = s[i + k]
  <2>1. \A k \in i + 1..Len(s) : s[k] \in S
    BY <1>1
  <2>2. /\ v \in Seq(S) /\ Len(v) = IF i + 1 <= Len(s) THEN Len(s) - (i + 1) + 1 ELSE 0
        /\ \A k \in 1..Len(s) - (i + 1) + 1 : v[k] = s[i + 1 + k - 1]
    BY <1>1, <2>1, SubSeqProperties
  <2> QED BY <1>1, <2>2
<1>4. RemoveAt(s, i) = u \o v
  BY DEF RemoveAt
<1> HIDE DEF u, v
<1>5. /\ u \o v \in Seq(S) /\ Len(u \o v) = Len(u) + Len(v)
      /\ \A k \in 1..Len(u) + Len(v) : (u \o v)[k] = IF k <= Len(u) THEN u[k] ELSE v[k - Len(u)]
  BY <1>2, <1>3, ConcatProperties
<1> PICK w : w = u \o v
  OBVIOUS
<1>6. w \in Seq(S) /\ Len(w) = Len(s) - 1
  BY <1>1, <1>2, <1>3, <1>5
<1>7. ASSUME NEW k \in 1..Len(s) - 1 PROVE w[k] = IF k < i THEN s[k] ELSE s[k + 1]
  <2>1. w[k] = IF k <= i - 1 THEN u[k] ELSE v[k - (i - 1)]
    <3>1. Len(u) = i - 1 /\ Len(u) + Len(v) = Len(s) - 1
      BY <1>1, <1>2, <1>3
    <3>2. k \in 1..Len(u) + Len(v)
      BY <1>7, <3>1
    <3>3. w[k] = IF k <= Len(u) THEN u[k] ELSE v[k - Len(u)]
      BY <1>5, <3>2
    <3> QED BY <3>1, <3>3
  <2>2. CASE k < i
    BY <1>1, <1>2, <1>7, <2>1, <2>2
  <2>3. CASE ~(k < i)
    <3>1. k - (i - 1) \in 1..Len(s) - i /\ i + (k - (i - 1)) = k + 1 /\ ~(k <= i - 1)
      BY <1>1, <1>7, <2>3
    <3> QED BY <1>3, <2>1, <2>3, <3>1
  <2> QED BY <2>2, <2>3
<1> QED BY <1>4, <1>6, <1>7

\* The tasks when one of them has been served: the same ones in the same order, but that
\* this one no longer waits for c, and goes when it waited for nobody else.
LEMMA ServedIs ==
  ASSUME NEW ts \in Seq(Task), NEW i \in DOMAIN ts, NEW c \in ts[i].left
  PROVE  LET now == Served(ts, i, c) IN
         /\ now \in Seq(Task)
         /\ ts[i].left # {c} => ts[i].id \in Ids(now)
         /\ \E f \in [1..Len(now) -> 1..Len(ts)] :
              /\ \A j, k \in 1..Len(now) : j < k => f[j] < f[k]
              /\ \A k \in 1..Len(now) :
                   IF f[k] = i THEN now[k] = [ts[i] EXCEPT !.left = @ \ {c}] /\ ts[i].left # {c}
                   ELSE now[k] = ts[f[k]]
         /\ Ids(ts) \subseteq Ids(now) \cup {ts[i].id}
<1> PICK now : now = Served(ts, i, c)
  OBVIOUS
<1>1. /\ DOMAIN ts = 1..Len(ts) /\ Len(ts) \in Nat /\ i \in 1..Len(ts)
      /\ ts[i] \in Task /\ \A k \in 1..Len(ts) : ts[k] \in Task
  OBVIOUS
<1>2. CASE ts[i].left = {c}
  <2>1. /\ now \in Seq(Task) /\ Len(now) = Len(ts) - 1
        /\ \A k \in 1..Len(ts) - 1 : now[k] = IF k < i THEN ts[k] ELSE ts[k + 1]
    BY <1>2, RemovedIs DEF Served
  <2> PICK f : f = [k \in 1..Len(now) |-> IF k < i THEN k ELSE k + 1]
    OBVIOUS
  <2>2. /\ f \in [1..Len(now) -> 1..Len(ts)]
        /\ \A j, k \in 1..Len(now) : j < k => f[j] < f[k]
        /\ \A k \in 1..Len(now) : f[k] # i /\ now[k] = ts[f[k]]
    BY <1>1, <2>1
  <2>3. ASSUME NEW k \in DOMAIN ts, k # i PROVE ts[k].id \in Ids(now)
    <3>1. CASE k < i
      <4>1. k \in DOMAIN now /\ now[k] = ts[k]
        BY <1>1, <2>1, <2>3, <3>1
      <4> QED BY <4>1 DEF Ids
    <3>2. CASE k > i
      <4>1. k - 1 \in DOMAIN now /\ now[k - 1] = ts[k]
        BY <1>1, <2>1, <2>3, <3>2
      <4> QED BY <4>1 DEF Ids
    <3> QED BY <1>1, <2>3, <3>1, <3>2
  <2>4. Ids(ts) \subseteq Ids(now) \cup {ts[i].id}
    BY <2>3 DEF Ids
  <2> QED BY <1>2, <2>1, <2>2, <2>4
<1>3. CASE ts[i].left # {c}
  <2>1. now = [ts EXCEPT ![i].left = @ \ {c}]
    BY <1>3 DEF Served
  <2> PICK t : t = [ts[i] EXCEPT !.left = @ \ {c}]
    OBVIOUS
  <2>2. t \in Task /\ t.id = ts[i].id
    BY <1>1 DEF Task
  <2>3. now = [k \in 1..Len(ts) |-> IF k = i THEN t ELSE ts[k]]
    BY <1>1, <2>1
  <2>4. /\ now \in Seq(Task) /\ Len(now) = Len(ts) /\ DOMAIN now = 1..Len(ts)
        /\ \A k \in 1..Len(ts) : now[k] = IF k = i THEN t ELSE ts[k]
    <3>1. now \in [1..Len(ts) -> Task]
      BY <1>1, <2>2, <2>3
    <3>2. now \in Seq(Task) /\ DOMAIN now = 1..Len(ts)
      <4>1. DOMAIN now = 1..Len(ts)
        BY <2>3
      <4>2. now \in Seq(Task)
        <5> HIDE DEF Task
        <5> QED BY <1>1, <3>1
      <4> QED BY <4>1, <4>2
    <3>3. Len(now) = Len(ts)
      BY <1>1, <3>2, LenProperties
    <3> QED BY <2>3, <3>2, <3>3
  <2>5. Ids(now) = Ids(ts)
    <3>1. DOMAIN now = DOMAIN ts /\ \A k \in DOMAIN ts : now[k].id = ts[k].id
      BY <1>1, <2>2, <2>4
    <3> QED BY <3>1 DEF Ids
  <2> PICK f : f = [k \in 1..Len(now) |-> k]
    OBVIOUS
  <2>6. /\ f \in [1..Len(now) -> 1..Len(ts)]
        /\ \A j, k \in 1..Len(now) : j < k => f[j] < f[k]
        /\ \A k \in 1..Len(now) : now[k] = IF f[k] = i THEN t ELSE ts[f[k]]
    BY <1>1, <2>4
  <2>7. ts[i].id \in Ids(now)
    BY <1>1, <2>5 DEF Ids
  <2> QED BY <1>3, <2>4, <2>5, <2>6, <2>7
<1> QED BY <1>2, <1>3

\* A task that is given the response to another request is behind one that was dropped:
\* the other request is older, and its task does not wait for the sender any more.
LEMMA OldestIsOwn ==
  ASSUME ExprTypeOK, InboxInv, NEW ts, NEW gone, TasksInv(ts, gone), NEW c \in Expresser,
         NEW i \in DOMAIN ts, c \in ts[i].left, inbox[c] # <<>>,
         \A k \in DOMAIN ts : c \in ts[k].left => i <= k,
         ts[i].id # Head(inbox[c])
  PROVE  Dropped(gone, ts[i].id, c)
<1> PICK m : m = Head(inbox[c])
  OBVIOUS
<1>1. /\ inbox[c] \in Seq(ExprId) /\ 1 \in DOMAIN inbox[c] /\ m = inbox[c][1]
      /\ DOMAIN inbox[c] = 1..Len(inbox[c]) /\ Len(inbox[c]) \in Nat
  <2>1. inbox[c] \in Seq(ExprId) /\ inbox[c] # <<>>
    BY DEF ExprTypeOK
  <2> QED BY <2>1
<1>2. m \in DOMAIN posted /\ c \in posted[m] /\ c \notin performed[m] \cup departed[m]
  BY <1>1 DEF InboxInv
<1>3. /\ ts \in Seq(Task) /\ DOMAIN ts = 1..Len(ts) /\ Len(ts) \in Nat
      /\ \A k \in DOMAIN ts : ts[k].id \in Nat
  <2>1. ts \in Seq(Task)
    BY DEF TasksInv
  <2>2. \A k \in DOMAIN ts : ts[k] \in Task
    BY <2>1
  <2>3. \A k \in DOMAIN ts : ts[k].id \in ExprId
    BY <2>2 DEF Task
  <2> QED BY <2>1, <2>3 DEF ExprId
<1>4. PICK n \in DOMAIN inbox[c] : inbox[c][n] = ts[i].id
  BY DEF TasksInv, OwnTask
<1>5. m < ts[i].id /\ m \in Nat
  <2>1. 1 < n
    BY <1>1, <1>4
  <2>2. m \in ExprId
    BY <1>1
  <2> QED BY <1>1, <1>4, <2>1, <2>2 DEF InboxInv, ExprId
<1>6. SUFFICES Dropped(gone, m, c) \/ m \in gone
  <2>1. gone \subseteq Nat
    BY DEF TasksInv, ExprTypeOK
  <2> QED BY <1>2, <1>3, <1>5, <2>1 DEF Dropped
<1>7. CASE m \in answered
  BY <1>2, <1>7 DEF TasksInv, AnswersOwn
<1>8. ASSUME NEW k \in DOMAIN ts, ts[k].id = m PROVE Dropped(gone, m, c)
  <2>1. ~(i <= k)
    BY <1>3, <1>5, <1>8 DEF TasksInv
  <2>2. c \in posted[m] \ ts[k].left
    BY <1>2, <2>1
  <2> QED BY <1>2, <1>8, <2>2 DEF TasksInv, OwnTask
<1> QED BY <1>2, <1>7, <1>8 DEF TasksInv, Ids

LEMMA ResponseKeeps ==
  ASSUME ExprIInv, NEW c \in Expresser, NEW rest \in Rests, change_response(c, rest)
  PROVE  ExprIInv'
<1> PICK gone : gone = forgotten \cup Overdue(rest)
  OBVIOUS
<1> PICK m : m = Head(inbox[c])
  OBVIOUS
<1>1. /\ inbox[c] # <<>> /\ inbox' = [inbox EXCEPT ![c] = Tail(@)]
      /\ performed' = [performed EXCEPT ![m] = @ \cup {c}]
      /\ IF Waiting(rest, c) = {} THEN m_tasklist' = rest /\ UNCHANGED answered
         ELSE LET i == Min(Waiting(rest, c))
              IN /\ m_tasklist' = Served(rest, i, c)
                 /\ answered' = answered \cup (Ids(rest) \ Ids(Served(rest, i, c)))
      /\ forgotten' = gone
      /\ UNCHANGED <<expression_client_list, posted, departed, off_list>>
  BY DEF change_response
<1>2. rest \in Seq(Task) /\ TasksInv(rest, gone)
  BY RestKeeps
<1>3. /\ inbox[c] \in Seq(ExprId) /\ 1 \in DOMAIN inbox[c] /\ m = inbox[c][1] /\ m \in ExprId
      /\ DOMAIN inbox[c] = 1..Len(inbox[c]) /\ Len(inbox[c]) \in Nat
      /\ Tail(inbox[c]) \in Seq(ExprId) /\ DOMAIN Tail(inbox[c]) = 1..Len(inbox[c]) - 1
      /\ \A j \in 1..Len(inbox[c]) - 1 : Tail(inbox[c])[j] = inbox[c][j + 1]
  <2>1. inbox[c] \in Seq(ExprId) /\ inbox[c] # <<>>
    BY <1>1 DEF ExprIInv, ExprTypeOK
  <2> HIDE DEF ExprId
  <2> QED BY <2>1, HeadTailProperties
<1>4. /\ inbox'[c] = Tail(inbox[c]) /\ inbox' \in [Expresser -> Seq(ExprId)]
      /\ \A d \in Expresser \ {c} : inbox'[d] = inbox[d]
  BY <1>1, <1>3 DEF ExprIInv, ExprTypeOK
<1>5. /\ performed' \in [ExprId -> SUBSET Expresser] /\ c \in performed'[m]
      /\ \A n \in ExprId : performed[n] \subseteq performed'[n]
      /\ \A n \in ExprId : n # m => performed'[n] = performed[n]
      /\ \A n \in ExprId : performed'[n] \subseteq performed[n] \cup {c}
  BY <1>1, <1>3 DEF ExprIInv, ExprTypeOK
<1>6. DOMAIN posted \subseteq ExprId /\ m \in DOMAIN posted
  <2>1. DOMAIN posted = 1..Len(posted) /\ Len(posted) <= MaxExpr /\ Len(posted) \in Nat
    BY DEF ExprIInv, ExprTypeOK
  <2>2. m \in DOMAIN posted
    BY <1>3 DEF ExprIInv, InboxInv
  <2> QED BY <2>1, <2>2, ExpressionAssumption DEF ExprId
<1>7. InboxInv'
  <2> SUFFICES ASSUME NEW d \in Expresser
               PROVE  /\ \A i, j \in DOMAIN inbox'[d] : i < j => inbox'[d][i] < inbox'[d][j]
                      /\ inbox'[d] # <<>> => d \in expression_client_list
                      /\ \A i \in DOMAIN inbox'[d] :
                           LET n == inbox'[d][i]
                           IN /\ n \in DOMAIN posted /\ d \in posted[n]
                              /\ d \notin performed'[n] \cup departed[n]
    BY <1>1 DEF InboxInv
  <2>1. /\ \A i, j \in DOMAIN inbox[d] : i < j => inbox[d][i] < inbox[d][j]
        /\ inbox[d] # <<>> => d \in expression_client_list
        /\ \A i \in DOMAIN inbox[d] :
             /\ inbox[d][i] \in DOMAIN posted /\ d \in posted[inbox[d][i]]
             /\ d \notin performed[inbox[d][i]] \cup departed[inbox[d][i]]
    BY DEF ExprIInv, InboxInv
  <2>2. CASE d # c
    <3>1. inbox'[d] = inbox[d]
      BY <1>4, <2>2
    <3>2. \A n \in DOMAIN posted : d \notin performed[n] => d \notin performed'[n]
      BY <1>5, <1>6, <2>2
    <3> QED BY <2>1, <3>1, <3>2
  <2>3. CASE d = c
    <3>1. \A j \in DOMAIN inbox'[c] : j \in Nat /\ j + 1 \in DOMAIN inbox[c] /\ 1 < j + 1
                                  /\ inbox'[c][j] = inbox[c][j + 1]
      BY <1>3, <1>4
    <3>2. \A j \in DOMAIN inbox'[c] : m < inbox'[c][j] /\ inbox'[c][j] \in DOMAIN posted
      BY <1>3, <2>1, <2>3, <3>1
    <3>3. \A j \in DOMAIN inbox'[c] : inbox'[c][j] \in ExprId /\ inbox'[c][j] # m
      BY <1>3, <1>6, <3>2 DEF ExprId
    <3>4. \A j \in DOMAIN inbox'[c] : performed'[inbox'[c][j]] = performed[inbox'[c][j]]
      BY <1>5, <3>3
    <3>5. \A i, j \in DOMAIN inbox'[c] : i < j => inbox'[c][i] < inbox'[c][j]
      BY <2>1, <2>3, <3>1
    <3> QED BY <1>1, <2>1, <2>3, <3>1, <3>2, <3>4, <3>5
  <2> QED BY <2>2, <2>3
<1>8. Unheard'
  BY <1>1, <1>5, <1>6 DEF ExprIInv, Unheard
<1>9. AnswersOwn(gone) /\ answered \subseteq DOMAIN posted /\ gone \subseteq DOMAIN posted
  BY <1>2 DEF TasksInv
<1>10. \A i, d : Dropped(gone, i, d) => Dropped(gone, i, d)'
  BY <1>1 DEF Dropped
<1>11. CASE Waiting(rest, c) = {}
  <2>1. m_tasklist' = rest /\ answered' = answered
    BY <1>1, <1>11
  <2>2. AnswersOwn(gone)'
    BY <1>1, <1>5, <1>6, <1>9, <1>10, <2>1 DEF AnswersOwn
  <2>3. ASSUME NEW k \in DOMAIN rest PROVE OwnTask(rest[k], gone)'
    <3> PICK t : t = rest[k]
      OBVIOUS
    <3>1. OwnTask(t, gone) /\ t \in Task
      <4>1. t \in Task
        BY <1>2
      <4> QED BY <1>2, <4>1 DEF TasksInv
    <3>2. c \notin t.left
      BY <1>11 DEF Waiting
    <3>3. t.id \in ExprId /\ t.left \subseteq Expresser
      BY <3>1 DEF Task
    <3>4. \A d \in t.left : inbox'[d] = inbox[d]
      BY <1>4, <3>2, <3>3
    <3>5. ASSUME NEW d \in posted[t.id] \ t.left
          PROVE  d \in performed'[t.id] \cup departed[t.id] \/ Dropped(gone, t.id, d)'
      BY <1>5, <1>10, <3>1, <3>3, <3>5 DEF OwnTask
    <3>6. ASSUME NEW d \in t.left
          PROVE  \E n \in DOMAIN inbox'[d] : inbox'[d][n] = t.id
      BY <1>10, <3>1, <3>4, <3>6 DEF OwnTask
    <3>7. /\ t.left \subseteq expression_client_list /\ t.id \notin answered \cup gone
          /\ t.left = {} => departed[t.id] # {}
      BY <3>1 DEF OwnTask
    <3>8. OwnTask(t, gone)'
      BY <1>1, <2>1, <3>5, <3>6, <3>7 DEF OwnTask
    <3> QED BY <3>8
  <2>4. TasksInv(rest, gone)'
    BY <1>1, <1>2, <2>1, <2>2, <2>3 DEF TasksInv
  <2>5. ExprTypeOK'
    BY <1>1, <1>2, <1>4, <1>5, <1>6, <1>9, <2>1 DEF ExprIInv, ExprTypeOK, Task
  <2> QED BY <1>1, <1>7, <1>8, <2>1, <2>4, <2>5 DEF ExprIInv
<1>12. CASE Waiting(rest, c) # {}
  <2> PICK i : i = Min(Waiting(rest, c))
    OBVIOUS
  <2>1. DOMAIN rest = 1..Len(rest) /\ Len(rest) \in Nat
    BY <1>2
  <2>2. /\ i \in DOMAIN rest /\ c \in rest[i].left
        /\ \A k \in DOMAIN rest : c \in rest[k].left => i <= k
    <3>1. Waiting(rest, c) \subseteq Nat
      BY <2>1 DEF Waiting
    <3>2. \E j \in Waiting(rest, c) : \A k \in Waiting(rest, c) : j <= k
      BY <1>12, <3>1, Smallest
    <3>3. i \in Waiting(rest, c) /\ \A k \in Waiting(rest, c) : i <= k
      BY <3>2 DEF Min
    <3> QED BY <3>3 DEF Waiting
  <2> PICK x : x = rest[i].id
    OBVIOUS
  <2> PICK now : now = Served(rest, i, c)
    OBVIOUS
  <2>3. m_tasklist' = now /\ answered' = answered \cup (Ids(rest) \ Ids(now))
    BY <1>1, <1>12
  <2>4. x # m => Dropped(gone, x, c)
    BY <1>1, <1>2, <2>2, OldestIsOwn DEF ExprIInv
  <2>5. /\ now \in Seq(Task) /\ (rest[i].left # {c} => x \in Ids(now))
        /\ Ids(rest) \subseteq Ids(now) \cup {x}
    BY <1>2, <2>2, ServedIs
  <2>6. PICK f \in [1..Len(now) -> 1..Len(rest)] :
          /\ \A j, k \in 1..Len(now) : j < k => f[j] < f[k]
          /\ \A k \in 1..Len(now) :
               IF f[k] = i THEN now[k] = [rest[i] EXCEPT !.left = @ \ {c}] /\ rest[i].left # {c}
               ELSE now[k] = rest[f[k]]
    <3>1. \E f \in [1..Len(Served(rest, i, c)) -> 1..Len(rest)] :
            /\ \A j, k \in 1..Len(Served(rest, i, c)) : j < k => f[j] < f[k]
            /\ \A k \in 1..Len(Served(rest, i, c)) :
                 IF f[k] = i
                 THEN /\ Served(rest, i, c)[k] = [rest[i] EXCEPT !.left = @ \ {c}]
                      /\ rest[i].left # {c}
                 ELSE Served(rest, i, c)[k] = rest[f[k]]
      BY <1>2, <2>2, ServedIs, ZenonT(30)
    <3> QED BY <3>1, Zenon
  <2>7. /\ rest[i] \in Task /\ x \in ExprId /\ x \in DOMAIN posted /\ OwnTask(rest[i], gone)
        /\ x \in Ids(rest)
    <3>1. rest[i] \in Task /\ x \in Ids(rest)
      BY <1>2, <2>2 DEF Ids
    <3> QED BY <1>2, <2>2, <3>1 DEF TasksInv, Task
  <2>8. DOMAIN now = 1..Len(now) /\ Len(now) \in Nat
    BY <2>5
  <2>9. \A k \in DOMAIN now : f[k] \in DOMAIN rest /\ now[k].id = rest[f[k]].id
    BY <2>1, <2>6, <2>7, <2>8 DEF Task
  <2>10. \A j, k \in DOMAIN now : j < k => now[j].id < now[k].id
    <3>1. \A j, k \in DOMAIN rest : j < k => rest[j].id < rest[k].id
      BY <1>2 DEF TasksInv
    <3> QED BY <2>6, <2>8, <2>9, <3>1
  <2>11. Ids(now) \subseteq Ids(rest)
    BY <2>9 DEF Ids
  <2>12. AnswersOwn(gone)'
    <3>1. /\ answered' \subseteq answered \cup {x}
          /\ x \in answered' => x \in answered \/ rest[i].left = {c}
      BY <2>3, <2>5
    <3>2. ASSUME rest[i].left = {c}, NEW d \in posted[x]
          PROVE  d \in performed'[x] \cup departed[x] \/ Dropped(gone, x, d)'
      <4>1. CASE d # c
        BY <1>5, <1>10, <2>7, <3>2, <4>1 DEF OwnTask
      <4>2. CASE d = c
        BY <1>5, <1>10, <2>4, <4>2
      <4> QED BY <4>1, <4>2
    <3>3. ASSUME NEW n \in answered, NEW d \in posted[n]
          PROVE  d \in performed'[n] \cup departed[n] \/ Dropped(gone, n, d)'
      BY <1>5, <1>6, <1>9, <1>10, <3>3 DEF AnswersOwn
    <3> QED BY <1>1, <3>1, <3>2, <3>3 DEF AnswersOwn
  <2>13. ASSUME NEW k \in DOMAIN now PROVE OwnTask(now[k], gone)'
    <3> PICK t : t = now[k]
      OBVIOUS
    <3> PICK old : old = rest[f[k]]
      OBVIOUS
    <3>1. OwnTask(old, gone) /\ old \in Task /\ t.id = old.id /\ old.id \in ExprId
      <4>1. old \in Task /\ t.id = old.id
        BY <1>2, <2>9
      <4> QED BY <1>2, <2>9, <4>1 DEF TasksInv, Task
    <3>2. t.id \notin answered' \cup gone
      <4>1. t.id \in Ids(now)
        BY DEF Ids
      <4> QED BY <2>3, <3>1, <4>1 DEF OwnTask
    <3>3. CASE f[k] = i
      <4>1. t = [rest[i] EXCEPT !.left = @ \ {c}] /\ rest[i].left # {c} /\ old = rest[i]
        BY <2>6, <2>8, <3>3
      <4>2. t.left = old.left \ {c} /\ t.left # {} /\ old.left \subseteq Expresser
        BY <2>2, <2>7, <3>1, <4>1 DEF Task
      <4>3. \A d \in t.left : inbox'[d] = inbox[d]
        BY <1>4, <4>2
      <4>4. ASSUME NEW d \in posted[t.id] \ t.left
            PROVE  d \in performed'[t.id] \cup departed[t.id] \/ Dropped(gone, t.id, d)'
        <5>1. CASE d # c
          BY <1>5, <1>10, <3>1, <4>2, <4>4, <5>1 DEF OwnTask
        <5>2. CASE d = c
          BY <1>5, <1>10, <2>4, <3>1, <4>1, <5>2
        <5> QED BY <5>1, <5>2
      <4>5. ASSUME NEW d \in t.left
            PROVE  \E n \in DOMAIN inbox'[d] : inbox'[d][n] = t.id
        BY <1>10, <3>1, <4>2, <4>3, <4>5 DEF OwnTask
      <4>6. t.left \subseteq expression_client_list
        BY <3>1, <4>2 DEF OwnTask
      <4>7. OwnTask(t, gone)'
        BY <1>1, <3>2, <4>2, <4>4, <4>5, <4>6 DEF OwnTask
      <4> QED BY <4>7
    <3>4. CASE f[k] # i
      <4>1. t = old
        BY <2>6, <2>8, <3>4
      <4>2. ASSUME NEW d \in t.left
            PROVE  \E n \in DOMAIN inbox'[d] : inbox'[d][n] = t.id
        <5>1. d \in Expresser
          BY <3>1, <4>1, <4>2 DEF Task
        <5>2. CASE d # c
          BY <1>4, <1>10, <3>1, <4>1, <4>2, <5>1, <5>2 DEF OwnTask
        <5>3. CASE d = c
          <6>1. i < f[k] /\ x < t.id
            <7>1. i <= f[k] /\ f[k] \in DOMAIN rest
              BY <2>2, <2>9, <4>1, <4>2, <5>3
            <7>2. i < f[k]
              BY <2>1, <2>2, <3>4, <7>1
            <7> QED BY <1>2, <2>2, <4>1, <7>1, <7>2 DEF TasksInv
          <6>2. m <= x
            <7>1. PICK n \in DOMAIN inbox[c] : inbox[c][n] = x
              BY <2>2, <2>7 DEF OwnTask
            <7>2. CASE n = 1
              BY <1>3, <7>1, <7>2 DEF ExprId
            <7>3. CASE n # 1
              <8>1. 1 < n /\ 1 \in DOMAIN inbox[c]
                BY <1>3, <7>3
              <8>2. inbox[c][1] < inbox[c][n]
                BY <7>1, <8>1 DEF ExprIInv, InboxInv
              <8> QED BY <1>3, <2>7, <7>1, <8>2 DEF ExprId
            <7> QED BY <7>2, <7>3
          <6>3. t.id # m
            BY <1>3, <2>7, <3>1, <6>1, <6>2 DEF ExprId
          <6>4. PICK n \in DOMAIN inbox[c] : inbox[c][n] = t.id
            BY <3>1, <4>1, <4>2, <5>3 DEF OwnTask
          <6>5. n - 1 \in 1..Len(inbox[c]) - 1 /\ (n - 1) + 1 = n
            BY <1>3, <6>3, <6>4
          <6> QED BY <1>3, <1>4, <5>3, <6>4, <6>5
        <5> QED BY <5>2, <5>3
      <4>3. ASSUME NEW d \in posted[t.id] \ t.left
            PROVE  d \in performed'[t.id] \cup departed[t.id] \/ Dropped(gone, t.id, d)'
        BY <1>5, <1>10, <3>1, <4>1, <4>3 DEF OwnTask
      <4>4. t.left \subseteq expression_client_list /\ (t.left = {} => departed[t.id] # {})
        BY <3>1, <4>1 DEF OwnTask
      <4>5. OwnTask(t, gone)'
        BY <1>1, <3>2, <4>2, <4>3, <4>4 DEF OwnTask
      <4> QED BY <4>5
    <3> QED BY <3>3, <3>4
  <2>14. TasksInv(now, gone)'
    <3>1. /\ Ids(now) \cup answered' \cup gone \subseteq DOMAIN posted
          /\ DOMAIN posted \subseteq Ids(now) \cup answered' \cup gone
      BY <1>2, <2>3, <2>11 DEF TasksInv
    <3> QED BY <1>1, <2>5, <2>10, <2>12, <2>13, <3>1 DEF TasksInv
  <2>15. answered' \subseteq ExprId
    <3>1. Ids(rest) \subseteq DOMAIN posted
      BY <1>2 DEF TasksInv
    <3> QED BY <1>6, <1>9, <2>3, <3>1
  <2>16. ExprTypeOK'
    BY <1>1, <1>4, <1>5, <1>6, <1>9, <2>3, <2>5, <2>15 DEF ExprIInv, ExprTypeOK, Task
  <2> QED BY <1>1, <1>7, <1>8, <2>3, <2>14, <2>16 DEF ExprIInv
<1> QED BY <1>11, <1>12

LEMMA ConnectKeeps ==
  ASSUME ExprIInv, NEW c \in Expresser, NEW rest \in Rests, client_connect(c, rest)
  PROVE  ExprIInv'
<1> PICK gone : gone = forgotten \cup Overdue(rest)
  OBVIOUS
<1>1. /\ expression_client_list' = expression_client_list \cup {c}
      /\ m_tasklist' = rest /\ forgotten' = gone
      /\ UNCHANGED <<posted, inbox, performed, departed, answered, off_list>>
  BY DEF client_connect
<1>2. rest \in Seq(Task) /\ TasksInv(rest, gone)
  BY RestKeeps
<1>3. InboxInv' /\ Unheard'
  BY <1>1 DEF ExprIInv, InboxInv, Unheard
<1>4. ASSUME NEW k \in DOMAIN rest PROVE OwnTask(rest[k], gone)'
  <2>1. OwnTask(rest[k], gone)
    BY <1>2 DEF TasksInv
  <2> QED BY <1>1, <2>1 DEF OwnTask, Dropped
<1>5. AnswersOwn(gone)'
  <2>1. AnswersOwn(gone)
    BY <1>2 DEF TasksInv
  <2> QED BY <1>1, <2>1 DEF AnswersOwn, Dropped
<1>6. TasksInv(rest, gone)'
  BY <1>1, <1>2, <1>4, <1>5 DEF TasksInv
<1>7. gone \subseteq ExprId
  BY <1>2, PassedIds DEF TasksInv, ExprIInv
<1>8. ExprTypeOK'
  BY <1>1, <1>2, <1>7 DEF ExprIInv, ExprTypeOK, Task
<1> QED BY <1>1, <1>3, <1>6, <1>8 DEF ExprIInv

\* No task waits for a controller that has left, and what it was passed is gone with it.
LEMMA LeaveKeeps ==
  ASSUME ExprIInv, NEW c \in Expresser, NEW rest \in Rests, controller_disconnect(c, rest)
  PROVE  ExprIInv'
<1> PICK gone : gone = forgotten \cup Overdue(rest)
  OBVIOUS
<1> PICK now : now = [i \in DOMAIN rest |-> [rest[i] EXCEPT !.left = @ \ {c}]]
  OBVIOUS
<1>1. /\ expression_client_list' = expression_client_list \ {c}
      /\ inbox' = [inbox EXCEPT ![c] = <<>>]
      /\ departed' = [i \in ExprId |-> IF \E k \in Waiting(rest, c) : rest[k].id = i
                                       THEN departed[i] \cup {c} ELSE departed[i]]
      /\ m_tasklist' = now /\ forgotten' = gone
      /\ UNCHANGED <<posted, performed, answered>>
  BY DEF controller_disconnect
<1>2. rest \in Seq(Task) /\ TasksInv(rest, gone)
  BY RestKeeps
<1>3. /\ inbox' \in [Expresser -> Seq(ExprId)] /\ inbox'[c] = <<>>
      /\ \A d \in Expresser \ {c} : inbox'[d] = inbox[d]
  BY <1>1 DEF ExprIInv, ExprTypeOK
<1>4. /\ DOMAIN rest = 1..Len(rest) /\ Len(rest) \in Nat
      /\ \A k \in DOMAIN rest : rest[k] \in Task /\ rest[k].id \in Ids(rest)
  BY <1>2 DEF Ids
<1>5. DOMAIN posted \subseteq ExprId /\ Ids(rest) \subseteq DOMAIN posted
  BY <1>2, PassedIds DEF TasksInv, ExprIInv
<1>6. /\ departed' \in [ExprId -> SUBSET Expresser]
      /\ \A n \in ExprId :
           departed[n] \subseteq departed'[n] /\ departed'[n] \subseteq departed[n] \cup {c}
      /\ \A n \in ExprId \ DOMAIN posted : departed'[n] = departed[n]
      /\ \A k \in DOMAIN rest : c \in rest[k].left => c \in departed'[rest[k].id]
  <2>1. departed \in [ExprId -> SUBSET Expresser]
    BY DEF ExprIInv, ExprTypeOK
  <2>2. \A k \in Waiting(rest, c) : rest[k].id \in DOMAIN posted
    BY <1>4, <1>5 DEF Waiting
  <2>3. \A k \in DOMAIN rest : c \in rest[k].left => k \in Waiting(rest, c) /\ rest[k].id \in ExprId
    BY <1>4, <1>5 DEF Waiting
  <2> QED BY <1>1, <2>1, <2>2, <2>3
<1>7. /\ now \in Seq(Task) /\ DOMAIN now = DOMAIN rest
      /\ \A k \in DOMAIN rest : now[k].id = rest[k].id /\ now[k].left = rest[k].left \ {c}
  <2>1. ASSUME NEW k \in DOMAIN rest
        PROVE  /\ now[k] \in Task
               /\ now[k].id = rest[k].id /\ now[k].left = rest[k].left \ {c}
    <3>1. rest[k] \in Task /\ now[k] = [rest[k] EXCEPT !.left = @ \ {c}]
      BY <1>4
    <3> QED BY <3>1 DEF Task
  <2>2. now \in [1..Len(rest) -> Task]
    <3> HIDE DEF Task
    <3> QED BY <1>4, <2>1
  <2>3. now \in Seq(Task)
    <3> HIDE DEF Task
    <3> QED BY <1>4, <2>2
  <2> QED BY <2>1, <2>3
<1>8. InboxInv'
  <2>1. \A d \in Expresser \ {c} : \A n \in ExprId : d \notin departed[n] => d \notin departed'[n]
    BY <1>6
  <2>2. \A d \in Expresser : d = c => DOMAIN inbox'[d] = {} /\ inbox'[d] = <<>>
    BY <1>3
  <2> QED BY <1>1, <1>3, <1>5, <2>1, <2>2 DEF ExprIInv, InboxInv
<1>9. Unheard'
  BY <1>1, <1>6 DEF ExprIInv, Unheard
<1>10. \A i, d : Dropped(gone, i, d) => Dropped(gone, i, d)'
  BY <1>1 DEF Dropped
<1>11. AnswersOwn(gone)'
  <2>1. AnswersOwn(gone) /\ answered \subseteq ExprId
    BY <1>2, <1>5 DEF TasksInv
  <2> QED BY <1>1, <1>6, <1>10, <2>1 DEF AnswersOwn
<1>12. ASSUME NEW k \in DOMAIN now PROVE OwnTask(now[k], gone)'
  <2> PICK t : t = now[k]
    OBVIOUS
  <2> PICK old : old = rest[k]
    OBVIOUS
  <2>1. /\ OwnTask(old, gone) /\ old \in Task /\ t.id = old.id /\ t.left = old.left \ {c}
        /\ t.id \in ExprId /\ old.left \subseteq Expresser
    <3>1. k \in DOMAIN rest
      BY <1>7
    <3> QED BY <1>2, <1>4, <1>7, <3>1 DEF TasksInv, Task
  <2>2. t.left \subseteq expression_client_list' /\ t.id \notin answered' \cup gone
    BY <1>1, <2>1 DEF OwnTask
  <2>3. t.left = {} => departed'[t.id] # {}
    <3>1. CASE old.left = {}
      BY <1>6, <2>1, <3>1 DEF OwnTask
    <3>2. CASE c \in old.left
      BY <1>6, <1>7, <2>1, <3>2
    <3> QED BY <2>1, <3>1, <3>2
  <2>4. ASSUME NEW d \in posted[t.id] \ t.left
        PROVE  d \in performed[t.id] \cup departed'[t.id] \/ Dropped(gone, t.id, d)'
    <3>1. CASE d \in old.left
      BY <1>6, <1>7, <2>1, <2>4, <3>1
    <3>2. CASE d \notin old.left
      BY <1>6, <1>10, <2>1, <2>4, <3>2 DEF OwnTask
    <3> QED BY <3>1, <3>2
  <2>5. ASSUME NEW d \in t.left
        PROVE  \E n \in DOMAIN inbox'[d] : inbox'[d][n] = t.id
    <3>1. inbox'[d] = inbox[d]
      BY <1>3, <2>1, <2>5
    <3> QED BY <1>10, <2>1, <2>5, <3>1 DEF OwnTask
  <2>6. OwnTask(t, gone)'
    BY <1>1, <2>2, <2>3, <2>4, <2>5 DEF OwnTask
  <2> QED BY <2>6
<1>13. TasksInv(now, gone)'
  <2>1. Ids(now) = Ids(rest)
    BY <1>7 DEF Ids
  <2>2. \A i, j \in DOMAIN now : i < j => now[i].id < now[j].id
    BY <1>2, <1>7, ZenonT(30) DEF TasksInv
  <2> QED BY <1>1, <1>2, <1>7, <1>11, <1>12, <2>1, <2>2 DEF TasksInv
<1>14. ExprTypeOK'
  <2>1. gone \subseteq ExprId
    BY <1>2, <1>5 DEF TasksInv
  <2>2. off_list' \in BOOLEAN
    BY DEF controller_disconnect, RunsOff
  <2> QED BY <1>1, <1>3, <1>6, <1>7, <2>1, <2>2 DEF ExprIInv, ExprTypeOK, Task
<1> QED BY <1>1, <1>8, <1>9, <1>13, <1>14 DEF ExprIInv

LEMMA WithdrawKeeps ==
  ASSUME ExprIInv, NEW a \in Asker, NEW rest \in Rests, client_disconnect(a, rest)
  PROVE  ExprIInv'
<1> PICK gone : gone = forgotten \cup Overdue(rest)
  OBVIOUS
<1> PICK now : now = m_tasklist'
  OBVIOUS
<1> PICK dropped : dropped = gone \cup (Ids(rest) \ Ids(now))
  OBVIOUS
<1>1. UNCHANGED <<expression_client_list, posted, inbox, performed, departed, answered, off_list>>
  BY DEF client_disconnect
<1>2. rest \in Seq(Task) /\ TasksInv(rest, gone)
  BY RestKeeps
<1>3. now \in Seq(Task) /\ \E f : Picked(f, now, rest)
  <2> DEFINE kept == {i \in DOMAIN rest : rest[i].from # a}
  <2>1. PICK f \in [1..Cardinality(kept) -> kept] :
             /\ \A i, j \in DOMAIN f : i < j => f[i] < f[j]
             /\ now = [i \in DOMAIN f |-> rest[f[i]]]
    BY DEF client_disconnect
  <2>2. DOMAIN rest = 1..Len(rest) /\ kept \subseteq 1..Len(rest) /\ Len(rest) \in Nat
    BY <1>2
  <2>3. Cardinality(kept) \in Nat
    <3>1. IsFiniteSet(1..Len(rest))
      BY <2>2, FS_Interval
    <3>2. IsFiniteSet(kept)
      <4> HIDE DEF kept
      <4> QED BY <2>2, <3>1, FS_Subset
    <3> QED BY <3>2, FS_CardinalityType
  <2> HIDE DEF kept
  <2>4. DOMAIN f = 1..Cardinality(kept) /\ \A i \in DOMAIN f : f[i] \in 1..Len(rest)
    BY <2>1, <2>2
  <2>5. now \in [1..Cardinality(kept) -> Task]
    BY <1>2, <2>1, <2>2, <2>4
  <2>6. now \in Seq(Task) /\ DOMAIN now = 1..Cardinality(kept)
    BY <2>3, <2>5
  <2>7. Len(now) = Cardinality(kept)
    BY <2>3, <2>6, LenProperties
  <2>8. Picked(f, now, rest)
    <3>1. f \in [1..Len(now) -> 1..Len(rest)]
      BY <2>1, <2>4, <2>7
    <3> QED BY <2>1, <2>4, <2>7, <3>1 DEF Picked
  <2> QED BY <2>6, <2>8
<1>4. TasksInv(now, dropped)
  BY <1>2, <1>3, PickedKeeps DEF ExprIInv
<1>5. forgotten' = dropped
  <2>1. Ids(now) \subseteq Ids(rest) /\ Ids(rest) \subseteq Ids(m_tasklist)
    <3>1. PICK f : Picked(f, now, rest)
      BY <1>3
    <3>2. DOMAIN now = 1..Len(now) /\ DOMAIN rest = 1..Len(rest)
      BY <1>2, <1>3
    <3>3. Ids(now) \subseteq Ids(rest)
      BY <3>1, <3>2 DEF Picked, Ids
    <3> QED BY <3>3, RestIds DEF ExprIInv
  <2>2. forgotten' = forgotten \cup (Ids(m_tasklist) \ Ids(now))
    BY DEF client_disconnect
  <2> QED BY <2>1, <2>2 DEF Overdue
<1>6. InboxInv' /\ Unheard'
  BY <1>1 DEF ExprIInv, InboxInv, Unheard
<1>7. ASSUME NEW k \in DOMAIN now PROVE OwnTask(now[k], dropped)'
  <2>1. OwnTask(now[k], dropped)
    BY <1>4 DEF TasksInv
  <2> QED BY <1>1, <2>1 DEF OwnTask, Dropped
<1>8. AnswersOwn(dropped)'
  <2>1. AnswersOwn(dropped)
    BY <1>4 DEF TasksInv
  <2> QED BY <1>1, <2>1 DEF AnswersOwn, Dropped
<1>9. TasksInv(now, dropped)'
  BY <1>1, <1>4, <1>7, <1>8 DEF TasksInv
<1>10. ExprTypeOK'
  <2>1. dropped \subseteq ExprId
    BY <1>4, PassedIds DEF TasksInv, ExprIInv
  <2> QED BY <1>1, <1>3, <1>5, <2>1 DEF ExprIInv, ExprTypeOK, Task
<1> QED BY <1>5, <1>6, <1>9, <1>10 DEF ExprIInv

LEMMA ExprStep == ExprIInv /\ [ExprNext]_exprVars => ExprIInv'
<1> SUFFICES ASSUME ExprIInv, [ExprNext]_exprVars PROVE ExprIInv'
  OBVIOUS
<1>1. ASSUME NEW rest \in Rests, NEW a \in Asker,
             change_request(a, rest) \/ client_disconnect(a, rest)
      PROVE  ExprIInv'
  BY <1>1, RequestKeeps, WithdrawKeeps
<1>2. ASSUME NEW rest \in Rests, NEW c \in Expresser,
             \/ change_response(c, rest) \/ client_connect(c, rest)
             \/ controller_disconnect(c, rest)
      PROVE  ExprIInv'
  BY <1>2, ResponseKeeps, ConnectKeeps, LeaveKeeps
<1>3. CASE UNCHANGED exprVars
  <2>1. ExprTypeOK' /\ InboxInv' /\ Unheard'
    BY <1>3 DEF exprVars, ExprIInv, ExprTypeOK, InboxInv, Unheard
  <2> PICK ts : ts = m_tasklist
    OBVIOUS
  <2> PICK gone : gone = forgotten
    OBVIOUS
  <2>2. TasksInv(ts, gone)
    BY DEF ExprIInv
  <2>3. ASSUME NEW k \in DOMAIN ts PROVE OwnTask(ts[k], gone)'
    <3>1. OwnTask(ts[k], gone)
      BY <2>2 DEF TasksInv
    <3> QED BY <1>3, <3>1 DEF OwnTask, Dropped, exprVars
  <2>4. AnswersOwn(gone)'
    <3>1. AnswersOwn(gone)
      BY <2>2 DEF TasksInv
    <3> QED BY <1>3, <3>1 DEF AnswersOwn, Dropped, exprVars
  <2>5. TasksInv(ts, gone)'
    BY <1>3, <2>2, <2>3, <2>4 DEF TasksInv, exprVars
  <2> QED BY <1>3, <2>1, <2>5 DEF ExprIInv, exprVars
<1> QED BY <1>1, <1>2, <1>3 DEF ExprNext

LEMMA ExprInit_ExprIInv == ExprInit => ExprIInv
<1> SUFFICES ASSUME ExprInit PROVE ExprIInv
  OBVIOUS
<1>1. ExprTypeOK
  <2>1. /\ m_tasklist = <<>> /\ posted = <<>> /\ inbox = [c \in Expresser |-> <<>>]
        /\ performed = [i \in ExprId |-> {}] /\ departed = [i \in ExprId |-> {}]
        /\ expression_client_list = {} /\ answered = {} /\ forgotten = {} /\ off_list = FALSE
    BY DEF ExprInit
  <2>2. inbox \in [Expresser -> Seq(ExprId)]
    BY <2>1
  <2>3. posted \in Seq(SUBSET Expresser) /\ Len(posted) <= MaxExpr
    BY <2>1, ExpressionAssumption
  <2>4. m_tasklist \in Seq([id : ExprId, from : Asker, left : SUBSET Expresser])
    BY <2>1
  <2> QED BY <2>1, <2>2, <2>3, <2>4 DEF ExprTypeOK
<1>2. InboxInv /\ Unheard
  BY DEF ExprInit, InboxInv, Unheard
<1>3. TasksInv(m_tasklist, forgotten)
  BY DEF ExprInit, TasksInv, AnswersOwn, Ids
<1> QED BY <1>1, <1>2, <1>3 DEF ExprIInv

LEMMA ExprIInv_ExpressionInv == ExprIInv => ExpressionInv
<1> SUFFICES ASSUME ExprIInv PROVE ExpressionInv
  OBVIOUS
<1>1. AnswerIsOwn
  BY DEF ExprIInv, TasksInv, AnswersOwn, AnswerIsOwn, Dropped
<1>2. WaitsForConnected
  <2>1. ASSUME NEW k \in DOMAIN m_tasklist PROVE OwnTask(m_tasklist[k], forgotten)
    BY DEF ExprIInv, TasksInv
  <2> QED BY <2>1 DEF OwnTask, WaitsForConnected, Dropped
<1> QED BY <1>1, <1>2 DEF ExprIInv, ExpressionInv

-------------------------------------------------------------------------------
\* Whatever threads, registrations, controllers and clients there are, the followers
\* agree with what they follow: the invariant the run of MCNameMonitor checks.
THEOREM FollowersKept == MCSpec => []FollowersInv
<1>1. MCInit => FaceDbInit /\ ExprInit
  BY DEF MCInit
<1>2. [MCNext]_<<part, vars, faceDbVars, exprVars>> =>
        [FaceDbNext]_faceDbVars /\ [ExprNext]_exprVars
  BY DEF MCNext, Only
<1>3. FacesIInv /\ ExprIInv => FollowersInv
  BY ExprIInv_ExpressionInv DEF FacesIInv, FollowersInv
<1> QED BY <1>1, <1>2, <1>3, FacesInit, FacesStep, ExprInit_ExprIInv, ExprStep, PTL DEF MCSpec
===============================================================================
