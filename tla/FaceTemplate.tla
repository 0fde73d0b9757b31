----------------------------- MODULE FaceTemplate -----------------------------
(***************************************************************************)
(* The faces that are known (robot_face_template), and the threads that    *)
(* register and recognise them, one for each camera (robot_face_features). *)
(* A thread works on a copy of the database; whoever changes the database  *)
(* puts a message in front of the queue of every thread that makes it take *)
(* a new copy.                                                             *)
(*                                                                         *)
(* The features of a face are the person it is of: two faces are alike     *)
(* when they are of one person.  Recognising changes nothing here, and the *)
(* end of the threads stays out.                                           *)
(***************************************************************************)
EXTENDS Naturals, Sequences, FiniteSets

CONSTANTS
  Feature,     \* the threads
  FaceList,    \* what registrations list: faces, each with the name it is to have
  MaxTasks,    \* bound: registrations
  MaxRemovals  \* bound: removals

ASSUME FaceTemplateAssumption ==
  /\ \A l \in FaceList : l \in Seq([person : STRING, name : STRING]) /\ l # <<>>
  /\ MaxTasks \in Nat /\ MaxRemovals \in Nat

VARIABLES
  m_facelist,   \* guid -> entry
  m_facedb,     \* thread -> its copy
  m_cb_list,    \* threads that hear of changes: those that have begun
  feature_q,    \* thread -> its queue
  feature_task, \* thread -> the faces of its registration it has still to do, NoFaces: none
  registered,   \* thread -> how many registrations it has taken
  face_guids,   \* guids given out
  tasks, removals,
  stale_copies  \* the guids removed, each with the registrations being worked at meanwhile

faceDbVars == <<m_facelist, m_facedb, m_cb_list, feature_q, feature_task,
                registered, face_guids, tasks, removals, stale_copies>>

\* What a queue holds: FACE_UPDATA, or the faces of a FACE_REGISTER_HANDLE_TASK.
Update == <<>>
NoFaces == <<>>
Face == UNION {{l[i] : i \in DOMAIN l} : l \in FaceList}

\* made: the thread and the number of its registration that made the entry; back: those that
\* brought it back, where it had been removed.
Registration == Feature \X Nat
Nobody == <<>>
FaceEntry == [person : {f.person : f \in Face}, name : {f.name : f \in Face}, id : Nat,
              made : Registration, back : Registration \cup {Nobody}]

Known(faces) == faces \in [DOMAIN faces -> FaceEntry] /\ DOMAIN faces \subseteq 1 .. face_guids

FaceDbTypeOK ==
  /\ face_guids \in Nat /\ Known(m_facelist)
  /\ m_facedb = [t \in Feature |-> m_facedb[t]] /\ \A t \in Feature : Known(m_facedb[t])
  /\ m_cb_list \subseteq Feature
  /\ feature_q \in [Feature -> Seq(FaceList \cup {Update})]
  /\ feature_task \in [Feature -> Seq(Face)] /\ registered \in [Feature -> Nat]

FaceDbInit ==
  /\ m_facelist = <<>> /\ m_facedb = [t \in Feature |-> <<>>] /\ m_cb_list = {}
  /\ feature_q = [t \in Feature |-> <<>>]
  /\ feature_task = [t \in Feature |-> NoFaces] /\ registered = [t \in Feature |-> 0]
  /\ face_guids = 0 /\ tasks = 0 /\ removals = 0
  /\ stale_copies = {}

\* Mutant: the message goes behind the registrations that wait.
Notified_last(q) == [t \in Feature |-> IF t \in m_cb_list THEN Append(q[t], Update) ELSE q[t]]

\* setTemplate, delTemplatebyName: rpushq to every thread of m_cb_list.
Notified(q) == [t \in Feature |-> IF t \in m_cb_list THEN <<Update>> \o q[t] ELSE q[t]]

\* The beginning of run, which set_feature_alg has started.
add_feature_handler(t) ==
  /\ t \notin m_cb_list
  /\ m_cb_list' = m_cb_list \cup {t}
  /\ feature_q' = [feature_q EXCEPT ![t] = <<Update>> \o @]
  /\ UNCHANGED <<m_facelist, m_facedb, feature_task, registered, face_guids, tasks, removals,
                 stale_copies>>

\* face_register posts a registration to the thread of its camera.
face_register(t, l) ==
  /\ tasks < MaxTasks
  /\ tasks' = tasks + 1
  /\ feature_q' = [feature_q EXCEPT ![t] = Append(@, l)]
  /\ UNCHANGED <<m_facelist, m_facedb, m_cb_list, feature_task, registered,
                 face_guids, removals, stale_copies>>

Idle(t) == t \in m_cb_list /\ feature_task[t] = NoFaces

\* UpdateFaceTemplate
UpdateFaceTemplate(t) ==
  /\ Idle(t) /\ feature_q[t] # <<>> /\ Head(feature_q[t]) = Update
  /\ m_facedb' = [m_facedb EXCEPT ![t] = m_facelist]
  /\ feature_q' = [feature_q EXCEPT ![t] = Tail(@)]
  /\ UNCHANGED <<m_facelist, m_cb_list, feature_task, registered, face_guids,
                 tasks, removals, stale_copies>>

\* face_registerimp takes a registration.  One from memory has a single picture: what
\* comes behind its first face is left out, and the answer does not say so.
face_registerimp(t) ==
  /\ Idle(t) /\ feature_q[t] # <<>> /\ Head(feature_q[t]) # Update
  /\ \E faces \in {Head(feature_q[t]), <<Head(Head(feature_q[t]))>>} :
       feature_task' = [feature_task EXCEPT ![t] = faces]
  /\ registered' = [registered EXCEPT ![t] = @ + 1]
  /\ feature_q' = [feature_q EXCEPT ![t] = Tail(@)]
  /\ UNCHANGED <<m_facelist, m_facedb, m_cb_list, face_guids, tasks, removals,
                 stale_copies>>

\* setTemplate: also for an entry that is not there any more.
setTemplate(g, e) ==
  /\ m_facelist' = [x \in DOMAIN m_facelist \cup {g} |-> IF x = g THEN e ELSE m_facelist[x]]
  /\ feature_q' = Notified(feature_q)

\* The entries of the copy of t that face f is like.
Alike(t, f) == {g \in DOMAIN m_facedb[t] : m_facedb[t][g].person = f.person}

\* The smallest id that the copy of t does not use.
Unused(t) ==
  CHOOSE i \in 0 .. Cardinality(DOMAIN m_facedb[t]) :
    /\ \A g \in DOMAIN m_facedb[t] : m_facedb[t][g].id # i
    /\ \A j \in 0 .. i - 1 : \E g \in DOMAIN m_facedb[t] : m_facedb[t][g].id = j

Doing(t) == <<t, registered[t]>>

\* face_insert_map, a new face: the copy of t does not have it yet.
insert_new(t, f) ==
  /\ Alike(t, f) = {}
  /\ face_guids' = face_guids + 1
  /\ setTemplate(face_guids + 1,
       [person |-> f.person, name |-> f.name, id |-> Unused(t), made |-> Doing(t),
        back |-> Nobody])

\* face_insert_map, a face that is known: under its name it is merged with the one of the
\* copy, under another name it is refused.  Which of several is found is open.
insert_known(t, f) ==
  /\ \E g \in Alike(t, f) :
       IF m_facedb[t][g].name = f.name
       THEN setTemplate(g, [m_facedb[t][g] EXCEPT
                              !.back = IF g \in DOMAIN m_facelist
                                       THEN m_facelist[g].back ELSE Doing(t)])
       ELSE UNCHANGED <<m_facelist, feature_q>>
  /\ UNCHANGED face_guids

\* One face of the list; a face without features is refused before.
face_insert_map(t) ==
  /\ feature_task[t] # NoFaces
  /\ LET f == Head(feature_task[t])
     IN \/ insert_new(t, f) \/ insert_known(t, f)
        \/ UNCHANGED <<m_facelist, feature_q, face_guids>>
  /\ feature_task' = [feature_task EXCEPT ![t] = Tail(@)]
  /\ UNCHANGED <<m_facedb, m_cb_list, registered, tasks, removals, stale_copies>>

\* delTemplatebyName, on the handler's thread: by guid, or all of a name.
delTemplatebyName(gone) ==
  /\ removals < MaxRemovals
  /\ removals' = removals + 1
  /\ m_facelist' = [g \in DOMAIN m_facelist \ gone |-> m_facelist[g]]
  /\ feature_q' = Notified(feature_q)
  /\ LET busy == {Doing(t) : t \in {u \in Feature : feature_task[u] # NoFaces}}
     IN stale_copies' = stale_copies \cup (gone \X busy)
  /\ UNCHANGED <<m_facedb, m_cb_list, feature_task, registered, face_guids, tasks>>

remove_face ==
  \/ \E g \in DOMAIN m_facelist : delTemplatebyName({g})
  \/ \E f \in Face : delTemplatebyName({g \in DOMAIN m_facelist : m_facelist[g].name = f.name})

FaceDbNext ==
  \/ \E t \in Feature :
       \/ add_feature_handler(t) \/ UpdateFaceTemplate(t) \/ face_registerimp(t)
       \/ face_insert_map(t)
       \/ \E l \in FaceList : face_register(t, l)
  \/ remove_face

\* A thread that is behind the database will take a new copy before anything else.
CopiesFollow ==
  \A t \in m_cb_list :
    m_facedb[t] # m_facelist =>
      feature_q[t] # <<>> /\ Head(feature_q[t]) = Update

\* A person is known once, under an id of its own, but for faces of one registration (the
\* copy is not refreshed between them), faces that two cameras registered, and entries
\* that were brought back.
KnownOnce ==
  \A g, h \in DOMAIN m_facelist :
    LET a == m_facelist[g] b == m_facelist[h]
    IN g # h /\ (a.id = b.id \/ a.person = b.person) =>
         a.made = b.made \/ a.made[1] # b.made[1] \/ a.back # Nobody \/ b.back # Nobody

\* A face that was removed comes back only by a registration that was being worked at
\* when it was removed, never by one that waited in a queue.
RemovedStaysAway ==
  \A g \in DOMAIN m_facelist :
    m_facelist[g].back # Nobody => <<g, m_facelist[g].back>> \in stale_copies

FaceTemplateInv == FaceDbTypeOK /\ CopiesFollow /\ KnownOnce /\ RemovedStaysAway

FaceDbSpec == FaceDbInit /\ [][FaceDbNext]_faceDbVars
===============================================================================
