---------------------------- MODULE MCNameMonitor ----------------------------
(***************************************************************************)
(* Three lists that others follow: the directory of modules and their      *)
(* names, the faces that are known, and the expression controllers.  They  *)
(* share no state in the models: each behaviour is one of a single part.   *)
(***************************************************************************)
EXTENDS NameMonitor, FaceTemplate, Expression, TLC

VARIABLE part

\* The registrations: one person, or another one and then this one.
OfP == [person |-> "p", name |-> "n"]
OfQ == [person |-> "q", name |-> "n"]
MCFaceList == {<<OfP>>, <<OfQ, OfP>>}

MCInit ==
  /\ part \in {"names", "faces", "expressions"}
  /\ Init /\ FaceDbInit /\ ExprInit

\* The variables of a part that moves change, those of the others do not.
Only(p, next, v) == IF part = p THEN next ELSE UNCHANGED v

MCNext ==
  /\ UNCHANGED part
  /\ Only("names", Next, vars)
  /\ Only("faces", FaceDbNext, faceDbVars)
  /\ Only("expressions", ExprNext, exprVars)

MCSpec == MCInit /\ [][MCNext]_<<part, vars, faceDbVars, exprVars>>

\* Modules and the names that are not empty are only compared for equality.
Symmetry == Permutations(Module) \cup Permutations(Name \ {NoName})

\* The threads follow the faces that are known, and the tasks the expression controllers
\* that are connected (FaceTemplateInv, ExpressionInv).
FollowersInv == FaceTemplateInv /\ ExpressionInv
===============================================================================
