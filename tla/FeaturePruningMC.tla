-------------------------- MODULE FeaturePruningMC --------------------------
(***************************************************************************)
(* FeaturePruning and FeatureInference on two modules: m declares x and y  *)
(* and imports n as p, n declares x, and n:ghost is requested but declared *)
(* nowhere.  Either every feature has a set of conditions out of a few,    *)
(* with chains and cycles, or m:x alone has one, any short text or one of  *)
(* the longer ones.                                                        *)
(***************************************************************************)
EXTENDS FeatureInference, TLC

F1 == <<"m", "x">>
F2 == <<"m", "y">>
F3 == <<"n", "x">>
F4 == <<"n", "ghost">>

MCModule == {"m", "n"}
MCFeature == {F1, F2, F3, F4}
MCDeclared == {F1, F2, F3}
MCImports == "m" :> ("" :> "m" @@ "mm" :> "m" @@ "p" :> "n") @@ "n" :> ("nn" :> "n")

(* Texts.                                                                  *)
X == Word("x")
Y == Word("y")
PX == <<"p", "x">>
Ghost == <<"p", "ghost">>
And == Word("and")
Or == Word("or")
Not == Word("not")
Open == Word("(")
Shut == Word(")")

Conditions(f) ==
  IF f[1] = "m"
  THEN {Condition("m", t) : t \in {<<Word("x")>>, <<PX, And, Y>>, <<Not, Y>>, <<PX, Or, Y>>}}
  ELSE {Condition("n", t) : t \in {<<<<"nn", "x">>>>, <<Not, X>>}}

Short == UNION {[1 .. n -> Reserved \cup {X, PX}] : n \in 0 .. 3} \cup [1 .. 4 -> Reserved \cup {X}]
Long ==
  {<<X, Or, Y, And, Not, X>>, <<Open, X, Or, Y, Shut, And, Not, X>>,
   <<Not, Open, X, And, PX, Shut, Or, Y>>, <<X, And, Y, Or, PX, And, X>>,
   <<X, Or, Y, Or, PX>>, <<X, And, Open, Y, Or, Open, Not, PX, Shut, Shut>>,
   <<Not, Not, Open, X, Shut, And, Y>>, <<X, Or, Open, Y, And, PX>>,
   <<<<"q", "x">>, Or, Not, Ghost>>}
Texts == {Condition("m", t) : t \in Short \cup Long}
MCExpr == Texts \cup UNION {Conditions(f) : f \in MCDeclared}

Chained ==
  {F1 :> a @@ F2 :> b @@ F3 :> c @@ F4 :> {} :
     a \in SUBSET Conditions(F1), b \in SUBSET Conditions(F2), c \in SUBSET Conditions(F3)}
Single == {[f \in MCFeature |-> IF f = F1 THEN {e} ELSE {}] : e \in Texts}

(* A single text is evaluated where x, p:x, both or none are supported.    *)
MCInit == /\ \/ reqs \in Chained
             \/ reqs \in Single /\ given \in {{}, {F1}, {F3}, {F1, F3}}
          /\ Init
MCSpec == MCInit /\ [][Next]_vars /\ WF_vars(Next)

(* The schema: a gated list, a choice below a gated case, a node of n.     *)
Statement(kind, name, owner, gates, subs) ==
  [kind |-> kind, name |-> name, owner |-> owner, gates |-> gates, subs |-> subs]
Leaf(name, owner, gates) == Statement("leaf", name, owner, gates, {})
MCSchema ==
  {Statement("container", "c", "", {<<Y>>},
     {Statement("list", "l", "", {},
        {Leaf("a", "", {<<X, And, PX>>}), Leaf("b", "", {<<Not, X>>})})}),
   Leaf("f", "", {<<Ghost>>}),
   Statement("choice", "k", "", {<<PX>>},
     {Statement("case", "k1", "", {<<X>>}, {Leaf("d", "", {}), Leaf("e", "n", {<<X>>})})})}

Object(f) == [is |-> "object", of |-> f]
Array(s) == [is |-> "array", of |-> s]
Scalar == [is |-> "scalar"]
C(rows) == Object(<<"", "c">> :> Object(<<"", "l">> :> Array(rows)))
A == Object(<<"", "a">> :> Scalar)
MCFitting ==
  {Object(<<>>), C(<<>>), C(<<A, Object(<<>>)>>), C(<<Object(<<"m", "b">> :> Scalar)>>),
   Object(<<"", "f">> :> Scalar), Object(<<"", "d">> :> Scalar), Object(<<"n", "e">> :> Scalar)}
MCInstances ==
  MCFitting \cup {Object(<<"", "e">> :> Scalar), Object(<<"", "c">> :> Array(<<>>)), C(<<Scalar>>),
                  Object(<<"", "c">> :> Object(<<"", "l">> :> A))}
=============================================================================
