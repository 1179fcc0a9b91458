--------------------------- MODULE DocumentWalkMC ---------------------------
(***************************************************************************)
(* Instances of DocumentWalk: four small schemas and the documents they    *)
(* are tried on.  Every schema wraps its statements in a container, as the *)
(* module parser demands of choices.                                       *)
(***************************************************************************)
EXTENDS DocumentRules, TLC

S(kind, name, stmts) ==
  [kind |-> kind, name |-> name, stmts |-> stmts, keys |-> <<>>,
   mandatory |-> FALSE, presence |-> FALSE, default |-> FALSE, empty |-> FALSE,
   when |-> FALSE, must |-> FALSE, min |-> 0, max |-> 0]

Leaf(name) == S("leaf", name, <<>>)

(* Choices in choices, gated and conditional cases, mandatory statements   *)
(* below a non-presence container of a case.                               *)
ChoiceSchema ==
  "m1" :> S("module", "m1", <<"c">>)
  @@ "c" :> S("container", "c", <<"w", "o">>)
  @@ "w" :> Leaf("w")
  @@ "o" :> [S("choice", "o", <<"a", "b">>) EXCEPT !.mandatory = TRUE, !.when = TRUE]
  @@ "a" :> S("case", "a", <<"v", "i", "k">>)
  @@ "v" :> Leaf("v")
  @@ "i" :> [S("choice", "i", <<"p", "q">>) EXCEPT !.mandatory = TRUE]
  @@ "p" :> S("case", "p", <<"x", "y">>)
  @@ "x" :> [Leaf("x") EXCEPT !.mandatory = TRUE]
  @@ "y" :> [S("anydata", "y", <<>>) EXCEPT !.mandatory = TRUE]
  @@ "q" :> S("case", "q", <<"z">>)
  @@ "z" :> Leaf("z")
  @@ "k" :> S("container", "k", <<"g", "j">>)
  @@ "g" :> [Leaf("g") EXCEPT !.mandatory = TRUE]
  @@ "j" :> [S("choice", "j", <<"j1">>) EXCEPT !.mandatory = TRUE]
  @@ "j1" :> S("case", "j1", <<"h">>)
  @@ "h" :> [Leaf("h") EXCEPT !.empty = TRUE]
  @@ "b" :> [S("case", "b", <<"u">>) EXCEPT !.when = TRUE]
  @@ "u" :> [Leaf("u") EXCEPT !.default = TRUE]

(* A keyed list with bounds and a must, a leaf-list, a presence container. *)
ListSchema ==
  "m2" :> S("module", "m2", <<"l", "t", "r">>)
  @@ "l" :> [S("list", "l", <<"kk", "la">>) EXCEPT
               !.keys = <<"kk">>, !.min = 1, !.max = 2, !.must = TRUE]
  @@ "kk" :> Leaf("kk")
  @@ "la" :> [Leaf("la") EXCEPT !.mandatory = TRUE, !.when = TRUE]
  @@ "t" :> [S("leaf-list", "t", <<>>) EXCEPT !.max = 1, !.must = TRUE]
  @@ "r" :> [S("container", "r", <<"d", "s">>) EXCEPT !.presence = TRUE, !.must = TRUE]
  @@ "d" :> [Leaf("d") EXCEPT !.default = TRUE, !.must = TRUE]
  @@ "s" :> [S("choice", "s", <<"s1">>) EXCEPT !.mandatory = TRUE]
  @@ "s1" :> S("case", "s1", <<"e">>)
  @@ "e" :> [Leaf("e") EXCEPT !.mandatory = TRUE]

(* A choice called like a leaf of its own case, nested in another choice.  *)
NameSchema ==
  "m3" :> S("module", "m3", <<"nc">>)
  @@ "nc" :> S("container", "nc", <<"no">>)
  @@ "no" :> S("choice", "no", <<"na">>)
  @@ "na" :> S("case", "na", <<"ni">>)
  @@ "ni" :> S("choice", "x", <<"np">>)
  @@ "np" :> S("case", "np", <<"nx", "ny">>)
  @@ "nx" :> Leaf("x")
  @@ "ny" :> Leaf("y")

MCStmt == ChoiceSchema @@ ListSchema @@ NameSchema

(* The schemas are trees: how far the statements go down from each one.    *)
MCDepth[n \in Node] ==
  LET below == {MCDepth[s] : s \in StmtsOf(n)}
  IN  IF below = {} THEN 0 ELSE 1 + Max(below)

ASSUME TreeAssumption == Descending(MCDepth) /\ StatementsOwned

MCName == {MCStmt[n].name : n \in DOMAIN MCStmt} \cup {"other"}

Scalar(x) == [t |-> "scalar", v |-> x]
MCDefault == Scalar("default")
D(f) == [t |-> "dict", m |-> f]
L(s) == [t |-> "list", s |-> s]
Empty == D(<<>>)
One == Scalar("1")
Of(ks) == [k \in ks |-> One]

(* c's members: any of the leafs, w with three readings, k in four.        *)
Ks == {<<>>} \cup {"k" :> v : v \in {Empty, D(Of({"h"})), D("g" :> One @@ "h" :> Null)}}
Ws == {<<>>} \cup {"w" :> Scalar(x) : x \in {"off", "bad"}}
ChoiceDocs ==
  {D("c" :> D(Of(ks) @@ k @@ w)) :
     ks \in SUBSET {"v", "x", "y", "z", "u", "other"}, k \in Ks, w \in Ws}

Entries ==
  {D(Of({"kk", "la"})), D(Of({"kk"})), D(Of({"la"})),
   D("kk" :> Scalar("x") @@ "la" :> One), D("kk" :> Scalar("x")),
   D("kk" :> L(<<One>>) @@ "la" :> One), One}
Ls == {<<>>} \cup {"l" :> v : v \in {Null, One}}
      \cup {"l" :> L(s) : s \in {<<>>} \cup {<<a>> : a \in Entries}
                             \cup {<<a, b>> : a, b \in Entries}}
      \cup {"l" :> L(<<D(Of({"kk", "la"})), One, D(Of({"kk"}))>>)}
Ts == {<<>>, "t" :> One, "t" :> Scalar("bad"), "t" :> L(<<One, Scalar("bad")>>)}
Rs == {<<>>, "r" :> Empty, "r" :> One, "r" :> D(Of({"e"})),
       "r" :> D("d" :> Scalar("bad") @@ "e" :> One)}
ListDocs == {D(l @@ t @@ r) : l \in Ls, t \in Ts, r \in Rs}

NameDocs == {D("nc" :> D(Of(ks))) : ks \in SUBSET {"x", "y", "other"}}

ChoiceRoots == {"m1", "m2"}
NameRoots == {"m3"}

MCGated == "m1" :> {"a", "q", "k"} @@ "m2" :> {"t", "s"} @@ "m3" :> {}
MCDocuments == "m1" :> ChoiceDocs @@ "m2" :> ListDocs @@ "m3" :> NameDocs
MCAgain ==
  "m1" :> {D("c" :> D(Of({"x", "y", "k"}))), D("c" :> D(Of({"v"})))}
  @@ "m2" :> {D("l" :> L(<<D(Of({"kk", "la"}))>>)), D("r" :> Empty)}
  @@ "m3" :> {D("nc" :> Empty)}

(* The expressions read a sibling: w = "off" turns choice o off and cannot *)
(* be read by case b's when if it is "bad"; la is for keys other than "x". *)
Reads(d, k, x) == k \in DOMAIN d.m /\ d.m[k] = Scalar(x)
MCWhen(n, d) ==
  IF n = "o" THEN IF Reads(d, "w", "off") THEN "false" ELSE "true"
  ELSE IF n = "b" THEN IF Reads(d, "w", "bad") THEN "false"
                       ELSE IF "w" \in DOMAIN d.m THEN "error" ELSE "true"
  ELSE IF Reads(d, "kk", "x") THEN "false"
  ELSE IF "kk" \in DOMAIN d.m THEN "true" ELSE "error"

MCMust(n, d, v) ==
  IF n = "l" THEN IF ~IsDict(v) THEN "error" ELSE IF Reads(v, "kk", "x") THEN "false" ELSE "true"
  ELSE IF n = "r" THEN IF IsDict(v) THEN "true" ELSE "error"
  ELSE IF v = Scalar("bad") THEN "false" ELSE "true"

MCTypeFails(n, v) == v = Scalar("bad") \/ IsDict(v)
=============================================================================
