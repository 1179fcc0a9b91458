--------------------------- MODULE UsesExpansionMC ---------------------------
(***************************************************************************)
(* Instances of UsesExpansion: the statements of m use g, g uses h, h may  *)
(* be anything up to a use of g again, of itself, or of k, a grouping of   *)
(* the imported l.                                                         *)
(***************************************************************************)
EXTENDS UsesRules, TLC

RefinableKinds == "type" :> {"leaf"} @@ "mandatory" :> {"leaf", "choice"}

S(kind, name, stmts) == [Stmt(kind, name) EXCEPT !.subs = stmts]
Leaf(n) == S("leaf", n, <<>>)
Typed(n, t) == [Leaf(n) EXCEPT !.props["type"] = t]
Container(n, stmts) == S("container", n, stmts)
Choice(n, k, stmts) == [S("choice", n, <<>>) EXCEPT !.cases = <<S("case", k, stmts)>>]
Typedef(t) == S("typedef", t, <<>>)

Refine(path, v) ==
  [path |-> path, props |-> NoProps, musts |-> {v}, feats |-> {v}]
RefineType(path, t) ==
  [path |-> path, props |-> [NoProps EXCEPT !["type"] = t], musts |-> {}, feats |-> {}]
Require(path, v) ==
  [path |-> path, props |-> [NoProps EXCEPT !["mandatory"] = v], musts |-> {}, feats |-> {}]
Aug(path, stmts) == [path |-> path, subs |-> stmts, when |-> {"wa"}, feats |-> {"fa"}]

Uses(p, g, refines) ==
  [Stmt("uses", "uses") EXCEPT !.prefix = p, !.grouping = g, !.refines = refines]
When(s, w) == [s EXCEPT !.when = {w}, !.feats = {w}]
Augmenting(s, a) == [s EXCEPT !.augs = <<a>>]

BodiesH ==
  { <<Leaf("a")>>,
    <<Container("a", <<Leaf("b")>>)>>,
    <<Container("a", <<Leaf("b")>>), Leaf("b")>>,
    <<When(Leaf("b"), "wb"), Choice("c", "a", <<Leaf("d")>>)>>,
    <<Typedef("t"), Container("a", <<Typed("b", "t"), Typedef("u")>>)>>,
    <<Container("a", <<Uses("l", "k", <<>>)>>)>>,
    <<Container("a", <<S("notification", "b", <<>>)>>)>>,
    <<Container("a", <<Uses("m", "g", <<>>)>>)>>,
    <<Uses(None, "h", <<>>)>> }

BodiesG ==
  { <<Uses(None, "h", <<>>)>>,
    <<When(Uses("m", "h", <<Refine(<<"a">>, "r1")>>), "w1"), Leaf("e")>>,
    <<Container("d", <<Uses(None, "h", <<Refine(<<"a", "b">>, "r1")>>)>>)>>,
    <<Augmenting(Uses(None, "h", <<Require(<<"c">>, "yes")>>), Aug(<<"a">>, <<Leaf("e")>>))>>,
    <<Augmenting(When(Uses(None, "h", <<>>), "w1"), Aug(<<"c">>, <<Uses("l", "k", <<>>)>>))>>,
    <<Choice("d", "e", <<Uses(None, "h", <<Refine(<<"b">>, "r1")>>)>>)>> }

BodiesK ==
  { <<Typedef("t"), Typed("b", "t")>>, <<Typed("d", "u")>> }

Contents ==
  { <<Uses(None, "g", <<>>)>>,
    <<When(Uses(None, "g", <<RefineType(<<"a", "b">>, "v")>>), "w0")>>,
    <<Container("f", <<Uses(None, "g", <<Refine(<<"d", "a">>, "r0"), Refine(<<"e">>, "r2")>>)>>)>>,
    <<Augmenting(Uses(None, "g", <<>>), Aug(<<"a">>, <<Typedef("w"), Typed("g", "w")>>)),
      Uses(None, "no", <<>>)>>,
    <<Choice("f", "g", <<Uses(None, "g", <<Refine(<<"d", "e", "b">>, "r0")>>), Typed("i", "v")>>),
      Uses("l", "k", <<>>)>> }
Users == {<<Container("x", c)>> : c \in Contents}    \* the parser knows no uses outside

(* The typedefs of m and l; those of h are m's too.                        *)
TypedefSets ==
  { [m |-> {"v"}, l |-> {"t"}], [m |-> {"v", "t"}, l |-> {"t", "u"}] }
Declared(b) == {s.name : s \in {x \in Statements(b) : x.kind = "typedef"}}

Modules ==
  {[body |-> b, order |-> o,
    groupings |-> [m |-> [n \in {"g", "h"} |-> IF n = "g" THEN g ELSE h],
                   l |-> [n \in {"k"} |-> k]],
    typedefs |-> [mod \in Module |-> [t \in Type |->
                    IF t \in ts[mod] \/ (mod = "m" /\ t \in Declared(h \o b))
                             \/ (mod = "l" /\ t \in Declared(k))
                    THEN <<mod, t>> ELSE None]]] :
     b \in Users, g \in BodiesG, h \in BodiesH, k \in BodiesK,
     ts \in TypedefSets, o \in {<<"g", "h">>, <<"h", "g">>}}
=============================================================================
