---------------------------- MODULE ValidationMC ----------------------------
(* Instances of Validation: a module with rules over a small tree, one with *)
(* a leaf of every type, and the documents put to them.                    *)
EXTENDS ValidationRules

MCNumerals == 0 .. 9
Strings == <<"", "1", "2", "False", "True", "a", "b", "b a", "c", "x", "y", "zz", "zzz">>
MCBefore(s, t) == \E i, j \in DOMAIN Strings : i < j /\ Strings[i] = s /\ Strings[j] = t
MCDerived(f, s, t) == <<s, t>> \in {<<Str("x"), Str("b")>>}
MCMatches(pattern, s) ==
  s \in (IF pattern = "z*" THEN {"", "zz", "zzz"} ELSE {"zzz", "b a"})
MCWords(s) ==
  CASE s = "" -> <<>> [] s = "b a" -> <<"b", "a">> [] s = "zz" -> <<"b", "b">> [] OTHER -> <<s>>
MCOctets(s) == CASE s = "" -> 0 [] s = "zz" -> 1 [] s = "zzz" -> 3 [] OTHER -> -1
MCSpelled(s) ==
  IF s = "/top/l" THEN <<Sign("/"), Word("top"), Sign("/"), Word("l")>> ELSE <<Word(s)>>
MCFraction(s) == IF s \in {"1.0", "2.0", "7.0"} THEN 1 ELSE 0
MCIdentityOf(s, bases) == s = "a" /\ bases[1] = "b"

(* Statements.                                                             *)
Stmt(kind, name, subs) ==
  [kind |-> kind, name |-> name, subs |-> subs, type |-> AnyType, default |-> Nothing,
   key |-> <<>>, when |-> <<>>, musts |-> <<>>]
Leaf(name, type) == [Stmt("leaf", name, <<>>) EXCEPT !.type = type]
LeafList(name, type) == [Stmt("leaf-list", name, <<>>) EXCEPT !.type = type]
List(name, subs) == [Stmt("list", name, subs) EXCEPT !.key = <<subs[1].name>>]
Module(subs) == [kind |-> "module", name |-> "m", subs |-> subs]
OfType(name) == [AnyType EXCEPT !.name = name]
LeafrefTo(p) == [OfType("leafref") EXCEPT !.path = <<Written(p)>>]
MustHold(stmt, trees) == [stmt EXCEPT !.musts = Each(Written, trees)]
When(stmt, tree, parent) == [stmt EXCEPT !.when = <<[text |-> Written(tree), parent |-> parent]>>]

(* Expressions.                                                            *)
Steps1(names) == [i \in DOMAIN names |-> Step(names[i], <<>>)]
Abs(names) == Path(Steps1(names), TRUE, TRUE)
Rel(names) == Path(Steps1(names), FALSE, FALSE)
Pick(path, i, q) == [path EXCEPT !.segments[i].predicate = <<q>>]
Int1(n) == Literal(Num(n))
Text1(s) == Literal(Str(s))
AnyOf(values) == Literal([is |-> "tuple", val |-> values])
Cur == Call("current", <<>>)
Eq(l, r) == Binary(l, "=", r)
Lt(l, r) == Binary(l, "<", r)
And(l, r) == Binary(l, "and", r)
Or(l, r) == Binary(l, "or", r)
Not(x) == Call("not", <<x>>)
Count(x) == Call("count", <<x>>)

Own == Rel(<<".">>)
A == Rel(<<"..", "a">>)
SecondV == Pick(Abs(<<"top", "l", "v">>), 2, Int1(2))
NamedV == Pick(Rel(<<"..", "l", "v">>), 2, Eq(Rel(<<"n">>), Text1("x")))
MineV == Pick(Rel(<<"..", "l", "v">>), 2, Eq(Rel(<<"n">>), Cur))
Atoms == {Eq(Own, A), Lt(A, Own), Eq(Abs(<<"top", "l", "v">>), Int1(2)), Eq(SecondV, Int1(2)),
          Lt(Count(Rel(<<"..", "l">>)), Int1(2)), Eq(NamedV, A), MineV}
Rules ==
  Atoms
  \cup {Not(x) : x \in Atoms}
  \cup {Or(And(x, Not(A)), Eq(A, Int1(2))) : x \in {SecondV, MineV}}
  \cup {And(Or(NamedV, Lt(Int1(1), Own)), y) :
           y \in {Abs(<<"top", "c">>), Eq(Abs(<<"top", "a">>), Int1(1))}}
  \cup {Eq(Binary(Cur, "/", Rel(<<"..", "a">>)), Own), Binary(Own, "!=", Text1("x")),
        Binary(A, "<=", Binary(Binary(Own, "-", A), "-", Int1(1))),
        Binary(A, "<=", Binary(Own, "-", Binary(A, "-", Int1(1)))),
        Eq(Binary(Call("deref", <<Rel(<<"..", "p">>)>>), "/", Rel(<<"..", "v">>)), Int1(2)),
        And(Not(Eq(Abs(<<"top", "l", "v">>), Int1(3))), Not(Abs(<<"top", "v">>))),
        Eq(Own, AnyOf(<<Str("x"), Num(2)>>)), Eq(Binary(Own, "-", A), AnyOf(<<Num(0), Num(6)>>)),
        And(Eq(A, AnyOf(<<Num(2)>>)), Not(Eq(Abs(<<"top", "l", "n">>), AnyOf(<<Str("y"), Str("z")>>)))),
        Eq(AnyOf(<<Str("x")>>), Own),
        Call("derived-from", <<Own, Text1("b")>>),
        Call("derived-from", <<Rel(<<"..", "l", "n">>), Text1("b")>>),
        Not(Pick(Abs(<<"top", "l">>), 2, Abs(<<"top", "a">>)))}

RuleModule(rule, when) ==
  LET str == OfType("string")  int == OfType("int8")
      two == [OfType("union") EXCEPT !.types = <<[int EXCEPT !.range = << <<Num(2), Num(3)>> >>],
                                                LeafrefTo(Rel(<<"..", "..", "top", "l", "n">>))>>]
      entry == <<Leaf("n", str), [Leaf("v", int) EXCEPT !.default = Str("1")]>>
      names == LeafrefTo(Abs(<<"top", "l", "n">>))
  IN  Module(<<Stmt("container", "top",
        <<[Leaf("a", int) EXCEPT !.default = Str("1")],
          Leaf("p", LeafrefTo(Rel(<<"..", "l", "n">>))),
          When(MustHold(Leaf("b", two), <<rule>>), when, FALSE),
          MustHold(List("l", entry), <<Binary(Rel(<<"v">>), "<=", Rel(<<"..", "a">>))>>),
          When(Stmt("container", "c",
                    <<MustHold(LeafList("w", names), <<Binary(Own, "!=", Text1("y"))>>)>>),
               Eq(Rel(<<"a">>), Int1(1)), TRUE)>>)>>)

Dict(f) == [is |-> "dict", val |-> f]
Items(s) == [is |-> "list", val |-> s]
Entry(n, v) == Dict(IF v = 0 THEN "n" :> Str(n) ELSE "n" :> Str(n) @@ "v" :> Num(v))
Field(name, v) == IF v.is = "none" THEN <<>> ELSE name :> v
Names == Dict("w" :> Items(<<Str("x"), Str("y")>>))
RuleDocuments ==
  {Dict("top" :> Dict(Field("a", a) @@ Field("b", b) @@ Field("l", l)
                      @@ Field("p", IF a.is = "int" THEN Nothing ELSE Str("y"))
                      @@ Field("c", IF b.is = "int" THEN Nothing ELSE Names))) :
     a \in {Nothing, Num(2)}, b \in {Nothing, Num(2), Str("x"), Num(7)},
     l \in {Nothing, Items(<<Entry("x", 2)>>), Items(<<Entry("x", 0), Entry("y", 2)>>),
            Items(<<Entry("x", 0), Entry("x", 2)>>)}}

Source(module, document, cached) == [schema |-> module, data |-> document, cached |-> cached]
RuleSources ==
  {Source(RuleModule(r, Eq(A, Int1(1))), d, TRUE) : r \in Rules, d \in RuleDocuments}
  \cup {Source(RuleModule(Eq(Own, A), Not(Rel(<<"..", "l">>))), d, FALSE) : d \in RuleDocuments}

(* A leaf of each type, and values for it.                                 *)
MCTypedefs ==
  "" :> ("percent" :> [OfType("uint8") EXCEPT !.range = << <<Num(0), Num(5)>> >>]
         @@ "auto" :> [OfType("union") EXCEPT !.types =
                         <<OfType("percent"), [OfType("enumeration") EXCEPT !.enums = {"a"}]>>])
  @@ "p" :> ("word" :> [OfType("string") EXCEPT !.length = << <<Num(1), Word("max")>> >>])
Texts1 == {Str(s) : s \in {"", "1", "7", "a", "b a", "x", "zz", "zzz"}}
Numbers == {Num(1), Num(7), Float(2)}
TypeCases ==
  {OfType("string"), [OfType("string") EXCEPT !.length = << <<Num(1)>> >>],
   [OfType("string") EXCEPT !.length = << <<Word("min"), Num(2)>> >>,
                            !.patterns = <<[text |-> "z*", invert |-> FALSE]>>],
   [OfType("string") EXCEPT !.patterns = <<[text |-> "z*", invert |-> TRUE],
                                          [text |-> "...", invert |-> FALSE]>>],
   [OfType("enumeration") EXCEPT !.enums = {"a", "1"}], [OfType("bits") EXCEPT !.bits = {"a", "b"}],
   [OfType("binary") EXCEPT !.length = << <<Num(1), Num(2)>> >>],
   [OfType("identityref") EXCEPT !.bases = <<"b">>],
   OfType("instance-identifier"), [OfType("instance-identifier") EXCEPT !.require = FALSE],
   LeafrefTo(Rel(<<"..", "l", "n">>)),
   [LeafrefTo(Abs(<<"top", "l", "n">>)) EXCEPT !.require = FALSE],
   OfType("auto"), [OfType("word") EXCEPT !.prefix = "p"], [OfType("word") EXCEPT !.prefix = "q"],
   [OfType("none") EXCEPT !.prefix = "p"]}
NumberCases ==
  {OfType("int8"), OfType("uint64"), [OfType("int32") EXCEPT !.range = << <<Num(2), Num(6)>> >>],
   [OfType("decimal64") EXCEPT !.range = << <<Num(2), Word("max")>> >>, !.digits = <<1>>],
   [OfType("decimal64") EXCEPT !.digits = <<0>>]}

TypeModule(typed) ==
  Module(<<Stmt("container", "top", <<List("l", <<Leaf("n", OfType("string"))>>), typed>>)>>)
TypeDocument(v) == Dict("top" :> Dict("l" :> Items(<<Entry("x", 0), Entry("1", 0)>>) @@ "t" :> v))
TypeSource(type, v) == Source(TypeModule(Leaf("t", type)), TypeDocument(v), TRUE)
LeafListSource(p, v, w) ==
  Source(TypeModule(LeafList("t", LeafrefTo(p))), TypeDocument(Items(<<v, w>>)), TRUE)
TypeSources ==
  {TypeSource(t, v) : t \in TypeCases, v \in Texts1 \cup {Str("/top/l")}}
  \cup {TypeSource(t, v) : t \in NumberCases, v \in Texts1 \cup Numbers}
  \cup {TypeSource(OfType("boolean"), v) : v \in {Bool(TRUE), Bool(FALSE), Str("x"), Str("")}}
  \cup {TypeSource(OfType("empty"), v) : v \in {Nothing, Bool(TRUE), Str("x"), Str("")}}
  \cup {LeafListSource(Abs(<<"top", "l", "n">>), v, w) : v, w \in {Str("x"), Str("1"), Str("a")}}

(* A module that is refused, and a path that raises.                       *)
Unreadable == [Leaf("t", OfType("string")) EXCEPT !.musts = << <<Sign("("), Word("a")>> >>]
Raising == LeafrefTo(Pick(Abs(<<"top", "l", "n">>), 2, Call("number", <<Rel(<<"n">>)>>)))
OddSources ==
  {Source(Module(<<Unreadable>>), Dict("t" :> Str("x")), TRUE),
   TypeSource(Raising, Str("x")), TypeSource(Raising, Str("1"))}

(* Two rules on the entries of one list, which differ in a predicate only. *)
CacheSources ==
  {LET entry == <<Leaf("n", OfType("string")), Leaf("v", OfType("int8"))>>
       rule(i) == Eq(Pick(Abs(<<"top", "l", "v">>), 2, Int1(i)), Int1(i))
   IN  Source(Module(<<Stmt("container", "top",
                <<MustHold(List("l", entry), <<rule(2), rule(1)>>)>>)>>),
              Dict("top" :> Dict("l" :> Items(<<Entry("x", 1), Entry("y", 2)>>))),
              c) : c \in BOOLEAN}

MCSources == RuleSources \cup TypeSources \cup OddSources
=============================================================================
