---------------------------- MODULE JsonSchemaMC ----------------------------
(* An instance of JsonSchema: integer types of 2 to 6 bits, every type as a *)
(* leaf, leaf-list and typedef, and the shapes of containers, lists and     *)
(* choices.                                                                *)
EXTENDS JsonSchema

ScaledBounds ==
  [t \in Builtins |->
     LET i == CHOOSE i \in 1 .. 4 : t \in {Signed[i], Unsigned[i]}
         n == 2 ^ i
     IN  IF t = Signed[i] THEN [lo |-> 0 - n, hi |-> n - 1] ELSE [lo |-> 0, hi |-> 2 * n - 1]]
TextLengths == [x \in {"a", "b", "ab", "i", "j"} |-> IF x = "ab" THEN 2 ELSE 1]
(* The branches a.*, .*b, a and b, and the pattern of bits.                *)
MatchedSpans ==
  {<<"a.*", "a", 0, 1>>, <<"a.*", "ab", 0, 1>>, <<"a.*", "ab", 0, 2>>,
   <<".*b", "b", 0, 1>>, <<".*b", "ab", 0, 2>>, <<".*b", "ab", 1, 2>>,
   <<"a", "a", 0, 1>>, <<"a", "ab", 0, 1>>, <<"b", "b", 0, 1>>, <<"b", "ab", 1, 2>>,
   <<"bits", "a", 0, 1>>, <<"bits", "b", 0, 1>>}
Integers1 == {-3, -1, 0, 1, 3, 4, 16}

(* Types.                                                                  *)
None0 == [k \in {} |-> None]
Named1(name) == [name |-> name]
Int1(name, range) == [name |-> name, range |-> range]
Part(lo, hi) == << <<lo, hi>> >>
Text(length, patterns) == [name |-> "string", length |-> length, patterns |-> patterns]
Pattern(branch) == [branches |-> <<branch>>, invert |-> FALSE]
NotPattern(branch) == [branches |-> <<branch>>, invert |-> TRUE]
AorB == [branches |-> <<"a", "b">>, invert |-> FALSE]
In(units, t) == t @@ "units" :> units
Enum(enums) == [name |-> "enumeration", enums |-> enums]
Union(types) == [name |-> "union", types |-> types]
Leafref(absolute, steps) ==
  [name |-> "leafref", path |-> [absolute |-> absolute, steps |-> steps]]
Identityref(bases) == [name |-> "identityref", bases |-> bases]
Bits == [name |-> "bits", bits |-> <<"a", "b">>]
Decimal(range) == [name |-> "decimal64", digits |-> 1, range |-> range]

IntegerTypes ==
  {Int1(t, <<>>) : t \in Builtins}
    \cup {Int1("int8", Part(<<-1>>, <<1>>)), Int1("uint8", Part(<<1>>, <<>>)),
          Int1("int16", Part(<<>>, <<0>>)), Int1("int16", Part(<<0>>, <<3>>)),
          Int1("int16", Part(<<0>>, <<>>)), Int1("int32", Part(<<-4>>, <<3>>)),
          Int1("uint16", Part(<<0>>, <<1>>)), Int1("uint8", Part(<<>>, <<>>)),
          Int1("uint8", << << <<1>> >> >>), Int1("int8", Part(<<-1>>, <<0>>) \o Part(<<1>>, <<1>>)),
          Int1("uint64", Part(<<8>>, <<20>>)), Int1("int64", Part(<<-16>>, <<1>>))}
StringTypes ==
  {Text(<<>>, <<>>), Text(Part(<<2>>, <<2>>), <<>>), Text(Part(<<>>, <<1>>), <<>>),
   Text(Part(<<2>>, <<>>), <<Pattern("a.*")>>), Text(<<>>, <<Pattern("a.*"), Pattern(".*b")>>),
   Text(Part(<<1>>, <<1>>), <<NotPattern(".*b")>>),
   Text(<<>>, <<AorB>>), In("s", Text(<<>>, <<Pattern(".*b")>>)), Enum(<<"a", "b">>), Enum(<<"b">>), Bits}
OtherTypes ==
  {Named1("boolean"), Named1("empty"), Named1("instance-identifier"), Named1("binary"),
   Decimal(<<>>), Decimal(Part(<<0>>, <<>>)), Decimal(<< << <<1>> >> >>), Identityref(<<"i">>), Identityref(<<"j">>),
   Identityref(<<"i", "j">>), In("s", Int1("int8", <<>>)), In("kg", Named1("boolean")),
   Union(<<In("s", Int1("int8", <<>>)), Text(<<>>, <<Pattern("a.*"), NotPattern(".*b")>>)>>),
   Union(<<Int1("int8", <<>>), Enum(<<"a", "b">>)>>),
   Union(<<Named1("boolean"), Text(<<>>, <<Pattern("a.*")>>), Leafref(TRUE, <<"o">>)>>),
   Union(<<Int1("int8", <<>>), Int1("uint8", <<>>)>>),
   Leafref(TRUE, <<"o">>), Leafref(FALSE, <<"..", "o">>), Leafref(TRUE, <<"missing">>)}
Types == IntegerTypes \cup StringTypes \cup OtherTypes

(* Statements.                                                             *)
Default(value, literal) == "default" :> [form |-> "text", value |-> value, literal |-> literal]
Stmt(kind, name, ann, children) == [kind |-> kind, name |-> name, ann |-> ann, children |-> children]
Leaf(name, type, ann) == [kind |-> "leaf", name |-> name, type |-> type, ann |-> ann]
LeafList(name, type, ann) == [kind |-> "leaf-list", name |-> name, type |-> type, ann |-> ann]
AnyNode(kind, name, ann) == [kind |-> kind, name |-> name, ann |-> ann]
Choice(name, cases, ann) == [kind |-> "choice", name |-> name, cases |-> cases, ann |-> ann]
Case(name, children) == [kind |-> "case", name |-> name, children |-> children, ann |-> None0]
Must == "mandatory" :> TRUE
Integer == Int1("int8", Part(<<0>>, <<1>>))
String == Text(<<>>, <<>>)

Identity(bases, ann) == [bases |-> bases, ann |-> ann]
Typedef(type, ann) == [type |-> type, ann |-> ann]
Two == "i" :> Identity(<<>>, "if-features" :> <<"f">>) @@ "j" :> Identity(<<"i">>, None0)
ModuleOf(identities, typedefs, statements) ==
  [identities |-> identities, typedefs |-> typedefs, statements |-> statements]
Other == Leaf("o", Integer, None0)
With(statements) == ModuleOf(Two, None0, statements)

(* A node of every type, beside the leaf that leafrefs lead to.            *)
Annotated(t) ==
  ("must" :> "m" @@ "when" :> "w" @@ "units" :> "kg" @@ "config" :> FALSE)
    @@ IF t.name = "decimal64" THEN Default("1.0", "number") ELSE Default("1", "integer")
OfEveryType ==
  UNION {{With({Other, Leaf("x", t, None0)}), With({Other, Leaf("x", t, Annotated(t))}),
          With({Other, LeafList("x", t, "min" :> 1 @@ "max" :> 2 @@ "defaults" :> <<"1">>)})} : t \in Types}
OfEveryTypedef ==
  UNION {{ModuleOf(Two, "t" :> Typedef(t, ann), {Other, Leaf("x", Named1("t"), Only(Annotated(t), use))}) :
            ann \in {None0, "units" :> "s" @@ Default("true", "boolean")},
            use \in {{}, DOMAIN Annotated(t)}}
         : t \in Types \ {Leafref(FALSE, <<"..", "o">>)}}
TypedefsAndIdentities ==
  LET t == Typedef(Integer, Default("1", "integer"))
      Refer(name) == {Other, Leaf("x", Named1(name), None0), LeafList("y", Named1(name), None0)}
      plain == Typedef(Integer, None0)
  IN  {ModuleOf(Two, "t" :> t @@ "u" :> Typedef(Named1("t"), None0), Refer("u")),
       ModuleOf(Two, "t" :> plain @@ "u" :> Typedef(Named1("t"), None0), Refer("u")),
       ModuleOf(Two, "i" :> t, Refer("i")), ModuleOf(Two, "i" :> plain, Refer("i")),
       ModuleOf(None0, "t" :> plain,
                {Leaf("x", In("s", Named1("t")), None0), LeafList("y", In("s", Named1("t")), None0)}),
       ModuleOf(None0, "t" :> t, {Leaf("x", Union(<<Named1("t"), Enum(<<"a">>)>>), Must)})}

(* Objects without a choice: as a container, a list and the input of an rpc. *)
Objects1 ==
  LET a == Leaf("a", Integer, Must)
      nested == Stmt("container", "d", "presence" :> "p",
                     {Leaf("b", Leafref(TRUE, <<"x", "a">>), None0), Leaf("c", Leafref(FALSE, <<"..", "b">>), Must)})
  IN  {{}, {a}, {a, Leaf("b", String, None0)}, {a, nested}, {a, AnyNode("anydata", "b", Must)},
       {a, AnyNode("anyxml", "b", "config" :> FALSE @@ "must" :> "m")},
       {a, Leaf("b", Leafref(FALSE, <<"..", "a">>), None0), Leaf("c", Leafref(FALSE, <<"..", "o">>), None0)},
       {a, Leaf("b", Named1("empty"), Must), LeafList("c", Bits, None0)}}

(* Choices: none, one or two cases with data, with and without siblings.   *)
CaseLists ==
  LET p == Case("p", {Leaf("b", Integer, Must)})
      q == [Case("q", {Leaf("c", String, None0)}) EXCEPT !.ann = "if-features" :> <<"f">>]
      r == Case("r", {Leaf("c", String, None0), Leaf("d", Integer, None0)})
      s == Case("s", {Stmt("container", "d", None0, {Leaf("b", Integer, Must)})})
      inner == Case("n", {Choice("in", <<p, q>>, Must)})
      lost == Case("l", {Leaf("d", Bits, None0)})
  IN  {<<>>, <<Case("e", {})>>, <<p>>, <<p, q>>, <<Case("e", {}), p, q>>, <<p, r>>, <<p, inner>>,
       <<q, s>>, <<p, lost>>}
Choices1 == {Choice("ch", cases, ann) :
               cases \in CaseLists,
               ann \in {None0, Must, "config" :> FALSE @@ "if-features" :> <<"f">>, "when" :> "w"}}
WithChoice ==
  UNION {{{ch}, {ch, Leaf("a", Integer, Must)},
          {ch, Leaf("a", Integer, None0), AnyNode("anydata", "e", Must)}} : ch \in Choices1}
Second == Choice("ci", <<Case("t", {Leaf("u", String, None0)}), Case("v", {Leaf("w", String, None0)})>>, Must)

AsContainer(stmts) == Stmt("container", "x", "must" :> "m" @@ "config" :> TRUE, stmts)
AsList(stmts) ==
  Stmt("list", "x", IF \E n \in stmts : n.name = "a" THEN "key" :> "a" @@ "min" :> 1 @@ "max" :> 2 ELSE None0,
       stmts)
Rpc(stmts) ==
  Stmt("rpc", "r", "if-features" :> <<"f">>,
       {Stmt("input", "input", "must" :> "m", stmts), Stmt("output", "output", None0, {Other})})
Shapes == {With({Other, AsContainer(stmts)}) : stmts \in Objects1 \cup WithChoice}
            \cup {With({Other, AsList(stmts)}) : stmts \in Objects1 \cup WithChoice}
            \cup {With({Other, Rpc(stmts)}) : stmts \in Objects1 \cup {{ch} : ch \in Choices1}}
            \cup {With({Other, AsContainer({ch, Second})}) : ch \in Choices1}

Pool == OfEveryType \cup OfEveryTypedef \cup TypedefsAndIdentities \cup Shapes
=============================================================================
