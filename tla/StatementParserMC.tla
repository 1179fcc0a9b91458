-------------------------- MODULE StatementParserMC --------------------------
(* The texts TLC parses: every keyword in every block, pairs of statements *)
(* in the blocks where order and ownership matter, and texts cut short.    *)
EXTENDS StatementRules

Id(text) == <<"IDENTIFIER", text>>
Str(text) == <<"STRING", text>>
Int3(value) == <<"INTEGER", ToString(value), value>>

(* Statements. *)
S(kw, arg, body) ==
  [kw |-> kw, arg |-> arg, body |-> body, braces |-> body # <<>>, end |-> body = <<>>,
   wrong |-> FALSE]
Open(s) == [s EXCEPT !.end = FALSE]
Braced(s) == [s EXCEPT !.braces = TRUE, !.end = FALSE]
Wrong(s) == [s EXCEPT !.wrong = TRUE]

Use(prefix, name, body) == S("prefix:name", <<Id(prefix), <<":", ":">>, Id(name)>>, body)
Leaf(name) == S("leaf", <<Id(name)>>, <<>>)
Type(name, body) == S("type", <<Id(name)>>, body)
Bit(name, position) ==
  S("bit", <<Id(name)>>,
    IF position < 0 THEN <<>> ELSE <<S("position", <<Int3(position)>>, <<>>)>>)

Argument(kw) ==
  CASE kw \in {"input", "output"} -> <<>>
    [] kw \in {"must", "when", "if-feature", "augment", "pattern", "description", "reference",
               "error-message", "error-app-tag", "namespace", "organization", "contact",
               "presence"} -> <<Str("s")>>
    [] kw \in {"min-elements", "max-elements", "fraction-digits", "position", "value"} ->
         <<Int3(1)>>
    [] kw \in {"mandatory", "config", "require-instance", "yin-element"} -> <<Id("true")>>
    [] kw = "ordered-by" -> <<Id("user")>>
    [] kw = "status" -> <<Id("current")>>
    [] kw = "yang-version" -> <<<<"DOTTED_NUMBER", "1.1">>>>
    [] kw \in {"revision", "revision-date"} -> <<Int3(2024), Int3(-1), Int3(-2)>>
    [] kw = "refine" -> <<Id("a"), <<"/", "/">>, Id("p"), <<":", ":">>, Id("b")>>
    [] kw = "base" -> <<Id("p"), <<":", ":">>, Id("b")>>
    [] kw = "type" -> <<Id("string")>>
    [] OTHER -> <<Id("n")>>

Plain(kw) ==
  CASE kw = "prefix:name" -> Use("p", "e", <<>>)
    [] kw \in {"belongs-to"} -> Braced(S(kw, Argument(kw), <<>>))
    [] OTHER -> S(kw, Argument(kw), <<>>)

(* The chain of blocks in which a block of each kind is reached. *)
Chain(kw) ==
  CASE kw \in {"module", "submodule"} -> <<>>
    [] kw \in {"choice", "uses", "prefix:name"} -> <<"container", kw>>
    [] kw = "case" -> <<"container", "choice", kw>>
    [] kw = "refine" -> <<"container", "uses", kw>>
    [] kw \in {"input", "output"} -> <<"rpc", kw>>
    [] kw \in {"type", "must", "when", "if-feature"} -> <<"leaf", kw>>
    [] kw \in {"enum", "bit", "pattern"} -> <<"leaf", "type", kw>>
    [] kw = "argument" -> <<"extension", kw>>
    [] OTHER -> <<kw>>

TypeFor(kw) ==
  CASE kw = "enum" -> <<Id("enumeration")>> [] kw = "bit" -> <<Id("bits")>>
    [] OTHER -> <<Id("string")>>

RECURSIVE Nest(_, _)
Nest(chain, body) ==
  IF chain = <<>> THEN body
  ELSE LET kw == Head(chain)
           inner == Nest(Tail(chain), body)
       IN <<CASE kw = "prefix:name" -> Use("p", "e", inner)
              [] kw = "type" /\ Len(chain) > 1 -> S(kw, TypeFor(chain[2]), inner)
              [] OTHER -> S(kw, Argument(kw), inner)>>

Text(tree, missing) ==
  [tree |-> tree, missing |-> missing, tokens |-> Cut(Written(tree), missing)]
Whole(kw, body) == Braced(S(kw, <<Id("m")>>, body))
RootOf(kw) == IF kw \in {"submodule", "belongs-to"} THEN "submodule" ELSE "module"
In(kw, body) == Text(Whole(RootOf(kw), Nest(Chain(kw), body)), 0)
Module(body) == Text(Whole("module", body), 0)

Blocks ==
  {"module", "submodule", "import", "include", "belongs-to", "revision", "feature", "if-feature",
   "extension", "argument", "identity", "typedef", "grouping", "container", "list", "leaf",
   "leaf-list", "choice", "case", "anydata", "anyxml", "notification", "input", "output", "rpc",
   "uses", "refine", "augment", "type", "enum", "bit", "pattern", "must", "when", "prefix:name"}
Words == UNION {Allowed(kw) : kw \in Blocks} \cup Unsupported \cup {"prefix:name", "unknown"}

EverywhereSources == {In(block, <<Plain(kw)>>) : block \in Blocks, kw \in Words}

(* A skipped statement with nested blocks, and one nothing terminates. *)
Deviation == S("deviation", <<Str("s")>>, <<S("deviate", <<Id("add")>>, <<Leaf("x")>>), Leaf("y")>>)
Action == Open(S("action", <<Id("a")>>, <<>>))
Described == S("description", <<Str("d")>>, <<S("when", <<Str("s")>>, <<Leaf("z")>>)>>)
Guard == S("if-feature", <<Str("f")>>, <<S("reference", <<Str("r")>>, <<>>)>>)
Enum == S("enum", <<Id("e")>>, <<Use("p", "e", <<>>), S("value", <<Int3(1)>>, <<>>)>>)
Nested == S("grouping", <<Id("g")>>, <<S("typedef", <<Id("t")>>, <<Type("string", <<>>)>>)>>)
Several ==
  { Deviation, Action, Described, Guard, Nested,
    S("reference", <<Str("q")>>, <<>>), Open(S("must", <<Str("s")>>, <<>>)),
    S("must", <<Str("t")>>, <<S("error-message", <<Str("e")>>, <<>>)>>),
    S("when", <<Str("s")>>, <<>>), S("when", <<Str("t")>>, <<>>),
    Open(Type("string", <<>>)), Type("enumeration", <<Enum>>), Type("enumeration", <<>>),
    Type("union", <<Type("string", <<>>), Type("boolean", <<>>)>>),
    S("typedef", <<Id("t")>>, <<Type("string", <<>>), Type("boolean", <<>>)>>),
    Leaf("a"), [Leaf("a") EXCEPT !.braces = TRUE], S("container", <<Id("b")>>, <<Leaf("a")>>),
    S("case", <<Id("a")>>, <<Leaf("b")>>),
    S("choice", <<Id("b")>>, <<S("case", <<Id("k")>>, <<Leaf("c")>>), Leaf("a")>>),
    Use("p", "e", <<Use("p", "e", <<>>), Leaf("a")>>), Use("q", "e", <<>>) }
PairBlocks ==
  {"container", "leaf", "choice", "case", "grouping", "augment", "refine", "prefix:name"}
PairSources ==
  {In(block, <<first, second>>) :
     block \in PairBlocks, first \in Several \ {Action}, second \in Several}

BitSources ==
  {In("leaf", <<Type("bits", <<Bit("a", i), Bit("b", j), Bit(name, k)>>)>>) :
     i, j, k \in {-1, 0, 2}, name \in {"a", "c"}}

(* Definitions of one name, and extensions before and after their use. *)
Features == {S("feature", <<Id("f")>>, <<>>), S("feature", <<Id("f")>>, <<Guard>>)}
Headers ==
  {S("prefix", <<Str("m")>>, <<>>), S("extension", <<Id("x")>>, <<S("argument", <<Id("n")>>,
     <<S("yin-element", <<Id("true")>>, <<>>)>>)>>), Use("m", "x", <<Leaf("a")>>)}
Groupings ==
  {S("grouping", <<Id("g")>>, <<Leaf("a")>>), S("grouping", <<Id("h")>>, <<Nested, Leaf("a")>>)}
DefinitionSources ==
  {Module(<<a, b, c>>) : a, b, c \in Features} \cup {Module(<<a, b, c>>) : a, b, c \in Headers}
  \cup {Module(<<a, b>>) : a, b \in Groupings}

Bad(kw) == IF kw \in {"leaf", "path"} THEN <<>> ELSE <<<<"DOTTED_NUMBER", "0.5">>>>
WrongSources ==
  {In(block, <<Wrong(S(kw, Bad(kw), <<>>))>>) : block \in {"leaf", "list", "type", "bit"},
     kw \in {"must", "mandatory", "key", "min-elements", "ordered-by", "position", "default"}}

CutSources ==
  {Text(Whole("module", Nest(Chain("container"), <<s>>)), missing) :
      s \in Several, missing \in 1..6}

AllSources ==
  EverywhereSources \cup PairSources \cup BitSources \cup DefinitionSources \cup WrongSources
  \cup CutSources
Imported == {<<"p", "e">>}
=============================================================================
