--------------------------- MODULE ValidationRules ---------------------------
(***************************************************************************)
(* What Validation is held to: the instances of a document as positions,   *)
(* XPath over sets of positions, the value space of each type, and the     *)
(* violations that follow.  None of it parses, caches or walks.            *)
(*                                                                         *)
(* A position is a sequence of [name, at]; at counts the entries of a list *)
(* and the elements of a leaf-list, and is 0 elsewhere.                    *)
(***************************************************************************)
EXTENDS Validation

(* The text of a tree, with the parentheses it needs.                      *)
Strength(op) == CHOOSE k \in DOMAIN Level : op \in Level[k]
Separated(texts, sign) ==
  FlattenSeq([i \in DOMAIN texts |-> IF i = 1 THEN texts[i] ELSE <<Sign(sign)>> \o texts[i]])
Enclosed(text) == <<Sign("(")>> \o text \o <<Sign(")")>>
Scalar(v) == CASE v.is = "int" -> <<[is |-> "num", val |-> v.val]>>
               [] v.is = "str" -> <<[is |-> "text", val |-> v.val]>>
               [] v.is = "bool" -> <<Word(IF v.val THEN "true" ELSE "false"), Sign("("), Sign(")")>>
Lexeme(v) == IF v.is = "tuple" THEN Enclosed(Separated(Each(Scalar, v.val), ",")) ELSE Scalar(v)
InfixOf(op) == IF op \in {"or", "and"} THEN Word(op) ELSE Sign(IF op = "-" THEN "- " ELSE op)

RECURSIVE Written(_), WrittenSteps(_)
Bracketed(tree, must) == IF must THEN Enclosed(Written(tree)) ELSE Written(tree)
WrittenSteps(segments) ==
  Separated([i \in DOMAIN segments |->
    LET s == segments[i]
    IN  <<IF s.step \in {".", ".."} THEN Sign(s.step) ELSE Word(s.step)>>
        \o (IF s.predicate = <<>> THEN <<>>
            ELSE <<Sign("[")>> \o Written(s.predicate[1]) \o <<Sign("]")>>)], "/")
Written(e) ==
  LET under(x, least) == Bracketed(x, x.node = "binary" /\ Strength(x.op) < least)
  IN  CASE e.node = "literal" -> Lexeme(e.value)
        [] e.node = "path" ->
             (IF e.absolute THEN <<Sign("/")>> ELSE <<>>) \o WrittenSteps(e.segments)
        [] e.node = "call" ->
             <<Word(e.name), Sign("(")>>
             \o Separated([i \in DOMAIN e.args |-> Written(e.args[i])], ",")
             \o <<Sign(")")>>
        [] e.node = "binary" ->
             LET k == Strength(e.op)
             IN  under(e.left, IF k = Comparison THEN k + 1 ELSE k) \o <<InfixOf(e.op)>>
                 \o under(e.right, k + 1)

(* A text without the parentheses around a single literal.                 *)
Bare(text) ==
  LET opens(i) == /\ i > 0 /\ i + 2 \in DOMAIN text
                  /\ text[i] = Sign("(") /\ text[i + 1].is \in {"num", "text"}
                  /\ text[i + 2] = Sign(")") /\ (i > 1 => text[i - 1].is # "word")
  IN  FlattenSeq([i \in DOMAIN text |-> IF opens(i) \/ opens(i - 2) THEN <<>> ELSE <<text[i]>>])

(* What was parsed, written again, is the text that was read: no operand,  *)
(* literal, step, predicate or argument is lost, and none binds to a       *)
(* neighbour.                                                              *)
ParsedRight ==
  status \in {"walking", "done"} =>
    {<<s.name, Each(Bare, s.musts), Each(LAMBDA w : Bare(w.text), s.when),
       IF Typed(s) THEN s.type.path ELSE <<>> >> : s \in Constrained(source.schema)}
    = {<<s.name, Each(Written, s.musts), Each(LAMBDA w : Written(w.tree), s.when),
         IF Typed(s) THEN Each(Written, s.type.path) ELSE <<>> >> : s \in Constrained(schema)}
-----------------------------------------------------------------------------
(* Positions, from the document alone.                                     *)

Place(name, at) == [name |-> name, at |-> at]
RECURSIVE NodeAt(_)
NodeAt(pos) ==
  IF pos = <<>> THEN <<[data |-> source.data, schema |-> schema]>>
  ELSE LET parent == NodeAt(Front(pos))
           stmt == Child(Schema(parent), Last(pos).name)
           v == Effective(Data(parent), stmt)
       IN  Down(parent, IF Last(pos).at = 0 THEN v ELSE ItemsOf(v)[Last(pos).at], stmt)
DataAt(pos) == Data(NodeAt(pos))
StatementAt(pos) == Schema(NodeAt(pos))

Parts(pos) == IF DataAt(pos).is = "dict" THEN Range(StatementAt(pos).subs) ELSE {}
Children(pos, stmt) ==
  LET v == Effective(DataAt(pos), stmt)
  IN  CASE v.is = "none" -> {}
        [] v.is # "none" /\ stmt.kind \in Many ->
             {Append(pos, Place(stmt.name, at)) : at \in DOMAIN ItemsOf(v)}
        [] OTHER -> {Append(pos, Place(stmt.name, 0))}
-----------------------------------------------------------------------------
(* XPath of RFC 7950 over sets of positions, as far as the expressions of  *)
(* the instances go.  What an expression means at a position is the set of *)
(* positions it selects, if it is a node-set, and the set of its values: a *)
(* comparison holds of some pair of values.                                *)
Neighbours(pos, name) ==
  CASE name = "." -> {pos}
    [] name = ".." -> {Front(p) : p \in {pos} \ {<<>>}}
    [] OTHER -> UNION {Children(pos, stmt) : stmt \in {s \in Parts(pos) : s.name = name}}
Selected(positions) == [at |-> positions, val |-> {DataAt(p) : p \in positions}]
Value(v) == [at |-> {}, val |-> {v}]
Is(m) == m.at # {} \/ \E v \in m.val : Truth(v)
Selects(m, pos) ==
  \E v \in m.val : IF m.at = {} /\ v.is = "int" THEN Last(pos).at = v.val ELSE Is(m)

Relates(op, x, y) ==
  CASE op = "=" -> Same(x, y)
    [] op = "!=" -> ~Same(x, y)
    [] op = "<" -> Less(x, y)
    [] op = "<=" -> Less(x, y) \/ Same(x, y)
Joined(op, l, r) ==
  CASE op = "and" -> Value(Bool(Is(l) /\ Is(r)))
    [] op = "or" -> Value(Bool(Is(l) \/ Is(r)))
    [] op = "-" -> [at |-> {}, val |-> {Operate("-", x, y) : x \in l.val, y \in r.val}]
    [] OTHER -> Value(Bool(\E x \in l.val, y \in r.val : Relates(op, x, y)))
Applied(name, args, cur) ==
  CASE name = "current" -> Selected({cur})
    [] name = "not" -> Value(Bool(~Is(args[1])))
    [] name = "count" -> Value(Num(Cardinality(args[1].at)))
    [] name = "derived-from" ->
         Value(Bool(\E x \in args[1].val, y \in args[2].val : Derived(name, x, y)))

RECURSIVE Meaning(_, _, _)
Meaning(e, cur, pos) ==
  CASE e.node = "literal" ->
         [at |-> {}, val |-> IF e.value.is = "tuple" THEN Range(e.value.val) ELSE {e.value}]
    [] e.node = "path" ->
         Selected(FoldLeft(LAMBDA from, s :
                             {q \in UNION {Neighbours(p, s.step) : p \in from} :
                                \A x \in Range(s.predicate) : Selects(Meaning(x, cur, q), q)},
                           {IF e.absolute THEN <<>> ELSE pos}, e.segments))
    [] e.node = "call" /\ e.name = "deref" ->
         Selected(UNION {{q \in Meaning(StatementAt(p).type.path[1], cur, p).at :
                            Identical(DataAt(p), DataAt(q))}
                         : p \in Meaning(e.args[1], cur, pos).at})
    [] e.node = "call" /\ e.name # "deref" ->
         Applied(e.name, [i \in DOMAIN e.args |-> Meaning(e.args[i], cur, pos)], cur)
    [] e.node = "binary" /\ e.op = "/" ->
         Selected(UNION {Meaning(e.right, cur, p).at : p \in Meaning(e.left, cur, pos).at})
    [] e.node = "binary" /\ e.op # "/" ->
         Joined(e.op, Meaning(e.left, cur, pos), Meaning(e.right, cur, pos))
Holds(e, pos) == Is(Meaning(e, pos, pos))
-----------------------------------------------------------------------------
(* The values of a type.                                                   *)

InSome(n, parts) ==
  parts # <<>> => \E i \in DOMAIN parts : Within(n, <<Head(parts[i]), Last(parts[i])>>)
RECURSIVE InType(_, _, _)
InType(v, type, pos) ==
  LET text == IF v.is = "str" THEN v.val ELSE Text(v)
      spelled == \A i \in DOMAIN type.patterns :
                   Matches(type.patterns[i].text, text) = ~type.patterns[i].invert
      same(p) == Identical(DataAt(p), v)
  IN  CASE type.prefix # "" -> /\ type.prefix \in DOMAIN Typedefs
                               /\ type.name \in DOMAIN Typedefs[type.prefix]
                               /\ InType(v, Typedefs[type.prefix][type.name], pos)
        [] type.prefix = "" /\ type.name \in DOMAIN Typedefs[""] ->
             InType(v, Typedefs[""][type.name], pos)
        [] type.prefix = "" /\ type.name \notin DOMAIN Typedefs[""] ->
   CASE type.name = "union" -> \E i \in DOMAIN type.types : InType(v, type.types[i], pos)
     [] type.name = "leafref" ->
          type.require => \E p \in Meaning(type.path[1], pos, pos).at : same(p)
     [] type.name = "instance-identifier" ->
          /\ v.is = "str"
          /\ type.require => Meaning(ParsePath(Spelled(v.val)).tree, pos, pos).at # {}
     [] type.name = "identityref" -> v.is = "str" /\ IdentityOf(v.val, type.bases)
     [] type.name = "string" -> InSome(Len(text), type.length) /\ spelled
     [] type.name \in DOMAIN IntegerBounds ->
          /\ HasAmount(v) /\ Within(Amount(v), IntegerBounds[type.name])
          /\ InSome(Amount(v), type.range)
     [] type.name = "decimal64" -> /\ HasAmount(v) /\ InSome(Amount(v), type.range)
                                   /\ Fraction(text) <= type.digits[1]
     [] type.name = "boolean" -> text \in {"True", "False", "true", "false"}
     [] type.name = "enumeration" -> text \in type.enums
     [] type.name = "bits" -> /\ v.is = "str" /\ Range(Words(text)) \subseteq type.bits
                              /\ Cardinality(Range(Words(text))) = Len(Words(text))
     [] type.name = "empty" -> text \in {"True", ""}
     [] type.name = "binary" ->
          v.is = "str" /\ Octets(text) >= 0 /\ InSome(Octets(text), type.length)
-----------------------------------------------------------------------------
(* The violations of a document: a statement whose when is false must have *)
(* no instance and nothing below it is judged; the rest keeps its musts    *)
(* and its types.                                                          *)

AsWhole(pos) == Append(Front(pos), Place(Last(pos).name, 0))
WhenAt(pos) ==
  LET own == AsWhole(pos)
      rule == StatementAt(pos).when
      ctx == IF rule # <<>> /\ rule[1].parent THEN Front(own) ELSE own
  IN  rule # <<>> => Holds(rule[1].tree, ctx)
Repeats(pos, stmt) ==
  /\ stmt.kind = "list" /\ stmt.key # <<>>
  /\ \E p, q \in Children(pos, stmt) :
       p # q /\ \A i \in DOMAIN stmt.key :
         Identical(DataAt(p).val[stmt.key[i]], DataAt(q).val[stmt.key[i]])

RECURSIVE Judged(_)
Judged(pos) ==
  {pos} \cup UNION {UNION {Judged(p) : p \in {q \in Children(pos, stmt) : WhenAt(q)}}
                    : stmt \in {s \in Parts(pos) : ~Repeats(pos, s)}}

Violation(rule, pos, k) == [rule |-> rule, node |-> NodeAt(pos), k |-> k]
Excluded(pos) ==
  {w \in {Append(pos, Place(s.name, 0)) : s \in {s \in Parts(pos) : Present(DataAt(pos), s)}} :
     ~WhenAt(w)}
Broken(pos) ==
  IF pos = <<>> THEN {}
  ELSE {k \in DOMAIN StatementAt(pos).musts : ~Holds(StatementAt(pos).musts[k], pos)}
Mistyped(pos) == Typed(StatementAt(pos)) /\ ~InType(DataAt(pos), StatementAt(pos).type, pos)
Violations ==
  UNION {{Violation("when", w, 0) : w \in Excluded(p)}
         \cup {Violation("must", p, k) : k \in Broken(p)}
         \cup (IF Mistyped(p) THEN {Violation("type", p, 0)} ELSE {}) : p \in Judged(<<>>)}

(* A document is rejected for exactly what is wrong with it, each error at *)
(* the node and the rule that fail.                                        *)
VerdictExact == status = "done" => errors = Violations

RECURSIVE PathsIn(_)
PathsIn(e) ==
  CASE e.node = "path" ->
         {e} \cup UNION {UNION {PathsIn(q) : q \in Range(s.predicate)} : s \in Range(e.segments)}
    [] e.node = "binary" -> PathsIn(e.left) \cup PathsIn(e.right)
    [] e.node = "call" -> UNION {PathsIn(a) : a \in Range(e.args)}
    [] OTHER -> {}
Trees == UNION {Range(s.musts) \cup {w.tree : w \in Range(s.when)} : s \in Constrained(schema)}
         \cup Paths(schema)
CacheablePaths == {p \in UNION {PathsIn(e) : e \in Trees} : p.cacheable}
RECURSIVE Instances(_)
Instances(pos) ==
  {pos} \cup UNION {UNION {Instances(p) : p \in Children(pos, stmt)} : stmt \in Parts(pos)}
Uncached(path, node) == Eval(path, node, node, [on |-> FALSE, found |-> <<>>]).val.val

(* A validate() with the cache judges as one without: what is found for a  *)
(* path is what every path of that key reaches, from every node.           *)
CacheSound ==
  status \in {"walking", "done"} /\ cache.found # <<>> =>
    \A path \in {p \in CacheablePaths : Key(p) \in DOMAIN cache.found}, pos \in Instances(<<>>) :
      Uncached(path, NodeAt(pos)) = cache.found[Key(path)]

(* validate() "collects errors and returns them; does not raise".           *)
NeverRaises == status # "raised"
=============================================================================
