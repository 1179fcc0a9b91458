---------------------------- MODULE XPathEvaluator ----------------------------
(***************************************************************************)
(* XPathEvaluator (src/xyang/xpath) with its functions and comparisons:    *)
(* the value of a tree at a node, given current() and the cache of one     *)
(* validate().                                                             *)
(*                                                                         *)
(* A Node is the sequence of [data, schema] from the root down to it.      *)
(* Data is a scalar, "dict" or "list"; a statement of the schema has kind, *)
(* name, subs (of a choice its cases), type and default.  Numbers are      *)
(* whole: "float" is what arithmetic makes of them.  An evaluation gives a *)
(* value and the cache after it; "raise" is an exception.  For TLC.        *)
(***************************************************************************)
EXTENDS XPathParser, TLC

CONSTANTS
  Numerals,           \* the numbers text is read as
  Before(_, _),       \* the order of strings
  Derived(_, _, _)    \* derived-from, derived-from-or-self of IdentityClosure

Nothing == [is |-> "none", val |-> 0]
Nodes(ns) == [is |-> "nodes", val |-> ns]
Raise == [is |-> "raise", val |-> 0]
Nan == [is |-> "nan", val |-> 0]
Float(n) == [is |-> "float", val |-> n]

Result(v, cache) == [val |-> v, cache |-> cache]
With(r, F(_)) == IF r.val.is = "raise" THEN r ELSE F(r)
-----------------------------------------------------------------------------
(* utils.py: conversions and comparisons.                                  *)

Truth(v) ==
  CASE v.is \in {"list", "nodes"} -> v.val # <<>>
    [] v.is = "bool" -> v.val
    [] v.is \in {"int", "float"} -> v.val # 0
    [] v.is = "str" -> v.val # ""
    [] OTHER -> v.is # "none"

ValuesOf(v) ==
  CASE v.is = "nodes" -> [i \in DOMAIN v.val |-> Last(v.val[i]).data]
    [] v.is = "node" -> <<Last(v.val).data>>
    [] v.is = "none" -> <<>>
    [] OTHER -> <<v>>
FirstOf(v) == IF ValuesOf(v) = <<>> THEN Nothing ELSE ValuesOf(v)[1]

Text(v) ==
  CASE v.is = "str" -> v.val
    [] v.is = "int" -> ToString(v.val)
    [] v.is = "float" -> ToString(v.val) \o ".0"
    [] v.is = "bool" -> IF v.val THEN "True" ELSE "False"
    [] v.is = "nan" -> "nan"
    [] v.is = "none" -> "None"
    [] OTHER -> ToString(v)

IsNumeral(v) == v.is = "str" /\ \E n \in Numerals : ToString(n) = v.val
Numeric(v) == v.is \in {"int", "float", "nan"} \/ IsNumeral(v)
Amount(v) ==
  CASE v.is = "bool" -> IF v.val THEN 1 ELSE 0
    [] v.is = "str" -> CHOOSE n \in Numerals : ToString(n) = v.val
    [] OTHER -> v.val
Number(v) == IF v.is = "bool" \/ (Numeric(v) /\ v.is # "nan") THEN Float(Amount(v)) ELSE Nan
IsNan(v) == v.is = "nan"

(* coerce_pair.                                                            *)
ByTruth(l, r) == "bool" \in {l.is, r.is}
ByAmount(l, r) == ~ByTruth(l, r) /\ Numeric(l) /\ Numeric(r)
AsBit(v) == IF Truth(v) THEN 1 ELSE 0

Same(l, r) ==
  CASE "none" \in {l.is, r.is} -> l.is = r.is
    [] ~("none" \in {l.is, r.is}) /\ ByTruth(l, r) -> Truth(l) = Truth(r)
    [] ~("none" \in {l.is, r.is}) /\ ByAmount(l, r) ->
         ~IsNan(l) /\ ~IsNan(r) /\ Amount(l) = Amount(r)
    [] OTHER -> Text(l) = Text(r)
Less(l, r) ==
  CASE ByTruth(l, r) -> AsBit(l) < AsBit(r)
    [] ByAmount(l, r) -> ~IsNan(l) /\ ~IsNan(r) /\ Amount(l) < Amount(r)
    [] OTHER -> Before(Text(l), Text(r))

SomePair(ls, rs, P(_, _)) == \E i \in DOMAIN ls, j \in DOMAIN rs : P(ls[i], rs[j])

(* compare_eq: nothing equals nothing, and a list of values on the right   *)
(* is any of them.                                                         *)
Equal(l, r) ==
  LET ls == ValuesOf(l)
      rs == IF r.is = "tuple" THEN r.val ELSE ValuesOf(r)
  IN  IF ls = <<>> \/ rs = <<>> THEN ls = rs ELSE SomePair(ls, rs, Same)
Smaller(l, r) == SomePair(ValuesOf(l), ValuesOf(r), Less)

Operate(op, l, r) ==
  LET x == Number(FirstOf(l))  y == Number(FirstOf(r))
  IN  CASE op = "=" -> Bool(Equal(l, r))
        [] op = "!=" -> Bool(~Equal(l, r))
        [] op = "<" -> Bool(Smaller(l, r))
        [] op = ">" -> Bool(Smaller(r, l))
        [] op = "<=" -> Bool(Equal(l, r) \/ Smaller(l, r))
        [] op = ">=" -> Bool(Equal(l, r) \/ Smaller(r, l))
        [] op \in {"+", "-"} ->
             IF IsNan(x) \/ IsNan(y) THEN Nan
             ELSE Float(IF op = "+" THEN x.val + y.val ELSE x.val - y.val)
        [] OTHER -> Nothing
-----------------------------------------------------------------------------
(* SchemaNav and _step.                                                    *)

NoSchema == [kind |-> "none", name |-> "", subs |-> <<>>]
Many == {"list", "leaf-list"}

RECURSIVE Named(_, _)
Named(stmts, name) ==
  FlattenSeq([i \in DOMAIN stmts |->
    LET s == stmts[i]
    IN  CASE s.name = name -> <<s>>
          [] s.name # name /\ s.kind = "choice" ->
               FlattenSeq([k \in DOMAIN s.subs |-> Named(s.subs[k].subs, name)])
          [] OTHER -> <<>>])
Child(schema, name) ==
  LET all == Named(schema.subs, name) IN IF all = <<>> THEN NoSchema ELSE Head(all)

(* coerce_default_value; defaults of a leaf-list are not looked at.        *)
IntegerTypes == {"int8", "int16", "int32", "int64", "uint8", "uint16", "uint32", "uint64"}
Default(schema) ==
  IF schema.kind # "leaf" THEN Nothing
  ELSE LET d == schema.default
           type == schema.type.name
       IN  CASE type = "boolean" /\ d \in {Str("true"), Str("false")} -> Bool(d = Str("true"))
             [] type \in IntegerTypes /\ IsNumeral(d) -> Num(Amount(d))
             [] type \in {"decimal64", "number"} /\ IsNumeral(d) -> Float(Amount(d))
             [] OTHER -> d

Down(node, data, schema) == Append(node, [data |-> data, schema |-> schema])

RECURSIVE StepTo(_, _)
StepTo(node, name) ==
  LET data == Last(node).data  schema == Last(node).schema
      child == Child(schema, name)
      v == CASE data.is = "dict" /\ name \in DOMAIN data.val ->
                  IF data.val[name].is = "none" THEN Bool(TRUE) ELSE data.val[name]
             [] data.is = "dict" /\ name \notin DOMAIN data.val -> Default(child)
             [] OTHER -> Nothing
  IN  CASE data.is = "list" /\ schema.kind \in Many ->
             FlattenSeq([i \in DOMAIN data.val |-> StepTo(Down(node, data.val[i], schema), name)])
        [] ~(data.is = "list" /\ schema.kind \in Many) /\ v.is = "none" -> <<>>
        [] ~(data.is = "list" /\ schema.kind \in Many) /\ child.kind \in Many /\ v.is = "list" ->
             [i \in DOMAIN v.val |-> Down(node, v.val[i], child)]
        [] OTHER -> <<Down(node, v, child)>>

Moved(nodes, step) ==
  CASE step = "." -> nodes
    [] step = ".." -> LET up == SelectSeq(nodes, LAMBDA n : Len(n) > 1)
                      IN  [i \in DOMAIN up |-> Front(up[i])]
    [] OTHER -> FlattenSeq([i \in DOMAIN nodes |-> StepTo(nodes[i], step)])
-----------------------------------------------------------------------------
(* Evaluation.  The cache is [on, found]; a path is found under its steps, *)
(* which is what PathNode.to_string writes.                                *)

NodesIn(v) == CASE v.is = "nodes" -> v.val [] v.is = "node" -> <<v.val>> [] OTHER -> <<>>
Root(node) == SubSeq(node, 1, 1)

(* Mutant of Key: paths are told apart by their last step.                 *)
KeyLast(path) == IF path.segments = <<>> THEN <<>> ELSE <<Last(path.segments).step>>

Key(path) == [i \in DOMAIN path.segments |-> path.segments[i].step]

Cached(path, cache) == cache.on /\ path.cacheable

RECURSIVE Eval(_, _, _, _), EvalPath(_, _, _, _), EvalCall(_, _, _, _)

(* What F makes of each node, one after the other, joined.                 *)
Gather(nodes, cache, F(_, _, _)) ==
  FoldLeft(LAMBDA acc, i : With(acc, LAMBDA a :
             With(F(nodes[i], i, a.cache), LAMBDA r :
               Result(Nodes(a.val.val \o r.val.val), r.cache))),
           Result(Nodes(<<>>), cache), [i \in DOMAIN nodes |-> i])

(* _apply_predicate: a number is a place among all nodes of the step.      *)
Filter(nodes, predicate, cur, cache) ==
  Gather(nodes, cache, LAMBDA n, i, c :
    With(Eval(predicate, cur, n, c), LAMBDA r :
      LET keep == IF r.val.is \in {"int", "float"} THEN r.val.val = i ELSE Truth(r.val)
      IN  Result(IF IsNan(r.val) THEN Raise ELSE Nodes(IF keep THEN <<n>> ELSE <<>>), r.cache)))

EvalPath(path, cur, node, cache) ==
  LET start == Result(Nodes(<<IF path.absolute THEN Root(node) ELSE node>>), cache)
      walked == FoldLeft(LAMBDA acc, seg : With(acc, LAMBDA a :
                  LET moved == Moved(a.val.val, seg.step)
                  IN  IF seg.predicate = <<>> THEN Result(Nodes(moved), a.cache)
                      ELSE Filter(moved, seg.predicate[1], cur, a.cache)),
                  start, path.segments)
      key == Key(path)
  IN  CASE ~Cached(path, cache) -> walked
        [] Cached(path, cache) /\ key \in DOMAIN cache.found ->
             Result(Nodes(cache.found[key]), cache)
        [] OTHER -> With(walked, LAMBDA r :
                      [r EXCEPT !.cache.found = (key :> r.val.val) @@ @])

(* The functions of one argument, and what they give for another number of *)
(* arguments.                                                              *)
Functions1 ==
  "not" :> Nothing @@ "count" :> Num(0) @@ "string" :> Str("") @@ "number" :> Nan
  @@ "boolean" :> Bool(FALSE) @@ "string-length" :> Num(0)
Apply1(name, v) ==
  LET first == FirstOf(v)
      text == IF first.is = "none" THEN "" ELSE Text(first)
  IN  CASE name = "not" -> Bool(~Truth(v))
        [] name = "count" -> Num(IF v.is = "nodes" THEN Len(v.val) ELSE 1)
        [] name = "string" -> Str(text)
        [] name = "number" -> Number(first)
        [] name = "boolean" -> Bool(Truth(v))
        [] name = "string-length" -> Num(Len(text))

(* Equality of Python, for which true is 1.                                *)
Identical(d, e) ==
  IF {d.is, e.is} \subseteq {"bool", "int", "float"} THEN Amount(d) = Amount(e) ELSE d = e

(* f_deref: the argument and the path of the leafref see current().        *)
Deref(v, cur, cache) ==
  Gather(NodesIn(v), cache, LAMBDA src, i, c :
    LET schema == Last(src).schema
    IN  IF ~(/\ schema.kind = "leaf" /\ schema.type.name = "leafref"
             /\ schema.type.path # <<>>)
        THEN Result(Nodes(<<>>), c)
        ELSE With(EvalPath(schema.type.path[1], cur, src, c), LAMBDA r :
               Result(Nodes(SelectSeq(r.val.val, LAMBDA t :
                              Identical(Last(t).data, Last(src).data))), r.cache)))

EvalCall(e, cur, node, cache) ==
  LET n == Len(e.args)
  IN  CASE e.name \in DOMAIN Functions1 ->
             IF n # 1 THEN Result(Functions1[e.name], cache)
             ELSE With(Eval(e.args[1], cur, node, cache), LAMBDA r :
                    Result(Apply1(e.name, r.val), r.cache))
        [] e.name = "current" -> Result([is |-> "node", val |-> cur], cache)
        [] e.name \in {"true", "false"} -> Result(Bool(e.name = "true"), cache)
        [] e.name = "concat" ->
             FoldLeft(LAMBDA acc, a : With(acc, LAMBDA x :
                        With(Eval(a, cur, node, x.cache), LAMBDA r :
                          Result(Str(x.val.val \o Apply1("string", r.val).val), r.cache))),
                      Result(Str(""), cache), e.args)
        [] e.name = "deref" ->
             IF n # 1 THEN Result(Nodes(<<>>), cache)
             ELSE With(Eval(e.args[1], cur, cur, cache), LAMBDA r : Deref(r.val, cur, r.cache))
        [] e.name \in {"derived-from", "derived-from-or-self"} ->
             IF n # 2 THEN Result(Bool(FALSE), cache)
             ELSE With(Eval(e.args[1], cur, cur, cache), LAMBDA x :
                    IF FirstOf(x.val).is # "str" THEN Result(Bool(FALSE), x.cache)
                    ELSE With(Eval(e.args[2], cur, cur, x.cache), LAMBDA y :
                      Result(Bool(/\ FirstOf(y.val).is = "str"
                                  /\ Derived(e.name, FirstOf(x.val), FirstOf(y.val))), y.cache)))
        [] OTHER -> Result(Nothing, cache)

Eval(e, cur, node, cache) ==
  LET left == Eval(e.left, cur, node, cache)
      right(c) == Eval(e.right, cur, node, c)
  IN  CASE e.node = "literal" -> Result(e.value, cache)
        [] e.node = "path" -> EvalPath(e, cur, node, cache)
        [] e.node = "call" -> EvalCall(e, cur, node, cache)
        [] e.node = "binary" ->
             IF e.op = "/" THEN
               With(left, LAMBDA l : Gather(NodesIn(l.val), l.cache, LAMBDA n, i, c :
                 With(Eval(e.right, cur, n, c), LAMBDA r : Result(Nodes(NodesIn(r.val)), r.cache))))
             ELSE With(left, LAMBDA l :
               IF e.op \in {"or", "and"} /\ Truth(l.val) = (e.op = "or")
               THEN Result(Bool(Truth(l.val)), l.cache)
               ELSE With(right(l.cache), LAMBDA r :
                 Result(IF e.op \in {"or", "and"} THEN Bool(Truth(r.val))
                        ELSE Operate(e.op, l.val, r.val), r.cache)))
=============================================================================
