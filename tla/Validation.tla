------------------------------ MODULE Validation ------------------------------
(***************************************************************************)
(* A module and one validate() of a document against it: the expressions   *)
(* of the module are parsed when it is loaded, then the walk of            *)
(* DocumentValidator judges when, must and type of every node, in order,   *)
(* all of them sharing one cache of paths.  XPathParser, XPathEvaluator    *)
(* and TypeChecker do the judging; choices, features, names and            *)
(* cardinalities are DocumentWalk's.                                       *)
(*                                                                         *)
(* A source is [schema, data, cached].  A statement has kind, name, subs,  *)
(* type, default, key, when (at most one [text, parent]: parent is         *)
(* evaluate_with_parent_context) and musts (texts).                        *)
(***************************************************************************)
EXTENDS TypeChecker, FiniteSets

CONSTANT Sources

VARIABLES
  source,
  status,     \* "loading", "walking", "done"; "refused" by the parser, "raised" by validate()
  schema,     \* the module, with trees for texts
  todo,       \* what is still to be judged, in order
  cache,      \* Context.path_cache
  errors      \* of _errors, what is wrong with which node

vars == <<source, status, schema, todo, cache, errors>>

Init == /\ source \in Sources
        /\ status = "loading"
        /\ schema = NoSchema
        /\ todo = <<>>
        /\ cache = [on |-> source.cached, found |-> <<>>]
        /\ errors = {}
-----------------------------------------------------------------------------
(* Loading: YangMustStmt and YangWhenStmt parse in __post_init__,          *)
(* parse_leafref_path_token when the type is read.                         *)

RECURSIVE TypeParts(_), Statements(_), Compiled(_), CompiledType(_)
TypeParts(type) ==
  {type} \cup UNION {TypeParts(type.types[i]) : i \in DOMAIN type.types}
Statements(stmt) ==
  {stmt} \cup UNION {Statements(stmt.subs[i]) : i \in DOMAIN stmt.subs}
Typed(stmt) == stmt.kind \in {"leaf", "leaf-list"}
Leaves(stmt) == {s \in Statements(stmt) : Typed(s)}
Constrained(stmt) == Statements(stmt) \ {stmt}

Expressions(stmt) ==
  UNION {Range(s.musts) \cup {w.text : w \in Range(s.when)} : s \in Constrained(stmt)}
Paths(stmt) == UNION {UNION {Range(t.path) : t \in TypeParts(s.type)} : s \in Leaves(stmt)}
Readable(stmt) == /\ \A x \in Expressions(stmt) : Parse(x).ok
                  /\ \A x \in Paths(stmt) : ParsePath(x).ok

Each(F(_), s) == [i \in DOMAIN s |-> F(s[i])]
CompiledType(type) == [type EXCEPT !.path = Each(LAMBDA x : ParsePath(x).tree, @),
                                   !.types = Each(CompiledType, @)]
Compiled(stmt) ==
  LET inner == [stmt EXCEPT !.subs = Each(Compiled, @)]
      ruled == [inner EXCEPT !.musts = Each(LAMBDA x : Parse(x).tree, @),
                             !.when = Each(LAMBDA w :
                                             [tree |-> Parse(w.text).tree, parent |-> w.parent], @)]
  IN  CASE stmt.kind = "module" -> inner
        [] Typed(stmt) -> [ruled EXCEPT !.type = CompiledType(@)]
        [] OTHER -> ruled
-----------------------------------------------------------------------------
(* The work at a node.  A verdict of an expression is "none" when it       *)
(* raised (_eval_expr).                                                    *)

Task(do, node, k) == [do |-> do, node |-> node, k |-> k]
Schema(node) == Last(node).schema
Data(node) == Last(node).data

Judge(tree, node) ==
  LET r == Eval(tree, node, node, cache)
  IN  [r EXCEPT !.val = IF @.is = "raise" THEN Nothing ELSE Bool(Truth(@))]

Present(data, stmt) == stmt.name \in DOMAIN data.val
Effective(data, stmt) == IF Present(data, stmt) THEN data.val[stmt.name] ELSE Default(stmt)

Visits(node) ==
  IF Data(node).is # "dict" THEN <<>>
  ELSE [i \in DOMAIN Schema(node).subs |->
          LET stmt == Schema(node).subs[i]
          IN  Task("visit", Down(node, Effective(Data(node), stmt), stmt), 0)]
Musts(node) == [k \in DOMAIN Schema(node).musts |-> Task("must", node, k)]
Type(node) == IF Data(node).is = "none" /\ Schema(node).kind = "leaf" THEN <<>>
              ELSE <<Task("type", node, 0)>>
LeafrefCurrent(node) == IF Schema(node).kind = "leaf" THEN node ELSE Front(node)

ItemsOf(v) == CASE v.is = "list" -> v.val [] v.is = "none" -> <<>> [] OTHER -> <<v>>
KeyOf(entry, names) ==
  [i \in DOMAIN names |-> IF names[i] \in DOMAIN entry.val THEN entry.val[names[i]] ELSE Nothing]
DuplicateKey(stmt, entries) ==
  /\ stmt.key # <<>>
  /\ \E i, j \in DOMAIN entries :
       /\ i < j /\ entries[i].is = "dict" /\ entries[j].is = "dict"
       /\ \A k \in DOMAIN stmt.key :
            Identical(KeyOf(entries[i], stmt.key)[k], KeyOf(entries[j], stmt.key)[k])

(* The nodes below the parent that stand for the statement's value.        *)
Siblings(node, items) == [i \in DOMAIN items |-> Down(Front(node), items[i], Schema(node))]

(* Phases 2 to 5 of _visit_stmt.                                           *)
Work(node) ==
  LET stmt == Schema(node)
      v == Data(node)
      present == Present(Data(Front(node)), stmt)
      items == Siblings(node, ItemsOf(v))
      entries == IF v.is = "list" THEN items ELSE <<>>
  IN  CASE stmt.kind = "leaf" /\ (v.is # "none" \/ (stmt.type.name = "empty" /\ present)) ->
             Musts(node) \o Type(node)
        [] stmt.kind = "leaf-list" /\ present ->
             FlattenSeq(Each(Musts, items) \o Each(Type, items))
        [] stmt.kind = "container" /\ present -> Musts(node) \o Visits(node)
        [] stmt.kind = "list" /\ present /\ ~DuplicateKey(stmt, Each(Data, entries)) ->
             FlattenSeq(Each(LAMBDA n : Musts(n) \o Visits(n), entries))
        [] OTHER -> <<>>
-----------------------------------------------------------------------------
Refused == /\ status = "loading" /\ ~Readable(source.schema)
           /\ status' = "refused"
           /\ UNCHANGED <<source, schema, todo, cache, errors>>

(* The parse of the module, and the first node of the walk.                *)
Load == /\ status = "loading" /\ Readable(source.schema)
        /\ status' = "walking"
        /\ LET compiled == Compiled(source.schema)
           IN  /\ schema' = compiled
               /\ todo' = Visits(<<[data |-> source.data, schema |-> compiled]>>)
        /\ UNCHANGED <<source, cache, errors>>

Now(do) == status = "walking" /\ todo # <<>> /\ Head(todo).do = do
Wrong(rule, task) == [rule |-> rule, node |-> task.node, k |-> task.k]

(* Mutant of WhenNode: the node of a when is always the node itself. *)
WhenNodeOwn(node, when) == node

WhenNode(node, when) == IF when.parent THEN Front(node) ELSE node

(* A node whose when is false is not looked into; a when that raises holds. *)
Visit ==
  LET t == Head(todo)  stmt == Schema(t.node)
      verdict == IF stmt.when = <<>> THEN Result(Bool(TRUE), cache)
                 ELSE Judge(stmt.when[1].tree, WhenNode(t.node, stmt.when[1]))
      applies == verdict.val.is = "none" \/ verdict.val.val
  IN  /\ Now("visit")
      /\ todo' = (IF applies THEN Work(t.node) ELSE <<>>) \o Tail(todo)
      /\ errors' = errors \cup IF ~applies /\ Present(Data(Front(t.node)), stmt)
                             THEN {Wrong("when", t)} ELSE {}
      /\ cache' = verdict.cache
      /\ UNCHANGED <<source, status, schema>>

(* _check_must; one that raises is an error too.                           *)
Must ==
  LET t == Head(todo)  verdict == Judge(Schema(t.node).musts[t.k], t.node)
      holds == verdict.val.is = "bool" /\ verdict.val.val
  IN  /\ Now("must")
      /\ todo' = Tail(todo)
      /\ errors' = errors \cup IF holds THEN {} ELSE {Wrong("must", t)}
      /\ cache' = verdict.cache
      /\ UNCHANGED <<source, status, schema>>

(* What a type check raises ends validate().                               *)
TypeVerdict ==
  LET node == Head(todo).node
  IN  Check(Data(node), Schema(node).type, node, LeafrefCurrent(node), cache)
TypeCheck ==
  LET t == Head(todo)  verdict == TypeVerdict
  IN  /\ Now("type") /\ verdict.val.is # "raise"
      /\ todo' = Tail(todo)
      /\ errors' = errors \cup IF verdict.val.val THEN {} ELSE {Wrong("type", t)}
      /\ cache' = verdict.cache
      /\ UNCHANGED <<source, status, schema>>
Raised == /\ Now("type") /\ TypeVerdict.val.is = "raise"
          /\ status' = "raised"
          /\ UNCHANGED <<source, schema, todo, cache, errors>>

Finish == /\ status = "walking" /\ todo = <<>>
          /\ status' = "done"
          /\ UNCHANGED <<source, schema, todo, cache, errors>>

Stopped == status \in {"refused", "raised", "done"} /\ UNCHANGED vars

Next == Refused \/ Load \/ Visit \/ Must \/ TypeCheck \/ Raised \/ Finish \/ Stopped

Spec == Init /\ [][Next]_vars
=============================================================================
