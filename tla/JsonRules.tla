-------------------------------- MODULE JsonRules --------------------------------
(***************************************************************************)
(* What a round trip through the JSON Schema is supposed to keep, and which *)
(* documents a schema and a module accept.                                 *)
(***************************************************************************)
EXTENDS JsonParser

(* What a module says, however it is put: the values of an integer type,   *)
(* the bounds of a length, and for a leaf the units and default it has     *)
(* itself or by its type or typedef.                                       *)
Units(f) == Only(f, {"units"})

RECURSIVE TypeMeaning(_)
TypeMeaning(t) ==
  CASE t.name \in Builtins -> [integer |-> Values(t.name, t.range)]
    [] t.name = "string" ->
         LET bound == IF t.length = <<>> THEN << <<>>, <<>> >> ELSE t.length[1]
         IN  [least |-> IF bound[1] = <<>> THEN 0 ELSE bound[1][1],
              most |-> IF bound[2] = <<>> THEN None ELSE bound[2][1],
              patterns |-> t.patterns]
    [] t.name = "union" ->
         [union |-> [i \in DOMAIN t.types |->
                       [type |-> TypeMeaning(t.types[i]), units |-> Units(t.types[i])]]]
    [] OTHER -> Without(t, {"units"})

TypedefMeaning(d) == [type |-> TypeMeaning(d.type), ann |-> d.ann @@ Units(d.type)]
Inherited(t, m) ==
  IF t.name \in DOMAIN m.typedefs
  THEN Only(TypedefMeaning(m.typedefs[t.name]).ann, {"units", "default"}) ELSE <<>>

RECURSIVE Meanings(_, _)
NodeMeaning(n, m) ==
  CASE n.kind \in {"leaf", "leaf-list"} ->
         [n EXCEPT !.type = TypeMeaning(@), !.ann = @ @@ Units(n.type) @@ Inherited(n.type, m)]
    [] n.kind = "choice" ->
         [n EXCEPT !.cases = [i \in DOMAIN @ |-> [@[i] EXCEPT !.children = Meanings(@, m)]]]
    [] n.kind \in {"anydata", "anyxml"} -> n
    [] OTHER -> [n EXCEPT !.children = Meanings(@, m)]
Meanings(stmts, m) == {NodeMeaning(n, m) : n \in stmts}

Meaning(m) ==
  [identities |-> m.identities,
   typedefs |-> [x \in DOMAIN m.typedefs |-> TypedefMeaning(m.typedefs[x])],
   statements |-> Meanings(m.statements, m)]
------------------------------------------------------------------------------
(* The modules a round trip is claimed to be exact for. What the others     *)
(* lose is listed in the README.                                           *)
TextTypes == {"string", "enumeration", "identityref", "instance-identifier", "bits"}

(* Types: no single value, no range of several parts, none without a       *)
(* schema of its own.                                                      *)
TwoBounds(range) == range = <<>> \/ (Len(range) = 1 /\ Len(range[1]) = 2)
OneInterval(t) == TwoBounds(t.range) /\ (t.range # <<>> => IsInterval(t.name, t.range))

RECURSIVE LosslessType(_, _)
LosslessType(t, typedefs) ==
  CASE t.name \in Builtins -> OneInterval(t)
    [] t.name = "decimal64" -> TwoBounds(t.range)
    [] t.name = "enumeration" -> Len(t.enums) > 1
    [] t.name = "union" -> \A i \in DOMAIN t.types : LosslessType(t.types[i], typedefs)
    [] OTHER -> t.name \in TextTypes \cup typedefs \cup {"leafref", "boolean", "empty"}

SeveralPatterns(t) ==
  t.name = "string" /\ (Len(t.patterns) > 1 \/ \E i \in DOMAIN t.patterns : t.patterns[i].invert)

(* Leaves: not of inline bits or with several patterns; no default beside  *)
(* several bases, no if-feature on a sole base; no units of the type that  *)
(* differ from those of the leaf, or that a reference to a typedef states. *)
LosslessLeaf(n, m) ==
  LET t == n.type
  IN  /\ t.name # "bits" /\ ~SeveralPatterns(t)
      /\ t.name = "identityref" =>
           IF Len(t.bases) > 1 THEN ~Has(n.ann, "default")
           ELSE \A x \in ToSet(t.bases) : m.identities[x].ann = <<>>
      /\ Has(t, "units") => /\ t.name \notin DOMAIN m.typedefs
                            /\ Has(n.ann, "units") => n.ann.units = t.units

(* Choices: two cases or more, each with a node; no when, and no config if *)
(* it is hoisted. Typedefs: of a built-in type, not called like an         *)
(* identity, with a default only if this is text.                          *)
RECURSIVE LosslessNodes(_, _)
LosslessNode(n, m) ==
  CASE n.kind = "leaf" -> LosslessType(n.type, Typedefs(m)) /\ LosslessLeaf(n, m)
    [] n.kind = "leaf-list" -> LosslessType(n.type, Typedefs(m))
    [] n.kind \in {"anydata", "anyxml"} -> ~Has(n.ann, "config")
    [] n.kind = "choice" ->
         /\ Len(n.cases) > 1 /\ ~Has(n.ann, "when")
         /\ \A c \in ToSet(n.cases) : /\ c.children # {} /\ ~Has(c.ann, "when")
                                      /\ LosslessNodes(c.children, m)
    [] OTHER -> /\ LosslessNodes(n.children, m)
                /\ n.kind \in {"container", "list"} /\ Hoisted(n.children) =>
                     \A c \in ChoicesIn(n.children) : ~Has(c.ann, "config")
LosslessNodes(stmts, m) == \A n \in stmts : LosslessNode(n, m)

Lossless(m) ==
  /\ Typedefs(m) \cap DOMAIN m.identities = {}
  /\ \A x \in Typedefs(m) :
       LET d == m.typedefs[x]
       IN  LosslessType(d.type, {}) /\ (Has(d.ann, "default") => d.type.name \in TextTypes)
  /\ LosslessNodes(m.statements, m)

(* The types of the leaves and leaf-lists below stmts.                     *)
RECURSIVE TypesIn(_)
TypesIn(stmts) ==
  UNION {CASE n.kind \in {"leaf", "leaf-list"} -> {n.type}
           [] n.kind = "choice" -> UNION {TypesIn(c.children) : c \in ToSet(n.cases)}
           [] n.kind \in {"anydata", "anyxml"} -> {}
           [] OTHER -> TypesIn(n.children)
         : n \in stmts}
TypesOf(m) == TypesIn(m.statements) \cup {m.typedefs[x].type : x \in Typedefs(m)}
PatternLists(m) == {t.patterns : t \in {t \in TypesOf(m) : t.name = "string"}}
------------------------------------------------------------------------------
(* Documents. A value is [int |-> n], [str |-> text], [bool |-> b], an      *)
(* object [obj |-> f] or an array [arr |-> s].                             *)
CONSTANTS Numbers,   \* the integers in documents
          Lengths,   \* the length of every text in documents
          Spans      \* <<b, text, from, to>>: branch b matches these characters

(* re.fullmatch of the type checker: a branch matches all of the text. What *)
(* a generic tool does with the anchored pattern: it looks for a branch     *)
(* anywhere, the first one at the start, the last one at the end.           *)
FullMatch(branches, text) ==
  \E i \in DOMAIN branches : <<branches[i], text, 0, Lengths[text]>> \in Spans
Finds(branches, text) ==
  \E i \in DOMAIN branches, from, to \in 0 .. Lengths[text] :
    /\ <<branches[i], text, from, to>> \in Spans
    /\ i = 1 => from = 0
    /\ i = Len(branches) => to = Lengths[text]

OfType(type, v) ==
  CASE type = "integer" -> Has(v, "int")
    [] type = "string" -> Has(v, "str")
    [] type = "boolean" -> Has(v, "bool")
    [] type = "object" -> Has(v, "obj")
    [] type = "array" -> Has(v, "arr")
    [] type = "number" -> Has(v, "int")
    [] type = "any" -> TRUE

(* What a JSON Schema says of a document, keyword by keyword: each          *)
(* constrains only the values of its own type.                             *)
RECURSIVE Accepts(_, _, _)
Accepts(s, v, defs) ==
  /\ Has(s, "ref") => Has(defs, s.ref) /\ Accepts(defs[s.ref], v, defs)
  /\ Has(s, "type") => OfType(s.type, v)
  /\ Has(s, "enum") => Has(v, "str") /\ v.str \in ToSet(s.enum)
  /\ Has(s, "not") => ~Accepts(s.not, v, defs)
  /\ Has(s, "allOf") => \A i \in DOMAIN s.allOf : Accepts(s.allOf[i], v, defs)
  /\ Has(s, "oneOf") =>
       Cardinality({i \in DOMAIN s.oneOf : Accepts(s.oneOf[i], v, defs)}) = 1
  /\ Has(v, "int") => /\ Has(s, "minimum") => s.minimum <= v.int
                      /\ Has(s, "maximum") => v.int <= s.maximum
  /\ Has(v, "str") => /\ Has(s, "pattern") => Finds(s.pattern.anchored, v.str)
                      /\ Has(s, "minLength") => s.minLength <= Lengths[v.str]
                      /\ Has(s, "maxLength") => Lengths[v.str] <= s.maxLength
  /\ Has(v, "arr") => /\ Has(s, "items") => \A i \in DOMAIN v.arr : Accepts(s.items, v.arr[i], defs)
                      /\ Has(s, "minItems") => s.minItems <= Len(v.arr)
                      /\ Has(s, "maxItems") => Len(v.arr) <= s.maxItems
  /\ Has(v, "obj") =>
       /\ RequiredIn(s) \subseteq DOMAIN v.obj
       /\ Has(s, "maxProperties") => Cardinality(DOMAIN v.obj) <= s.maxProperties
       /\ Has(s, "additionalProperties") => DOMAIN v.obj \subseteq DOMAIN s.properties
       /\ \A x \in DOMAIN PropertiesIn(s) \cap DOMAIN v.obj : Accepts(s.properties[x], v.obj[x], defs)

AcceptsDocument(s, f) ==
  DOMAIN f \subseteq DOMAIN s.properties
    /\ \A x \in DOMAIN f : Accepts(s.properties[x], f[x], s.defs)
------------------------------------------------------------------------------
(* What the module says of it: types, names, mandatory leaves, keys, cases *)
(* and numbers of elements.                                                *)
RECURSIVE HasValue(_, _, _)
HasValue(t, v, m) ==
  CASE t.name \in DOMAIN m.typedefs -> HasValue(m.typedefs[t.name].type, v, m)
    [] t.name \in Builtins -> Has(v, "int") /\ v.int \in Values(t.name, t.range)
    [] t.name = "string" ->
         /\ Has(v, "str")
         /\ \A i \in DOMAIN t.patterns :
              FullMatch(t.patterns[i].branches, v.str) = ~t.patterns[i].invert
         /\ t.length # <<>> =>
              /\ t.length[1][1] # <<>> => t.length[1][1][1] <= Lengths[v.str]
              /\ t.length[1][2] # <<>> => Lengths[v.str] <= t.length[1][2][1]
    [] t.name = "enumeration" -> Has(v, "str") /\ v.str \in ToSet(t.enums)
    [] t.name = "identityref" ->
         Has(v, "str") /\ \A i \in DOMAIN t.bases : v.str \in DerivedFrom({t.bases[i]}, m)
    [] t.name = "bits" -> Has(v, "str") /\ FullMatch(<<"bits">>, v.str)
    [] t.name = "boolean" -> Has(v, "bool")
    [] t.name = "union" -> \E i \in DOMAIN t.types : HasValue(t.types[i], v, m)
    [] t.name = "leafref" -> HasValue(TargetLeaf(m, t.path, None).type, v, m)
    [] OTHER -> Has(v, "str")

RECURSIVE DataNames(_)
DataNames(stmts) ==
  {n.name : n \in DataNodes(stmts) \ ChoicesIn(stmts)}
    \cup UNION {UNION {DataNames(c.children) : c \in ToSet(n.cases)} : n \in ChoicesIn(stmts)}

Counted(n, v) == /\ Has(n.ann, "min") => n.ann.min <= Len(v.arr)
                 /\ Has(n.ann, "max") => Len(v.arr) <= n.ann.max

RECURSIVE Shaped(_, _, _), ShapedObject(_, _, _)
(* f as far as it belongs to stmts                                         *)
ShapedObject(stmts, f, m) ==
  /\ \A n \in DataNodes(stmts) \ ChoicesIn(stmts) :
       IF n.name \in DOMAIN f THEN Shaped(n, f[n.name], m) ELSE n.name \notin RequiredOf({n})
  /\ \A n \in ChoicesIn(stmts) :
       LET present == {c \in ToSet(n.cases) : DataNames(c.children) \cap DOMAIN f # {}}
       IN  /\ Cardinality(present) <= 1
           /\ Mandatory(n) => present # {}
           /\ \A c \in present : ShapedObject(c.children, f, m)
Shaped(n, v, m) ==
  CASE n.kind = "leaf" -> HasValue(n.type, v, m)
    [] n.kind = "leaf-list" ->
         Has(v, "arr") /\ Counted(n, v) /\ \A i \in DOMAIN v.arr : HasValue(n.type, v.arr[i], m)
    [] n.kind = "container" ->
         Has(v, "obj") /\ DOMAIN v.obj \subseteq DataNames(n.children) /\ ShapedObject(n.children, v.obj, m)
    [] n.kind = "list" ->
         /\ Has(v, "arr") /\ Counted(n, v)
         /\ \A i \in DOMAIN v.arr :
              /\ Has(v.arr[i], "obj") /\ "key" \in DOMAIN n.ann => n.ann.key \in DOMAIN v.arr[i].obj
              /\ DOMAIN v.arr[i].obj \subseteq DataNames(n.children)
              /\ ShapedObject(n.children, v.arr[i].obj, m)
    [] n.kind \in {"anydata", "anyxml"} -> TRUE

ShapedDocument(m, f) ==
  DOMAIN f \subseteq DataNames(m.statements) /\ ShapedObject(m.statements, f, m)
------------------------------------------------------------------------------
(* The modules whose schema says of these documents what the module says.  *)
(* What is left out is where the generator says something else: a typedef  *)
(* of a typedef or with the name of an identity, a relative leafref or one *)
(* it cannot resolve, a union with a value of two members, an empty, a     *)
(* range of several parts; a second choice, a choice in a choice or at the *)
(* top, a case with an optional node; a mandatory leaf at the top; a       *)
(* pattern of several branches, of which ^ and $ anchor one each           *)
(* (generator.py:358).                                                     *)
Atoms == {[int |-> n] : n \in Numbers} \cup {[str |-> x] : x \in DOMAIN Lengths}
           \cup {[bool |-> TRUE], [obj |-> [x \in {} |-> None]], [arr |-> <<>>]}

RECURSIVE PlainType(_, _)
PlainType(t, m) ==
  CASE t.name = "leafref" -> t.path.absolute /\ TargetLeaf(m, t.path, None) # None
    [] t.name = "union" ->
         /\ \A i \in DOMAIN t.types : PlainType(t.types[i], m)
         /\ \A v \in Atoms : Cardinality({i \in DOMAIN t.types : HasValue(t.types[i], v, m)}) <= 1
    [] t.name \in Builtins -> OneInterval(t)
    [] OTHER -> t.name \notin {"empty", "decimal64"}

RECURSIVE PlainNodes(_, _)
PlainChoice(choice, m) ==
  \A c \in ToSet(choice.cases) :
    Cardinality(c.children) = 1 /\ ChoicesIn(c.children) = {} /\ PlainNodes(c.children, m)
PlainNode(n, m) ==
  CASE n.kind \in {"leaf", "leaf-list"} -> PlainType(n.type, m)
    [] n.kind = "choice" -> Len(n.cases) > 1 /\ PlainChoice(n, m)
    [] n.kind \in {"container", "list"} ->
         /\ Cardinality(ChoicesIn(n.children)) <= 1
         /\ Has(n.ann, "key") => n.ann.key \in RequiredOf(n.children)
         /\ PlainNodes(n.children, m)
    [] OTHER -> TRUE
PlainNodes(stmts, m) == \A n \in DataNodes(stmts) : PlainNode(n, m)

Plain(m) ==
  /\ DOMAIN m.typedefs \cap DOMAIN m.identities = {}
  /\ \A x \in DOMAIN m.typedefs :
       m.typedefs[x].type.name \notin DOMAIN m.typedefs /\ PlainType(m.typedefs[x].type, m)
  /\ ChoicesIn(m.statements) = {} /\ RequiredOf(m.statements) = {}
  /\ PlainNodes(m.statements, m)
  /\ \A p \in PatternLists(m) : \A i \in DOMAIN p : Len(p[i].branches) = 1

(* The documents of a module: one node, or a name that no node has. At the  *)
(* top it has any atom, below a value and a wrong one.                     *)
RECURSIVE Objects(_)
Objects(values) ==
  IF DOMAIN values = {} THEN {[x \in {} |-> None]}
  ELSE LET x == CHOOSE x \in DOMAIN values : TRUE
           rest == Objects(Without(values, {x}))
       IN  rest \cup {f @@ (x :> v) : f \in rest, v \in values[x]}
RECURSIVE ValuesFor(_, _)
ObjectsFor(stmts, atoms) ==
  LET reached == {n \in stmts : n.kind \in DataKinds \ {"choice"}}
                   \cup UNION {UNION {c.children : c \in ToSet(n.cases)} : n \in ChoicesIn(stmts)}
  IN  Objects([x \in {n.name : n \in reached} \cup {"unknown"} |->
                 IF x = "unknown" THEN {[bool |-> TRUE]}
                 ELSE ValuesFor(Named(reached, x), atoms)])
ValuesFor(n, atoms) ==
  LET few == {[int |-> 1], [str |-> "a"]}
  IN  CASE n.kind = "container" -> {[obj |-> f] : f \in ObjectsFor(n.children, few)}
        [] n.kind = "list" ->
             {[arr |-> [i \in 1 .. k |-> [obj |-> f]]] : k \in 0 .. 3, f \in ObjectsFor(n.children, few)}
        [] n.kind = "leaf-list" ->
             atoms \cup {[arr |-> [i \in 1 .. k |-> v]] : k \in 1 .. 3, v \in atoms}
        [] OTHER -> atoms
Documents(m) ==
  {"unknown" :> [bool |-> TRUE]}
    \cup UNION {{n.name :> v : v \in ValuesFor(n, Atoms)} : n \in DataNodes(m.statements)}
==============================================================================
