----------------------------- MODULE JsonGenerator -----------------------------
(***************************************************************************)
(* json/generator.py: the JSON Schema of a module whose uses are expanded. *)
(*                                                                         *)
(* A statement is [kind, name, ann, ...]: ann maps the substatements it has *)
(* ("mandatory", "config", "if-features", "must", ...) to their values; a   *)
(* leaf or leaf-list has a type, a choice a sequence of cases, any other    *)
(* statement a set of children. A schema is a record of JSON Schema         *)
(* keywords, with "xyang" for x-yang and "ref" for a $ref into $defs. A      *)
(* type may have "units"; a pattern is the sequence of its branches, those *)
(* of a regular expression a|b being a and b.                              *)
(***************************************************************************)
EXTENDS IntegerBounds, SequencesExt, TLC

Has(f, key) == key \in DOMAIN f
XYangOf(schema) == IF Has(schema, "xyang") THEN schema.xyang ELSE <<>>
Without(f, keys) == [k \in DOMAIN f \ keys |-> f[k]]
Only(f, keys) == [k \in DOMAIN f \cap keys |-> f[k]]
Stated(f) == [k \in {k \in DOMAIN f : f[k] # None} |-> f[k]]
Named(stmts, name) == CHOOSE n \in stmts : n.name = name

(* _statement_to_property has a property for these kinds.                  *)
DataKinds == {"container", "list", "leaf", "leaf-list", "choice", "anydata", "anyxml"}
DataNodes(stmts) == {n \in stmts : n.kind \in DataKinds}
------------------------------------------------------------------------------
(* _resolve_leafref_target_leaf. A place is the chain of statements that   *)
(* leads to it from the module; copied when the converter made a copy of    *)
(* them, whose parent is not found in the module (_schema_parent_of).      *)
ModuleRoot == [chain |-> <<>>, copied |-> FALSE]
Inside(stmt, place) == [chain |-> <<stmt>>, copied |-> place # ModuleRoot]

ChildrenAt(m, place) ==
  IF place.chain = <<>> THEN m.statements
  ELSE IF "children" \in DOMAIN Last(place.chain) THEN Last(place.chain).children ELSE {}

(* SchemaNav.child looks through choices and cases.                        *)
RECURSIVE Descents(_, _)
Descents(stmts, name) ==
  {<<n>> : n \in {n \in stmts : n.name = name}}
    \cup UNION {UNION {{<<n, c>> \o d : d \in Descents(c.children, name)} : c \in ToSet(n.cases)}
                : n \in {n \in stmts : n.kind = "choice"}}

RECURSIVE Follow(_, _, _)
Follow(m, place, steps) ==
  IF steps = <<>> THEN place
  ELSE IF Head(steps) = ".."
  THEN IF place.copied \/ place.chain = <<>> THEN None
       ELSE Follow(m, [place EXCEPT !.chain = Front(@)], Tail(steps))
  ELSE LET found == Descents(ChildrenAt(m, place), Head(steps))
       IN  IF found = {} THEN None
           ELSE Follow(m, [place EXCEPT !.chain = @ \o CHOOSE d \in found : TRUE], Tail(steps))

(* The leaf a path leads to, from the parent of the leafref if it is       *)
(* relative.                                                               *)
TargetLeaf(m, path, anchor) ==
  LET start == IF path.absolute THEN ModuleRoot ELSE anchor
      end == IF start = None THEN None ELSE Follow(m, start, path.steps)
  IN  IF end = None \/ end = ModuleRoot THEN None
      ELSE IF Last(end.chain).kind = "leaf" THEN Last(end.chain) ELSE None
------------------------------------------------------------------------------
NumberOf(text) == IF text = <<>> THEN None ELSE text[1]
(* _anchored: "^" stands before the first branch and "$" behind the last   *)
(* one, with no parentheses around them (see Finds), also in a pattern     *)
(* that was written with them and is left as it is.                        *)
Anchored(branches) == [anchored |-> branches]
PatternSchema(spec) ==
  IF spec.invert THEN [not |-> [type |-> "string", pattern |-> Anchored(spec.branches)]]
  ELSE [pattern |-> Anchored(spec.branches)]

(* The string branch of _type_to_schema_impl.                              *)
StringSchema(t) ==
  LET specs == t.patterns
      patterns == IF specs = <<>> THEN <<>>
                  ELSE IF Len(specs) = 1 /\ ~specs[1].invert THEN PatternSchema(specs[1])
                  ELSE [allOf |-> [i \in DOMAIN specs |-> PatternSchema(specs[i])]]
      length == IF t.length = <<>> THEN <<>>
                ELSE Stated([minLength |-> NumberOf(LowText(t.length)),
                             maxLength |-> NumberOf(HighText(t.length))])
      xyang == IF specs = <<>> THEN <<>> ELSE [xyang |-> [patterns |-> specs]]
  IN  [type |-> "string"] @@ patterns @@ length @@ xyang

DecimalSchema(t) ==
  [type |-> "number", digits |-> t.digits]
    @@ IF t.range = <<>> \/ \A i \in DOMAIN t.range : Len(t.range[i]) = 1 THEN <<>>
       ELSE Stated([minimum |-> NumberOf(LowText(t.range)), maximum |-> NumberOf(HighText(t.range))])

(* _merge_units_into_schema *)
WithUnits(schema, units) ==
  IF units = <<>> THEN schema ELSE [xyang |-> units @@ XYangOf(schema)] @@ schema

(* _type_to_schema: the schema of a type, of which the names in typedefs   *)
(* become references, with the units of the type.                          *)
RECURSIVE TypeSchema(_, _, _, _)
TypeSchemaImpl(t, typedefs, m, anchor) ==
  CASE t.name \in typedefs -> [ref |-> t.name]
    [] t.name = "identityref" ->
         LET xyang == [type |-> "identityref", bases |-> t.bases]
         IN  IF t.bases = <<>> THEN [type |-> "string"]
             ELSE IF Len(t.bases) = 1 THEN [ref |-> t.bases[1], xyang |-> xyang]
             ELSE [allOf |-> [i \in DOMAIN t.bases |-> [ref |-> t.bases[i]]], xyang |-> xyang]
    [] t.name = "leafref" ->
         LET target == TargetLeaf(m, t.path, anchor)
             inner == IF target = None THEN [type |-> "string"]
                      ELSE TypeSchema(target.type, typedefs, m, None)
         IN  [xyang |-> [type |-> "leafref", path |-> t.path]] @@ inner
    [] t.name = "instance-identifier" ->
         [type |-> "string", xyang |-> [type |-> "instance-identifier"]]
    [] t.name = "string" -> StringSchema(t)
    [] t.name = "enumeration" /\ t.enums # <<>> -> [type |-> "string", enum |-> t.enums]
    [] t.name = "bits" /\ t.bits # <<>> ->
         [type |-> "string", pattern |-> Anchored(<<"bits">>), xyang |-> [type |-> "bits", bits |-> t.bits]]
    [] t.name = "boolean" -> [type |-> "boolean"]
    [] t.name \in Builtins ->
         LET b == SchemaBounds(t.name, t.range)
         IN  [type |-> "integer"] @@ Stated([minimum |-> b.lo, maximum |-> b.hi])
    [] t.name = "decimal64" -> DecimalSchema(t)
    [] t.name = "empty" -> [type |-> "object", maxProperties |-> 0]
    [] t.name = "union" /\ t.types # <<>> ->
         [oneOf |-> [i \in DOMAIN t.types |-> TypeSchema(t.types[i], typedefs, m, anchor)]]
    [] OTHER -> [type |-> "string"]
TypeSchema(t, typedefs, m, anchor) ==
  WithUnits(TypeSchemaImpl(t, typedefs, m, anchor), Only(t, {"units"}))
------------------------------------------------------------------------------
(* _json_schema_default_value: a default becomes a JSON literal if its type *)
(* reads one in it. A default is [form, value, literal], literal being the  *)
(* type of JSON value its text could be.                                   *)
LiteralDefault(default, typeName, schema) ==
  LET schemaType == IF Has(schema, "type") THEN schema.type ELSE "unknown"
  IN  IF \/ "boolean" \in {typeName, schemaType} /\ default.literal = "boolean"
         \/ /\ typeName \in Builtins \cup {"decimal64", "union"} \/ schemaType = "integer"
            /\ default.literal = "integer"
         \/ typeName = "decimal64" /\ default.literal = "number"
      THEN [default EXCEPT !.form = "literal"] ELSE default

(* _leaf_yang_type_name *)
LeafTypeName(t, m) ==
  IF t.name \in DOMAIN m.typedefs THEN m.typedefs[t.name].type.name ELSE t.name

Typedefs(m) == DOMAIN m.typedefs
XYang(stmt, keys) == [type |-> stmt.kind] @@ Only(stmt.ann, keys)
Limits(ann) ==
  Stated([minItems |-> IF "min" \in DOMAIN ann THEN ann.min ELSE None,
          maxItems |-> IF "max" \in DOMAIN ann THEN ann.max ELSE None])

(* _leaf_stmt_to_property: the x-yang of the type overrides that of the    *)
(* leaf; a reference to a typedef has none of its own.                     *)
LeafProperty(leaf, m, anchor) ==
  LET schema == IF leaf.type.name \in Typedefs(m) THEN [ref |-> leaf.type.name]
                ELSE TypeSchema(leaf.type, Typedefs(m), m, anchor)
      xyang == XYang(leaf, {"must", "when", "mandatory", "if-features", "units", "config"})
      default == IF "default" \in DOMAIN leaf.ann
                 THEN [default |-> LiteralDefault(leaf.ann.default, LeafTypeName(leaf.type, m), schema)]
                 ELSE <<>>
  IN  [xyang |-> XYangOf(schema) @@ xyang] @@ schema @@ default

(* _leaf_list_stmt_to_property *)
LeafListProperty(leafList, m, anchor) ==
  [type |-> "array", items |-> TypeSchema(leafList.type, Typedefs(m), m, anchor),
   xyang |-> XYang(leafList, {"must", "when", "if-features", "units", "config"})]
    @@ Limits(leafList.ann) @@ Only(leafList.ann, {"defaults"})

(* _anydata_anyxml_stmt_to_property *)
AnyProperty(stmt) ==
  [type |-> "any", xyang |-> XYang(stmt, {"must", "when", "mandatory", "if-features"})]

Mandatory(stmt) == "mandatory" \in DOMAIN stmt.ann
(* _child_property_map: the names that are required of a parent.           *)
RequiredOf(stmts) ==
  {n.name : n \in {n \in stmts : n.kind \in {"leaf", "anydata", "anyxml"} /\ Mandatory(n)}}

ObjectSchema(properties, required) ==
  [type |-> "object", properties |-> properties, required |-> required,
   additionalProperties |-> FALSE]
NoCase == [type |-> "object", maxProperties |-> 0]

(* _choice_to_object_body *)
OneOf(choice, branches) ==
  IF branches = <<>> \/ (~Mandatory(choice) /\ Len(branches) = 1) THEN <<>>
  ELSE IF Mandatory(choice) THEN branches ELSE <<NoCase>> \o branches

(* Mutant of MergedBranch: a case does not require the siblings.           *)
MergedBranchAlone(branch, properties, required) ==
  IF branch = NoCase
  THEN IF properties = <<>> /\ required = {} THEN branch ELSE ObjectSchema(properties, required)
  ELSE [branch EXCEPT !.properties = @ @@ properties]

(* _merge_oneof_branches_with_base *)
MergedBranch(branch, properties, required) ==
  IF branch = NoCase
  THEN IF properties = <<>> /\ required = {} THEN branch ELSE ObjectSchema(properties, required)
  ELSE [branch EXCEPT !.properties = @ @@ properties, !.required = @ \cup required]

(* _choice_meta_xyang *)
ChoiceMeta(choice) == [name |-> choice.name] @@ Only(choice.ann, {"mandatory", "if-features", "config"})

(* A sole choice among the children of a container or list is hoisted into *)
(* it (_partition_choice_sibling_statements).                              *)
ChoicesIn(stmts) == {n \in stmts : n.kind = "choice"}
Hoisted(stmts) == Cardinality(ChoicesIn(stmts)) = 1

RECURSIVE Property(_, _, _)
Properties(stmts, m, anchor) ==
  [x \in {n.name : n \in DataNodes(stmts)} |-> Property(Named(DataNodes(stmts), x), m, anchor)]

CaseBranches(choice, m, anchor) ==
  LET entries == SelectSeq(choice.cases, LAMBDA c : DataNodes(c.children) # {})
      Branch(c) ==
        ObjectSchema(Properties(c.children, m, anchor), {n.name : n \in DataNodes(c.children)})
          @@ [xyang |-> [name |-> c.name] @@ Only(c.ann, {"if-features"})]
  IN  OneOf(choice, [i \in DOMAIN entries |-> Branch(entries[i])])

(* _container_stmt_to_property and _list_items_object_schema: the shape of  *)
(* an object, and the x-yang keys of a choice hoisted into it.             *)
Shape(stmt, m, anchor) ==
  LET inside == Inside(stmt, anchor)
      choice == CHOOSE n \in ChoicesIn(stmt.children) : TRUE
      others == stmt.children \ ChoicesIn(stmt.children)
      properties == Properties(others, m, inside)
      branches == CaseBranches(choice, m, inside)
  IN  IF ~Hoisted(stmt.children)
      THEN ObjectSchema(Properties(stmt.children, m, inside), RequiredOf(stmt.children))
      ELSE IF branches # <<>>
      THEN [type |-> "object",
            oneOf |-> [i \in DOMAIN branches |->
                         MergedBranch(branches[i], properties, RequiredOf(others))]]
      ELSE IF stmt.kind = "list" THEN ObjectSchema(properties, RequiredOf(others))
      ELSE [type |-> "object"]
ChoiceOverlay(stmts) ==
  IF Hoisted(stmts) THEN [choice |-> ChoiceMeta(CHOOSE n \in ChoicesIn(stmts) : TRUE)] ELSE <<>>

ContainerProperty(stmt, m, anchor) ==
  Shape(stmt, m, anchor)
    @@ [xyang |-> XYang(stmt, {"must", "when", "presence", "if-features", "config"})
                    @@ ChoiceOverlay(stmt.children)]

ListProperty(stmt, m, anchor) ==
  [type |-> "array", items |-> Shape(stmt, m, anchor),
   xyang |-> XYang(stmt, {"key", "must", "when", "if-features", "config"})
               @@ ChoiceOverlay(stmt.children)] @@ Limits(stmt.ann)

(* _choice_stmt_to_property: a choice that is not hoisted is a property.   *)
ChoiceProperty(stmt, m, anchor) ==
  LET branches == CaseBranches(stmt, m, anchor)
  IN  [type |-> "object", xyang |-> XYang(stmt, {"mandatory", "config", "if-features"})]
        @@ IF branches = <<>> THEN <<>> ELSE [oneOf |-> branches]

(* _statement_to_property *)
Property(stmt, m, anchor) ==
  CASE stmt.kind = "container" -> ContainerProperty(stmt, m, anchor)
    [] stmt.kind = "list" -> ListProperty(stmt, m, anchor)
    [] stmt.kind = "leaf" -> LeafProperty(stmt, m, anchor)
    [] stmt.kind = "leaf-list" -> LeafListProperty(stmt, m, anchor)
    [] stmt.kind = "choice" -> ChoiceProperty(stmt, m, anchor)
    [] stmt.kind \in {"anydata", "anyxml"} -> AnyProperty(stmt)
------------------------------------------------------------------------------
(* _io_block_to_property, _rpc_to_json                                     *)
BlockSchema(block, rpc, m) ==
  LET inside == [chain |-> <<rpc, block>>, copied |-> FALSE]
  IN  ObjectSchema(Properties(block.children, m, inside), RequiredOf(block.children))
        @@ [xyang |-> XYang(block, {"must", "when", "if-features"})]
RpcSchema(rpc, m) ==
  [xyang |-> XYang(rpc, {"must", "when", "if-features"}),
   blocks |-> [k \in {b.kind : b \in rpc.children} |->
                 BlockSchema(CHOOSE b \in rpc.children : b.kind = k, rpc, m)]]

(* _typedef_to_def, _identity_to_def. In a typedef no name is a reference.  *)
TypedefSchema(typedef, m) ==
  LET schema == TypeSchema(typedef.type, {}, m, None)
      default == IF "default" \in DOMAIN typedef.ann
                 THEN [default |-> LiteralDefault(typedef.ann.default, typedef.type.name, schema)]
                 ELSE <<>>
  IN  WithUnits(schema, Only(typedef.ann, {"units"})) @@ default

(* descendant_closure, by the local bases; _identity_to_def lists it.      *)
RECURSIVE DerivedFrom(_, _)
DerivedFrom(names, m) ==
  LET more == names \cup {x \in DOMAIN m.identities : ToSet(m.identities[x].bases) \cap names # {}}
  IN  IF more = names THEN names ELSE DerivedFrom(more, m)
IdentitySchema(x, m) ==
  [type |-> "string", enum |-> SetToSeq(DerivedFrom({x}, m)),
   xyang |-> [type |-> "identity", bases |-> m.identities[x].bases]
               @@ Only(m.identities[x].ann, {"if-features"})]

(* generate_json_schema: typedefs and identities share one namespace, in   *)
(* which an identity comes last.                                           *)
GenerateJsonSchema(m) ==
  [defs |-> [x \in DOMAIN m.identities |-> IdentitySchema(x, m)]
              @@ [x \in DOMAIN m.typedefs |-> TypedefSchema(m.typedefs[x], m)],
   properties |-> Properties(m.statements, m, ModuleRoot),
   rpcs |-> LET rpcs == {n \in m.statements : n.kind = "rpc"}
            IN  [x \in {n.name : n \in rpcs} |-> RpcSchema(Named(rpcs, x), m)]]
==============================================================================
