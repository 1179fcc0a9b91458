------------------------------- MODULE JsonParser -------------------------------
(***************************************************************************)
(* json/parser.py: the module that a generated JSON Schema is read back as. *)
(***************************************************************************)
EXTENDS JsonGenerator

Is(f, key, value) == Has(f, key) /\ f[key] = value
------------------------------------------------------------------------------
(* "5..", "0..5" and "1..5" of the string branch.                          *)
LengthFrom(schema) ==
  IF ~Has(schema, "minLength") /\ ~Has(schema, "maxLength") THEN <<>>
  ELSE << <<IF Has(schema, "minLength") THEN <<schema.minLength>> ELSE <<0>>,
            IF Has(schema, "maxLength") THEN <<schema.maxLength>> ELSE <<>> >> >>

Literally(branches) == <<[branches |-> branches, invert |-> FALSE]>>

(* x-yang has every pattern, the schema at most one (_apply_string_pattern *)
(* _entries).                                                              *)
StringFrom(schema, xyang) ==
  LET merged == XYangOf(schema) @@ xyang
  IN  [name |-> "string", length |-> LengthFrom(schema),
       patterns |-> IF Has(merged, "patterns") THEN merged.patterns
                    ELSE IF Has(schema, "pattern") THEN Literally(schema.pattern.anchored) ELSE <<>>]

DecimalFrom(schema) ==
  [name |-> "decimal64", digits |-> schema.digits,
   range |-> IF ~Has(schema, "minimum") /\ ~Has(schema, "maximum") THEN <<>>
             ELSE << <<IF Has(schema, "minimum") THEN <<schema.minimum>> ELSE <<>>,
                       IF Has(schema, "maximum") THEN <<schema.maximum>> ELSE <<>> >> >>]

IntegerFrom(schema) ==
  IntegerType(IF Has(schema, "minimum") THEN schema.minimum ELSE None,
              IF Has(schema, "maximum") THEN schema.maximum ELSE None)

PlainString == [name |-> "string", length |-> <<>>, patterns |-> <<>>]
(* What the callers of _type_from_schema make of no type.                  *)
TypeOr(type) == IF type = None THEN PlainString ELSE type

(* _type_from_schema: the units of a type are those of its x-yang, or of   *)
(* the x-yang of the node it is the type of.                               *)
RECURSIVE TypeFrom(_, _)
TypeFromImpl(schema, xyang) ==
  IF Is(xyang, "type", "identityref") THEN [name |-> "identityref", bases |-> xyang.bases]
  ELSE IF Is(xyang, "type", "instance-identifier") THEN [name |-> "instance-identifier"]
  ELSE IF Is(xyang, "type", "bits") THEN [name |-> "bits", bits |-> xyang.bits]
  ELSE IF Is(xyang, "type", "leafref") THEN [name |-> "leafref", path |-> xyang.path]
  ELSE IF Has(schema, "ref") THEN [name |-> schema.ref]
  ELSE IF Has(schema, "enum") /\ Len(schema.enum) > 1
  THEN [name |-> "enumeration", enums |-> schema.enum]
  ELSE IF Has(schema, "enum") THEN [PlainString EXCEPT !.patterns = Literally(<<schema.enum[1]>>)]
  ELSE IF Is(schema, "type", "string") THEN StringFrom(schema, xyang)
  ELSE IF Is(schema, "type", "integer") THEN IntegerFrom(schema)
  ELSE IF Is(schema, "type", "number") THEN DecimalFrom(schema)
  ELSE IF Is(schema, "type", "boolean") THEN [name |-> "boolean"]
  ELSE IF Is(schema, "maxProperties", 0) THEN [name |-> "empty"]
  ELSE IF Has(schema, "oneOf")
  THEN LET types == [i \in DOMAIN schema.oneOf |->
                       TypeFrom(schema.oneOf[i], XYangOf(schema.oneOf[i]))]
       IN  [name |-> "union", types |-> SelectSeq(types, LAMBDA t : t # None)]
  ELSE None
TypeFrom(schema, xyang) ==
  LET type == TypeFromImpl(schema, xyang)
  IN  IF type = None THEN None ELSE type @@ Only(XYangOf(schema) @@ xyang, {"units"})
------------------------------------------------------------------------------
Definition(name, defs) == IF Has(defs, name) THEN defs[name] ELSE <<>>

(* Mutant of Resolved: what is referred to overlays the property.          *)
ResolvedBaseLast(property, defs) ==
  LET base == IF Has(property, "ref") THEN Definition(property.ref, defs) ELSE <<>>
  IN  [schema |-> base @@ property, xyang |-> property.xyang @@ XYangOf(base)]

(* _property_schema_and_xyang: a reference is overlaid by the property, and *)
(* an allOf replaces it.                                                   *)
RECURSIVE Overlaid(_, _)
Overlaid(parts, defs) ==
  IF parts = <<>> THEN <<>>
  ELSE (IF Has(Last(parts), "ref") THEN Definition(Last(parts).ref, defs) ELSE Last(parts))
         @@ Overlaid(Front(parts), defs)
Resolved(property, defs) ==
  IF Has(property, "ref")
  THEN LET base == Definition(property.ref, defs)
       IN  [schema |-> Without(property, {"xyang"}) @@ base,
            xyang |-> property.xyang @@ XYangOf(base)]
  ELSE [schema |-> IF Has(property, "allOf") THEN Overlaid(property.allOf, defs) ELSE property,
        xyang |-> XYangOf(property)]

TextOf(default) == [default EXCEPT !.form = "text"]
FlagOf(flag, key) == IF flag THEN key :> TRUE ELSE <<>>
(* mandatory_override, where the parent states what it requires.           *)
IsMandatory(xyang, override) == IF override = None THEN Has(xyang, "mandatory") ELSE override
LimitsFrom(schema) ==
  (IF Has(schema, "minItems") THEN "min" :> schema.minItems ELSE <<>>)
    @@ (IF Has(schema, "maxItems") THEN "max" :> schema.maxItems ELSE <<>>)

(* _convert_leaf; the type is that of the property itself if this is a     *)
(* reference.                                                              *)
LeafFrom(name, schema, xyang, typeSchema, override) ==
  [kind |-> "leaf", name |-> name, type |-> TypeOr(TypeFrom(typeSchema, xyang)),
   ann |-> Only(xyang, {"must", "when", "if-features", "units", "config"})
             @@ FlagOf(IsMandatory(xyang, override), "mandatory")
             @@ IF Has(schema, "default") THEN "default" :> TextOf(schema.default) ELSE <<>>]

(* _convert_leaf_list *)
LeafListFrom(name, schema, xyang) ==
  LET items == XYangOf(schema.items)
  IN  [kind |-> "leaf-list", name |-> name,
       type |-> TypeOr(TypeFrom(schema.items, IF items = <<>> THEN xyang ELSE items)),
       ann |-> Only(xyang, {"must", "when", "if-features", "units", "config"})
                 @@ LimitsFrom(schema) @@ Only(schema, {"defaults"})]

(* _convert_anydata_anyxml *)
AnyFrom(name, xyang, override) ==
  [kind |-> xyang.type, name |-> name,
   ann |-> Only(xyang, {"must", "when", "if-features"})
             @@ FlagOf(IsMandatory(xyang, override), "mandatory")]
------------------------------------------------------------------------------
RequiredIn(branch) == IF Has(branch, "required") THEN branch.required ELSE {}
PropertiesIn(branch) == IF Has(branch, "properties") THEN branch.properties ELSE <<>>
InAll(sets) == {x \in UNION sets : \A S \in sets : x \in S}

(* _convert_property: the statement a property stands for, if x-yang has a  *)
(* kind that is known.                                                     *)
RECURSIVE Converted(_, _, _, _)
ConvertedAll(properties, defs, override(_)) ==
  UNION {Converted(x, properties[x], defs, override(x)) : x \in DOMAIN properties}

CaseFrom(branch, statements) ==
  [kind |-> "case", name |-> branch.xyang.name, ann |-> Only(branch.xyang, {"if-features"}),
   children |-> statements]

(* _parse_hoisted_choice_oneof: what all branches have are siblings of the  *)
(* choice, what a branch requires beyond them is its case.                 *)
HoistedFrom(branches, meta, defs) ==
  LET all == ToSet(branches)
      withData == {b \in all : ~Is(b, "maxProperties", 0)}
      commonRequired == InAll({RequiredIn(b) : b \in all})
      IsCase(b) == b \in withData /\ RequiredIn(b) \ commonRequired # {}
      cases == SelectSeq(branches, IsCase)
      commonMandatory == InAll({RequiredIn(b) : b \in ToSet(cases)})
      common == InAll({DOMAIN PropertiesIn(b) : b \in withData})
      template == Head(SelectSeq(branches, LAMBDA b : b \in withData))
      Siblings == ConvertedAll(Only(PropertiesIn(template), common), defs,
                               LAMBDA x : x \in commonMandatory)
      Members(b) == ConvertedAll(Only(b.properties, b.required \ commonMandatory), defs,
                                 LAMBDA x : None)
      kept == SelectSeq(cases, LAMBDA b : Members(b) # {})
  IN  Siblings \cup
      {[kind |-> "choice", name |-> meta.name, ann |-> Only(meta, {"mandatory", "if-features"}),
        cases |-> [i \in DOMAIN kept |-> CaseFrom(kept[i], Members(kept[i]))]]}

(* The children of _convert_container and _convert_list.                   *)
ChildrenFrom(object, xyang, defs) ==
  IF Has(object, "oneOf") THEN HoistedFrom(object.oneOf, xyang.choice, defs)
  ELSE ConvertedAll(PropertiesIn(object), defs, LAMBDA x : x \in RequiredIn(object))

(* _convert_choice                                                         *)
ChoiceFrom(name, schema, xyang, defs) ==
  LET branches == IF Has(schema, "oneOf")
                  THEN SelectSeq(schema.oneOf, LAMBDA b : ~Is(b, "maxProperties", 0)) ELSE <<>>
      Case(b) == CaseFrom(b, ConvertedAll(b.properties, defs, LAMBDA x : None))
  IN  [kind |-> "choice", name |-> name, ann |-> Only(xyang, {"mandatory", "if-features", "config"}),
       cases |-> [i \in DOMAIN branches |-> Case(branches[i])]]

Converted(name, property, defs, override) ==
  LET resolved == Resolved(property, defs)
      schema == resolved.schema
      xyang == resolved.xyang
      Block(kind, children, keys) ==
        [kind |-> kind, name |-> name, children |-> children, ann |-> Only(xyang, keys)]
  IN  CASE xyang.type = "container" ->
             {Block("container", ChildrenFrom(schema, xyang, defs),
                    {"must", "when", "presence", "if-features", "config"})}
        [] xyang.type = "list" ->
             LET list == Block("list", ChildrenFrom(schema.items, xyang, defs),
                               {"key", "must", "when", "if-features", "config"})
             IN  {[list EXCEPT !.ann = @ @@ LimitsFrom(schema)]}
        [] xyang.type \in {"leaf", "leafref", "identityref", "instance-identifier"} ->
             {LeafFrom(name, schema, xyang,
                       IF Has(property, "ref") /\ Has(defs, property.ref) THEN property ELSE schema,
                       override)}
        [] xyang.type = "leaf-list" -> {LeafListFrom(name, schema, xyang)}
        [] xyang.type = "choice" -> {ChoiceFrom(name, schema, xyang, defs)}
        [] xyang.type \in {"anydata", "anyxml"} -> {AnyFrom(name, xyang, override)}
        [] OTHER -> {}
------------------------------------------------------------------------------
(* _convert_io_block, _convert_rpc                                         *)
BlockFrom(kind, block, defs) ==
  [kind |-> kind, name |-> kind, ann |-> Only(block.xyang, {"must", "when", "if-features"}),
   children |-> ConvertedAll(block.properties, defs, LAMBDA x : x \in block.required)]
RpcFrom(name, rpc, defs) ==
  [kind |-> "rpc", name |-> name, ann |-> Only(rpc.xyang, {"must", "when", "if-features"}),
   children |-> {BlockFrom(k, rpc.blocks[k], defs) : k \in DOMAIN rpc.blocks}]

(* _build_identity, _build_typedef                                         *)
IsIdentity(def) == Is(XYangOf(def), "type", "identity")
IdentityFrom(def) == [bases |-> def.xyang.bases, ann |-> Only(def.xyang, {"if-features"})]
TypedefFrom(def) ==
  [type |-> TypeOr(TypeFrom(def, XYangOf(def))),
   ann |-> Only(XYangOf(def), {"units"}) @@ Only(def, {"default"})]

(* parse_json_schema: without an override, the x-yang of a leaf says       *)
(* whether it is mandatory.                                                *)
ParseJsonSchema(s) ==
  LET identities == {x \in DOMAIN s.defs : IsIdentity(s.defs[x])}
  IN  [identities |-> [x \in identities |-> IdentityFrom(s.defs[x])],
       typedefs |-> [x \in DOMAIN s.defs \ identities |-> TypedefFrom(s.defs[x])],
       statements |-> ConvertedAll(s.properties, s.defs, LAMBDA x : None)
                        \cup {RpcFrom(x, s.rpcs[x], s.defs) : x \in DOMAIN s.rpcs}]
==============================================================================
