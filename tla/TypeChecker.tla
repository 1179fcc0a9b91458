----------------------------- MODULE TypeChecker -----------------------------
(***************************************************************************)
(* TypeChecker (src/xyang/validator/type_checker.py): does a value have a  *)
(* type.  What a string means to a pattern, to base64, as a bit list, an   *)
(* identity or a path is left to operators; numbers are whole.  A type is  *)
(* a record over AnyType; a range or length is the sequence of its parts,  *)
(* each one bound or two.  The answer is a Bool, or Raise, with the cache  *)
(* after it.  For TLC.                                                     *)
(***************************************************************************)
EXTENDS XPathEvaluator

CONSTANTS
  Typedefs,          \* the typedefs by prefix (of the module itself: "") and name
  Matches(_, _),     \* a pattern and a string
  Words(_),          \* the words of a string
  Octets(_),         \* how many octets the string encodes, or -1
  Fraction(_),       \* the digits after the point of a number's text
  Spelled(_),        \* the lexemes of a string, read as an expression
  IdentityOf(_, _)   \* a string names an identity derived from all the bases

AnyType == [name |-> "", prefix |-> "", path |-> <<>>, require |-> TRUE, range |-> <<>>,
            length |-> <<>>, patterns |-> <<>>, enums |-> {}, bits |-> {}, bases |-> <<>>,
            digits |-> <<>>, types |-> <<>>]
-----------------------------------------------------------------------------
(* _parse_range splits at the first "..": of several parts at most the     *)
(* first lower and the last upper bound are left, "|" and all.             *)
Unbounded == <<Nothing, Nothing>>
Interval(range) ==
  LET split == SelectInSeq(range, LAMBDA part : Len(part) = 2)
  IN  CASE Len(range) = 1 -> <<Head(range[1]), Last(range[1])>>
        [] Len(range) > 1 /\ split = 0 -> Unbounded
        [] OTHER -> <<IF split = 1 THEN range[1][1] ELSE Nothing,
                      IF split = Len(range) THEN range[split][2] ELSE Nothing>>

(* "min", "max" and what is no number do not bound.                        *)
Within(n, bounds) == /\ bounds[1].is = "int" => bounds[1].val <= n
                     /\ bounds[2].is = "int" => n <= bounds[2].val
Fits(n, range) == range # <<>> => Within(n, Interval(range))

(* YANG_INTEGER_BOUNDS; the wider types hold every number of the model.    *)
IntegerBounds ==
  "int8" :> <<Num(-128), Num(127)>> @@ "uint8" :> <<Num(0), Num(255)>>
  @@ "int16" :> <<Num(-32768), Num(32767)>> @@ "uint16" :> <<Num(0), Num(65535)>>
  @@ [wide \in {"int32", "int64", "integer"} |-> Unbounded]
  @@ [wide \in {"uint32", "uint64"} |-> <<Num(0), Nothing>>]

StringTypes == {"string", "entity-name", "field-name", "identifier", "date", "date-and-time",
                "qualified-source"}
Decimals == {"decimal64", "number"}

PatternsHold(type, s) ==
  \A i \in DOMAIN type.patterns : Matches(type.patterns[i].text, s) # type.patterns[i].invert

IsString(value, type) ==
  LET s == Text(value)
  IN  /\ Fits(Len(s), type.length)
      /\ PatternsHold(type, s)
      /\ type.enums # {} => s \in type.enums

(* int(): true is 1.                                                       *)
HasAmount(value) == value.is \in {"bool", "int", "float"} \/ IsNumeral(value)
IsInteger(value, type) ==
  /\ HasAmount(value)
  /\ Within(Amount(value), IF type.range # <<>> THEN Interval(type.range)
                           ELSE IntegerBounds[type.name])
IsDecimal(value, type) ==
  /\ HasAmount(value)
  /\ Fits(Amount(value), type.range)
  /\ type.digits # <<>> => Fraction(Text(value)) <= type.digits[1]

(* Equality of Python, for which true is 1.                                *)
OneOf(value, values) == \E v \in values : Identical(value, v)
IsBoolean(value) == OneOf(value, {Bool(TRUE), Bool(FALSE), Str("true"), Str("false")})
IsEmpty(value) == OneOf(value, {Nothing, Bool(TRUE), Str(""), [is |-> "dict", val |-> <<>>]})

IsBits(value, type) ==
  LET names == IF value.is = "str" THEN Words(value.val) ELSE <<>>
  IN  /\ value.is = "str"
      /\ type.bits # {}
      /\ IsInjective(names) /\ Range(names) \subseteq type.bits

IsBinary(value, type) ==
  /\ value.is = "str"
  /\ Octets(value.val) >= 0
  /\ Fits(Octets(value.val), type.length)
  /\ PatternsHold(type, value.val)

IsIdentityref(value, type) ==
  value.is = "str" /\ type.bases # <<>> /\ IdentityOf(value.val, type.bases)
-----------------------------------------------------------------------------
(* _check_instance_identifier, at the node of the value.                   *)
InstanceIdentifier(value, type, node, cache) ==
  LET parsed == IF value.is = "str" THEN Parse(Spelled(value.val)) ELSE SyntaxError
  IN  CASE value.is = "str" /\ ~type.require -> Result(Bool(TRUE), cache)
        [] value.is = "str" /\ type.require /\ parsed.ok ->
             IF ~(parsed.tree.node = "path" /\ parsed.tree.absolute)
             THEN Result(Bool(FALSE), cache)
             ELSE With(EvalPath(parsed.tree, node, Root(node), cache), LAMBDA r :
                    Result(Bool(r.val.val # <<>>), r.cache))
        [] OTHER -> Result(Bool(FALSE), cache)

(* Mutant of Leafref: any target will do. *)
LeafrefAny(value, type, leaf, cache) ==
  IF ~type.require \/ type.path = <<>> THEN Result(Bool(TRUE), cache)
  ELSE With(EvalPath(type.path[1], leaf, leaf, cache), LAMBDA r :
         Result(Bool(r.val.val # <<>>), r.cache))

(* _check_leafref, from the node leafref_current.                          *)
Leafref(value, type, leaf, cache) ==
  IF ~type.require \/ type.path = <<>> THEN Result(Bool(TRUE), cache)
  ELSE With(EvalPath(type.path[1], leaf, leaf, cache), LAMBDA r :
         Result(Bool(OneOf(value, Range(ValuesOf(r.val)))), r.cache))

(* check: a union is its first member that has the value.                  *)
RECURSIVE Check(_, _, _, _, _)
Check(value, type, node, leaf, cache) ==
  LET is(b) == Result(Bool(b), cache)
      typedef(prefix) == Check(value, Typedefs[prefix][type.name], node, leaf, cache)
  IN  CASE type.prefix # "" ->
             IF type.prefix \in DOMAIN Typedefs /\ type.name \in DOMAIN Typedefs[type.prefix]
             THEN typedef(type.prefix) ELSE is(FALSE)
        [] type.prefix = "" /\ type.name = "union" ->
             FoldLeft(LAMBDA acc, member : With(acc, LAMBDA a :
                        IF a.val.val THEN a ELSE Check(value, member, node, leaf, a.cache)),
                      is(FALSE), type.types)
        [] type.prefix = "" /\ type.name # "union" ->
             CASE type.name = "identityref" -> is(IsIdentityref(value, type))
               [] type.name = "instance-identifier" -> InstanceIdentifier(value, type, node, cache)
               [] type.name = "leafref" -> Leafref(value, type, leaf, cache)
               [] type.name \in StringTypes -> is(IsString(value, type))
               [] type.name \in DOMAIN IntegerBounds -> is(IsInteger(value, type))
               [] type.name \in Decimals -> is(IsDecimal(value, type))
               [] type.name = "boolean" -> is(IsBoolean(value))
               [] type.name = "enumeration" -> is(Text(value) \in type.enums)
               [] type.name = "bits" -> is(IsBits(value, type))
               [] type.name = "empty" -> is(IsEmpty(value))
               [] type.name = "binary" -> is(IsBinary(value, type))
               [] type.name \in DOMAIN Typedefs[""] -> typedef("")
               [] OTHER -> is(TRUE)
=============================================================================
