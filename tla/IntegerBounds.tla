----------------------------- MODULE IntegerBounds -----------------------------
(***************************************************************************)
(* json/integer_bounds.py: the range of an integer type as minimum and     *)
(* maximum of a JSON Schema, and the integer type such a pair stands for.  *)
(* A bound is <<n>> or, for a keyword ("min" below, "max" above), <<>>. A   *)
(* range is the sequence of its parts, each <<b>> or <<b1, b2>>; <<>> is no *)
(* range. What the code cannot read, or a schema does not state, is None.  *)
(***************************************************************************)
EXTENDS Integers, Sequences

CONSTANTS Bounds,   \* YANG_INTEGER_BOUNDS: the least and greatest value of each type
          None      \* no bound

Signed == <<"int8", "int16", "int32", "int64">>
Unsigned == <<"uint8", "uint16", "uint32", "uint64">>
Either == <<"uint8", "uint16", "uint32", "uint64", "int8", "int16", "int32", "int64">>
Builtins == {Signed[i] : i \in 1 .. 4} \cup {Unsigned[i] : i \in 1 .. 4}

ASSUME BoundsAssumption ==
  /\ DOMAIN Bounds = Builtins
  /\ \A t \in Builtins : Bounds[t].lo \in Int /\ Bounds[t].hi \in Int /\ Bounds[t].hi > 0
  /\ \A i \in 1 .. 4 : Bounds[Unsigned[i]].lo = 0 /\ Bounds[Signed[i]].lo < 0
  /\ \A s, t \in Builtins :
       Bounds[s].lo = Bounds[t].lo /\ Bounds[s].hi = Bounds[t].hi => s = t
  /\ None \notin Int
------------------------------------------------------------------------------
(* _parse_range splits at the first "..": the text on either side is read  *)
(* only if it is one bound.                                                *)
LowText(range) ==
  IF Len(range[1]) = 2 \/ Len(range) = 1 THEN range[1][1] ELSE <<None>>
HighText(range) ==
  IF Len(range[Len(range)]) = 2 /\ \A i \in 1 .. Len(range) - 1 : Len(range[i]) = 1
  THEN range[Len(range)][2] ELSE <<None>>

ReadBound(text, keyword) == IF text = <<>> THEN keyword ELSE text[1]

(* json_integer_bounds_for_builtin *)
SchemaBounds(t, range) ==
  IF range = <<>> THEN [lo |-> Bounds[t].lo, hi |-> Bounds[t].hi]
  ELSE [lo |-> ReadBound(LowText(range), Bounds[t].lo),
        hi |-> ReadBound(HighText(range), Bounds[t].hi)]

(* _narrowest_integer_builtin *)
Narrowest(lo, hi) ==
  LET order == IF lo # None /\ lo < 0 THEN Signed ELSE Either
      from == IF lo = None THEN Bounds[order[1]].lo ELSE lo
      upto == IF hi = None THEN Bounds[order[Len(order)]].hi ELSE hi
      Fits(i) == from >= Bounds[order[i]].lo /\ upto <= Bounds[order[i]].hi
      fitting == {i \in DOMAIN order : Fits(i)}
  IN  IF fitting = {} THEN "int64"
      ELSE order[CHOOSE i \in fitting : \A j \in fitting : i <= j]

Whole(lo, hi) == {t \in Builtins : lo = Bounds[t].lo /\ hi = Bounds[t].hi}
HalfSigned(lo, hi) == {i \in 1 .. 4 : lo = 0 /\ hi = Bounds[Signed[i]].hi}

(* yang_integer_from_json_bounds *)
IntegerType(lo, hi) ==
  IF lo = None /\ hi = None THEN [name |-> "integer", range |-> <<>>]
  ELSE IF Whole(lo, hi) # {}
  THEN [name |-> CHOOSE t \in Whole(lo, hi) : TRUE, range |-> <<>>]
  ELSE IF HalfSigned(lo, hi) # {}
  THEN LET first == CHOOSE i \in HalfSigned(lo, hi) : \A j \in HalfSigned(lo, hi) : i <= j
       IN  [name |-> Signed[first], range |-> << << <<0>>, <<>> >> >>]
  ELSE [name |-> Narrowest(lo, hi),
        range |-> << <<IF lo = None THEN <<>> ELSE <<lo>>, IF hi = None THEN <<>> ELSE <<hi>> >> >>]
------------------------------------------------------------------------------
(* What a range says: the values of the type in one of its parts.          *)
PartValues(t, part) ==
  LET low == ReadBound(part[1], Bounds[t].lo)
      high == IF Len(part) = 1 THEN low ELSE ReadBound(part[2], Bounds[t].hi)
  IN  {v \in Bounds[t].lo .. Bounds[t].hi : low <= v /\ v <= high}

Values(t, range) ==
  IF range = <<>> THEN Bounds[t].lo .. Bounds[t].hi
  ELSE UNION {PartValues(t, range[i]) : i \in DOMAIN range}

(* The ranges of RFC 7950 that are one interval: within the type, and not  *)
(* empty.                                                                  *)
IsInterval(t, range) ==
  /\ range = <<range[1]>> /\ range[1] = <<range[1][1], range[1][2]>>
  /\ LET low == ReadBound(range[1][1], Bounds[t].lo)
         high == ReadBound(range[1][2], Bounds[t].hi)
     IN  low \in Int /\ high \in Int /\ Bounds[t].lo <= low /\ low <= high /\ high <= Bounds[t].hi
==============================================================================
