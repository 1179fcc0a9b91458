---------------------------- MODULE IfFeatureExpr ----------------------------
(***************************************************************************)
(* evaluate_if_feature_expression (src/xyang/validator/if_feature_eval.py):*)
(* the text of an if-feature parsed and evaluated in one descent.          *)
(*                                                                         *)
(* An expression is [ctx, tokens]: the module it stands in and its tokens. *)
(* A token is <<prefix, name>> with "" for no prefix; "and", "or", "not"   *)
(* and the parentheses are names like any other to the tokenizer.          *)
(***************************************************************************)
EXTENDS Integers, Sequences

CONSTANT Imports   \* module -> prefix -> module, the module's own prefix too

(* What prefix:name means in a module: its feature, none if unresolved.    *)
Reference(ctx, token) ==
  IF token[1] = "" THEN {<<ctx, token[2]>>}
  ELSE IF token[1] \in DOMAIN Imports[ctx] THEN {<<Imports[ctx][token[1]], token[2]>>}
  ELSE {}

(* feature_is_supported, of the features that are declared and enabled.    *)
FeatureIsSupported(ctx, supported, token) == Reference(ctx, token) \cap supported # {}
-----------------------------------------------------------------------------
(* _IfFeatureParser.  The part of an expression that starts at i has one   *)
(* result [value, next], or none when it raises IfFeatureEvalError.  at    *)
(* holds the results from later places.                                    *)

Level == {"factor", "term", "expr"}
Word(name) == <<"", name>>
LPAREN == Word("(")
RPAREN == Word(")")
Peek(e, i) == IF i \in DOMAIN e.tokens THEN e.tokens[i] ELSE Word("")
Parsed(value, next) == [value |-> value, next |-> next]

(* Mutant of OrRest: Python's "or" on the parsers, which leaves the second *)
(* operand unread when the first is true.                                  *)
OrRestLazy(e, at, left) ==
  IF ~left.value /\ Peek(e, left.next) = Word("or") THEN at[left.next + 1]["expr"] ELSE {left}

(* What follows an operand.  The operand on the right reads all operators  *)
(* of its level, so that the loop of the code never turns twice.           *)
OrRest(e, at, left) ==
  IF Peek(e, left.next) = Word("or")
  THEN {Parsed(left.value \/ right.value, right.next) : right \in at[left.next + 1]["expr"]}
  ELSE {left}
AndRest(e, at, left) ==
  IF Peek(e, left.next) = Word("and")
  THEN {Parsed(left.value /\ right.value, right.next) : right \in at[left.next + 1]["term"]}
  ELSE {left}

(* Any token but "not" and "(" is taken for the name of a feature.         *)
ParseFactor(e, supported, at, i) ==
  IF i > Len(e.tokens) THEN {}
  ELSE IF Peek(e, i) = Word("not")
  THEN {Parsed(~r.value, r.next) : r \in at[i + 1]["factor"]}
  ELSE IF Peek(e, i) = LPAREN
  THEN {Parsed(r.value, r.next + 1) :
          r \in {r \in at[i + 1]["expr"] : Peek(e, r.next) = RPAREN}}
  ELSE {Parsed(FeatureIsSupported(e.ctx, supported, Peek(e, i)), i + 1)}
ParseTerm(e, supported, at, i) ==
  UNION {AndRest(e, at, left) : left \in ParseFactor(e, supported, at, i)}
ParseExpr(e, supported, at, i) ==
  UNION {OrRest(e, at, left) : left \in ParseTerm(e, supported, at, i)}

Parses(e, supported) ==
  LET at[i \in 1 .. Len(e.tokens) + 1] ==
        [level \in Level |->
           CASE level = "factor" -> ParseFactor(e, supported, at, i)
             [] level = "term" -> ParseTerm(e, supported, at, i)
             [] level = "expr" -> ParseExpr(e, supported, at, i)]
  IN  at

(* "On malformed syntax, returns False": also for the empty text, and when *)
(* tokens are left.                                                        *)
EvaluateIfFeature(e, supported) ==
  Parsed(TRUE, Len(e.tokens) + 1) \in Parses(e, supported)[1]["expr"]
-----------------------------------------------------------------------------
(* The grammar of RFC 7950 section 14, on the tokens alone: the values the *)
(* tokens i to j have, one if they are well formed.  of holds those of the *)
(* tokens from later places on.                                            *)

Reserved == {Word("and"), Word("or"), Word("not"), LPAREN, RPAREN}

Places(e, word, i, j) == {k \in i .. j : Peek(e, k) = Word(word)}

FactorValues(e, supported, of, i, j) ==
  IF i > j THEN {}
  ELSE IF Peek(e, i) = Word("not") THEN {~v : v \in of[i + 1][j]["factor"]}
  ELSE IF Peek(e, i) = LPAREN THEN IF Peek(e, j) = RPAREN THEN of[i + 1][j - 1]["expr"] ELSE {}
  ELSE IF i = j /\ Peek(e, i) \notin Reserved
  THEN {FeatureIsSupported(e.ctx, supported, Peek(e, i))} ELSE {}
TermValues(e, supported, of, i, j) ==
  FactorValues(e, supported, of, i, j)
  \cup UNION {{a /\ b : a \in FactorValues(e, supported, of, i, k - 1), b \in of[k + 1][j]["term"]}
              : k \in Places(e, "and", i, j)}
ExprValues(e, supported, of, i, j) ==
  TermValues(e, supported, of, i, j)
  \cup UNION {{a \/ b : a \in TermValues(e, supported, of, i, k - 1), b \in of[k + 1][j]["expr"]}
              : k \in Places(e, "or", i, j)}

Meanings(e, supported) ==
  LET of[i \in 1 .. Len(e.tokens) + 1] ==
        [j \in 0 .. Len(e.tokens) |-> [level \in Level |->
           CASE level = "factor" -> FactorValues(e, supported, of, i, j)
             [] level = "term" -> TermValues(e, supported, of, i, j)
             [] level = "expr" -> ExprValues(e, supported, of, i, j)]]
  IN  of

Values(e, supported) == Meanings(e, supported)[1][Len(e.tokens)]["expr"]

(* A word of the grammar where a feature is expected: the parser takes it  *)
(* for one, and a "not" before it makes the malformed text true.           *)
Misplaced(e) ==
  \E i \in DOMAIN e.tokens :
    /\ e.tokens[i] \in {Word("and"), Word("or"), RPAREN}
    /\ i = 1 \/ e.tokens[i - 1] \in Reserved \ {RPAREN}
=============================================================================
