----------------------------- MODULE XPathParser -----------------------------
(***************************************************************************)
(* XPathTokenizer and XPathParser (src/xyang/xpath): the text of a must,   *)
(* when or path becomes a tree whose paths know whether their result may   *)
(* be cached.  Text is a sequence of lexemes [is, val], is one of "num",   *)
(* "text" (a quoted string), "word" and "sign" (all the rest); the sign    *)
(* "-" stands right before what follows it, "- " does not.  Names hold no  *)
(* capitals and numbers are integers.  For TLC.                            *)
(***************************************************************************)
EXTENDS Integers, SequencesExt

Sign(s) == [is |-> "sign", val |-> s]
Word(w) == [is |-> "word", val |-> w]
Num(n) == [is |-> "int", val |-> n]
Str(s) == [is |-> "str", val |-> s]
Bool(b) == [is |-> "bool", val |-> b]

(* XPathTokenizer.tokenize: a minus right before digits belongs to them,   *)
(* whatever stands before it.                                              *)
Tokens(text) ==
  FoldLeft(LAMBDA out, x :
             IF x.is = "num" /\ out # <<>> /\ Last(out) = Sign("-")
             THEN Append(Front(out), [x EXCEPT !.val = 0 - @])
             ELSE Append(out, x),
           <<>>, text)
-----------------------------------------------------------------------------
(* Trees, and what a _parse_* method returns: a tree, whether it may be    *)
(* cached, and the place after it.                                         *)

Literal(v) == [node |-> "literal", value |-> v]
Binary(l, op, r) == [node |-> "binary", left |-> l, op |-> op, right |-> r]
Call(name, args) == [node |-> "call", name |-> name, args |-> args]
Step(name, predicate) == [step |-> name, predicate |-> predicate]    \* at most one
Path(segments, absolute, cacheable) ==
  [node |-> "path", segments |-> segments, absolute |-> absolute, cacheable |-> cacheable]

Parsed(tree, cacheable, pos) == [ok |-> TRUE, tree |-> tree, cacheable |-> cacheable, pos |-> pos]
SyntaxError == [ok |-> FALSE]
Then(r, F(_)) == IF r.ok THEN F(r) ELSE SyntaxError

At(tk, p) == IF p \in DOMAIN tk THEN tk[p] ELSE Sign("end")
Sees(tk, p, s) == At(tk, p) = Sign(s)
Says(tk, p, w) == At(tk, p) = Word(w)
Expect(tk, r, s) == Then(r, LAMBDA x : IF Sees(tk, x.pos, s) THEN [x EXCEPT !.pos = @ + 1]
                                       ELSE SyntaxError)

(* The binary operators, from the loosest level to the tightest.  A        *)
(* comparison is not repeated.                                             *)
Level == << {"or"}, {"and"}, {"=", "!=", "<", ">", "<=", ">="}, {"+", "- ", "-"}, {"/", "*"} >>
Comparison == 3
Multiplicative == 5
Joins(k, t) == t.is = (IF k <= 2 THEN "word" ELSE "sign") /\ t.val \in Level[k]
Plain(op) == IF op = "- " THEN "-" ELSE op

(* Mutant of Right: an operator takes the rest of its level to its right. *)
RightSame(k) == k

(* Operators of one level join from the left. *)
Right(k) == k + 1

RECURSIVE Operand(_, _, _), Rest(_, _, _), Unary(_, _), Primary(_, _), Arguments(_, _, _),
          Values(_, _, _), Predicates(_, _, _, _), Steps(_, _, _, _, _)
Expression(tk, p) == Operand(1, tk, p)

Operand(k, tk, p) ==
  IF k > Len(Level) THEN Unary(tk, p)
  ELSE Then(Operand(k + 1, tk, p), LAMBDA l : Rest(k, tk, l))

(* What follows a "/" is a path.                                           *)
Rest(k, tk, l) ==
  LET op == At(tk, l.pos)
      right == IF op.val = "/" THEN Steps(tk, l.pos + 1, FALSE, <<>>, FALSE)
               ELSE Operand(Right(k), tk, l.pos + 1)
  IN  IF ~Joins(k, op) THEN l
      ELSE Then(right, LAMBDA r :
             LET both == Parsed(Binary(l.tree, Plain(op.val), r.tree),
                                l.cacheable /\ r.cacheable, r.pos)
             IN  IF k = Comparison THEN both ELSE Rest(k, tk, both))

Unary(tk, p) ==
  CASE Sees(tk, p, "-") \/ Sees(tk, p, "- ") ->
         Then(Unary(tk, p + 1), LAMBDA x :
           Parsed(Binary(Literal(Num(0)), "-", x.tree), FALSE, x.pos))
    [] Sees(tk, p, "+") -> Unary(tk, p + 1)
    [] Says(tk, p, "not") ->
         IF ~Sees(tk, p + 1, "(") THEN SyntaxError
         ELSE Then(Expect(tk, Expression(tk, p + 2), ")"), LAMBDA x :
                Parsed(Call("not", <<x.tree>>), FALSE, x.pos))
    [] OTHER -> Primary(tk, p)

(* After a parenthesis a first literal is taken for the start of a list of *)
(* values; when it is neither that nor alone, it is dropped.               *)
Parenthesis(tk, p) ==
  LET first == Primary(tk, p)
      single(q) == Expect(tk, Expression(tk, q), ")")
  IN  IF At(tk, p).is \notin {"num", "text"} THEN single(p)
      ELSE CASE Sees(tk, p + 1, ",") -> Values(tk, p + 1, <<first.tree.value>>)
             [] Sees(tk, p + 1, ")") -> [first EXCEPT !.pos = p + 2]
             [] OTHER -> single(p + 1)
Values(tk, p, values) ==
  IF Sees(tk, p, ",")
  THEN Then(Primary(tk, p + 1), LAMBDA v :
         IF v.tree.node # "literal" THEN SyntaxError
         ELSE Values(tk, v.pos, Append(values, v.tree.value)))
  ELSE Expect(tk, Parsed(Literal([is |-> "tuple", val |-> values]), FALSE, p), ")")

Primary(tk, p) ==
  LET t == At(tk, p)
      bare == IF Sees(tk, p + 1, "(") THEN Expect(tk, Parsed(<<>>, FALSE, p + 2), ")")
              ELSE Parsed(<<>>, FALSE, p + 1)
  IN  CASE t.is = "num" -> Parsed(Literal(Num(t.val)), TRUE, p + 1)
        [] t.is = "text" -> Parsed(Literal(Str(t.val)), FALSE, p + 1)
        [] Says(tk, p, "true") \/ Says(tk, p, "false") ->
             Then(bare, LAMBDA x : [x EXCEPT !.tree = Literal(Bool(t.val = "true"))])
        [] t.is = "word" /\ t.val \notin {"true", "false"} /\ Sees(tk, p + 1, "(") ->
             IF Sees(tk, p + 2, ")") THEN Parsed(Call(t.val, <<>>), FALSE, p + 3)
             ELSE Arguments(tk, p + 2, Call(t.val, <<>>))
        [] t = Sign(".") /\ Sees(tk, p + 1, "(") ->
             Then(bare, LAMBDA x : [x EXCEPT !.tree = Call("current", <<>>)])
        [] t = Sign(".") /\ ~Sees(tk, p + 1, "(") ->
             Then(Predicates(tk, p + 1, <<>>, FALSE), LAMBDA q :
               Steps(tk, IF Sees(tk, q.pos, "/") THEN q.pos + 1 ELSE q.pos,
                     FALSE, <<Step(".", q.tree)>>, q.cacheable))
        [] t = Sign("/") -> Steps(tk, p + 1, TRUE, <<>>, TRUE)
        [] t = Sign("(") -> Parenthesis(tk, p + 1)
        [] \/ t = Sign("..")
           \/ t.is = "word" /\ t.val \notin {"true", "false"} /\ ~Sees(tk, p + 1, "(") ->
             Steps(tk, p, FALSE, <<>>, FALSE)
        [] OTHER -> SyntaxError

Arguments(tk, p, call) ==
  Then(Expression(tk, p), LAMBDA x :
    LET more == [call EXCEPT !.args = Append(@, x.tree)]
    IN  IF Sees(tk, x.pos, ",") THEN Arguments(tk, x.pos + 1, more)
        ELSE Expect(tk, Parsed(more, FALSE, x.pos), ")"))

(* _parse_path: after the first step "." the loop goes on also without a   *)
(* "/", and any word is a step.                                            *)
Predicates(tk, p, predicate, cacheable) ==
  IF ~Sees(tk, p, "[") THEN Parsed(predicate, cacheable, p)
  ELSE Then(Expect(tk, Expression(tk, p + 1), "]"), LAMBDA x :
         Predicates(tk, x.pos,
           <<IF predicate = <<>> THEN x.tree ELSE Binary(predicate[1], "and", x.tree)>>,
           cacheable /\ x.cacheable))
Steps(tk, p, absolute, segments, cacheable) ==
  IF ~(At(tk, p).is = "word" \/ Sees(tk, p, ".") \/ Sees(tk, p, ".."))
  THEN Parsed(Path(segments, absolute, cacheable), cacheable, p)
  ELSE Then(Predicates(tk, p + 1, <<>>, cacheable), LAMBDA q :
         LET all == Append(segments, Step(At(tk, p).val, q.tree))
         IN  IF Sees(tk, q.pos, "/") THEN Steps(tk, q.pos + 1, absolute, all, q.cacheable)
             ELSE Parsed(Path(all, absolute, q.cacheable), q.cacheable, q.pos))

Whole(tk, r) ==
  Then(r, LAMBDA x : IF Sees(tk, x.pos, "end") THEN x ELSE SyntaxError)

(* XPathParser.parse; parse_path, the argument of a leafref's path.        *)
Parse(text) ==
  LET tk == Tokens(text)
  IN  IF tk = <<>> THEN SyntaxError ELSE Whole(tk, Expression(tk, 1))
ParsePath(text) ==
  LET tk == Tokens(text)
      absolute == Sees(tk, 1, "/")
  IN  IF tk = <<>> THEN SyntaxError
      ELSE Whole(tk, Steps(tk, IF absolute THEN 2 ELSE 1, absolute, <<>>, absolute))
=============================================================================
