----------------------- MODULE FeaturePruningProofs -----------------------
(***************************************************************************)
(* Proofs about FeaturePruning for every set of modules, features and      *)
(* expressions, and about IfFeatureExpr for texts of any length.           *)
(***************************************************************************)
EXTENDS FeatureConditions, CommonLemmas

(* The types hold in every reachable state of the pruning loop.            *)
THEOREM TypeCorrect == Spec => []TypeOK
<1>1. Init => TypeOK
  BY DEF Init, TypeOK, InitialMap
<1>2. TypeOK /\ [Next]_vars => TypeOK'
  <2> SUFFICES ASSUME TypeOK, [Next]_vars PROVE TypeOK'
    OBVIOUS
  <2>1. CASE BeginRound
    BY <2>1 DEF TypeOK, BeginRound
  <2>2. ASSUME NEW f \in Feature, Keep(f) PROVE TypeOK'
    BY <2>2 DEF TypeOK, Keep
  <2>3. ASSUME NEW f \in Feature, Drop(f) PROVE TypeOK'
    BY <2>3 DEF TypeOK, Drop
  <2>4. CASE EndRound
    BY <2>4 DEF TypeOK, EndRound
  <2>5. CASE UNCHANGED vars
    BY <2>5 DEF TypeOK, vars
  <2> QED
    BY <2>1, <2>2, <2>3, <2>4, <2>5 DEF Next
<1> QED
  BY <1>1, <1>2, PTL DEF Spec
-----------------------------------------------------------------------------
(* What a round has established so far: a feature it has passed satisfies  *)
(* its conditions in the snapshot, and the map still is the snapshot as    *)
(* long as nothing was dropped.                                            *)
RoundSound ==
  /\ pc \in {"check", "done"} =>
       /\ mutable \subseteq frozen
       /\ ~changed => mutable = frozen
       /\ \A f \in mutable \ todo : Satisfied(f, frozen)
  /\ pc = "done" => todo = {} /\ ~changed

(* The invariant is kept by every step of the loop.                        *)
LEMMA RoundSoundStep == RoundSound /\ [Next]_vars => RoundSound'
<1> SUFFICES ASSUME RoundSound, [Next]_vars PROVE RoundSound'
  OBVIOUS
<1>1. CASE BeginRound
  BY <1>1 DEF RoundSound, BeginRound
<1>2. ASSUME NEW f \in Feature, Keep(f) PROVE RoundSound'
  <2>1. /\ pc = "check" /\ pc' = pc /\ todo' = todo \ {f}
        /\ mutable' = mutable /\ frozen' = frozen /\ changed' = changed
        /\ reqs' = reqs /\ Satisfied(f, frozen)
    BY <1>2 DEF Keep
  <2>2. \A g \in mutable' \ todo' : Satisfied(g, frozen)'
    BY <2>1 DEF RoundSound, Satisfied, Supported
  <2> QED
    BY <2>1, <2>2 DEF RoundSound
<1>3. ASSUME NEW f \in Feature, Drop(f) PROVE RoundSound'
  <2>1. /\ pc = "check" /\ pc' = pc /\ todo' = todo \ {f}
        /\ mutable' = mutable \ {f} /\ frozen' = frozen /\ changed' = TRUE
        /\ reqs' = reqs
    BY <1>3 DEF Drop
  <2>2. \A g \in mutable' \ todo' : Satisfied(g, frozen)'
    BY <2>1 DEF RoundSound, Satisfied, Supported
  <2> QED
    BY <2>1, <2>2 DEF RoundSound
<1>4. CASE EndRound
  BY <1>4 DEF RoundSound, EndRound, Satisfied, Supported
<1>5. CASE UNCHANGED vars
  BY <1>5 DEF RoundSound, vars, Satisfied, Supported
<1> QED
  BY <1>1, <1>2, <1>3, <1>4, <1>5 DEF Next

(* When the loop is done, every feature left satisfies its own if-feature  *)
(* conditions under the map that is left.                                  *)
THEOREM ResultIsConsistent == Spec => []ResultConsistent
<1>1. Init => RoundSound
  BY DEF Init, RoundSound
<1>2. RoundSound /\ [Next]_vars => RoundSound'
  BY RoundSoundStep
<1>3. RoundSound => ResultConsistent
  BY DEF RoundSound, ResultConsistent, Consistent
<1> QED
  BY <1>1, <1>2, <1>3, PTL DEF Spec
-----------------------------------------------------------------------------
(* A requested set that supports itself is in the map, and during a round  *)
(* in the snapshot: the conditions of its members hold in the larger one.  *)
KeepsConsistent ==
  Monotone =>
    \A S \in SUBSET given :
      Consistent(S) => S \subseteq mutable /\ (pc = "check" => S \subseteq frozen)

(* No step loses a member of such a set.                                   *)
LEMMA KeepsConsistentStep ==
  TypeOK /\ KeepsConsistent /\ [Next]_vars => KeepsConsistent'
<1> SUFFICES ASSUME TypeOK, KeepsConsistent, [Next]_vars, Monotone',
                    NEW S \in SUBSET given', Consistent(S)'
             PROVE  (S \subseteq mutable /\ (pc = "check" => S \subseteq frozen))'
  BY DEF KeepsConsistent
<1>1. given' = given /\ reqs' = reqs
  BY DEF Next, BeginRound, Keep, Drop, EndRound, vars
<1>2. Monotone /\ Consistent(S) /\ S \in SUBSET given
  BY <1>1 DEF Monotone, MonotoneAt, Consistent, Satisfied
<1>3. S \subseteq mutable /\ (pc = "check" => S \subseteq frozen)
  BY <1>2 DEF KeepsConsistent
<1>4. CASE BeginRound
  BY <1>4, <1>3 DEF BeginRound
<1>5. ASSUME NEW f \in Feature, Keep(f)
      PROVE  (S \subseteq mutable /\ (pc = "check" => S \subseteq frozen))'
  BY <1>5, <1>3 DEF Keep
<1>6. ASSUME NEW f \in Feature, Drop(f)
      PROVE  (S \subseteq mutable /\ (pc = "check" => S \subseteq frozen))'
  <2>1. /\ pc = "check" /\ ~Satisfied(f, frozen)
        /\ mutable' = mutable \ {f} /\ frozen' = frozen
    BY <1>6 DEF Drop
  <2>2. f \notin S
    <3>1. S \in SUBSET Feature /\ frozen \in SUBSET Feature /\ S \subseteq frozen
      BY <1>2, <1>3, <2>1 DEF TypeOK
    <3>2. Satisfied(f, S) => Satisfied(f, frozen)
      BY <1>2, <3>1 DEF Monotone, MonotoneAt
    <3> QED
      BY <1>2, <2>1, <3>2 DEF Consistent
  <2> QED
    BY <1>3, <2>1, <2>2
<1>7. CASE EndRound
  BY <1>7, <1>3 DEF EndRound
<1>8. CASE UNCHANGED vars
  BY <1>8, <1>3 DEF vars
<1> QED
  BY <1>4, <1>5, <1>6, <1>7, <1>8 DEF Next

(* Where no condition uses "not", the loop drops nothing needlessly: the   *)
(* result contains every requested set that supports itself.               *)
THEOREM ResultIsGreatest == Spec => []GreatestConsistent
<1>1. Init => KeepsConsistent
  BY DEF Init, KeepsConsistent
<1>2. TypeOK /\ KeepsConsistent /\ [Next]_vars => KeepsConsistent'
  BY KeepsConsistentStep
<1>3. KeepsConsistent => GreatestConsistent
  BY DEF KeepsConsistent, GreatestConsistent
<1> QED
  BY <1>1, <1>2, <1>3, TypeCorrect, PTL DEF Spec
-----------------------------------------------------------------------------
(* As soon as a round has dropped a feature, the map is smaller than the   *)
(* snapshot.                                                               *)
DropsShrink == pc # "done" /\ changed => Smaller(mutable, frozen)

(* It stays smaller until the next snapshot is taken.                      *)
LEMMA DropsShrinkStep == TypeOK /\ RoundSound /\ DropsShrink /\ [Next]_vars => DropsShrink'
<1> SUFFICES ASSUME TypeOK, RoundSound, DropsShrink, [Next]_vars PROVE DropsShrink'
  OBVIOUS
<1>1. CASE BeginRound
  BY <1>1 DEF DropsShrink, BeginRound
<1>2. ASSUME NEW f \in Feature, Keep(f) PROVE DropsShrink'
  BY <1>2 DEF DropsShrink, Keep, Smaller
<1>3. ASSUME NEW f \in Feature, Drop(f) PROVE DropsShrink'
  <2>1. /\ pc = "check" /\ f \in frozen /\ mutable \subseteq frozen
        /\ mutable' = mutable \ {f} /\ frozen' = frozen
    BY <1>3 DEF Drop, TypeOK, RoundSound
  <2> QED
    BY <2>1 DEF DropsShrink, Smaller
<1>4. CASE EndRound
  BY <1>4 DEF DropsShrink, EndRound, Smaller
<1>5. CASE UNCHANGED vars
  BY <1>5 DEF DropsShrink, vars, Smaller
<1> QED
  BY <1>1, <1>2, <1>3, <1>4, <1>5 DEF Next

(* The loop comes to an end when there are finitely many features, for     *)
(* every step descends: there is no cycle in it, whatever the conditions.  *)
THEOREM LoopDescends == Spec => [][StepsDescend]_vars
<1>1. Init => RoundSound /\ DropsShrink
  BY DEF Init, RoundSound, DropsShrink
<1>2. RoundSound /\ [Next]_vars => RoundSound'
  BY RoundSoundStep
<1>3. TypeOK /\ RoundSound /\ DropsShrink /\ [Next]_vars => DropsShrink'
  BY DropsShrinkStep
<1>4. TypeOK /\ RoundSound /\ DropsShrink /\ Next => StepsDescend
  <2> SUFFICES ASSUME TypeOK, RoundSound, DropsShrink, Next PROVE StepsDescend
    OBVIOUS
  <2>1. CASE BeginRound
    BY <2>1 DEF StepsDescend, BeginRound, DropsShrink
  <2>2. ASSUME NEW f \in Feature, Keep(f) PROVE StepsDescend
    BY <2>2 DEF StepsDescend, Keep, Smaller
  <2>3. ASSUME NEW f \in Feature, Drop(f) PROVE StepsDescend
    BY <2>3 DEF StepsDescend, Drop, Smaller
  <2>4. CASE EndRound
    BY <2>4 DEF StepsDescend, EndRound, RoundSound, TypeOK
  <2> QED
    BY <2>1, <2>2, <2>3, <2>4 DEF Next
<1> QED
  BY <1>1, <1>2, <1>3, <1>4, TypeCorrect, PTL DEF Spec
-----------------------------------------------------------------------------
(* The words of the grammar are different, and none is the end of a text.  *)
LEMMA Words ==
  /\ Word("and") # Word("or") /\ Word("and") # Word("not") /\ Word("and") # LPAREN
  /\ Word("and") # RPAREN /\ Word("or") # Word("not") /\ Word("or") # LPAREN
  /\ Word("or") # RPAREN /\ Word("not") # LPAREN /\ Word("not") # RPAREN
  /\ LPAREN # RPAREN
  /\ Word("") \notin {Word("and"), Word("or"), Word("not"), LPAREN, RPAREN}
BY Zenon DEF Word, LPAREN, RPAREN

(* Where a text has a word it has a token.                                 *)
LEMMA PeekInside ==
  ASSUME NEW e, IsText(e), NEW i, Peek(e, i) # Word("")
  PROVE  i \in 1 .. Len(e.tokens) /\ Peek(e, i) = e.tokens[i]
<1>1. DOMAIN e.tokens = 1 .. Len(e.tokens)
  BY SeqOfElements DEF IsText
<1> QED
  BY <1>1 DEF Peek

(* The negation of a truth value is one.                                   *)
LEMMA Negated ==
  ASSUME NEW v \in BOOLEAN PROVE (~v) \in BOOLEAN
OBVIOUS

(* What the parser makes of the places from i on, by level, given the      *)
(* results at of later places.                                             *)
Row(e, s, at, i) ==
  [level \in Level |->
     CASE level = "factor" -> ParseFactor(e, s, at, i)
       [] level = "term" -> ParseTerm(e, s, at, i)
       [] level = "expr" -> ParseExpr(e, s, at, i)]

(* A row by its levels.                                                    *)
LEMMA RowLevels ==
  ASSUME NEW e, NEW s, NEW at, NEW i
  PROVE  /\ DOMAIN Row(e, s, at, i) = Level
         /\ Row(e, s, at, i)["factor"] = ParseFactor(e, s, at, i)
         /\ Row(e, s, at, i)["term"] = ParseTerm(e, s, at, i)
         /\ Row(e, s, at, i)["expr"] = ParseExpr(e, s, at, i)
BY DEF Row, Level

(* A value and a later place to go on from, the end of the text included.  *)
Result(e, i) == {Parsed(v, m) : v \in BOOLEAN, m \in (i + 1) .. (Len(e.tokens) + 1)}

(* The parts of a result.                                                  *)
LEMMA ResultParts ==
  ASSUME NEW e, NEW i, NEW r \in Result(e, i)
  PROVE  /\ r = Parsed(r.value, r.next) /\ r.value \in BOOLEAN
         /\ r.next \in (i + 1) .. (Len(e.tokens) + 1)
BY DEF Result, Parsed

(* What is a result.                                                       *)
LEMMA InResult ==
  ASSUME NEW e, NEW i, NEW v \in BOOLEAN, NEW m \in (i + 1) .. (Len(e.tokens) + 1)
  PROVE  Parsed(v, m) \in Result(e, i)
BY DEF Result

(* The fields of what is parsed.                                           *)
LEMMA ParsedParts ==
  ASSUME NEW v, NEW m PROVE Parsed(v, m).value = v /\ Parsed(v, m).next = m
BY DEF Parsed

(* What follows an operator is taken over.                                 *)
Both(a, b) == a /\ b
Either(a, b) == a \/ b

LEMMA AfterAnd ==
  ASSUME NEW e, NEW at, NEW a, NEW k, NEW b, NEW j, Peek(e, k) = Word("and"),
         at[k + 1]["term"] = {Parsed(b, j)}
  PROVE  AndRest(e, at, Parsed(a, k)) = {Parsed(Both(a, b), j)}
<1>1. AndRest(e, at, Parsed(a, k)) = {Parsed(a /\ right.value, right.next) : right \in {Parsed(b, j)}}
  BY ParsedParts DEF AndRest
<1> QED
  BY <1>1, ParsedParts DEF Both

LEMMA AfterOr ==
  ASSUME NEW e, NEW at, NEW a, NEW k, NEW b, NEW j, Peek(e, k) = Word("or"),
         at[k + 1]["expr"] = {Parsed(b, j)}
  PROVE  OrRest(e, at, Parsed(a, k)) = {Parsed(Either(a, b), j)}
<1>1. OrRest(e, at, Parsed(a, k)) = {Parsed(a \/ right.value, right.next) : right \in {Parsed(b, j)}}
  BY ParsedParts DEF OrRest
<1> QED
  BY <1>1, ParsedParts DEF Either

(* Results of later places end later.                                      *)
Later(e, at, i) ==
  \A j \in (i + 1) .. (Len(e.tokens) + 1), level \in Level : at[j][level] \subseteq Result(e, j)

(* A factor ends after the place it starts at, as the operands in it do.   *)
LEMMA FactorLater ==
  ASSUME NEW e, IsText(e), NEW s, NEW at, NEW i \in 1 .. (Len(e.tokens) + 1), Later(e, at, i)
  PROVE  ParseFactor(e, s, at, i) \subseteq Result(e, i)
<1>0. Len(e.tokens) \in Nat
  BY DEF IsText
<1>1. CASE i > Len(e.tokens)
  BY <1>1, <1>0 DEF ParseFactor
<1> SUFFICES ASSUME i <= Len(e.tokens), NEW r \in ParseFactor(e, s, at, i) PROVE r \in Result(e, i)
  BY <1>0, <1>1
<1>2. i + 1 \in (i + 1) .. (Len(e.tokens) + 1)
  BY <1>0
<1>3. at[i + 1]["factor"] \subseteq Result(e, i + 1) /\ at[i + 1]["expr"] \subseteq Result(e, i + 1)
  BY <1>2 DEF Later, Level
<1>4. ASSUME NEW q \in Result(e, i + 1) PROVE Parsed(~q.value, q.next) \in Result(e, i)
  <2>1. q.value \in BOOLEAN /\ q.next \in (i + 1) .. (Len(e.tokens) + 1)
    BY <1>0, <1>4, ResultParts
  <2>2. (~q.value) \in BOOLEAN
    BY <2>1, Negated
  <2> QED
    BY <2>1, <2>2, InResult
<1>5. ASSUME NEW q \in Result(e, i + 1), Peek(e, q.next) = RPAREN PROVE Parsed(q.value, q.next + 1) \in Result(e, i)
  <2>1. q.value \in BOOLEAN /\ q.next \in (i + 2) .. (Len(e.tokens) + 1)
    BY <1>0, <1>5, ResultParts
  <2>2. q.next \in 1 .. Len(e.tokens)
    BY <1>5, Words, PeekInside
  <2>3. q.next + 1 \in (i + 1) .. (Len(e.tokens) + 1)
    BY <1>0, <2>1, <2>2
  <2> QED
    BY <2>1, <2>3, InResult
<1>6. FeatureIsSupported(e.ctx, s, Peek(e, i)) \in BOOLEAN
  BY DEF FeatureIsSupported
<1>7. Parsed(FeatureIsSupported(e.ctx, s, Peek(e, i)), i + 1) \in Result(e, i)
  BY <1>2, <1>6 DEF Result
<1>8. CASE Peek(e, i) = Word("not")
  BY <1>0, <1>8, <1>3, <1>4 DEF ParseFactor
<1>9. CASE Peek(e, i) # Word("not") /\ Peek(e, i) = LPAREN
  BY <1>0, <1>9, <1>3, <1>5 DEF ParseFactor
<1>10. CASE Peek(e, i) # Word("not") /\ Peek(e, i) # LPAREN
  BY <1>0, <1>10, <1>7 DEF ParseFactor
<1> QED
  BY <1>8, <1>9, <1>10

(* The rest of a term or an expression is read from a later place.         *)
LEMMA RestLater ==
  ASSUME NEW e, IsText(e), NEW at, NEW i \in 1 .. (Len(e.tokens) + 1), Later(e, at, i),
         NEW left \in Result(e, i)
  PROVE  /\ AndRest(e, at, left) \subseteq Result(e, i)
         /\ OrRest(e, at, left) \subseteq Result(e, i)
<1>0. Len(e.tokens) \in Nat
  BY DEF IsText
<1>1. left.value \in BOOLEAN /\ left.next \in (i + 1) .. (Len(e.tokens) + 1)
  BY ResultParts
<1>2. ASSUME Peek(e, left.next) \in {Word("and"), Word("or")}, NEW level \in Level,
             NEW right \in at[left.next + 1][level]
      PROVE  /\ Parsed(left.value /\ right.value, right.next) \in Result(e, i)
             /\ Parsed(left.value \/ right.value, right.next) \in Result(e, i)
  <2>1. left.next \in 1 .. Len(e.tokens)
    BY <1>2, Words, PeekInside
  <2>2. left.next + 1 \in (i + 1) .. (Len(e.tokens) + 1)
    BY <1>0, <1>1, <2>1
  <2>3. right \in Result(e, left.next + 1)
    BY <1>2, <2>2 DEF Later
  <2>4. right.value \in BOOLEAN /\ right.next \in (left.next + 2) .. (Len(e.tokens) + 1)
    BY <1>0, <1>1, <2>3, ResultParts
  <2>5. right.next \in (i + 1) .. (Len(e.tokens) + 1)
    BY <1>0, <1>1, <2>4
  <2>6. (left.value /\ right.value) \in BOOLEAN /\ (left.value \/ right.value) \in BOOLEAN
    OBVIOUS
  <2> QED
    BY <2>5, <2>6, InResult
<1>3. AndRest(e, at, left) \subseteq Result(e, i)
  BY <1>2 DEF AndRest, Level
<1>4. OrRest(e, at, left) \subseteq Result(e, i)
  BY <1>2 DEF OrRest, Level
<1> QED
  BY <1>3, <1>4

(* So does everything the parser reads.                                    *)
LEMMA RowLater ==
  ASSUME NEW e, IsText(e), NEW s, NEW at, NEW i \in 1 .. (Len(e.tokens) + 1), Later(e, at, i)
  PROVE  /\ ParseFactor(e, s, at, i) \subseteq Result(e, i)
         /\ ParseTerm(e, s, at, i) \subseteq Result(e, i)
         /\ ParseExpr(e, s, at, i) \subseteq Result(e, i)
<1>1. ParseFactor(e, s, at, i) \subseteq Result(e, i)
  BY FactorLater
<1>2. ParseTerm(e, s, at, i) \subseteq Result(e, i)
  BY <1>1, RestLater DEF ParseTerm
<1>3. ParseExpr(e, s, at, i) \subseteq Result(e, i)
  BY <1>2, RestLater DEF ParseExpr
<1> QED
  BY <1>1, <1>2, <1>3

(* g and h have the same rows after i.                                     *)
Agree(e, g, h, i) == \A j \in (i + 1) .. (Len(e.tokens) + 1) : g[j] = h[j]

(* A factor depends on the rows of later places only.                      *)
LEMMA FactorSame ==
  ASSUME NEW e, IsText(e), NEW s, NEW i \in 1 .. (Len(e.tokens) + 1),
         NEW g, NEW h, Agree(e, g, h, i)
  PROVE  ParseFactor(e, s, h, i) = ParseFactor(e, s, g, i)
<1>1. CASE i > Len(e.tokens)
  BY <1>1 DEF ParseFactor
<1>2. CASE i <= Len(e.tokens)
  <2>1. i + 1 \in (i + 1) .. (Len(e.tokens) + 1)
    BY <1>2 DEF IsText
  <2>2. g[i + 1] = h[i + 1]
    BY <2>1 DEF Agree
  <2> QED
    BY <2>2 DEF ParseFactor
<1> QED
  BY <1>1, <1>2 DEF IsText

(* So does the rest of a term or an expression.                            *)
LEMMA RestSame ==
  ASSUME NEW e, IsText(e), NEW i \in 1 .. (Len(e.tokens) + 1),
         NEW g, NEW h, Agree(e, g, h, i), NEW left \in Result(e, i)
  PROVE  AndRest(e, h, left) = AndRest(e, g, left) /\ OrRest(e, h, left) = OrRest(e, g, left)
<1>0. Len(e.tokens) \in Nat
  BY DEF IsText
<1>1. left.next \in (i + 1) .. (Len(e.tokens) + 1)
  BY ResultParts
<1>2. CASE Peek(e, left.next) \in {Word("and"), Word("or")}
  <2>1. left.next \in 1 .. Len(e.tokens)
    BY <1>2, Words, PeekInside
  <2>2. left.next + 1 \in (i + 1) .. (Len(e.tokens) + 1)
    BY <1>0, <1>1, <2>1
  <2>3. g[left.next + 1] = h[left.next + 1]
    BY <2>2 DEF Agree
  <2> QED
    BY <2>3 DEF AndRest, OrRest
<1>3. CASE Peek(e, left.next) \notin {Word("and"), Word("or")}
  BY <1>3 DEF AndRest, OrRest
<1> QED
  BY <1>2, <1>3

(* And so does a row.                                                      *)
LEMMA RowSame ==
  ASSUME NEW e, IsText(e), NEW s, NEW i \in 1 .. (Len(e.tokens) + 1),
         NEW g, NEW h, Agree(e, g, h, i), Later(e, g, i)
  PROVE  Row(e, s, h, i) = Row(e, s, g, i)
<1>1. ParseFactor(e, s, h, i) = ParseFactor(e, s, g, i)
  BY FactorSame
<1>2. ParseTerm(e, s, h, i) = ParseTerm(e, s, g, i)
  BY <1>1, RestSame, RowLater DEF ParseTerm
<1>3. ParseExpr(e, s, h, i) = ParseExpr(e, s, g, i)
  BY <1>2, RestSame, RowLater DEF ParseExpr
<1> QED
  BY <1>1, <1>2, <1>3 DEF Row

(* The rows of the places from n on.                                       *)
Rows(e, s, n, g) ==
  /\ g = [i \in n .. (Len(e.tokens) + 1) |-> Row(e, s, g, i)]
  /\ \A i \in n .. (Len(e.tokens) + 1), level \in Level : g[i][level] \subseteq Result(e, i)

(* Rows from the place after n on give rows from n on.                     *)
LEMMA RowsExtend ==
  ASSUME NEW e, IsText(e), NEW s, NEW n \in 1 .. (Len(e.tokens) + 1),
         NEW g, Rows(e, s, n + 1, g)
  PROVE  \E h : Rows(e, s, n, h)
<1> DEFINE N == Len(e.tokens) + 1
           h == [i \in n .. N |-> IF i = n THEN Row(e, s, g, n) ELSE g[i]]
<1>0. N \in Nat
  BY DEF IsText
<1>1. ASSUME NEW i \in n .. N PROVE Agree(e, g, h, i) /\ Later(e, g, i)
  <2>1. ASSUME NEW j \in (i + 1) .. N
        PROVE  g[j] = h[j] /\ \A level \in Level : g[j][level] \subseteq Result(e, j)
    <3>1. j \in (n + 1) .. N /\ j \in n .. N /\ j # n
      BY <1>0
    <3>2. h[j] = g[j]
      BY <3>1
    <3> QED
      BY <3>1, <3>2 DEF Rows
  <2> QED
    BY <2>1 DEF Agree, Later
<1>2. ASSUME NEW i \in n .. N PROVE h[i] = Row(e, s, g, i)
  <2>1. i # n => i \in (n + 1) .. N
    BY <1>0
  <2>2. i # n => g[i] = Row(e, s, g, i)
    BY <2>1 DEF Rows
  <2> QED
    BY <2>2
<1>3. h = [i \in n .. N |-> h[i]]
  OBVIOUS
<1> HIDE DEF h, N
<1>4. ASSUME NEW i \in n .. N PROVE h[i] = Row(e, s, h, i)
  <2>1. i \in 1 .. (Len(e.tokens) + 1)
    BY <1>0 DEF N
  <2> QED
    BY <1>1, <1>2, <2>1, RowSame
<1>5. ASSUME NEW i \in n .. N, NEW level \in Level PROVE h[i][level] \subseteq Result(e, i)
  <2>1. i \in 1 .. (Len(e.tokens) + 1)
    BY <1>0 DEF N
  <2> QED
    BY <1>1, <1>2, <2>1, RowLater, RowLevels DEF Level
<1>6. h = [i \in n .. N |-> Row(e, s, h, i)]
  BY <1>3, <1>4
<1> QED
  BY <1>5, <1>6 DEF Rows, N

(* The results of the parser exist: every place has the row that the rows  *)
(* of later places give it, and its results end later.                     *)
LEMMA ParsesDefined ==
  ASSUME NEW e, IsText(e), NEW s
  PROVE  /\ \A i \in 1 .. (Len(e.tokens) + 1) :
              Parses(e, s)[i] = Row(e, s, Parses(e, s), i)
         /\ \A i \in 1 .. (Len(e.tokens) + 1) : Later(e, Parses(e, s), i)
<1> DEFINE N == Len(e.tokens) + 1
           at == Parses(e, s)
           Solved == {n \in 1 .. N : \E g : Rows(e, s, n, g)}
           Good == {n \in 1 .. N : \A level \in Level : at[n][level] \subseteq Result(e, n)}
<1>0. N \in Nat /\ N >= 1
  BY DEF IsText
<1>1. ASSUME NEW n \in 1 .. N, \A j \in (n + 1) .. N : j \in Solved PROVE n \in Solved
  <2>1. CASE n = N
    <3> DEFINE e0 == [i \in (n + 1) .. N |-> 0]
    <3>1. (n + 1) .. N = {}
      BY <2>1, <1>0
    <3>2. Rows(e, s, n + 1, e0)
      BY <3>1 DEF Rows
    <3> QED
      BY <3>2, RowsExtend
  <2>2. CASE n # N
    <3>1. n + 1 \in (n + 1) .. N
      BY <2>2, <1>0
    <3> QED
      BY <3>1, <1>1, RowsExtend
  <2> QED
    BY <2>1, <2>2
<1>2. 1 \in Solved
  <2> HIDE DEF Solved, N
  <2>1. \A n \in 1 .. N : n \in Solved
    BY <1>0, <1>1, Backwards
  <2> QED
    BY <1>0, <2>1
<1>3. at = [i \in 1 .. N |-> Row(e, s, at, i)]
  <2>1. PICK g : g = [i \in 1 .. N |-> Row(e, s, g, i)]
    BY <1>2 DEF Rows
  <2>2. at = CHOOSE h : h = [i \in 1 .. N |-> Row(e, s, h, i)]
    BY DEF Parses, Row
  <2> HIDE DEF at
  <2> QED
    BY <2>1, <2>2
<1>4. \A i \in 1 .. N : at[i] = Row(e, s, at, i)
  <2> HIDE DEF at
  <2> QED
    BY <1>3
<1> HIDE DEF at
<1>5. ASSUME NEW n \in 1 .. N, \A j \in (n + 1) .. N : j \in Good PROVE n \in Good
  <2>1. Later(e, at, n)
    BY <1>5 DEF Later
  <2>2. \A level \in Level : at[n][level] \subseteq Result(e, n)
    BY <2>1, <1>4, RowLater, RowLevels DEF Level
  <2> QED
    BY <2>2
<1>6. \A n \in 1 .. N : n \in Good
  <2> HIDE DEF Good, N
  <2> QED
    BY <1>0, <1>5, Backwards
<1>7. \A i \in 1 .. N : Later(e, at, i)
  BY <1>0, <1>6 DEF Later
<1> QED
  BY <1>4, <1>7 DEF at
-----------------------------------------------------------------------------
(* The values the grammar gives the tokens i to j, by level, given those   *)
(* of the tokens from later places on; and those for every j.              *)
Cell(e, s, of, i, j) ==
  [level \in Level |->
     CASE level = "factor" -> FactorValues(e, s, of, i, j)
       [] level = "term" -> TermValues(e, s, of, i, j)
       [] level = "expr" -> ExprValues(e, s, of, i, j)]
Sentence(e, s, of, i) == [j \in 0 .. Len(e.tokens) |-> Cell(e, s, of, i, j)]

(* They are those of the grammar's rules.                                  *)
LEMMA SentenceLevels ==
  ASSUME NEW e, NEW s, NEW of, NEW i, NEW j \in 0 .. Len(e.tokens)
  PROVE  /\ Sentence(e, s, of, i)[j]["factor"] = FactorValues(e, s, of, i, j)
         /\ Sentence(e, s, of, i)[j]["term"] = TermValues(e, s, of, i, j)
         /\ Sentence(e, s, of, i)[j]["expr"] = ExprValues(e, s, of, i, j)
BY DEF Sentence, Cell, Level

(* They depend on those from later places only.                            *)
LEMMA SentenceSame ==
  ASSUME NEW e, IsText(e), NEW s, NEW i \in 1 .. (Len(e.tokens) + 1),
         NEW g, NEW h, Agree(e, g, h, i)
  PROVE  Sentence(e, s, h, i) = Sentence(e, s, g, i)
<1>0. Len(e.tokens) \in Nat
  BY DEF IsText
<1>1. ASSUME NEW j \in Int, j <= Len(e.tokens)
      PROVE  FactorValues(e, s, h, i, j) = FactorValues(e, s, g, i, j)
  <2>1. CASE i > j
    BY <2>1 DEF FactorValues
  <2>2. CASE i <= j
    <3>1. i + 1 \in (i + 1) .. (Len(e.tokens) + 1)
      BY <1>0, <1>1, <2>2
    <3> QED
      BY <3>1 DEF FactorValues, Agree
  <2> QED
    BY <1>1, <2>1, <2>2
<1>2. ASSUME NEW j \in Int, j <= Len(e.tokens), NEW word, NEW k \in Places(e, word, i, j)
      PROVE  g[k + 1] = h[k + 1] /\ k - 1 \in Int /\ k - 1 <= Len(e.tokens)
  <2>1. k \in i .. j
    BY DEF Places
  <2>2. k + 1 \in (i + 1) .. (Len(e.tokens) + 1) /\ k - 1 \in Int /\ k - 1 <= Len(e.tokens)
    BY <1>0, <1>2, <2>1
  <2> QED
    BY <2>2 DEF Agree
<1>3. ASSUME NEW j \in Int, j <= Len(e.tokens)
      PROVE  TermValues(e, s, h, i, j) = TermValues(e, s, g, i, j)
  BY <1>1, <1>2, <1>3 DEF TermValues
<1>4. ASSUME NEW j \in Int, j <= Len(e.tokens)
      PROVE  ExprValues(e, s, h, i, j) = ExprValues(e, s, g, i, j)
  BY <1>2, <1>3, <1>4 DEF ExprValues
<1>5. \A j \in 0 .. Len(e.tokens) : j \in Int /\ j <= Len(e.tokens)
  BY <1>0
<1>6. ASSUME NEW j \in 0 .. Len(e.tokens) PROVE Cell(e, s, h, i, j) = Cell(e, s, g, i, j)
  <2>1. /\ FactorValues(e, s, h, i, j) = FactorValues(e, s, g, i, j)
        /\ TermValues(e, s, h, i, j) = TermValues(e, s, g, i, j)
        /\ ExprValues(e, s, h, i, j) = ExprValues(e, s, g, i, j)
    BY <1>1, <1>3, <1>4, <1>5
  <2> QED
    BY <2>1 DEF Cell
<1> QED
  BY <1>6 DEF Sentence

(* The values from the places from n on.                                   *)
Sentences(e, s, n, g) ==
  g = [i \in n .. (Len(e.tokens) + 1) |-> Sentence(e, s, g, i)]

(* Those from the place after n on give those from n on.                   *)
LEMMA SentencesExtend ==
  ASSUME NEW e, IsText(e), NEW s, NEW n \in 1 .. (Len(e.tokens) + 1),
         NEW g, Sentences(e, s, n + 1, g)
  PROVE  \E h : Sentences(e, s, n, h)
<1> DEFINE N == Len(e.tokens) + 1
           h == [i \in n .. N |-> IF i = n THEN Sentence(e, s, g, n) ELSE g[i]]
<1>0. N \in Nat
  BY DEF IsText
<1>1. ASSUME NEW i \in n .. N PROVE Agree(e, g, h, i)
  <2>1. ASSUME NEW j \in (i + 1) .. N PROVE g[j] = h[j]
    <3>1. j \in n .. N /\ j # n
      BY <1>0
    <3> QED
      BY <3>1
  <2> QED
    BY <2>1 DEF Agree
<1>2. ASSUME NEW i \in n .. N PROVE h[i] = Sentence(e, s, g, i)
  <2>1. i # n => i \in (n + 1) .. N
    BY <1>0
  <2>2. i # n => g[i] = Sentence(e, s, g, i)
    BY <2>1 DEF Sentences
  <2> QED
    BY <2>2
<1>3. h = [i \in n .. N |-> h[i]]
  OBVIOUS
<1> HIDE DEF h, N
<1>4. ASSUME NEW i \in n .. N PROVE h[i] = Sentence(e, s, h, i)
  <2>1. i \in 1 .. (Len(e.tokens) + 1)
    BY <1>0 DEF N
  <2> QED
    BY <1>1, <1>2, <2>1, SentenceSame
<1>6. h = [i \in n .. N |-> Sentence(e, s, h, i)]
  BY <1>3, <1>4
<1> QED
  BY <1>6 DEF Sentences, N

(* So the values of the grammar exist.                                     *)
LEMMA MeaningsDefined ==
  ASSUME NEW e, IsText(e), NEW s
  PROVE  \A i \in 1 .. (Len(e.tokens) + 1) :
           Meanings(e, s)[i] = Sentence(e, s, Meanings(e, s), i)
<1> DEFINE N == Len(e.tokens) + 1
           of == Meanings(e, s)
           Solved == {n \in 1 .. N : \E g : Sentences(e, s, n, g)}
<1>0. N \in Nat /\ N >= 1
  BY DEF IsText
<1>1. ASSUME NEW n \in 1 .. N, \A j \in (n + 1) .. N : j \in Solved PROVE n \in Solved
  <2>1. CASE n = N
    <3> DEFINE e0 == [i \in (n + 1) .. N |-> 0]
    <3>1. (n + 1) .. N = {}
      BY <2>1, <1>0
    <3>2. Sentences(e, s, n + 1, e0)
      BY <3>1 DEF Sentences
    <3> QED
      BY <3>2, SentencesExtend
  <2>2. CASE n # N
    <3>1. n + 1 \in (n + 1) .. N
      BY <2>2, <1>0
    <3> QED
      BY <3>1, <1>1, SentencesExtend
  <2> QED
    BY <2>1, <2>2
<1>2. 1 \in Solved
  <2> HIDE DEF Solved, N
  <2>1. \A n \in 1 .. N : n \in Solved
    BY <1>0, <1>1, Backwards
  <2> QED
    BY <1>0, <2>1
<1>3. of = [i \in 1 .. N |-> Sentence(e, s, of, i)]
  <2>1. PICK g : g = [i \in 1 .. N |-> Sentence(e, s, g, i)]
    BY <1>2 DEF Sentences
  <2>2. of = CHOOSE h : h = [i \in 1 .. N |-> Sentence(e, s, h, i)]
    BY DEF Meanings, Sentence, Cell
  <2> HIDE DEF of
  <2> QED
    BY <2>1, <2>2
<1>4. \A i \in 1 .. N : of[i] = Sentence(e, s, of, i)
  <2> HIDE DEF of
  <2> QED
    BY <1>3
<1> QED
  BY <1>4
-----------------------------------------------------------------------------
(* The parser reads, at i, whatever the grammar gives a value that is not  *)
(* followed by an operator the parser would go on with, and gives it that  *)
(* value.                                                                  *)
Reads(e, s, i, level) ==
  \A j \in 0 .. Len(e.tokens) : \A v \in Meanings(e, s)[i][j][level] :
    /\ level # "factor" => Peek(e, j + 1) # Word("and")
    /\ level = "expr" => Peek(e, j + 1) # Word("or")
    => Parses(e, s)[i][level] = {Parsed(v, j + 1)}

(* It does so at every place, by induction from the end of the text.       *)
LEMMA ParserComplete ==
  ASSUME NEW e, IsText(e), NEW s
  PROVE  \A i \in 1 .. (Len(e.tokens) + 1) : \A level \in Level : Reads(e, s, i, level)
<1> DEFINE N == Len(e.tokens) + 1
           at == Parses(e, s)
           of == Meanings(e, s)
           Good == {i \in 1 .. N : \A level \in Level : Reads(e, s, i, level)}
<1>0. Len(e.tokens) \in Nat /\ N \in Nat
  BY DEF IsText
<1>1. ASSUME NEW i \in 1 .. N, \A j \in (i + 1) .. N : j \in Good PROVE i \in Good
  <2>1. /\ at[i]["factor"] = ParseFactor(e, s, at, i)
        /\ at[i]["term"] = ParseTerm(e, s, at, i)
        /\ at[i]["expr"] = ParseExpr(e, s, at, i)
    BY ParsesDefined, RowLevels
  <2>2. \A j \in 0 .. Len(e.tokens) :
          /\ of[i][j]["factor"] = FactorValues(e, s, of, i, j)
          /\ of[i][j]["term"] = TermValues(e, s, of, i, j)
          /\ of[i][j]["expr"] = ExprValues(e, s, of, i, j)
    BY MeaningsDefined, SentenceLevels
  <2> HIDE DEF at, of
  <2>3. ASSUME NEW j \in 0 .. Len(e.tokens), NEW k \in (i + 1) .. N, NEW level \in Level,
               NEW v \in of[k][j][level],
               level # "factor" => Peek(e, j + 1) # Word("and"),
               level = "expr" => Peek(e, j + 1) # Word("or")
        PROVE  at[k][level] = {Parsed(v, j + 1)}
    BY <1>1, <2>3 DEF Reads, at, of
  <2>4. ASSUME NEW j \in 0 .. Len(e.tokens), NEW v \in FactorValues(e, s, of, i, j)
        PROVE  ParseFactor(e, s, at, i) = {Parsed(v, j + 1)}
    <3>1. i <= j /\ i + 1 \in (i + 1) .. N /\ ~(i > Len(e.tokens))
      BY <1>0, <2>4 DEF FactorValues
    <3>2. CASE Peek(e, i) = Word("not")
      <4>1. PICK w \in of[i + 1][j]["factor"] : v = ~w
        BY <2>4, <3>1, <3>2 DEF FactorValues
      <4>2. at[i + 1]["factor"] = {Parsed(w, j + 1)}
        BY <2>3, <3>1, <4>1 DEF Level
      <4> QED
        BY <3>1, <3>2, <4>1, <4>2, ParsedParts DEF ParseFactor
    <3>3. CASE Peek(e, i) # Word("not") /\ Peek(e, i) = LPAREN
      <4>1. Peek(e, j) = RPAREN /\ v \in of[i + 1][j - 1]["expr"]
        BY <2>4, <3>1, <3>3 DEF FactorValues
      <4>2. j - 1 \in 0 .. Len(e.tokens) /\ (j - 1) + 1 = j
        BY <1>0, <3>1
      <4>3. at[i + 1]["expr"] = {Parsed(v, j)}
        <5>1. Peek(e, (j - 1) + 1) # Word("and") /\ Peek(e, (j - 1) + 1) # Word("or")
          BY <4>1, <4>2, Words
        <5>2. at[i + 1]["expr"] = {Parsed(v, (j - 1) + 1)}
          BY <2>3, <3>1, <4>1, <4>2, <5>1 DEF Level
        <5> QED
          BY <4>2, <5>2
      <4> QED
        BY <3>1, <3>3, <4>1, <4>3, ParsedParts DEF ParseFactor
    <3>4. CASE Peek(e, i) # Word("not") /\ Peek(e, i) # LPAREN
      <4>1. i = j /\ v = FeatureIsSupported(e.ctx, s, Peek(e, i))
        BY <2>4, <3>1, <3>4 DEF FactorValues
      <4> QED
        BY <3>1, <3>4, <4>1 DEF ParseFactor
    <3> QED
      BY <3>2, <3>3, <3>4
  <2>5. ASSUME NEW j \in 0 .. Len(e.tokens), NEW word, NEW k \in Places(e, word, i, j)
        PROVE  /\ k \in i .. j /\ Peek(e, k) = Word(word)
               /\ k - 1 \in 0 .. Len(e.tokens) /\ (k - 1) + 1 = k /\ k + 1 \in (i + 1) .. N
    BY <1>0 DEF Places
  <2>6. ASSUME NEW j \in 0 .. Len(e.tokens), NEW v \in TermValues(e, s, of, i, j),
               Peek(e, j + 1) # Word("and")
        PROVE  ParseTerm(e, s, at, i) = {Parsed(v, j + 1)}
    <3>1. CASE v \in FactorValues(e, s, of, i, j)
      <4>1. ParseFactor(e, s, at, i) = {Parsed(v, j + 1)}
        BY <2>4, <3>1
      <4>2. AndRest(e, at, Parsed(v, j + 1)) = {Parsed(v, j + 1)}
        BY <2>6, ParsedParts DEF AndRest
      <4> QED
        BY <4>1, <4>2 DEF ParseTerm
    <3>2. CASE v \notin FactorValues(e, s, of, i, j)
      <4>1. PICK k \in Places(e, "and", i, j) :
              \E a \in FactorValues(e, s, of, i, k - 1), b \in of[k + 1][j]["term"] : v = (a /\ b)
        BY <2>6, <3>2 DEF TermValues
      <4>2. PICK a \in FactorValues(e, s, of, i, k - 1), b \in of[k + 1][j]["term"] : v = (a /\ b)
        BY <4>1
      <4>3. ParseFactor(e, s, at, i) = {Parsed(a, k)}
        BY <2>4, <2>5, <4>2
      <4>4. at[k + 1]["term"] = {Parsed(b, j + 1)}
        BY <2>3, <2>5, <2>6, <4>2 DEF Level
      <4>5. Peek(e, k) = Word("and")
        BY <2>5
      <4>6. AndRest(e, at, Parsed(a, k)) = {Parsed(Both(a, b), j + 1)}
        BY <4>4, <4>5, AfterAnd
      <4>7. v = Both(a, b)
        BY <4>2 DEF Both
      <4> QED
        BY <4>3, <4>6, <4>7 DEF ParseTerm
    <3> QED
      BY <3>1, <3>2
  <2>7. ASSUME NEW j \in 0 .. Len(e.tokens), NEW v \in ExprValues(e, s, of, i, j),
               Peek(e, j + 1) # Word("and"), Peek(e, j + 1) # Word("or")
        PROVE  ParseExpr(e, s, at, i) = {Parsed(v, j + 1)}
    <3>1. CASE v \in TermValues(e, s, of, i, j)
      <4>1. ParseTerm(e, s, at, i) = {Parsed(v, j + 1)}
        BY <2>6, <2>7, <3>1
      <4>2. OrRest(e, at, Parsed(v, j + 1)) = {Parsed(v, j + 1)}
        BY <2>7, ParsedParts DEF OrRest
      <4> QED
        BY <4>1, <4>2 DEF ParseExpr
    <3>2. CASE v \notin TermValues(e, s, of, i, j)
      <4>1. PICK k \in Places(e, "or", i, j) :
              \E a \in TermValues(e, s, of, i, k - 1), b \in of[k + 1][j]["expr"] : v = (a \/ b)
        BY <2>7, <3>2 DEF ExprValues
      <4>2. PICK a \in TermValues(e, s, of, i, k - 1), b \in of[k + 1][j]["expr"] : v = (a \/ b)
        BY <4>1
      <4>3. ParseTerm(e, s, at, i) = {Parsed(a, k)}
        BY <2>5, <2>6, <4>2, Words
      <4>4. at[k + 1]["expr"] = {Parsed(b, j + 1)}
        BY <2>3, <2>5, <2>7, <4>2 DEF Level
      <4>5. Peek(e, k) = Word("or")
        BY <2>5
      <4>6. OrRest(e, at, Parsed(a, k)) = {Parsed(Either(a, b), j + 1)}
        BY <4>4, <4>5, AfterOr
      <4>7. v = Either(a, b)
        BY <4>2 DEF Either
      <4> QED
        BY <4>3, <4>6, <4>7 DEF ParseExpr
    <3> QED
      BY <3>1, <3>2
  <2>8. \A level \in Level : Reads(e, s, i, level)
    BY <2>1, <2>2, <2>4, <2>6, <2>7 DEF Reads, Level, at, of
  <2> QED
    BY <2>8
<1>2. \A i \in 1 .. N : i \in Good
  <2> HIDE DEF Good, N
  <2> QED
    BY <1>0, <1>1, Backwards
<1> QED
  BY <1>2

(* Where the grammar expects an operand: at the start and after a word of  *)
(* it that is no closing parenthesis.                                      *)
OperandAt(e, i) == i = 1 \/ e.tokens[i - 1] \in Reserved \ {RPAREN}

(* What the parser reads at i has the value in the grammar.                *)
Means(e, s, i, level) ==
  \A r \in Parses(e, s)[i][level] : r.value \in Meanings(e, s)[i][r.next - 1][level]

(* Where no word of the grammar stands for a feature, all the parser reads *)
(* at a place of an operand is a sentence of the grammar.                  *)
LEMMA ParserSound ==
  ASSUME NEW e, IsText(e), ~Misplaced(e), NEW s
  PROVE  \A i \in 1 .. (Len(e.tokens) + 1) :
           OperandAt(e, i) => \A level \in Level : Means(e, s, i, level)
<1> DEFINE N == Len(e.tokens) + 1
           at == Parses(e, s)
           of == Meanings(e, s)
           Good == {i \in 1 .. N : OperandAt(e, i) => \A level \in Level : Means(e, s, i, level)}
<1>0. Len(e.tokens) \in Nat /\ N \in Nat /\ DOMAIN e.tokens = 1 .. Len(e.tokens)
  BY SeqOfElements DEF IsText
<1>1. ASSUME NEW i \in 1 .. N, \A j \in (i + 1) .. N : j \in Good, OperandAt(e, i)
      PROVE  \A level \in Level : Means(e, s, i, level)
  <2>1. /\ at[i]["factor"] = ParseFactor(e, s, at, i)
        /\ at[i]["term"] = ParseTerm(e, s, at, i)
        /\ at[i]["expr"] = ParseExpr(e, s, at, i)
    BY ParsesDefined, RowLevels
  <2>2. \A j \in 0 .. Len(e.tokens) :
          /\ of[i][j]["factor"] = FactorValues(e, s, of, i, j)
          /\ of[i][j]["term"] = TermValues(e, s, of, i, j)
          /\ of[i][j]["expr"] = ExprValues(e, s, of, i, j)
    BY MeaningsDefined, SentenceLevels
  <2>3. /\ \A r \in ParseFactor(e, s, at, i) : r \in Result(e, i)
        /\ \A r \in ParseTerm(e, s, at, i) : r \in Result(e, i)
        /\ \A r \in ParseExpr(e, s, at, i) : r \in Result(e, i)
    BY ParsesDefined, RowLater
  <2>4. ASSUME NEW k \in (i + 1) .. N, NEW level \in Level, NEW r \in at[k][level]
        PROVE  r.next \in (k + 1) .. N
    BY <1>0, ParsesDefined, ResultParts DEF Later
  <2> HIDE DEF at, of
  <2>5. ASSUME NEW k \in i .. Len(e.tokens), Peek(e, k) \in Reserved \ {RPAREN},
               NEW level \in Level, NEW r \in at[k + 1][level]
        PROVE  /\ r.value \in of[k + 1][r.next - 1][level]
               /\ k + 1 \in (i + 1) .. N
               /\ r.next - 1 \in (k + 1) .. Len(e.tokens)
    <3>1. k + 1 \in (i + 1) .. N /\ (k + 1) - 1 = k /\ k \in DOMAIN e.tokens
      BY <1>0
    <3>2. Peek(e, k) = e.tokens[k]
      BY <3>1 DEF Peek
    <3>3. OperandAt(e, k + 1)
      BY <2>5, <3>1, <3>2 DEF OperandAt
    <3>4. r.next \in (k + 2) .. N
      BY <1>0, <2>4, <2>5, <3>1
    <3> QED
      BY <1>0, <1>1, <2>5, <3>1, <3>3, <3>4 DEF Means, at, of
  <2>6. ASSUME NEW r \in ParseFactor(e, s, at, i)
        PROVE  r.value \in FactorValues(e, s, of, i, r.next - 1)
    <3>1. i \in i .. Len(e.tokens) /\ i \in DOMAIN e.tokens /\ Peek(e, i) = e.tokens[i]
      <4>1. ~(i > Len(e.tokens))
        BY <2>6 DEF ParseFactor
      <4>2. i \in 1 .. Len(e.tokens)
        BY <1>0, <4>1
      <4> QED
        BY <1>0, <4>2 DEF Peek
    <3>2. CASE Peek(e, i) = Word("not")
      <4>1. PICK q \in at[i + 1]["factor"] : r = Parsed(~q.value, q.next)
        BY <2>6, <3>1, <3>2 DEF ParseFactor
      <4>2. q.value \in of[i + 1][q.next - 1]["factor"] /\ q.next - 1 \in (i + 1) .. Len(e.tokens)
        BY <2>5, <3>1, <3>2, <4>1, Words DEF Level, Reserved
      <4>3. r.value = ~q.value /\ r.next = q.next
        BY <4>1, ParsedParts
      <4> QED
        BY <3>1, <3>2, <4>2, <4>3 DEF FactorValues
    <3>3. CASE Peek(e, i) # Word("not") /\ Peek(e, i) = LPAREN
      <4>1. PICK q \in at[i + 1]["expr"] : Peek(e, q.next) = RPAREN /\ r = Parsed(q.value, q.next + 1)
        BY <2>6, <3>1, <3>3 DEF ParseFactor
      <4>2. q.value \in of[i + 1][q.next - 1]["expr"] /\ q.next - 1 \in (i + 1) .. Len(e.tokens)
        BY <2>5, <3>1, <3>3, <4>1, Words DEF Level, Reserved
      <4>3. q.next \in 1 .. Len(e.tokens)
        BY <4>1, Words, PeekInside
      <4>4. r.value = q.value /\ r.next - 1 = q.next /\ i <= q.next
        BY <1>0, <4>1, <4>2, <4>3, ParsedParts
      <4> QED
        BY <3>1, <3>3, <4>1, <4>2, <4>3, <4>4 DEF FactorValues
    <3>4. CASE Peek(e, i) # Word("not") /\ Peek(e, i) # LPAREN
      <4>1. r = Parsed(FeatureIsSupported(e.ctx, s, Peek(e, i)), i + 1)
        BY <2>6, <3>1, <3>4 DEF ParseFactor
      <4>2. Peek(e, i) \notin Reserved
        BY <1>1, <3>1, <3>4 DEF Misplaced, OperandAt, Reserved
      <4>3. r.value = FeatureIsSupported(e.ctx, s, Peek(e, i)) /\ r.next - 1 = i
        BY <1>0, <4>1, ParsedParts
      <4> QED
        BY <3>1, <3>4, <4>2, <4>3 DEF FactorValues
    <3> QED
      BY <3>2, <3>3, <3>4
  <2>7. ASSUME NEW left \in Result(e, i), NEW word, Word(word) \in Reserved \ {RPAREN},
               Peek(e, left.next) = Word(word),
               NEW level \in Level, NEW right \in at[left.next + 1][level]
        PROVE  /\ right.value \in of[left.next + 1][right.next - 1][level]
               /\ left.next \in Places(e, word, i, right.next - 1)
    <3>1. left.next \in (i + 1) .. N
      BY ResultParts
    <3>2. left.next \in 1 .. Len(e.tokens)
      BY <2>7, Words, PeekInside DEF Reserved
    <3>3. left.next \in i .. Len(e.tokens)
      BY <1>0, <3>1, <3>2
    <3>4. /\ right.value \in of[left.next + 1][right.next - 1][level]
          /\ right.next - 1 \in (left.next + 1) .. Len(e.tokens)
      BY <2>5, <2>7, <3>3
    <3> QED
      BY <1>0, <2>7, <3>3, <3>4 DEF Places
  <2>8. ASSUME NEW r \in ParseTerm(e, s, at, i)
        PROVE  r.value \in TermValues(e, s, of, i, r.next - 1)
    <3>1. PICK left \in ParseFactor(e, s, at, i) : r \in AndRest(e, at, left)
      BY <2>8 DEF ParseTerm
    <3>2. left.value \in FactorValues(e, s, of, i, left.next - 1) /\ left \in Result(e, i)
      BY <2>3, <2>6
    <3>3. CASE Peek(e, left.next) = Word("and")
      <4>1. PICK right \in at[left.next + 1]["term"] : r = Parsed(left.value /\ right.value, right.next)
        BY <3>1, <3>3 DEF AndRest
      <4>2. /\ right.value \in of[left.next + 1][right.next - 1]["term"]
            /\ left.next \in Places(e, "and", i, right.next - 1)
        BY <2>7, <3>2, <3>3, <4>1, Words DEF Level, Reserved
      <4>3. r.value = (left.value /\ right.value) /\ r.next = right.next
        BY <4>1, ParsedParts
      <4> QED
        BY <3>2, <4>2, <4>3 DEF TermValues
    <3>4. CASE Peek(e, left.next) # Word("and")
      BY <3>1, <3>2, <3>4 DEF AndRest, TermValues
    <3> QED
      BY <3>3, <3>4
  <2>9. ASSUME NEW r \in ParseExpr(e, s, at, i)
        PROVE  r.value \in ExprValues(e, s, of, i, r.next - 1)
    <3>1. PICK left \in ParseTerm(e, s, at, i) : r \in OrRest(e, at, left)
      BY <2>9 DEF ParseExpr
    <3>2. left.value \in TermValues(e, s, of, i, left.next - 1) /\ left \in Result(e, i)
      BY <2>3, <2>8
    <3>3. CASE Peek(e, left.next) = Word("or")
      <4>1. PICK right \in at[left.next + 1]["expr"] : r = Parsed(left.value \/ right.value, right.next)
        BY <3>1, <3>3 DEF OrRest
      <4>2. /\ right.value \in of[left.next + 1][right.next - 1]["expr"]
            /\ left.next \in Places(e, "or", i, right.next - 1)
        BY <2>7, <3>2, <3>3, <4>1, Words DEF Level, Reserved
      <4>3. r.value = (left.value \/ right.value) /\ r.next = right.next
        BY <4>1, ParsedParts
      <4> QED
        BY <3>2, <4>2, <4>3 DEF ExprValues
    <3>4. CASE Peek(e, left.next) # Word("or")
      BY <3>1, <3>2, <3>4 DEF OrRest, ExprValues
    <3> QED
      BY <3>3, <3>4
  <2>10. ASSUME NEW r \in Result(e, i) PROVE r.next - 1 \in 0 .. Len(e.tokens)
    BY <1>0, ResultParts
  <2> QED
    BY <2>1, <2>2, <2>3, <2>6, <2>8, <2>9, <2>10 DEF Means, Level, at, of
<1>2. \A i \in 1 .. N : i \in Good
  <2>1. ASSUME NEW i \in 1 .. N, \A j \in (i + 1) .. N : j \in Good PROVE i \in Good
    BY <1>1, <2>1
  <2> HIDE DEF Good, N
  <2> QED
    BY <1>0, <2>1, Backwards
<1> QED
  BY <1>2

(* evaluate_if_feature_expression is right for texts of any length: it     *)
(* answers TRUE for those, and only those, that are sentences of the       *)
(* grammar with the value TRUE, so FALSE for malformed ones, unless a word *)
(* of the grammar stands where a feature is expected.                      *)
THEOREM EvaluationIsTheGrammars ==
  ASSUME NEW e, IsText(e), ~Misplaced(e), NEW s
  PROVE  EvaluateIfFeature(e, s) <=> TRUE \in Values(e, s)
<1> DEFINE N == Len(e.tokens) + 1
<1>0. Len(e.tokens) \in 0 .. Len(e.tokens) /\ 1 \in 1 .. N /\ N - 1 = Len(e.tokens)
  BY DEF IsText
<1>1. ASSUME Parsed(TRUE, N) \in Parses(e, s)[1]["expr"] PROVE TRUE \in Values(e, s)
  <2>1. Means(e, s, 1, "expr")
    BY <1>0, ParserSound DEF OperandAt, Level
  <2>2. Parsed(TRUE, N).value = TRUE /\ Parsed(TRUE, N).next - 1 = Len(e.tokens)
    BY <1>0, ParsedParts
  <2> QED
    BY <1>0, <1>1, <2>1, <2>2 DEF Means, Values
<1>2. ASSUME TRUE \in Values(e, s) PROVE Parsed(TRUE, N) \in Parses(e, s)[1]["expr"]
  <2>1. Reads(e, s, 1, "expr")
    BY <1>0, ParserComplete DEF Level
  <2>2. Peek(e, N) = Word("")
    <3>1. N \notin 1 .. Len(e.tokens)
      BY <1>0
    <3> QED
      BY <3>1, PeekInside
  <2> QED
    BY <1>0, <1>2, <2>1, <2>2, Words DEF Reads, Values
<1> QED
  BY <1>1, <1>2 DEF EvaluateIfFeature

(* The conditions of features that the pruning evaluates have the value of *)
(* the grammar, in every round and in the map that is left, when all of    *)
(* them are texts the parser evaluates.                                    *)
THEOREM ConditionsAreRight == ConditionsAreTexts => (Spec => []ConditionsRight)
<1> SUFFICES ASSUME ConditionsAreTexts PROVE Spec => []ConditionsRight
  OBVIOUS
<1>1. TypeOK => ConditionsRight
  <2> SUFFICES ASSUME TypeOK, NEW f \in Feature, NEW e \in reqs[f], ~Misplaced(e)
               PROVE  Eval(e, Supported(mutable)) <=> TRUE \in Values(e, Supported(mutable))
    BY DEF ConditionsRight
  <2>1. e \in Expr /\ Supported(mutable) \in SUBSET Declared
    BY DEF TypeOK, Supported
  <2>2. IsText(e) /\ Eval(e, Supported(mutable)) = EvaluateIfFeature(e, Supported(mutable))
    BY <2>1 DEF ConditionsAreTexts
  <2> QED
    BY <2>2, EvaluationIsTheGrammars
<1> QED
  BY <1>1, TypeCorrect, PTL
=============================================================================
