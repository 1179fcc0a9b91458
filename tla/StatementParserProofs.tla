----------------------- MODULE StatementParserProofs ------------------------
(***************************************************************************)
(* That the statement parser never reads past its text (TypeOK) and always *)
(* knows which block it is in (BracesMatch), for every text.               *)
(*                                                                         *)
(* Most of the work is about where an argument, a date, a path or a skipped *)
(* statement ends: which token follows it, and that no brace is lost on    *)
(* the way.  Where the code loops over tokens the argument is an induction, *)
(* from the least number of a set of numbers.                              *)
(***************************************************************************)
EXTENDS StatementParser, CommonLemmas
-----------------------------------------------------------------------------
(* Tokens.                                                                 *)

Length == Len(Tokens)

(* The text is one of the sources. *)
Texts == source \in Sources

(* A block is opened and closed by a brace. *)
Opens(i) == KindAt(i) = LBRACE
Shuts(i) == KindAt(i) = RBRACE

(* Every token has a kind, none is missing below the end of the text.      *)
LEMMA KindsOfTokens ==
  ASSUME Texts
  PROVE  /\ Length \in Nat
         /\ \A i \in 1 .. Length :
              /\ KindAt(i) \in AnyKind
              /\ KindAt(i) \in Braces => TextAt(i) = KindAt(i)
         /\ \A i \in Nat : i > Length => KindAt(i) = "END"
<1>1. /\ Length \in Nat
      /\ \A i \in 1 .. Length :
           /\ Tokens[i][1] \in AnyKind
           /\ Tokens[i][1] \in Braces => Tokens[i][2] = Tokens[i][1]
  BY TextAssumption DEF Texts, Length, Tokens
<1>2. \A i \in 1 .. Length : KindAt(i) = Tokens[i][1] /\ TextAt(i) = Tokens[i][2]
  BY <1>1 DEF KindAt, TextAt, Peek, Length
<1>3. \A i \in Nat : i > Length => KindAt(i) = "END"
  BY <1>1 DEF KindAt, Peek, Length
<1> QED
  BY <1>1, <1>2, <1>3

(* A token of a kind of its own is one of the text.                        *)
LEMMA WithinText ==
  ASSUME Texts, NEW i \in Nat, KindAt(i) # "END"
  PROVE  i <= Length /\ Length \in Nat
  BY KindsOfTokens

(* A kind that some token may have is not that of the end.                 *)
LEMMA EndIsNoKind == "END" \notin AnyKind
  BY Zenon DEF AnyKind, Numbers, Braces, LBRACE, RBRACE, SEMICOLON, COLON, SLASH

(* The two braces are two kinds; words, numbers and the other marks are    *)
(* none, and the end is nothing of all that.                               *)
LEMMA Punctuation ==
  /\ LBRACE # RBRACE /\ Braces = {LBRACE, RBRACE}
  /\ \A kind \in {SEMICOLON, COLON, SLASH, "IDENTIFIER", "STRING", "INTEGER", "DOTTED_NUMBER"} :
       kind \notin Braces /\ kind # "END"
  /\ "END" \notin Braces
<1>1. LBRACE # RBRACE /\ Braces = {LBRACE, RBRACE} /\ "END" \notin Braces
  BY Zenon DEF LBRACE, RBRACE, Braces
<1>2. SEMICOLON \notin Braces /\ COLON \notin Braces /\ SLASH \notin Braces
  BY Zenon DEF LBRACE, RBRACE, Braces, SEMICOLON, COLON, SLASH
<1>3. SEMICOLON # "END" /\ COLON # "END" /\ SLASH # "END"
  BY Zenon DEF SEMICOLON, COLON, SLASH
<1>4. \A kind \in {"IDENTIFIER", "STRING", "INTEGER", "DOTTED_NUMBER"} : kind \notin Braces
  BY Zenon DEF LBRACE, RBRACE, Braces
<1> QED
  BY <1>1, <1>2, <1>3, <1>4

(* No brace among the tokens from i up to, but without, j.                 *)
Plain(i, j) == \A k \in i .. (j - 1) : KindAt(k) \notin Braces

(* What is read up to token j: not past the end, not backwards.            *)
Ahead(i, j) == j \in i .. (Length + 1)

(* Occurrences in adjacent pieces of the text add up.                      *)
LEMMA OccurringAdds ==
  ASSUME NEW kind, NEW i \in Int, NEW j \in Int, NEW k \in Int, i <= j, j - 1 <= k
  PROVE  /\ Occurring(kind, i, k) = Occurring(kind, i, j - 1) + Occurring(kind, j, k)
         /\ Occurring(kind, i, j - 1) \in Nat /\ Occurring(kind, j, k) \in Nat
<1> DEFINE S(a, b) == {n \in a .. b : KindAt(n) = kind}
<1>1. ASSUME NEW a \in Int, NEW b \in Int
      PROVE  IsFiniteSet(S(a, b)) /\ Cardinality(S(a, b)) \in Nat
  BY FS_Interval, FS_Subset, FS_CardinalityType
<1>2. S(i, k) = S(i, j - 1) \cup S(j, k) /\ S(i, j - 1) \cap S(j, k) = {}
  OBVIOUS
<1>3. IsFiniteSet(S(i, j - 1)) /\ Cardinality(S(i, j - 1)) \in Nat
  <2>1. j - 1 \in Int
    OBVIOUS
  <2> HIDE DEF S
  <2> QED
    BY <1>1, <2>1
<1>4. IsFiniteSet(S(j, k)) /\ Cardinality(S(j, k)) \in Nat
  BY <1>1
<1>5. \A a, b : Occurring(kind, a, b) = Cardinality(S(a, b))
  BY DEF Occurring
<1> HIDE DEF S
<1>6. Cardinality(S(i, k)) = Cardinality(S(i, j - 1)) + Cardinality(S(j, k)) - Cardinality({})
  BY <1>2, <1>3, <1>4, FS_Union
<1> QED
  BY <1>3, <1>4, <1>5, <1>6, FS_EmptySet

(* What a single token, and no token, contributes.                         *)
LEMMA OccurringOnce ==
  ASSUME NEW kind, NEW i \in Int
  PROVE  /\ Occurring(kind, i, i) = IF KindAt(i) = kind THEN 1 ELSE 0
         /\ Occurring(kind, i, i - 1) = 0
<1>1. {n \in i .. i : KindAt(n) = kind} = IF KindAt(i) = kind THEN {i} ELSE {}
  OBVIOUS
<1>2. {n \in i .. (i - 1) : KindAt(n) = kind} = {}
  OBVIOUS
<1> QED
  BY <1>1, <1>2, FS_EmptySet, FS_Singleton DEF Occurring

(* The braces between two tokens account for the difference in depth.      *)
LEMMA DepthBetween ==
  ASSUME NEW i \in Nat \ {0}, NEW j \in Nat, i <= j + 1
  PROVE  /\ Depth(i) \in Int
         /\ Depth(j + 1) = Depth(i) + Occurring(LBRACE, i, j) - Occurring(RBRACE, i, j)
         /\ Occurring(LBRACE, i, j) \in Nat /\ Occurring(RBRACE, i, j) \in Nat
<1>1. ASSUME NEW kind
      PROVE  /\ Occurring(kind, 1, j) = Occurring(kind, 1, i - 1) + Occurring(kind, i, j)
             /\ Occurring(kind, 1, i - 1) \in Nat /\ Occurring(kind, i, j) \in Nat
  BY OccurringAdds
<1>2. j + 1 - 1 = j
  OBVIOUS
<1> QED
  BY <1>1, <1>2 DEF Depth

(* Without a brace on the way the depth stays.                             *)
LEMMA DepthPlain ==
  ASSUME NEW i \in Nat \ {0}, NEW j \in Nat, i <= j, Plain(i, j)
  PROVE  Depth(j) = Depth(i)
<1>1. ASSUME NEW kind \in Braces PROVE Occurring(kind, i, j - 1) = 0
  <2>1. {k \in i .. (j - 1) : KindAt(k) = kind} = {}
    BY <1>1 DEF Plain
  <2> QED
    BY <2>1, FS_EmptySet DEF Occurring
<1>2. Occurring(LBRACE, i, j - 1) = 0 /\ Occurring(RBRACE, i, j - 1) = 0
  BY <1>1 DEF Braces
<1>3. j - 1 \in Nat /\ i <= (j - 1) + 1 /\ (j - 1) + 1 = j
  OBVIOUS
<1>4. /\ Depth(i) \in Int
      /\ Depth((j - 1) + 1) = Depth(i) + Occurring(LBRACE, i, j - 1) - Occurring(RBRACE, i, j - 1)
  BY <1>3, DepthBetween
<1> QED
  BY <1>2, <1>3, <1>4

(* A brace changes the depth by one.                                       *)
LEMMA DepthBrace ==
  ASSUME NEW i \in Nat \ {0}
  PROVE  /\ Depth(i) \in Int
         /\ Opens(i) => Depth(i + 1) = Depth(i) + 1
         /\ Shuts(i) => Depth(i + 1) = Depth(i) - 1
  BY DepthBetween, OccurringOnce, Punctuation DEF Opens, Shuts

(* Before the first token no block is open.                                *)
LEMMA DepthFirst == Depth(1) = 0
  BY OccurringOnce DEF Depth

(* A semicolon is no brace.                                                *)
LEMMA Semicolon ==
  ASSUME Texts, NEW i \in 1 .. (Length + 1)
  PROVE  Ahead(i, AfterSemicolon(i)) /\ Plain(i, AfterSemicolon(i))
  BY WithinText, KindsOfTokens, Punctuation DEF Ahead, Plain, AfterSemicolon

-----------------------------------------------------------------------------
(* What is skipped.                                                        *)

(* From token i the code goes on at token j, no further than the end, and  *)
(* in the same block unless the text ends there.                           *)
Keeps(i, j) == Ahead(i, j) /\ (j <= Length => Depth(j) = Depth(i))

(* Without a brace the block stays the same.                               *)
LEMMA PlainKeeps ==
  ASSUME NEW i \in Nat \ {0}, NEW j, Length \in Nat, Ahead(i, j), Plain(i, j)
  PROVE  Keeps(i, j)
  BY DepthPlain DEF Keeps, Ahead

(* One thing after the other.                                              *)
LEMMA KeepsOn ==
  ASSUME NEW i \in Nat \ {0}, NEW j, NEW k, Length \in Nat, Keeps(i, j), Keeps(j, k)
  PROVE  Keeps(i, k)
  BY DEF Keeps, Ahead

(* A braced block is left at the depth it was entered from.                *)
LEMMA BracesKeep ==
  ASSUME Texts, NEW i \in 1 .. Length
  PROVE  Ahead(i + 1, AfterBraces(i)) /\ Keeps(i, AfterBraces(i))
<1> DEFINE closes == {j \in i .. Length : Occurring(LBRACE, i, j) = Occurring(RBRACE, i, j)}
<1>0. Length \in Nat
  BY KindsOfTokens
<1>1. AfterBraces(i) = IF closes = {} THEN Length + 1
                       ELSE 1 + CHOOSE j \in closes : \A k \in closes : j <= k
  BY DEF AfterBraces, Length
<1>2. \A j \in closes : j \in i .. Length /\ Depth(j + 1) = Depth(i)
  BY <1>0, DepthBetween
<1> HIDE DEF closes
<1>3. CASE closes = {}
  BY <1>0, <1>1, <1>3 DEF Keeps, Ahead
<1>4. CASE closes # {}
  <2>1. closes \subseteq Nat
    BY <1>2, <1>0
  <2>2. (CHOOSE j \in closes : \A k \in closes : j <= k) \in closes
    BY <2>1, <1>4, LeastNumber
  <2>3. PICK j \in closes : AfterBraces(i) = 1 + j
    BY <1>1, <1>4, <2>2
  <2>4. j \in i .. Length /\ Depth(j + 1) = Depth(i) /\ 1 + j = j + 1
    BY <1>2, <1>0, <2>1
  <2> QED
    BY <2>3, <2>4, <1>0 DEF Keeps, Ahead
<1> QED
  BY <1>3, <1>4

(* The marks a skipped statement stops at. *)
Stops == {LBRACE, SEMICOLON, RBRACE, "END"}

(* A skipped statement is left at the depth it was entered from.           *)
LEMMA SkippedKeeps ==
  ASSUME Texts, NEW i \in 1 .. Length, KindAt(i) \notin Braces
  PROVE  Keeps(i, AfterSkipped(i))
<1> DEFINE Stop(j) == /\ KindAt(j) \in Stops
                      /\ \A k \in (i + 1) .. (j - 1) : KindAt(k) \notin {LBRACE, SEMICOLON, RBRACE}
           stop == CHOOSE j \in (i + 1) .. (Length + 1) : Stop(j)
           S == {j \in (i + 1) .. (Length + 1) : KindAt(j) \in Stops}
<1>0. Length \in Nat
  BY KindsOfTokens
<1>1. stop \in (i + 1) .. (Length + 1) /\ Stop(stop)
  <2>1. KindAt(Length + 1) = "END" /\ "END" \in Stops
    BY <1>0, KindsOfTokens DEF Stops
  <2>2. Length + 1 \in S
    BY <1>0, <2>1
  <2>3. PICK j \in S : \A k \in S : j <= k
    <3>1. S \subseteq Nat
      BY <1>0
    <3> HIDE DEF S
    <3> QED
      BY <2>2, <3>1, LeastNumber
  <2>4. \A k \in (i + 1) .. (j - 1) : k \notin S /\ k \in (i + 1) .. (Length + 1)
    BY <2>3, <1>0
  <2>5. \A k \in (i + 1) .. (j - 1) : KindAt(k) \notin {LBRACE, SEMICOLON, RBRACE}
    BY <2>4 DEF Stops
  <2> QED
    BY <2>3, <2>5
<1>2. AfterSkipped(i) = IF Opens(stop) THEN AfterSemicolon(AfterBraces(stop)) ELSE AfterSemicolon(stop)
  BY DEF AfterSkipped, Opens, Stops, Length
<1>3. Keeps(i, stop)
  <2>1. Ahead(i, stop) /\ Plain(i, stop)
    BY <1>0, <1>1 DEF Ahead, Plain, Braces
  <2> HIDE DEF stop
  <2> QED
    BY <1>0, <2>1, PlainKeeps
<1> HIDE DEF stop
<1>4. ASSUME NEW j \in 1 .. (Length + 1) PROVE Keeps(j, AfterSemicolon(j))
  BY <1>0, Semicolon, PlainKeeps
<1>5. CASE Opens(stop)
  <2>1. stop \in 1 .. Length
    BY <1>0, <1>1, <1>5, WithinText, Punctuation DEF Opens
  <2>2. Keeps(stop, AfterBraces(stop)) /\ AfterBraces(stop) \in 1 .. (Length + 1)
    BY <1>0, <2>1, BracesKeep DEF Ahead
  <2>3. Keeps(AfterBraces(stop), AfterSemicolon(AfterBraces(stop)))
    BY <1>4, <2>2
  <2>4. Keeps(stop, AfterSkipped(i))
    BY <1>0, <1>2, <1>5, <2>1, <2>2, <2>3, KeepsOn
  <2> QED
    BY <1>0, <1>3, <2>4, KeepsOn
<1>6. CASE ~Opens(stop)
  <2>1. Keeps(stop, AfterSkipped(i))
    BY <1>0, <1>1, <1>2, <1>4, <1>6
  <2> QED
    BY <1>0, <1>3, <2>1, KeepsOn
<1> QED
  BY <1>5, <1>6

-----------------------------------------------------------------------------
(* Arguments.                                                              *)

(* A reference holds no brace.                                             *)
LEMMA ReferenceEnds ==
  ASSUME Texts, NEW i \in 1 .. (Length + 1), AfterReference(i) # 0
  PROVE  Ahead(i + 1, AfterReference(i)) /\ Plain(i, AfterReference(i))
<1>0. Length \in Nat
  BY KindsOfTokens
<1>1. KindAt(i) = "IDENTIFIER" /\ i <= Length
  BY <1>0, WithinText DEF AfterReference
<1>2. CASE KindAt(i + 1) # COLON
  BY <1>0, <1>1, <1>2, Punctuation DEF AfterReference, Ahead, Plain
<1>3. CASE KindAt(i + 1) = COLON
  <2>1. KindAt(i + 2) = "IDENTIFIER" /\ AfterReference(i) = i + 3
    BY <1>1, <1>3 DEF AfterReference
  <2>2. i + 2 <= Length
    BY <1>0, <2>1, WithinText
  <2>3. \A k \in i .. (i + 3 - 1) : k = i \/ k = i + 1 \/ k = i + 2
    OBVIOUS
  <2> QED
    BY <1>0, <1>1, <1>3, <2>1, <2>2, <2>3, Punctuation DEF Ahead, Plain
<1> QED
  BY <1>2, <1>3

(* A name is one token, be it a brace, or a reference.                     *)
LEMMA NameEnds ==
  ASSUME Texts, NEW i \in 1 .. (Length + 1), AfterName(i) # 0
  PROVE  Ahead(i + 1, AfterName(i)) /\ Plain(i + 1, AfterName(i))
<1>0. Length \in Nat
  BY KindsOfTokens
<1>1. CASE KindAt(i) = "IDENTIFIER"
  BY <1>0, <1>1, ReferenceEnds DEF AfterName, Plain
<1>2. CASE KindAt(i) # "IDENTIFIER"
  <2>1. KindAt(i) \in AnyKind /\ AfterName(i) = i + 1
    BY <1>2 DEF AfterName
  <2>2. i <= Length
    BY <1>0, <2>1, WithinText, EndIsNoKind
  <2> QED
    BY <1>0, <2>1, <2>2 DEF Ahead, Plain
<1> QED
  BY <1>1, <1>2

(* A date holds no brace.                                                  *)
LEMMA DateEnds ==
  ASSUME Texts, NEW i \in 1 .. (Length + 1), AfterDate(i) # 0
  PROVE  Ahead(i + 1, AfterDate(i)) /\ Plain(i, AfterDate(i))
<1> DEFINE Chunk(j) == KindAt(j) \in Numbers \cup {"IDENTIFIER"}
           Stop(j) == ~Chunk(j) /\ \A k \in i .. (j - 1) : Chunk(k)
           end == CHOOSE j \in i .. (Length + 1) : Stop(j)
           S == {j \in i .. (Length + 1) : ~Chunk(j)}
<1>0. Length \in Nat
  BY KindsOfTokens
<1>1. CASE KindAt(i) = "STRING"
  <2>1. AfterDate(i) = i + 1 /\ i <= Length
    BY <1>0, <1>1, WithinText DEF AfterDate
  <2> QED
    BY <1>0, <1>1, <2>1, Punctuation DEF Ahead, Plain
<1>2. CASE KindAt(i) # "STRING"
  <2>1. AfterDate(i) = end /\ end # i
    BY <1>2 DEF AfterDate, Length
  <2>2. \A j : Chunk(j) => KindAt(j) \notin Braces /\ KindAt(j) # "END"
    BY Punctuation DEF Numbers
  <2>3. end \in i .. (Length + 1) /\ Stop(end)
    <3>1. Length + 1 \in S
      BY <1>0, <2>2, KindsOfTokens
    <3>2. S \subseteq Nat
      BY <1>0
    <3>3. PICK j \in S : \A k \in S : j <= k
      <4> HIDE DEF S
      <4> QED
        BY <3>1, <3>2, LeastNumber
    <3>4. \A k \in i .. (j - 1) : k \notin S /\ k \in i .. (Length + 1)
      BY <3>3, <1>0
    <3>5. \A k \in i .. (j - 1) : Chunk(k)
      BY <3>4
    <3> QED
      BY <3>3, <3>5
  <2> HIDE DEF end
  <2> QED
    BY <1>0, <2>1, <2>2, <2>3 DEF Ahead, Plain
<1> QED
  BY <1>1, <1>2

-----------------------------------------------------------------------------
(* The target of a refine.                                                 *)

(* What a path that starts at token i ends at, if g says so of the rest.   *)
Onward(g, i) ==
  IF AfterName(i) # 0 /\ KindAt(AfterName(i)) = SLASH THEN g[AfterName(i) + 1] ELSE AfterName(i)

(* Where a path goes on, it goes on later in the text.                     *)
LEMMA OnwardIsLater ==
  ASSUME Texts, NEW i \in 1 .. (Length + 1),
         AfterName(i) # 0 /\ KindAt(AfterName(i)) = SLASH
  PROVE  /\ AfterName(i) + 1 \in (i + 2) .. (Length + 1)
         /\ Ahead(i + 1, AfterName(i)) /\ Plain(i + 1, AfterName(i))
<1>0. Length \in Nat
  BY KindsOfTokens
<1>1. Ahead(i + 1, AfterName(i)) /\ Plain(i + 1, AfterName(i))
  BY NameEnds
<1>2. AfterName(i) \in Nat
  BY <1>0, <1>1 DEF Ahead
<1>3. AfterName(i) <= Length
  BY <1>2, WithinText, Punctuation
<1> QED
  BY <1>0, <1>1, <1>2, <1>3 DEF Ahead

(* PathEnd is what its definition says: such a function exists, built from *)
(* the end of the text backwards.                                          *)
LEMMA PathEndDefined ==
  ASSUME Texts
  PROVE  \A i \in 1 .. (Length + 1) : PathEnd[i] = Onward(PathEnd, i)
<1> DEFINE Solves(n) == \E g : g = [i \in n .. (Length + 1) |-> Onward(g, i)]
           S == {m \in 0 .. (Length + 1) : ~Solves(Length + 2 - m)}
<1>0. Length \in Nat
  BY KindsOfTokens
<1>1. Solves(Length + 2)
  <2> DEFINE e == [i \in (Length + 2) .. (Length + 1) |-> 0]
  <2>1. (Length + 2) .. (Length + 1) = {}
    BY <1>0
  <2>2. e = [i \in (Length + 2) .. (Length + 1) |-> Onward(e, i)]
    BY <2>1
  <2> QED
    BY <2>2
<1>2. ASSUME NEW n \in 1 .. (Length + 1), Solves(n + 1) PROVE Solves(n)
  <2>1. PICK g : g = [i \in (n + 1) .. (Length + 1) |-> Onward(g, i)]
    BY <1>2
  <2> DEFINE h == [i \in n .. (Length + 1) |-> IF i = n THEN Onward(g, n) ELSE g[i]]
  <2>2. ASSUME NEW i \in n .. (Length + 1) PROVE Onward(h, i) = Onward(g, i)
    <3>1. CASE AfterName(i) # 0 /\ KindAt(AfterName(i)) = SLASH
      <4>1. AfterName(i) + 1 \in (i + 2) .. (Length + 1)
        BY <1>0, <3>1, OnwardIsLater
      <4>2. AfterName(i) + 1 \in n .. (Length + 1) /\ AfterName(i) + 1 # n
        BY <1>0, <4>1
      <4>3. h[AfterName(i) + 1] = g[AfterName(i) + 1]
        BY <4>2
      <4> HIDE DEF h
      <4> QED
        BY <4>3, <3>1 DEF Onward
    <3>2. CASE ~(AfterName(i) # 0 /\ KindAt(AfterName(i)) = SLASH)
      <4> HIDE DEF h
      <4> QED
        BY <3>2 DEF Onward
    <3> QED
      BY <3>1, <3>2
  <2>3. ASSUME NEW i \in n .. (Length + 1) PROVE h[i] = Onward(g, i)
    <3>1. i # n => i \in (n + 1) .. (Length + 1)
      BY <1>0
    <3>2. i # n => g[i] = Onward(g, i)
      BY <2>1, <3>1
    <3> QED
      BY <3>2
  <2>4. ASSUME NEW i \in n .. (Length + 1) PROVE h[i] = Onward(h, i)
    BY <2>2, <2>3
  <2>5. h = [i \in n .. (Length + 1) |-> h[i]]
    OBVIOUS
  <2> HIDE DEF h
  <2>6. h = [i \in n .. (Length + 1) |-> Onward(h, i)]
    BY <2>4, <2>5
  <2> QED
    BY <2>6
<1> HIDE DEF Solves
<1>3. Solves(1)
  <2> SUFFICES ASSUME ~Solves(1) PROVE FALSE
    OBVIOUS
  <2>1. Length + 1 \in S
    BY <1>0
  <2>2. S \subseteq Nat
    BY <1>0
  <2>3. PICK m \in S : \A k \in S : m <= k
    <3> HIDE DEF S
    <3> QED
      BY <2>1, <2>2, LeastNumber
  <2>4. m # 0
    BY <1>0, <1>1, <2>3
  <2>5. m - 1 \in 0 .. (Length + 1) /\ m - 1 \notin S
    BY <1>0, <2>3, <2>4
  <2>6. Solves(Length + 2 - (m - 1)) /\ ~Solves(Length + 2 - m)
    BY <2>3, <2>5
  <2>7. Length + 2 - (m - 1) = (Length + 2 - m) + 1 /\ Length + 2 - m \in 1 .. (Length + 1)
    BY <1>0, <2>3, <2>4
  <2> QED
    BY <1>2, <2>6, <2>7
<1>4. PathEnd = CHOOSE g : g = [i \in 1 .. (Length + 1) |-> Onward(g, i)]
  BY DEF PathEnd, Onward, Length
<1>5. PathEnd = [i \in 1 .. (Length + 1) |-> Onward(PathEnd, i)]
  BY <1>3, <1>4 DEF Solves
<1> QED
  BY <1>5

(* A path that starts at token i and ends before token j: a brace in it    *)
(* stands at its start or behind a "/".                                    *)
IsPath(i, j) ==
  /\ Ahead(i + 1, j)
  /\ \A k \in i .. (j - 1) : KindAt(k) \in Braces => k = i \/ (k > i /\ KindAt(k - 1) = SLASH)

(* So is every path that is read.                                          *)
LEMMA PathEnds ==
  ASSUME Texts, NEW first \in 1 .. (Length + 1), PathEnd[first] # 0
  PROVE  IsPath(first, PathEnd[first])
<1> DEFINE Good(i) == PathEnd[i] # 0 => IsPath(i, PathEnd[i])
           S == {m \in 0 .. Length : ~Good(Length + 1 - m)}
<1>0. Length \in Nat
  BY KindsOfTokens
<1>1. ASSUME NEW i \in 1 .. (Length + 1), \A j \in (i + 1) .. (Length + 1) : Good(j)
      PROVE  Good(i)
  <2>1. PathEnd[i] = Onward(PathEnd, i)
    BY PathEndDefined
  <2>2. CASE AfterName(i) # 0 /\ KindAt(AfterName(i)) = SLASH
    <3> DEFINE a == AfterName(i)
               j == AfterName(i) + 1
    <3>1. PathEnd[i] = PathEnd[j]
      BY <2>1, <2>2 DEF Onward
    <3>2. j \in (i + 2) .. (Length + 1) /\ Ahead(i + 1, a) /\ Plain(i + 1, a)
      BY <2>2, OnwardIsLater
    <3>3. a \in Nat /\ i < a /\ KindAt(a) = SLASH
      BY <1>0, <2>2, <3>2 DEF Ahead
    <3> SUFFICES ASSUME PathEnd[i] # 0 PROVE IsPath(i, PathEnd[i])
      OBVIOUS
    <3>4. IsPath(j, PathEnd[j])
      BY <1>0, <1>1, <3>1, <3>2
    <3> HIDE DEF a
    <3>5. j = a + 1
      BY DEF a
    <3> HIDE DEF j
    <3>6. ASSUME NEW k \in i .. (PathEnd[i] - 1), KindAt(k) \in Braces
          PROVE  k = i \/ (k > i /\ KindAt(k - 1) = SLASH)
      <4>1. CASE k < a
        BY <1>0, <3>2, <3>3, <3>6, <4>1 DEF Plain
      <4>2. CASE k = a
        BY <3>3, <3>6, <4>2, Punctuation
      <4>3. CASE k > a
        <5>1. k \in j .. (PathEnd[j] - 1) /\ j - 1 = a
          BY <1>0, <3>1, <3>3, <3>4, <3>5, <4>3 DEF IsPath, Ahead
        <5> QED
          BY <3>3, <3>4, <3>5, <3>6, <5>1, <4>3 DEF IsPath
      <4> QED
        BY <3>3, <4>1, <4>2, <4>3
    <3>7. Ahead(i + 1, PathEnd[i])
      BY <1>0, <3>1, <3>3, <3>4, <3>5 DEF IsPath, Ahead
    <3> QED
      BY <3>6, <3>7 DEF IsPath
  <2>3. CASE ~(AfterName(i) # 0 /\ KindAt(AfterName(i)) = SLASH)
    <3> SUFFICES ASSUME PathEnd[i] # 0 PROVE IsPath(i, PathEnd[i])
      OBVIOUS
    <3>1. PathEnd[i] = AfterName(i)
      BY <2>1, <2>3 DEF Onward
    <3> QED
      BY <1>0, <3>1, NameEnds DEF IsPath, Plain, Ahead
  <2> QED
    BY <2>2, <2>3
<1> HIDE DEF Good
<1>2. SUFFICES ASSUME ~Good(first) PROVE FALSE
  BY DEF Good
<1>3. Length + 1 - first \in S
  BY <1>0, <1>2
<1>4. PICK m \in S : \A k \in S : m <= k
  <2>1. S \subseteq Nat
    BY <1>0
  <2> HIDE DEF S
  <2> QED
    BY <1>3, <2>1, LeastNumber
<1> DEFINE n == Length + 1 - m
<1>5. n \in 1 .. (Length + 1) /\ ~Good(n)
  BY <1>0, <1>4
<1>6. ASSUME NEW j \in (n + 1) .. (Length + 1) PROVE Good(j)
  <2>1. Length + 1 - j \in 0 .. Length /\ Length + 1 - j < m /\ Length + 1 - (Length + 1 - j) = j
    BY <1>0, <1>4
  <2>2. m \in Nat
    BY <1>0, <1>4
  <2>3. Length + 1 - j \notin S
    <3> HIDE DEF S
    <3> QED
      BY <1>0, <1>4, <2>1, <2>2
  <2> QED
    BY <2>1, <2>3
<1> HIDE DEF n
<1> QED
  BY <1>1, <1>5, <1>6

-----------------------------------------------------------------------------
(* Where a statement's header ends.                                        *)

(* A brace behind a keyword of one of these shapes is taken for a name.    *)
LEMMA TakenForName ==
  ASSUME NEW i, KindAt(i + 1) \in Braces,
         \/ KindAt(i) = SLASH
         \/ /\ KindAt(i) = "IDENTIFIER" /\ TextAt(i) \in Keywords
            /\ TextAt(i) \in {"type", "uses", "refine"} \/ KindAt(i + 1) \in Kinds(TextAt(i))
  PROVE  BraceForName(i)
  BY DEF BraceForName

(* Up to token i no brace was taken for a name.                            *)
Quiet(i) == \A k \in 1 .. (i - 2) : ~BraceForName(k)

(* From the keyword at token i to the end of its argument no brace is read *)
(* but for a name.                                                         *)
LEMMA ArgumentEnds ==
  ASSUME Texts, NEW i \in 1 .. Length, KindAt(i) = "IDENTIFIER", TextAt(i) \in Keywords,
         NEW parent, NEW end, end = AfterArgument(parent, TextAt(i), i + 1), end # 0
  PROVE  Ahead(i + 1, end) /\ (Quiet(end) => Plain(i, end))
<1> DEFINE kw == TextAt(i)
           next == i + 1
<1>0. Length \in Nat /\ KindAt(i) \notin Braces /\ next \in 1 .. (Length + 1)
  BY KindsOfTokens, Punctuation
<1>1. ASSUME Ahead(next, end),
             Quiet(end) => \A k \in next .. (end - 1) : KindAt(k) \notin Braces
      PROVE  Ahead(next, end) /\ (Quiet(end) => Plain(i, end))
  BY <1>0, <1>1 DEF Plain
<1>2. ASSUME Ahead(next + 1, end), Plain(next + 1, end),
             KindAt(next) \in Braces => BraceForName(i)
      PROVE  Ahead(next, end) /\ (Quiet(end) => Plain(i, end))
  <2>1. Ahead(next, end) /\ i \in 1 .. (end - 2)
    BY <1>0, <1>2 DEF Ahead
  <2>2. Quiet(end) => KindAt(next) \notin Braces
    BY <1>2, <2>1 DEF Quiet
  <2> QED
    BY <1>0, <1>1, <1>2, <2>1, <2>2 DEF Plain
<1>3. ASSUME end = next + 1, KindAt(next) # "END", KindAt(next) \in Braces => BraceForName(i)
      PROVE  Ahead(next, end) /\ (Quiet(end) => Plain(i, end))
  <2>1. next <= Length
    BY <1>0, <1>3, WithinText
  <2> QED
    BY <1>0, <1>2, <1>3, <2>1 DEF Ahead, Plain
<1>4. CASE kw \in {"input", "output"}
  <2>1. end = next
    BY <1>4 DEF AfterArgument
  <2> QED
    BY <1>0, <1>1, <2>1 DEF Ahead
<1>5. CASE kw \in {"type", "uses"}
  <2>1. end = AfterName(next)
    BY <1>5 DEF AfterArgument
  <2>2. KindAt(next) \in Braces => BraceForName(i)
    BY <1>5, TakenForName
  <2> QED
    BY <1>0, <1>2, <2>1, <2>2, NameEnds
<1>6. CASE kw = "base"
  <2>1. end = AfterReference(next)
    BY <1>6 DEF AfterArgument
  <2> QED
    BY <1>0, <1>1, <2>1, ReferenceEnds DEF Plain, Ahead
<1>7. CASE kw = "refine"
  <2>1. end = PathEnd[next]
    BY <1>7 DEF AfterArgument
  <2>2. IsPath(next, end)
    BY <1>0, <2>1, PathEnds
  <2>3. KindAt(next) \in Braces => BraceForName(i)
    BY <1>7, TakenForName
  <2>4. ASSUME Quiet(end), NEW k \in next .. (end - 1) PROVE KindAt(k) \notin Braces
    <3> SUFFICES ASSUME KindAt(k) \in Braces PROVE FALSE
      OBVIOUS
    <3>1. CASE k = next
      BY <1>0, <2>2, <2>3, <2>4, <3>1 DEF IsPath, Ahead, Quiet
    <3>2. CASE k # next
      <4>1. k - 1 \in 1 .. (end - 2) /\ KindAt(k - 1) = SLASH /\ (k - 1) + 1 = k
        BY <1>0, <2>2, <3>2 DEF IsPath, Ahead
      <4> QED
        BY <2>4, <4>1, TakenForName DEF Quiet
    <3> QED
      BY <3>1, <3>2
  <2> QED
    BY <1>0, <1>1, <2>2, <2>4 DEF IsPath, Ahead
<1>8. CASE kw \in {"revision", "revision-date"}
  <2>1. end = AfterDate(next)
    BY <1>8 DEF AfterArgument
  <2> QED
    BY <1>0, <1>1, <2>1, DateEnds DEF Plain, Ahead
<1>9. CASE kw = "status"
  <2>1. end = next \/ (end = next + 1 /\ KindAt(next) = "IDENTIFIER")
    BY <1>9 DEF AfterArgument
  <2>2. CASE end = next
    BY <1>0, <1>1, <2>2 DEF Ahead
  <2>3. CASE end # next
    BY <1>3, <2>1, <2>3, Punctuation
  <2> QED
    BY <2>2, <2>3
<1>10. CASE kw \notin {"input", "output", "type", "uses", "base", "refine", "revision",
                       "revision-date", "status"}
  <2>1. end = next + 1 /\ next <= Length /\ KindAt(next) \in Kinds(kw)
    BY <1>10 DEF AfterArgument, Length
  <2>2. KindAt(next) # "END"
    BY <1>0, <2>1, KindsOfTokens, EndIsNoKind
  <2>3. KindAt(next) \in Braces => BraceForName(i)
    BY <2>1, TakenForName
  <2> QED
    BY <1>3, <2>1, <2>2, <2>3
<1> QED
  BY <1>4, <1>5, <1>6, <1>7, <1>8, <1>9, <1>10

-----------------------------------------------------------------------------
(* Statements and their blocks.                                            *)

(* A statement has these four fields. *)
IsNode(n) == n = [kw |-> n.kw, arg |-> n.arg, attrs |-> n.attrs, subs |-> n.subs]

(* The open blocks: outermost the module, each of a keyword that has one.  *)
Blocks(s) ==
  /\ IsSeq(s)
  /\ \A i \in 1 .. Len(s) : IsNode(s[i]) /\ Allowed(s[i].kw) # {}
  /\ Len(s) > 0 => s[1].kw \in {"module", "submodule"}

(* A new statement is one. *)
LEMMA NewNode ==
  ASSUME NEW kw, NEW arg
  PROVE  IsNode(Node(kw, arg)) /\ Node(kw, arg).kw = kw /\ Node(kw, arg).arg = arg
  BY DEF IsNode, Node

(* The module and the submodule have a block.                              *)
LEMMA RootsHaveBlocks == \A kw \in {"module", "submodule"} : Allowed(kw) # {}
<1>1. \A kw \in {"module", "submodule"} :
        kw \in DOMAIN Grammar /\ Grammar[kw] = IF kw = "module" THEN ModuleRule ELSE SubmoduleRule
  BY DEF Grammar
<1>2. ModuleRule.block # {} /\ SubmoduleRule.block # {}
  BY DEF ModuleRule, SubmoduleRule, Rule, Data
<1> QED
  BY <1>1, <1>2 DEF Allowed, RuleOf

(* What a block may hold is a keyword.                                     *)
LEMMA AllowedAreKeywords ==
  ASSUME NEW kw, NEW sub, sub \in Allowed(kw) \/ sub \in Inline
  PROVE  sub \in Keywords
<1>1. CASE kw \in DOMAIN Grammar
  BY <1>1 DEF Keywords
<1>2. CASE kw \notin DOMAIN Grammar
  <2>1. Allowed(kw) = {}
    BY <1>2 DEF Allowed, RuleOf, Single, Closed, Rule
  <2> QED
    BY <2>1 DEF Keywords
<1> QED
  BY <1>1, <1>2

(* A substatement changes no statement's keyword.                          *)
LEMMA StoreKeepsKeyword ==
  ASSUME NEW node, IsNode(node), NEW sub
  PROVE  /\ IsNode(Store(node, sub)) /\ Store(node, sub).kw = node.kw
         /\ IsNode(StoreType(node, sub)) /\ StoreType(node, sub).kw = node.kw
<1>1. ASSUME NEW subs
      PROVE  IsNode([node EXCEPT !.subs = subs]) /\ [node EXCEPT !.subs = subs].kw = node.kw
  BY DEF IsNode
<1>2. ASSUME NEW attrs
      PROVE  IsNode([node EXCEPT !.attrs = attrs]) /\ [node EXCEPT !.attrs = attrs].kw = node.kw
  BY DEF IsNode
<1>3. IsNode(Store(node, sub)) /\ Store(node, sub).kw = node.kw
  BY <1>1, <1>2 DEF Store
<1>4. IsNode(StoreType(node, sub)) /\ StoreType(node, sub).kw = node.kw
  BY <1>1, <1>2 DEF StoreType
<1> QED
  BY <1>3, <1>4

(* Nor does it open or close a block.                                      *)
LEMMA AttachKeepsBlocks ==
  ASSUME NEW frames, Blocks(frames), NEW node
  PROVE  Blocks(Attach(frames, node)) /\ Len(Attach(frames, node)) = Len(frames)
<1> DEFINE at == Holder(frames, node.kw)
<1> DEFINE parent == frames[at]
           kept == IF node.kw = "type" THEN StoreType(parent, node)
                   ELSE IF parent.kw = "choice" THEN Store(parent, Case(node))
                   ELSE Store(parent, node)
<1>1. Attach(frames, node) = frames \/ Attach(frames, node) = [frames EXCEPT ![at] = kept]
  BY DEF Attach
<1>0. IsNode(parent) => IsNode(kept) /\ kept.kw = parent.kw
  BY StoreKeepsKeyword
<1> HIDE DEF kept
<1>2. CASE Attach(frames, node) = frames
  BY <1>2
<1>3. ASSUME NEW new, Attach(frames, node) = [frames EXCEPT ![at] = new],
             IsNode(frames[at]) => IsNode(new) /\ new.kw = frames[at].kw
      PROVE  Blocks(Attach(frames, node)) /\ Len(Attach(frames, node)) = Len(frames)
  <2> DEFINE s == [frames EXCEPT ![at] = new]
             S == Elements(frames) \cup {new}
  <2>1. frames \in Seq(S) /\ Len(frames) \in Nat /\ DOMAIN frames = 1 .. Len(frames)
    BY DEF Blocks, IsSeq, Elements
  <2>2. s \in Seq(S) /\ Len(s) = Len(frames)
    <3> HIDE DEF at, S
    <3>1. new \in S /\ \A i \in 1 .. Len(frames) : frames[i] \in S
      BY DEF S, Elements, Blocks, IsSeq
    <3>2. s \in [1 .. Len(frames) -> S]
      BY <2>1, <3>1
    <3> HIDE DEF s
    <3> QED
      BY <2>1, <3>2
  <2>3. IsSeq(s)
    BY <2>2, SeqOfElements
  <2>4. \A i \in 1 .. Len(frames) : s[i] = IF i = at THEN new ELSE frames[i]
    BY <2>1
  <2> HIDE DEF at, s
  <2>5. \A i \in 1 .. Len(frames) : IsNode(s[i]) /\ s[i].kw = frames[i].kw
    BY <1>3, <2>4 DEF Blocks
  <2>6. Len(s) > 0 => 1 \in 1 .. Len(frames)
    BY <2>1, <2>2
  <2> QED
    BY <1>3, <2>2, <2>3, <2>5, <2>6 DEF Blocks, s
<1> QED
  BY <1>0, <1>1, <1>2, <1>3

(* A finished statement is in its table under its own name.                *)
Filed(t) == \A key \in DOMAIN t : t[key].kw = key[1] /\ t[key].arg = key[2]
LEMMA RegisterFiles ==
  ASSUME Filed(tables), NEW node
  PROVE  Filed(Register(node))
<1> DEFINE key == <<node.kw, node.arg>>
           new == [k \in DOMAIN tables \cup {key} |-> IF k = key THEN node ELSE tables[k]]
<1>1. Register(node) = tables \/ Register(node) = new
  BY DEF Register
<1>2. DOMAIN new = {key} \cup DOMAIN tables /\ \A k \in DOMAIN new : new[k] = IF k = key THEN node ELSE tables[k]
  OBVIOUS
<1>3. key[1] = node.kw /\ key[2] = node.arg
  OBVIOUS
<1> HIDE DEF key, new
<1>4. Filed(new)
  BY <1>2, <1>3 DEF Filed
<1> QED
  BY <1>1, <1>4

-----------------------------------------------------------------------------
(* The invariant.                                                          *)

(* As many blocks are open as braces, at the token the parser is at.       *)
Matched(frames, i, state) ==
  state = "parsing" /\ i <= Length /\ Quiet(i) => Len(frames) = Depth(i)

(* The parser's state: beside the two properties, the shape of the open    *)
(* blocks, and that before the first block no token was read.              *)
ParserInv ==
  /\ Texts
  /\ index \in 1 .. (Length + 1)
  /\ status \in {"parsing", "done", "failed"}
  /\ Blocks(stack)
  /\ Filed(tables)
  /\ status = "parsing" /\ Len(stack) = 0 => index = 1
  /\ Matched(stack, index, status)

(* It implies both. *)
LEMMA InvImplies == ParserInv => TypeOK /\ BracesMatch
  BY DEF ParserInv, TypeOK, BracesMatch, Blocks, Filed, Matched, Quiet, Length

(* Initially nothing is read and nothing open.                             *)
LEMMA InitInv == Init => ParserInv
<1> SUFFICES ASSUME Init PROVE ParserInv
  OBVIOUS
<1>1. Texts /\ Length \in Nat
  BY KindsOfTokens DEF Init, Texts
<1>2. <<>> \in Seq({}) /\ Len(<<>>) = 0
  OBVIOUS
<1>3. Blocks(<<>>)
  <2>1. IsSeq(<<>>)
    BY <1>2, SeqOfElements
  <2>2. \A i \in 1 .. Len(<<>>) : FALSE
    BY <1>2
  <2> QED
    BY <1>2, <2>1, <2>2 DEF Blocks
<1>4. Filed(<<>>)
  BY DEF Filed
<1> QED
  BY <1>1, <1>2, <1>3, <1>4, DepthFirst DEF Init, ParserInv, Matched

(* The text keeps its tokens.                                              *)
LEMMA SameText ==
  ASSUME source' = source
  PROVE  /\ Length' = Length /\ Texts' = Texts
         /\ \A i : KindAt(i)' = KindAt(i) /\ TextAt(i)' = TextAt(i)
         /\ \A i : BraceForName(i)' = BraceForName(i)
         /\ \A kind, i, j : Occurring(kind, i, j)' = Occurring(kind, i, j)
         /\ \A i : Depth(i)' = Depth(i)
  BY DEF Length, Tokens, Texts, KindAt, TextAt, Peek, BraceForName, Occurring, Depth

(* The invariant after a step, in the terms of before.                     *)
LEMMA InvAfter ==
  ASSUME ParserInv, source' = source, index' \in 1 .. (Length + 1),
         status' \in {"parsing", "done", "failed"}, Blocks(stack'), Filed(tables'),
         status' = "parsing" /\ Len(stack') = 0 => index' = 1,
         Matched(stack', index', status')
  PROVE  ParserInv'
<1>1. /\ Length' = Length /\ Texts' = Texts
      /\ \A i : BraceForName(i)' = BraceForName(i) /\ Depth(i)' = Depth(i)
  BY SameText
<1>2. Matched(stack, index, status)' = Matched(stack', index', status')
  BY <1>1 DEF Matched, Quiet
<1> QED
  BY <1>1, <1>2 DEF ParserInv, Blocks, Filed, IsSeq, IsNode

-----------------------------------------------------------------------------
(* The steps.                                                              *)

(* A refusal ends the parse. *)
LEMMA FailStep == ASSUME ParserInv, Fail PROVE ParserInv'
  BY InvAfter DEF ParserInv, Fail, Matched

(* The statement in which frames was open ends before token i: if the      *)
(* depth there is that of frames, it is the depth the parser is left in.   *)
LEMMA FinishStep ==
  ASSUME ParserInv, NEW frames, Blocks(frames), Len(frames) > 0, NEW node,
         NEW i \in 1 .. (Length + 1), i <= Length /\ Quiet(i) => Len(frames) = Depth(i),
         status = "parsing", Finish(frames, node, i)
  PROVE  ParserInv'
<1>0. Length \in Nat
  BY KindsOfTokens DEF ParserInv
<1>1. CASE Refused(node)
  BY <1>1, FailStep DEF Finish
<1>2. CASE ~Refused(node)
  <2> DEFINE next == AfterSemicolon(i)
  <2>1. /\ index' = next /\ stack' = Attach(frames, node) /\ tables' = Register(node)
        /\ source' = source /\ status' = status
    BY <1>2 DEF Finish
  <2>2. Ahead(i, next) /\ Plain(i, next)
    BY Semicolon DEF ParserInv
  <2>3. next \in i .. (Length + 1) /\ Depth(next) = Depth(i)
    BY <1>0, <2>2, DepthPlain DEF Ahead
  <2>4. Blocks(stack') /\ Len(stack') = Len(frames)
    BY <2>1, AttachKeepsBlocks
  <2>5. Filed(tables')
    BY <2>1, RegisterFiles DEF ParserInv
  <2> HIDE DEF next
  <2>6. Quiet(next) => Quiet(i)
    BY <1>0, <2>3 DEF Quiet
  <2>7. Matched(stack', index', status')
    BY <1>0, <2>1, <2>3, <2>4, <2>6 DEF Matched
  <2>8. index' \in 1 .. (Length + 1) /\ status' \in {"parsing", "done", "failed"} /\ Len(stack') # 0
    BY <1>0, <2>1, <2>3, <2>4
  <2> QED
    BY <2>1, <2>4, <2>5, <2>7, <2>8, InvAfter
<1> QED
  BY <1>1, <1>2

(* A header that ends before token i opens a block or finishes a           *)
(* statement; either way the block there is that of the header.            *)
LEMMA EnterStep ==
  ASSUME ParserInv, status = "parsing", Len(stack) > 0, index <= Length,
         NEW kw, NEW arg, NEW i, Ahead(index, i),
         Quiet(i) => Plain(index, i), Enter(Node(kw, arg), i)
  PROVE  ParserInv'
<1> DEFINE node == Node(kw, arg)
<1>0. Length \in Nat /\ Texts
  BY KindsOfTokens DEF ParserInv
<1>1. i \in 1 .. (Length + 1) /\ index \in 1 .. Length /\ index <= i
  BY <1>0 DEF Ahead, ParserInv
<1>2. Quiet(i) => Len(stack) = Depth(i)
  <2> SUFFICES ASSUME Quiet(i) PROVE Len(stack) = Depth(i)
    OBVIOUS
  <2>1. Quiet(index)
    BY <1>0, <1>1 DEF Quiet
  <2>2. Depth(i) = Depth(index)
    BY <1>1, DepthPlain
  <2> QED
    BY <2>1, <2>2 DEF ParserInv, Matched
<1>3. CASE KindAt(i) = LBRACE /\ node.kw = "description"
  <2> DEFINE next == AfterBraces(i)
  <2>1. Finish(stack, node, next)
    BY <1>3 DEF Enter
  <2>2. i \in 1 .. Length
    BY <1>0, <1>1, <1>3, WithinText, Punctuation
  <2>3. next \in i .. (Length + 1) /\ (next <= Length => Depth(next) = Depth(i))
    BY <1>0, <2>2, BracesKeep DEF Keeps, Ahead
  <2> HIDE DEF next
  <2>4. next <= Length /\ Quiet(next) => Len(stack) = Depth(next)
    BY <1>0, <1>1, <1>2, <2>3 DEF Quiet
  <2> QED
    BY <1>0, <1>1, <2>1, <2>3, <2>4, FinishStep DEF ParserInv
<1>4. CASE KindAt(i) = LBRACE /\ node.kw # "description" /\ Allowed(node.kw) # {}
  <2>1. /\ index' = i + 1 /\ stack' = Append(stack, node) /\ tables' = tables
        /\ source' = source /\ status' = status
    BY <1>4 DEF Enter
  <2>2. i \in 1 .. Length
    BY <1>0, <1>1, <1>4, WithinText, Punctuation
  <2>3. Len(stack') = Len(stack) + 1 /\ Blocks(stack')
    <3>1. IsNode(node)
      BY NewNode
    <3> HIDE DEF node
    <3>2. /\ IsSeq(stack') /\ Len(stack') = Len(stack) + 1 /\ Len(stack) \in Nat
          /\ \A k \in 1 .. Len(stack) : stack'[k] = stack[k]
          /\ stack'[Len(stack) + 1] = node
      BY <2>1, AppendSeq DEF ParserInv, Blocks
    <3> QED
      BY <1>4, <3>1, <3>2 DEF ParserInv, Blocks
  <2>4. Depth(i + 1) = Depth(i) + 1
    BY <1>4, <2>2, DepthBrace DEF Opens
  <2>5. Quiet(i + 1) => Quiet(i)
    BY <1>0, <2>2 DEF Quiet
  <2>6. Matched(stack', index', status')
    BY <1>2, <2>1, <2>3, <2>4, <2>5 DEF Matched
  <2>7. index' \in 1 .. (Length + 1) /\ Len(stack) \in Nat
    BY <1>0, <2>1, <2>2 DEF ParserInv, Blocks, IsSeq
  <2> QED
    BY <2>1, <2>3, <2>6, <2>7, InvAfter DEF ParserInv
<1>5. CASE ~(KindAt(i) = LBRACE /\ (node.kw = "description" \/ Allowed(node.kw) # {}))
  <2>1. Fail \/ Finish(stack, node, i)
    BY <1>5 DEF Enter
  <2> HIDE DEF node
  <2> QED
    BY <1>1, <1>2, <2>1, FailStep, FinishStep DEF ParserInv
<1> HIDE DEF node
<1> QED
  BY <1>3, <1>4, <1>5

(* The header of the module: three tokens, of which the last is a brace.   *)
LEMMA RootStep == ASSUME ParserInv, Root PROVE ParserInv'
<1>0. Length \in Nat /\ Texts
  BY KindsOfTokens DEF ParserInv
<1>1. CASE Fail
  BY <1>1, FailStep
<1>2. CASE ~Fail
  <2> DEFINE node == Node(Key, <<Peek(2)>>)
  <2>1. /\ Key \in {"module", "submodule"} /\ KindAt(2) = "IDENTIFIER" /\ KindAt(3) = LBRACE
        /\ index' = 4 /\ stack' = <<node>> /\ source' = source /\ tables' = tables
        /\ status = "parsing" /\ status' = status /\ stack = <<>>
    BY <1>2 DEF Root
  <2>2. index = 1 /\ KindAt(1) = "IDENTIFIER"
    BY <2>1, EmptySeq DEF ParserInv, Blocks, Key
  <2>3. 3 <= Length
    BY <1>0, <2>1, WithinText, Punctuation
  <2>4. Depth(4) = 1
    <3>1. \A k \in 1 .. (3 - 1) : k = 1 \/ k = 2
      OBVIOUS
    <3>2. Plain(1, 3)
      BY <2>1, <2>2, <3>1, Punctuation DEF Plain
    <3>3. Depth(3) = 0
      BY <3>2, DepthPlain, DepthFirst
    <3>4. Depth(3 + 1) = Depth(3) + 1
      BY <2>1, DepthBrace DEF Opens
    <3> QED
      BY <3>3, <3>4
  <2>5. Blocks(stack') /\ Len(stack') = 1
    <3>1. IsNode(node) /\ node.kw \in {"module", "submodule"} /\ Allowed(node.kw) # {}
      BY <2>1, NewNode, RootsHaveBlocks
    <3> HIDE DEF node
    <3>2. <<node>> \in Seq({node}) /\ Len(<<node>>) = 1 /\ <<node>>[1] = node
      OBVIOUS
    <3>3. IsSeq(<<node>>)
      BY <3>2, SeqOfElements
    <3> QED
      BY <2>1, <3>1, <3>2, <3>3 DEF Blocks
  <2>6. Matched(stack', index', status')
    BY <2>1, <2>4, <2>5 DEF Matched
  <2>7. index' \in 1 .. (Length + 1)
    BY <1>0, <2>1, <2>3
  <2> QED
    BY <2>1, <2>5, <2>6, <2>7, InvAfter DEF ParserInv
<1> QED
  BY <1>1, <1>2

(* In a block a token is left to read, and the block is open.              *)
LEMMA InBlockHas ==
  ASSUME ParserInv, InBlock
  PROVE  index \in 1 .. Length /\ Length \in Nat /\ Texts /\ Len(stack) > 0 /\ status = "parsing"
<1>1. Length \in Nat /\ Texts /\ index \in 1 .. (Length + 1)
  BY KindsOfTokens DEF ParserInv
<1>2. index <= Length
  BY <1>1, WithinText DEF InBlock
<1>3. Len(stack) \in Nat /\ (stack = <<>> <=> Len(stack) = 0)
  BY EmptySeq DEF ParserInv, Blocks, IsSeq
<1> QED
  BY <1>1, <1>2, <1>3 DEF InBlock

(* A statement of the block's dispatch table.                              *)
LEMMA StatementStep == ASSUME ParserInv, Statement PROVE ParserInv'
<1> DEFINE next == AfterArgument(Top.kw, Key, index + 1)
           arg == SubSeq(Tokens, index + 1, next - 1)
<1>1. index \in 1 .. Length /\ Length \in Nat /\ Texts /\ Len(stack) > 0 /\ status = "parsing"
  BY InBlockHas DEF Statement
<1>2. KindAt(index) = "IDENTIFIER" /\ Key = TextAt(index)
  BY DEF Statement, Dispatched, Key
<1>3. Key \in Keywords
  BY AllowedAreKeywords DEF Statement, Dispatched
<1>4. Fail \/ (next # 0 /\ Enter(Node(Key, arg), next))
  BY DEF Statement
<1>5. CASE next # 0 /\ Enter(Node(Key, arg), next)
  <2> HIDE DEF arg
  <2>1. next = AfterArgument(Top.kw, TextAt(index), index + 1)
    BY <1>2
  <2> HIDE DEF next
  <2>2. Ahead(index + 1, next) /\ (Quiet(next) => Plain(index, next))
    BY <1>1, <1>2, <1>3, <1>5, <2>1, ArgumentEnds
  <2>3. Ahead(index, next)
    BY <1>1, <2>2 DEF Ahead
  <2> QED
    BY <1>1, <1>5, <2>2, <2>3, EnterStep
<1> QED
  BY <1>4, <1>5, FailStep

(* A use of an extension: three tokens and perhaps an argument, no brace.  *)
LEMMA ExtensionStep == ASSUME ParserInv, Extension PROVE ParserInv'
<1> DEFINE next == AfterOptional(index + 3)
           arg == SubSeq(Tokens, index, next - 1)
<1>1. index \in 1 .. Length /\ Length \in Nat /\ Texts /\ Len(stack) > 0 /\ status = "parsing"
  BY InBlockHas DEF Extension
<1>2. KindAt(index) = "IDENTIFIER" /\ KindAt(index + 1) = COLON /\ KindAt(index + 2) = "IDENTIFIER"
  BY DEF Extension, Prefixed
<1>3. index + 2 <= Length
  BY <1>1, <1>2, WithinText
<1>4. Fail \/ Enter(Node("prefix:name", arg), next)
  BY DEF Extension
<1>5. CASE Enter(Node("prefix:name", arg), next)
  <2> HIDE DEF arg
  <2>1. next = index + 3 \/ (next = index + 4 /\ KindAt(index + 3) \in Numbers \cup {"STRING", "IDENTIFIER"})
    <3>1. index + 3 + 1 = index + 4
      BY <1>1
    <3> QED
      BY <3>1 DEF AfterOptional
  <2> HIDE DEF next
  <2>2. next = index + 4 => KindAt(index + 3) \notin Braces /\ index + 3 <= Length
    BY <1>1, <2>1, Punctuation, WithinText DEF Numbers
  <2>3. Ahead(index, next)
    BY <1>1, <1>3, <2>1, <2>2 DEF Ahead
  <2>4. \A k \in index .. (next - 1) :
          k = index \/ k = index + 1 \/ k = index + 2 \/ (k = index + 3 /\ next = index + 4)
    BY <1>1, <2>1
  <2>5. Plain(index, next)
    BY <1>2, <2>2, <2>4, Punctuation DEF Plain
  <2> QED
    BY <1>1, <1>5, <2>3, <2>5, EnterStep
<1> QED
  BY <1>4, <1>5, FailStep

(* An unsupported statement is skipped, anything else refused.             *)
LEMMA OtherStep == ASSUME ParserInv, Other PROVE ParserInv'
<1> DEFINE next == AfterSkipped(index)
<1>1. index \in 1 .. Length /\ Length \in Nat /\ Texts /\ Len(stack) > 0 /\ status = "parsing"
  BY InBlockHas DEF Other
<1>2. Fail \/ /\ TextAt(index) \in Unsupported /\ index' = next
              /\ UNCHANGED <<source, stack, tables, status>>
  BY DEF Other
<1>3. CASE /\ TextAt(index) \in Unsupported /\ index' = next
           /\ UNCHANGED <<source, stack, tables, status>>
  <2>1. KindAt(index) \notin Braces
    <3>1. LBRACE \notin Unsupported /\ RBRACE \notin Unsupported
      BY Zenon DEF LBRACE, RBRACE, Unsupported
    <3> QED
      BY <1>1, <1>3, <3>1, KindsOfTokens, Punctuation
  <2>2. Keeps(index, next)
    BY <1>1, <2>1, SkippedKeeps
  <2> HIDE DEF next
  <2>3. index' \in 1 .. (Length + 1) /\ (Quiet(index') => Quiet(index))
    BY <1>1, <1>3, <2>2 DEF Keeps, Ahead, Quiet
  <2>4. Matched(stack', index', status')
    BY <1>1, <1>3, <2>2, <2>3 DEF Matched, Keeps, ParserInv
  <2> QED
    BY <1>1, <1>3, <2>3, <2>4, InvAfter DEF ParserInv
<1> QED
  BY <1>2, <1>3, FailStep

(* What is open below the innermost block.                                 *)
LEMMA FrontBlocks ==
  ASSUME Blocks(stack), Len(stack) > 1
  PROVE  Blocks(Front(stack)) /\ Len(Front(stack)) = Len(stack) - 1 /\ Len(stack) \in Nat
<1>1. IsSeq(stack) /\ stack # <<>>
  BY EmptySeq DEF Blocks
<1>2. /\ IsSeq(Front(stack)) /\ Len(Front(stack)) = Len(stack) - 1 /\ Len(stack) \in Nat
      /\ \A i \in 1 .. (Len(stack) - 1) : Front(stack)[i] = stack[i]
  BY <1>1, FrontSeq
<1> DEFINE f == Front(stack)
           n == Len(stack)
<1>3. n \in Nat /\ n > 1 /\ Len(f) = n - 1 /\ \A i \in 1 .. (n - 1) : f[i] = stack[i] /\ i \in 1 .. n
  BY <1>2
<1>4. \A i \in 1 .. n : IsNode(stack[i]) /\ Allowed(stack[i].kw) # {}
  BY DEF Blocks
<1>5. stack[1].kw \in {"module", "submodule"}
  BY <1>3 DEF Blocks
<1>6. IsSeq(f)
  BY <1>2
<1> HIDE DEF f, n
<1>7. 1 \in 1 .. (n - 1)
  BY <1>3
<1>8. \A i \in 1 .. Len(f) : IsNode(f[i]) /\ Allowed(f[i].kw) # {}
  BY <1>3, <1>4
<1>9. f[1].kw \in {"module", "submodule"}
  BY <1>3, <1>5, <1>7
<1>10. Blocks(f)
  BY <1>6, <1>8, <1>9 DEF Blocks
<1> QED
  BY <1>3, <1>10 DEF f, n

(* The end of a block.                                                     *)
LEMMA CloseStep == ASSUME ParserInv, Close PROVE ParserInv'
<1>1. Length \in Nat /\ Texts /\ index \in 1 .. (Length + 1) /\ KindAt(index) = RBRACE
  BY KindsOfTokens DEF ParserInv, Close
<1>2. index <= Length
  BY <1>1, WithinText, Punctuation
<1>3. Len(stack) \in Nat /\ Len(stack) # 0 /\ status = "parsing"
  BY EmptySeq DEF ParserInv, Blocks, IsSeq, Close
<1>4. CASE Len(stack) = 1
  <2>1. status' = "done" /\ index' = index + 1 /\ UNCHANGED <<source, stack, tables>>
    BY <1>4 DEF Close
  <2> QED
    BY <1>1, <1>2, <2>1, InvAfter DEF ParserInv, Matched
<1>5. CASE Len(stack) # 1
  <2>1. Finish(Front(stack), Top, index + 1)
    BY <1>5 DEF Close
  <2>2. Blocks(Front(stack)) /\ Len(Front(stack)) = Len(stack) - 1
    <3>1. \A n \in Nat : n # 0 /\ n # 1 => n > 1
      OBVIOUS
    <3>2. Len(stack) > 1 /\ Blocks(stack)
      BY <1>3, <1>5, <3>1 DEF ParserInv
    <3> QED
      BY <3>2, FrontBlocks
  <2>3. Depth(index + 1) = Depth(index) - 1
    BY <1>1, DepthBrace DEF Shuts
  <2>4. Quiet(index + 1) => Quiet(index)
    BY <1>1 DEF Quiet
  <2>5. Quiet(index + 1) => Len(Front(stack)) = Depth(index + 1)
    BY <1>2, <1>3, <2>2, <2>3, <2>4 DEF ParserInv, Matched
  <2> QED
    BY <1>1, <1>2, <1>3, <1>5, <2>1, <2>2, <2>5, FinishStep
<1> QED
  BY <1>4, <1>5

(* The end of the text.                                                    *)
LEMMA EndStep == ASSUME ParserInv, End PROVE ParserInv'
<1>1. Length \in Nat /\ Texts /\ index \in 1 .. (Length + 1) /\ KindAt(index) = "END"
  BY KindsOfTokens DEF ParserInv, End
<1>2. index = Length + 1
  BY <1>1, KindsOfTokens, EndIsNoKind
<1>3. Len(stack) \in Nat /\ Len(stack) # 0 /\ status = "parsing"
  BY EmptySeq DEF ParserInv, Blocks, IsSeq, End
<1>4. Fail \/ (Top.kw = "container" /\ Finish(Front(stack), Top, index))
  BY DEF End
<1>5. CASE Top.kw = "container" /\ Finish(Front(stack), Top, index)
  <2>1. Len(stack) # 1
    BY <1>3, <1>5 DEF ParserInv, Blocks, Top
  <2>2. Blocks(Front(stack)) /\ Len(Front(stack)) = Len(stack) - 1
    <3>1. \A n \in Nat : n # 0 /\ n # 1 => n > 1
      OBVIOUS
    <3>2. Len(stack) > 1 /\ Blocks(stack)
      BY <1>3, <2>1, <3>1 DEF ParserInv
    <3> QED
      BY <3>2, FrontBlocks
  <2> QED
    BY <1>1, <1>2, <1>3, <1>5, <2>1, <2>2, FinishStep
<1> QED
  BY <1>4, <1>5, FailStep

(* Every step keeps the invariant.                                         *)
LEMMA NextInv == ParserInv /\ [Next]_vars => ParserInv'
<1> SUFFICES ASSUME ParserInv, [Next]_vars PROVE ParserInv'
  OBVIOUS
<1>1. CASE Root
  BY <1>1, RootStep
<1>2. CASE Statement
  BY <1>2, StatementStep
<1>3. CASE Extension
  BY <1>3, ExtensionStep
<1>4. CASE Other
  BY <1>4, OtherStep
<1>5. CASE Close
  BY <1>5, CloseStep
<1>6. CASE End
  BY <1>6, EndStep
<1>7. CASE Stopped \/ UNCHANGED vars
  BY <1>7, InvAfter DEF Stopped, vars, ParserInv
<1> QED
  BY <1>1, <1>2, <1>3, <1>4, <1>5, <1>6, <1>7 DEF Next

(* The parser is at the invariant's states throughout.                     *)
LEMMA ParserInvariant == Spec => []ParserInv
  BY InitInv, NextInv, PTL DEF Spec

(* No token beyond the end of the text is read, only statements with a     *)
(* block are open, and every definition is in its table under its name.    *)
THEOREM NeverReadsPastTheText == Spec => []TypeOK
  BY ParserInvariant, InvImplies, PTL

(* The parser is in the block its text is in: no argument, date or path,   *)
(* no skipped or unterminated statement makes it lose count of the braces, *)
(* until it takes one for a name.                                          *)
THEOREM KnowsItsBlock == Spec => []BracesMatch
  BY ParserInvariant, InvImplies, PTL
=============================================================================
