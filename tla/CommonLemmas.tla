---------------------------- MODULE CommonLemmas ----------------------------
(***************************************************************************)
(* Lemmas of several proofs.  About numbers: a set of them has a least     *)
(* one, which is what inductions and recursive functions rest on.  About a *)
(* sequence used as a stack: what pushing, popping and replacing the last  *)
(* element leave in the places below it.                                   *)
(***************************************************************************)
EXTENDS Integers, SequencesExt, WellFoundedInduction, FiniteSetTheorems, TLAPS

(* A set of numbers has a least one: the interval below it is minimal      *)
(* among the intervals below the others, and intervals are finite sets.    *)
LEMMA LeastNumber ==
  ASSUME NEW S, S \subseteq Nat, S # {}
  PROVE  \E x \in S : \A y \in S : x <= y
<1>1. PICK n \in S : TRUE
  OBVIOUS
<1> DEFINE D == {1 .. x : x \in {y \in S : y <= n}}
<1>2. n \in Nat
  BY <1>1
<1>3. IsWellFoundedOn(StrictSubsetOrdering(1 .. n), FiniteSubsetsOf(1 .. n))
  BY FS_StrictSubsetOrderingWellFounded
<1>4. D \subseteq FiniteSubsetsOf(1 .. n) /\ D # {}
  <2>1. ASSUME NEW d \in D PROVE d \in SUBSET (1 .. n) /\ IsFiniteSet(d)
    <3>1. PICK x \in S : x <= n /\ d = 1 .. x
      OBVIOUS
    <3> QED
      BY <3>1, <1>2, FS_Interval
  <2>2. 1 .. n \in D
    BY <1>1, <1>2
  <2> QED
    BY <2>1, <2>2 DEF FiniteSubsetsOf
<1>5. PICK d \in D : \A e \in D : <<e, d>> \notin StrictSubsetOrdering(1 .. n)
  BY <1>3, <1>4, WFMin
<1>6. PICK x \in S : x <= n /\ d = 1 .. x
  BY <1>5
<1>7. ASSUME NEW y \in S, y < x PROVE FALSE
  <2>1. 1 .. y \in D
    BY <1>6, <1>7, <1>2
  <2>2. x \in 1 .. x /\ x \notin 1 .. y
    BY <1>7, <1>6, <1>2
  <2>3. 1 .. y \subseteq 1 .. x /\ 1 .. x \subseteq 1 .. n
    BY <1>7, <1>6, <1>2
  <2>4. <<1 .. y, 1 .. x>> \in (SUBSET (1 .. n)) \X (SUBSET (1 .. n))
    BY <2>3
  <2>5. <<1 .. y, 1 .. x>>[1] = 1 .. y /\ <<1 .. y, 1 .. x>>[2] = 1 .. x
    OBVIOUS
  <2>6. <<1 .. y, 1 .. x>> \in StrictSubsetOrdering(1 .. n)
    BY <2>2, <2>3, <2>4, <2>5 DEF StrictSubsetOrdering
  <2> QED
    BY <2>1, <2>6, <1>5, <1>6
<1> QED
  BY <1>7, <1>6

(* What holds of a number when it holds of the greater ones up to n holds  *)
(* of all up to n.                                                         *)
LEMMA Backwards ==
  ASSUME NEW n \in Nat, NEW G,
         \A i \in 1 .. n : (\A j \in (i + 1) .. n : j \in G) => i \in G
  PROVE  \A i \in 1 .. n : i \in G
<1> DEFINE S == {m \in 0 .. n : n - m >= 1 /\ (n - m) \notin G}
<1> SUFFICES ASSUME NEW i \in 1 .. n, i \notin G PROVE FALSE
  OBVIOUS
<1>1. n - i \in S /\ S \subseteq Nat
  BY SMT
<1>2. PICK m \in S : \A k \in S : m <= k
  <2> HIDE DEF S
  <2> QED
    BY <1>1, LeastNumber
<1>3. ASSUME NEW j \in ((n - m) + 1) .. n PROVE j \in G
  <2>1. n - j \in 0 .. n /\ n - j < m /\ n - (n - j) = j
    BY <1>2, <1>3
  <2> QED
    BY <1>2, <2>1
<1> QED
  BY <1>2, <1>3

(* What holds of an element when it holds of those of smaller depth holds  *)
(* of all.                                                                 *)
LEMMA ByDepth ==
  ASSUME NEW N, NEW depth \in [N -> Nat], NEW G,
         \A n \in N : (\A m \in N : depth[m] < depth[n] => m \in G) => n \in G
  PROVE  \A n \in N : n \in G
<1> DEFINE S == {depth[n] : n \in {n \in N : n \notin G}}
<1> SUFFICES ASSUME NEW n \in N, n \notin G PROVE FALSE
  OBVIOUS
<1>1. S \subseteq Nat /\ S # {}
  OBVIOUS
<1>2. PICK k \in S : \A l \in S : k <= l
  <2> HIDE DEF S
  <2> QED
    BY <1>1, LeastNumber
<1>3. PICK a \in N : a \notin G /\ depth[a] = k
  BY <1>2
<1>4. ASSUME NEW m \in N, depth[m] < depth[a] PROVE m \in G
  <2>1. depth[m] \in Nat /\ depth[a] \in Nat /\ ~(depth[a] <= depth[m])
    BY <1>4
  <2> QED
    BY <1>2, <1>3, <2>1
<1> QED
  BY <1>3, <1>4

(* The step of a recursion: what it makes of a function at an element is   *)
(* what it makes of its values at the elements of smaller depth.           *)
Recursion(N, depth, V, step) ==
  /\ depth \in [N -> Nat] /\ V # {} /\ step \in [N -> [[N -> V] -> V]]
  /\ \A n \in N : \A f, g \in [N -> V] :
       (\A m \in N : depth[m] < depth[n] => f[m] = g[m]) => step[n][f] = step[n][g]

(* A recursion defines a function: below any depth some function is as it  *)
(* says, and two of them agree there.                                      *)
LEMMA RecursionByDepth ==
  ASSUME NEW N, NEW depth, NEW V, NEW step, Recursion(N, depth, V, step)
  PROVE  \E f \in [N -> V] : \A n \in N : f[n] = step[n][f]
<1>0. /\ depth \in [N -> Nat] /\ step \in [N -> [[N -> V] -> V]]
      /\ \A n \in N : \A f, g \in [N -> V] :
           (\A m \in N : depth[m] < depth[n] => f[m] = g[m]) => step[n][f] = step[n][g]
  BY DEF Recursion
<1> USE <1>0
<1> PICK v0 : v0 \in V
  BY DEF Recursion
<1> DEFINE Below(f, k) == \A n \in N : depth[n] < k => f[n] = step[n][f]
<1>1. ASSUME NEW f \in [N -> V], NEW g \in [N -> V], NEW k \in Nat, Below(f, k), Below(g, k)
      PROVE  \A n \in N : depth[n] < k => f[n] = g[n]
  <2> DEFINE G == {n \in N : depth[n] < k => f[n] = g[n]}
  <2>1. ASSUME NEW n \in N, \A m \in N : depth[m] < depth[n] => m \in G PROVE n \in G
    <3> SUFFICES ASSUME depth[n] < k PROVE f[n] = g[n]
      OBVIOUS
    <3>1. \A m \in N : depth[m] < depth[n] => f[m] = g[m]
      <4> SUFFICES ASSUME NEW m \in N, depth[m] < depth[n] PROVE f[m] = g[m]
        OBVIOUS
      <4>1. depth[m] < k
        <5>1. depth[m] \in Nat /\ depth[n] \in Nat
          OBVIOUS
        <5> QED
          BY <5>1
      <4> QED
        BY <2>1, <4>1
    <3>2. step[n][f] = step[n][g]
      BY <3>1
    <3> QED
      BY <1>1, <3>2
  <2> HIDE DEF G
  <2>2. \A n \in N : n \in G
    BY <2>1, ByDepth
  <2> QED
    BY <2>2 DEF G
<1>2. ASSUME NEW k \in Nat PROVE \E f \in [N -> V] : Below(f, k)
  <2> DEFINE S == {l \in Nat : ~\E f \in [N -> V] : Below(f, l)}
  <2> SUFFICES ASSUME S # {} PROVE FALSE
    BY <1>2
  <2>1. PICK l \in S : \A i \in S : l <= i
    <3>1. S \subseteq Nat
      OBVIOUS
    <3> HIDE DEF S
    <3> QED
      BY <3>1, LeastNumber
  <2>2. CASE l = 0
    <3>1. [n \in N |-> v0] \in [N -> V]
      OBVIOUS
    <3>2. \A n \in N : ~(depth[n] < l)
      BY <2>2
    <3> QED
      BY <2>1, <3>1, <3>2
  <2>3. CASE l # 0
    <3>1. l - 1 \in Nat /\ ~(l <= l - 1)
      BY <2>1, <2>3
    <3>2. PICK f \in [N -> V] : Below(f, l - 1)
      BY <2>1, <3>1
    <3> DEFINE g == [n \in N |-> step[n][f]]
    <3>3. g \in [N -> V]
      OBVIOUS
    <3>4. Below(g, l)
      <4> SUFFICES ASSUME NEW n \in N, depth[n] < l PROVE step[n][f] = step[n][g]
        OBVIOUS
      <4>1. ASSUME NEW m \in N, depth[m] < depth[n] PROVE f[m] = g[m]
        <5>1. depth[m] < l - 1
          <6>1. depth[m] \in Nat /\ depth[n] \in Nat /\ l \in Nat
            BY <2>1
          <6> QED
            BY <4>1, <6>1
        <5> QED
          BY <3>2, <5>1
      <4> HIDE DEF g
      <4> QED
        BY <3>3, <4>1
    <3> QED
      BY <2>1, <3>3, <3>4
  <2> QED
    BY <2>2, <2>3
<1> DEFINE F(n) == CHOOSE f \in [N -> V] : Below(f, depth[n] + 1)
           h == [n \in N |-> F(n)[n]]
<1>3. ASSUME NEW n \in N PROVE F(n) \in [N -> V] /\ Below(F(n), depth[n] + 1)
  <2>1. depth[n] + 1 \in Nat
    OBVIOUS
  <2>2. \E f \in [N -> V] : Below(f, depth[n] + 1)
    BY <1>2, <2>1
  <2> HIDE DEF Below
  <2> QED
    BY <2>2
<1> HIDE DEF F
<1>4. h \in [N -> V]
  BY <1>3
<1>5. ASSUME NEW n \in N PROVE h[n] = step[n][h]
  <2>1. ASSUME NEW m \in N, depth[m] < depth[n] PROVE F(n)[m] = h[m]
    <3>1. /\ depth[m] + 1 \in Nat /\ depth[m] < depth[m] + 1
          /\ \A i \in N : depth[i] < depth[m] + 1 => depth[i] < depth[n] + 1
      <4>1. depth[m] \in Nat /\ depth[n] \in Nat /\ \A i \in N : depth[i] \in Nat
        OBVIOUS
      <4> QED
        BY <2>1, <4>1
    <3>2. Below(F(n), depth[m] + 1)
      BY <1>3, <3>1
    <3>3. F(n)[m] = F(m)[m]
      BY <1>1, <1>3, <3>1, <3>2
    <3> QED
      BY <3>3
  <2>2. depth[n] < depth[n] + 1
    OBVIOUS
  <2>3. F(n)[n] = step[n][F(n)]
    BY <1>3, <2>2
  <2> HIDE DEF h
  <2>4. step[n][F(n)] = step[n][h]
    BY <1>3, <1>4, <2>1
  <2> QED
    BY <2>3, <2>4 DEF h
<1> QED
  BY <1>4, <1>5
-----------------------------------------------------------------------------
(* Stacks.                                                                 *)

Elements(s) == {s[i] : i \in DOMAIN s}
IsSeq(s) == s \in Seq(Elements(s))

(* Appending to a sequence, dropping its last element and replacing it.    *)
LEMMA SeqOfElements ==
  ASSUME NEW S, NEW s \in Seq(S)
  PROVE  IsSeq(s) /\ Len(s) \in Nat /\ DOMAIN s = 1 .. Len(s)
  BY DEF IsSeq, Elements

(* Appending to any sequence.                                              *)
LEMMA AppendSeq ==
  ASSUME NEW s, IsSeq(s), NEW x
  PROVE  /\ IsSeq(Append(s, x))
         /\ Len(Append(s, x)) = Len(s) + 1 /\ Len(s) \in Nat
         /\ \A i \in 1 .. Len(s) : Append(s, x)[i] = s[i]
         /\ Append(s, x)[Len(s) + 1] = x
<1> DEFINE S == Elements(s) \cup {x}
<1>1. s \in Seq(S)
  BY DEF IsSeq, Elements
<1>2. Append(s, x) \in Seq(S)
  BY <1>1
<1>3. IsSeq(Append(s, x))
  BY <1>2, SeqOfElements
<1> QED
  BY <1>1, <1>3

(* Dropping the last element.                                              *)
LEMMA FrontSeq ==
  ASSUME NEW s, IsSeq(s), s # <<>>
  PROVE  /\ IsSeq(Front(s))
         /\ Len(Front(s)) = Len(s) - 1 /\ Len(s) \in Nat \ {0}
         /\ \A i \in 1 .. Len(s) - 1 : Front(s)[i] = s[i]
<1> DEFINE S == Elements(s)
<1>1. s \in Seq(S) /\ Len(s) \in Nat \ {0}
  BY DEF IsSeq
<1>2. Front(s) \in Seq(S)
  BY <1>1 DEF Front
<1>3. IsSeq(Front(s))
  BY <1>2, SeqOfElements
<1> QED
  BY <1>1, <1>3 DEF Front

(* Replacing the last element.                                             *)
LEMMA ReplaceLastSeq ==
  ASSUME NEW s, IsSeq(s), s # <<>>, NEW x
  PROVE  /\ IsSeq([s EXCEPT ![Len(s)] = x])
         /\ Len([s EXCEPT ![Len(s)] = x]) = Len(s) /\ Len(s) \in Nat \ {0}
         /\ \A i \in 1 .. Len(s) - 1 : [s EXCEPT ![Len(s)] = x][i] = s[i]
         /\ [s EXCEPT ![Len(s)] = x][Len(s)] = x
<1> DEFINE S == Elements(s) \cup {x}
           t == [s EXCEPT ![Len(s)] = x]
<1>1. s \in Seq(S) /\ Len(s) \in Nat \ {0} /\ DOMAIN s = 1 .. Len(s)
  BY DEF IsSeq, Elements
<1>2. t \in Seq(S) /\ Len(t) = Len(s)
  BY <1>1
<1>3. IsSeq(t)
  BY <1>2, SeqOfElements
<1> QED
  BY <1>1, <1>2, <1>3

(* The empty sequence is the one of length 0.                              *)
LEMMA EmptySeq == ASSUME NEW s, IsSeq(s) PROVE s = <<>> <=> Len(s) = 0
  BY DEF IsSeq

(* t is s with f on top.                                                   *)
OneMore(t, s, f) ==
  /\ IsSeq(s) /\ IsSeq(t) /\ Len(t) = Len(s) + 1
  /\ (\A i \in 1 .. Len(s) : t[i] = s[i]) /\ t[Len(s) + 1] = f

(* A push.                                                                 *)
LEMMA PushIsOneMore == ASSUME NEW s, IsSeq(s), NEW f PROVE OneMore(Append(s, f), s, f)
  BY AppendSeq DEF OneMore

(* A pop, seen from the stack it leaves.                                   *)
LEMMA PopIsOneMore ==
  ASSUME NEW t, IsSeq(t), t # <<>>
  PROVE  OneMore(t, Front(t), t[Len(t)])
<1>1. IsSeq(Front(t)) /\ Len(Front(t)) = Len(t) - 1 /\ Len(t) \in Nat \ {0}
      /\ \A i \in 1 .. Len(t) - 1 : Front(t)[i] = t[i]
  BY FrontSeq
<1>2. Len(t) = Len(Front(t)) + 1 /\ Len(Front(t)) = Len(t) - 1
  BY <1>1
<1> QED
  BY <1>1, <1>2 DEF OneMore
=============================================================================
