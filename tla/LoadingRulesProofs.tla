------------------------- MODULE LoadingRulesProofs -------------------------
(***************************************************************************)
(* The verdicts of ModuleLoader are those of LoadingRules, for every       *)
(* directory of files and every sequence of calls.  The rules establish    *)
(* facts; a file loads by them when a fact says so.  One half: what an     *)
(* object of the heap has read is established, so what is returned loads.  *)
(* The other: when a parse is refused, each file on the stack waits for a  *)
(* fact that does not follow without facts beyond what the stack waits at, *)
(* so that none of those is established.                                   *)
(***************************************************************************)
EXTENDS LoadingRules, ModuleLoaderProofs

-----------------------------------------------------------------------------
(* The rules.                                                              *)

(* More facts, more that follows.                                          *)
LEMMA FollowsMore ==
  ASSUME NEW d, NEW S, NEW T, S \subseteq T, NEW p, NEW n, NEW c, Follows(d, S, p, n, c)
  PROVE  Follows(d, T, p, n, c)
<1>1. ASSUME NEW s, NEW c1, Reads(d, S, p, s, c1, c) PROVE Reads(d, T, p, s, c1, c)
  BY <1>1 DEF Reads
<1>2. Accepted(d, S, p, c) => Accepted(d, T, p, c)
  BY DEF Accepted, HasTarget
<1> QED
  BY <1>1, <1>2 DEF Follows

(* What follows from established facts is established.                     *)
LEMMA Established1 ==
  ASSUME NEW d, NEW p \in Path, NEW n \in Nat, NEW c \in Content(d),
         Follows(d, Established(d), p, n, c)
  PROVE  <<p, n, c>> \in Established(d)
<1>1. <<p, n, c>> \in Facts(d)
  BY DEF Facts
<1>2. ASSUME NEW S \in SUBSET Facts(d), ClosedUnder(d, S) PROVE <<p, n, c>> \in S
  <2>1. Established(d) \subseteq S
    BY <1>2 DEF Established
  <2>2. Follows(d, S, p, n, c)
    BY <2>1, FollowsMore
  <2> QED
    BY <1>2, <2>2 DEF ClosedUnder
<1> QED
  BY <1>1, <1>2 DEF Established

(* A set that is closed holds what is established.                         *)
LEMMA EstablishedLeast ==
  ASSUME NEW d, NEW S, S \subseteq Facts(d), ClosedUnder(d, S)
  PROVE  Established(d) \subseteq S
BY DEF Established

(* Facts have a file, a number and a content.                              *)
LEMMA FactParts ==
  ASSUME NEW d
  PROVE  /\ Established(d) \subseteq Facts(d)
         /\ \A p, n, c : <<p, n, c>> \in Established(d) => p \in Path /\ n \in Nat /\ c \in Content(d)
         /\ \A f \in Facts(d) : /\ f = <<f[1], f[2], f[3]>>
                                /\ f[1] \in Path /\ f[2] \in Nat /\ f[3] \in Content(d)
<1>1. Established(d) \subseteq Facts(d)
  BY DEF Established
<1>2. \A p, n, c : <<p, n, c>> \in Facts(d) => p \in Path /\ n \in Nat /\ c \in Content(d)
  BY DEF Facts
<1>3. \A f \in Facts(d) : /\ f = <<f[1], f[2], f[3]>>
                          /\ f[1] \in Path /\ f[2] \in Nat /\ f[3] \in Content(d)
  BY DEF Facts
<1> QED
  BY <1>1, <1>2, <1>3

(* What is established follows from what is established.                   *)
LEMMA EstablishedFollows ==
  ASSUME NEW d, NEW p, NEW n, NEW c, <<p, n, c>> \in Established(d)
  PROVE  Follows(d, Established(d), p, n, c)
<1> DEFINE S == {f \in Established(d) : Follows(d, Established(d), f[1], f[2], f[3])}
<1>1. S \subseteq Facts(d) /\ S \subseteq Established(d)
  BY FactParts
<1>2. ClosedUnder(d, S)
  <2>1. SUFFICES ASSUME NEW q \in Path, NEW k \in Nat, NEW e \in Content(d), Follows(d, S, q, k, e)
                 PROVE  <<q, k, e>> \in S
    BY DEF ClosedUnder
  <2>2. Follows(d, Established(d), q, k, e)
    BY <1>1, <2>1, FollowsMore
  <2>3. <<q, k, e>> \in Established(d)
    BY <2>2, Established1
  <2> QED
    BY <2>2, <2>3
<1>3. Established(d) \subseteq S
  BY <1>1, <1>2, EstablishedLeast
<1> QED
  BY <1>3

(* The facts beyond B, a set of pairs of a file and a number of it.        *)
Beyond(d, B) == {f \in Facts(d) : \E b \in B : f[1] = b[1] /\ f[2] > b[2]}

(* When for no file of B the next fact follows without facts beyond B,     *)
(* none of them is established.  B may be a cycle.                         *)
LEMMA Blocked ==
  ASSUME NEW d, NEW B, B \subseteq Path \X (Nat \ {0}),
         \A b \in B : \A c : ~Follows(d, Established(d) \ Beyond(d, B), b[1], b[2] + 1, c)
  PROVE  \A f \in Established(d) : f \notin Beyond(d, B)
<1> DEFINE S == Established(d) \ Beyond(d, B)
<1>1. S \subseteq Facts(d) /\ S \subseteq Established(d)
  BY FactParts
<1>2. ClosedUnder(d, S)
  <2>1. SUFFICES ASSUME NEW p \in Path, NEW n \in Nat, NEW c \in Content(d), Follows(d, S, p, n, c)
                 PROVE  <<p, n, c>> \in S
    BY DEF ClosedUnder
  <2>2. <<p, n, c>> \in Established(d)
    <3>1. Follows(d, Established(d), p, n, c)
      BY <1>1, <2>1, FollowsMore
    <3> QED
      BY <3>1, Established1
  <2>3. ASSUME NEW b \in B, b[1] = p, n > b[2] PROVE FALSE
    <3>1. b[1] \in Path /\ b[2] \in Nat \ {0}
      BY <2>3
    <3>2. PICK e : <<p, n - 1, e>> \in S
      <4>1. n # 1
        BY <2>3, <3>1
      <4> QED
        BY <2>1, <4>1 DEF Follows
    <3>3. <<p, n - 1, e>> \in Facts(d) /\ <<p, n - 1, e>> \notin Beyond(d, B)
      BY <1>1, <3>2
    <3>4. ~(n - 1 > b[2])
      BY <2>3, <3>3 DEF Beyond
    <3>5. n = b[2] + 1
      BY <2>3, <3>1, <3>4
    <3> QED
      BY <2>1, <2>3, <3>5
  <2>4. <<p, n, c>> \notin Beyond(d, B)
    BY <2>3 DEF Beyond
  <2> QED
    BY <2>2, <2>4
<1>3. Established(d) \subseteq S
  BY <1>1, <1>2, EstablishedLeast
<1> QED
  BY <1>3

(* A statement leads from one content to another.                          *)
LEMMA ReadsTyped ==
  ASSUME NEW d \in [Path -> File], NEW S, S \subseteq Facts(d), NEW p \in Path,
         NEW n \in 1 .. Len(d[p].body), NEW c \in Content(d), NEW c2,
         Reads(d, S, p, d[p].body[n], c, c2)
  PROVE  c2 \in Content(d)
<1> DEFINE s == d[p].body[n]
<1>1. s \in Statement /\ s \in Elements(d[p].body)
  BY FileFields DEF Elements
<1>2. s.op = "import" => s.prefix \in Prefix
  BY <1>1 DEF Statement
<1>3. s.op = "augment" => s \in AugmentsOf(d)
  BY <1>1 DEF AugmentsOf
<1>4. s.node \in Node
  BY <1>1 DEF Statement
<1>5. /\ c.nodes \subseteq Node /\ c.defines \subseteq Node /\ c.augments \subseteq AugmentsOf(d)
      /\ c.imports \subseteq Prefix \X Path
  BY DEF Content
<1> HIDE DEF s
<1>6. CASE s.op = "node" /\ c2 = [c EXCEPT !.nodes = @ \cup {s.node}]
  BY <1>4, <1>6 DEF Content
<1>7. CASE s.op = "define" /\ c2 = [c EXCEPT !.defines = @ \cup {s.node}]
  BY <1>4, <1>7 DEF Content
<1>8. CASE s.op = "augment" /\ c2 = [c EXCEPT !.augments = @ \cup {s}]
  BY <1>3, <1>8 DEF Content
<1>9. CASE /\ s.op = "import" /\ Locate[s.name] \in Path
           /\ c2 = [c EXCEPT !.imports = @ \cup {<<s.prefix, Locate[s.name]>>}]
  BY <1>2, <1>9 DEF Content
<1>10. CASE \E sub : <<Locate[s.name], End(d, Locate[s.name]), sub>> \in S /\ c2 = Joined(d, p, c, sub)
  <2>1. PICK sub : <<Locate[s.name], End(d, Locate[s.name]), sub>> \in S /\ c2 = Joined(d, p, c, sub)
    BY <1>10
  <2>2. sub \in Content(d)
    BY <2>1 DEF Facts
  <2>3. /\ sub.nodes \subseteq Node /\ sub.defines \subseteq Node /\ sub.augments \subseteq AugmentsOf(d)
        /\ sub.imports \subseteq Prefix \X Path
    BY <2>2 DEF Content
  <2> QED
    BY <1>5, <2>1, <2>3 DEF Joined, Content
<1> QED
  BY <1>6, <1>7, <1>8, <1>9, <1>10 DEF Reads, s

LEMMA NothingTyped == \A d : Nothing \in Content(d)
  BY DEF Nothing, Content

(* One statement read on, one file begun, one accepted.                    *)
LEMMA ReadOn ==
  ASSUME NEW d \in [Path -> File], NEW p \in Path, NEW n \in 1 .. Len(d[p].body), NEW c,
         <<p, n, c>> \in Established(d), NEW c2, Reads(d, Established(d), p, d[p].body[n], c, c2)
  PROVE  <<p, n + 1, c2>> \in Established(d)
<1>1. Established(d) \subseteq Facts(d) /\ c \in Content(d)
  BY FactParts
<1>2. c2 \in Content(d)
  BY <1>1, ReadsTyped
<1>3. n \in Nat /\ n + 1 \in Nat /\ (n + 1) - 1 = n
  BY FileFields
<1>4. Follows(d, Established(d), p, n + 1, c2)
  BY <1>3 DEF Follows
<1> QED
  BY <1>2, <1>3, <1>4, Established1

LEMMA Begin ==
  ASSUME NEW d, NEW p \in Path PROVE <<p, 1, Nothing>> \in Established(d)
<1>1. Follows(d, Established(d), p, 1, Nothing)
  BY DEF Follows
<1> QED
  BY <1>1, NothingTyped, Established1

LEMMA Accept ==
  ASSUME NEW d \in [Path -> File], NEW p \in Path, NEW c, <<p, End(d, p), c>> \in Established(d),
         Accepted(d, Established(d), p, c)
  PROVE  <<p, End(d, p) + 1, c>> \in Established(d)
<1>1. c \in Content(d)
  BY FactParts
<1>2. End(d, p) + 1 \in Nat /\ (End(d, p) + 1) - 1 = End(d, p)
  BY FileFields DEF End
<1>3. Follows(d, Established(d), p, End(d, p) + 1, c)
  BY <1>2 DEF Follows
<1> QED
  BY <1>1, <1>2, <1>3, Established1

(* And back: what the next fact follows from.                              *)
LEMMA ReadFrom ==
  ASSUME NEW d \in [Path -> File], NEW p \in Path, NEW n \in 1 .. Len(d[p].body), NEW S, NEW c2,
         Follows(d, S, p, n + 1, c2)
  PROVE  \E c : <<p, n, c>> \in S /\ Reads(d, S, p, d[p].body[n], c, c2)
<1>1. Len(d[p].body) \in Nat
  BY FileFields
<1>2. n + 1 # 1 /\ (n + 1) - 1 = n /\ n + 1 # End(d, p) + 1
  BY <1>1 DEF End
<1> QED
  BY <1>2 DEF Follows

LEMMA AcceptedFrom ==
  ASSUME NEW d \in [Path -> File], NEW p \in Path, NEW S, NEW c,
         Follows(d, S, p, End(d, p) + 1, c)
  PROVE  <<p, End(d, p), c>> \in S /\ Accepted(d, S, p, c)
<1>1. Len(d[p].body) \in Nat
  BY FileFields
<1>2. /\ End(d, p) + 1 # 1 /\ (End(d, p) + 1) - 1 = End(d, p)
      /\ End(d, p) \notin 1 .. Len(d[p].body)
  BY <1>1 DEF End
<1> QED
  BY <1>2 DEF Follows

(* A statement leads to one content only.                                  *)
LEMMA ReadsOne ==
  ASSUME NEW d, NEW U, NEW S, NEW p, NEW s, NEW c, NEW c1, NEW c2,
         Reads(d, U, p, s, c, c1), Reads(d, S, p, s, c, c2),
         \A q, n, x, y : <<q, n, x>> \in U /\ <<q, n, y>> \in S => x = y
  PROVE  c1 = c2
<1>1. CASE s.op = "include"
  <2>1. PICK x : /\ <<Locate[s.name], End(d, Locate[s.name]), x>> \in U /\ c1 = Joined(d, p, c, x)
    BY <1>1 DEF Reads
  <2>2. PICK y : /\ <<Locate[s.name], End(d, Locate[s.name]), y>> \in S /\ c2 = Joined(d, p, c, y)
    BY <1>1 DEF Reads
  <2> QED
    BY <2>1, <2>2
<1>2. CASE s.op # "include"
  BY <1>2 DEF Reads
<1> QED
  BY <1>1, <1>2

(* A file comes to one content only, however it is established.            *)
LEMMA OneContent ==
  ASSUME NEW d \in [Path -> File], NEW p, NEW n, NEW x, NEW y,
         <<p, n, x>> \in Established(d), <<p, n, y>> \in Established(d)
  PROVE  x = y
<1> DEFINE U == {f \in Established(d) : \A c : <<f[1], f[2], c>> \in Established(d) => f[3] = c}
<1>1. U \subseteq Facts(d) /\ U \subseteq Established(d)
  BY FactParts
<1>2. \A q, k, a, b : <<q, k, a>> \in U /\ <<q, k, b>> \in Established(d) => a = b
  OBVIOUS
<1>3. ClosedUnder(d, U)
  <2>1. SUFFICES ASSUME NEW q \in Path, NEW k \in Nat, NEW e \in Content(d), Follows(d, U, q, k, e)
                 PROVE  <<q, k, e>> \in U
    BY DEF ClosedUnder
  <2>2. <<q, k, e>> \in Established(d)
    <3>1. Follows(d, Established(d), q, k, e)
      BY <1>1, <2>1, FollowsMore
    <3> QED
      BY <3>1, Established1
  <2>3. ASSUME NEW c, <<q, k, c>> \in Established(d) PROVE e = c
    <3> HIDE DEF U
    <3>1. Follows(d, Established(d), q, k, c)
      BY <2>3, EstablishedFollows
    <3>2. Len(d[q].body) \in Nat /\ End(d, q) = Len(d[q].body) + 1
      BY FileFields DEF End
    <3>3. CASE k = 1
      BY <2>1, <3>1, <3>2, <3>3 DEF Follows
    <3>4. CASE k - 1 \in 1 .. Len(d[q].body)
      <4>1. PICK j \in 1 .. Len(d[q].body) : k = j + 1
        BY <3>2, <3>4
      <4>2. PICK a : <<q, j, a>> \in U /\ Reads(d, U, q, d[q].body[j], a, e)
        BY <2>1, <4>1, ReadFrom
      <4>3. PICK b : <<q, j, b>> \in Established(d) /\ Reads(d, Established(d), q, d[q].body[j], b, c)
        BY <3>1, <4>1, ReadFrom
      <4>4. a = b
        BY <1>2, <4>2, <4>3
      <4> QED
        BY <1>2, <4>2, <4>3, <4>4, ReadsOne
    <3>5. CASE k = End(d, q) + 1
      <4>1. <<q, End(d, q), e>> \in U
        BY <2>1, <3>5, AcceptedFrom
      <4>2. <<q, End(d, q), c>> \in Established(d)
        BY <3>1, <3>5, AcceptedFrom
      <4> QED
        BY <1>2, <4>1, <4>2
    <3> QED
      BY <2>1, <3>3, <3>4, <3>5 DEF Follows
  <2> QED
    BY <2>2, <2>3
<1>4. Established(d) \subseteq U
  BY <1>1, <1>3, EstablishedLeast
<1>5. <<p, n, x>> \in U
  BY <1>4
<1> QED
  BY <1>2, <1>5
-----------------------------------------------------------------------------
(* What the objects and parses of the heap m have of what is established.  *)

(* Bindings, each with the file it leads to, and what an object has read.  *)
Leads(m, I) == {<<b[1], m[b[2]].path>> : b \in I}
Seen(m, i) ==
  [nodes |-> Elements(m[i].nodes), defines |-> m[i].defines,
   augments |-> Elements(m[i].augments), imports |-> Leads(m, m[i].imports)]

(* Object i has what c says, and perhaps nodes that augments have added.   *)
Grew(d, c, m, i) ==
  /\ c.nodes \subseteq Elements(m[i].nodes)
  /\ Elements(m[i].nodes) \subseteq c.nodes \cup AddedNodes(d)
  /\ Leads(m, m[i].imports) = c.imports

Finished(d, m, i) ==
  \E c : <<m[i].path, End(d, m[i].path) + 1, c>> \in Established(d) /\ Grew(d, c, m, i)

(* The augments that object i of file p does not list any more had targets.*)
Merging(d, p, m, i) ==
  \E c : /\ <<p, End(d, p), c>> \in Established(d) /\ Grew(d, c, m, i)
         /\ Elements(m[i].augments) \subseteq c.augments
         /\ \A s \in c.augments :
              s \in Elements(m[i].augments) \/ HasTarget(d, Established(d), p, c, s)

FrameKnown(d, f, m) ==
  /\ f.next \in 1 .. End(d, f.path)
  /\ ~f.finalizing => <<f.path, f.next, Seen(m, f.id)>> \in Established(d)
  /\ f.finalizing => /\ f.next = End(d, f.path) /\ f.how # "include"
                     /\ d[f.path].fault # "uses" /\ Merging(d, f.path, m, f.id)

ReadyKnown(d, m) == \A i \in DOMAIN m : m[i].ready => Finished(d, m, i)

ParsesKnown(d, t, m) ==
  /\ \A k \in DOMAIN t : FrameKnown(d, t[k], m)
  /\ \A k \in DOMAIN t : k + 1 \in DOMAIN t => LinkOK(d, t[k], t[k + 1], m)

KnownOK == ListsOK(modules) /\ ReadyKnown(disk, modules) /\ ParsesKnown(disk, stack, modules)

VerdictsKnown(d, v) ==
  \A p \in Path : (v[p] = "ok" => Loads(d, p)) /\ (v[p] = "error" => ~Loads(d, p))

KnownInv == TargetsInSource => KnownOK /\ VerdictsKnown(disk, first)

(* An object that is as it was, and one that may have got nodes.           *)
Alike(o, o2) ==
  /\ o2.path = o.path /\ o2.imports = o.imports
  /\ o2.nodes = o.nodes /\ o2.defines = o.defines /\ o2.augments = o.augments
Further(d, o, o2) ==
  /\ o2.path = o.path /\ o2.imports = o.imports
  /\ Elements(o.nodes) \subseteq Elements(o2.nodes)
  /\ Elements(o2.nodes) \subseteq Elements(o.nodes) \cup AddedNodes(d)

LEMMA LeadsKept ==
  ASSUME NEW m, NEW m2, NEW c, SharedOK(c, m), PathsKept(m, m2), NEW i \in DOMAIN m
  PROVE  Leads(m2, m[i].imports) = Leads(m, m[i].imports)
<1>1. \A b \in m[i].imports : m2[b[2]].path = m[b[2]].path
  BY DEF SharedOK, PathsKept
<1> QED
  BY <1>1 DEF Leads

LEMMA GrewKept ==
  ASSUME NEW d, NEW m, NEW m2, NEW c, SharedOK(c, m), PathsKept(m, m2), NEW i \in DOMAIN m,
         Further(d, m[i], m2[i]), NEW x, Grew(d, x, m, i)
  PROVE  Grew(d, x, m2, i)
  BY LeadsKept DEF Grew, Further

LEMMA AlikeFurther ==
  ASSUME NEW d, NEW o, NEW o2, Alike(o, o2) PROVE Further(d, o, o2) /\ Same(o, o2)
  BY DEF Alike, Further, Same

LEMMA FrameKnownKept ==
  ASSUME NEW d, NEW m, NEW m2, NEW c, SharedOK(c, m), PathsKept(m, m2),
         NEW f, f.id \in DOMAIN m, Alike(m[f.id], m2[f.id]), FrameKnown(d, f, m)
  PROVE  FrameKnown(d, f, m2)
<1>1. Seen(m2, f.id) = Seen(m, f.id)
  BY LeadsKept DEF Seen, Alike
<1>2. ASSUME NEW x, Grew(d, x, m, f.id) PROVE Grew(d, x, m2, f.id)
  BY <1>2, AlikeFurther, GrewKept
<1>3. Merging(d, f.path, m, f.id) => Merging(d, f.path, m2, f.id)
  BY <1>2 DEF Merging, Alike
<1> QED
  BY <1>1, <1>3 DEF FrameKnown

(* After a step in which the first n parses go on, the last of them with   *)
(* what is established, and so for what becomes finished.                  *)
LEMMA KnownKept ==
  ASSUME NEW d, NEW m, NEW m2, NEW c, SharedOK(c, m), PathsKept(m, m2),
         NEW s, NEW t, StackOK(s, m), NEW n \in 0 .. Len(s), SameParses(t, s, n),
         ParsesKnown(d, s, m), ReadyKnown(d, m),
         \A k \in 1 .. n - 1 : t[k] = s[k] /\ Alike(m[s[k].id], m2[s[k].id]),
         n > 0 => FrameKnown(d, t[n], m2),
         \A i \in DOMAIN m2 : m2[i].ready =>
           \/ i \in DOMAIN m /\ m[i].ready /\ Further(d, m[i], m2[i])
           \/ Finished(d, m2, i)
  PROVE  ReadyKnown(d, m2) /\ ParsesKnown(d, t, m2)
<1>1. Len(s) \in Nat /\ DOMAIN s = 1 .. Len(s) /\ DOMAIN t = 1 .. n /\ n \in Nat
  BY DEF StackOK, SameParses
<1>2. ReadyKnown(d, m2)
  <2>1. ASSUME NEW i \in DOMAIN m2, i \in DOMAIN m, m[i].ready, Further(d, m[i], m2[i])
        PROVE  Finished(d, m2, i)
    <3>1. PICK x : <<m[i].path, End(d, m[i].path) + 1, x>> \in Established(d) /\ Grew(d, x, m, i)
      BY <2>1 DEF ReadyKnown, Finished
    <3>2. m2[i].path = m[i].path
      BY <2>1 DEF Further
    <3>3. Grew(d, x, m2, i)
      BY <2>1, <3>1, GrewKept
    <3> QED
      BY <3>1, <3>2, <3>3 DEF Finished
  <2> QED
    BY <2>1 DEF ReadyKnown
<1>3. \A k \in 1 .. n - 1 : k \in DOMAIN s /\ k + 1 \in DOMAIN s /\ k + 1 \in 1 .. n
  BY <1>1
<1>4. \A k \in 1 .. n - 1 : FrameKnown(d, t[k], m2)
  <2>1. SUFFICES ASSUME NEW k \in 1 .. n - 1 PROVE FrameKnown(d, s[k], m2)
    OBVIOUS
  <2>2. s[k].id \in DOMAIN m /\ FrameKnown(d, s[k], m)
    BY <1>3 DEF StackOK, ParsesKnown
  <2> QED
    BY <2>2, FrameKnownKept
<1>5. \A k \in 1 .. n : FrameKnown(d, t[k], m2)
  <2>1. \A k \in 1 .. n : k \in 1 .. n - 1 \/ (k = n /\ n > 0)
    BY <1>1
  <2> QED
    BY <1>4, <2>1
<1>6. \A k \in 1 .. n - 1 : LinkOK(d, t[k], t[k + 1], m2)
  <2>1. SUFFICES ASSUME NEW k \in 1 .. n - 1 PROVE LinkOK(d, s[k], t[k + 1], m2)
    OBVIOUS
  <2>2. LinkOK(d, s[k], s[k + 1], m)
    BY <1>3 DEF ParsesKnown
  <2>3. t[k + 1].how = s[k + 1].how /\ t[k + 1].path = s[k + 1].path
    BY <1>3 DEF SameParses
  <2>4. Same(m[s[k].id], m2[s[k].id])
    BY AlikeFurther
  <2> QED
    BY <2>2, <2>3, <2>4, LinkKept
<1>7. \A k \in DOMAIN t : k + 1 \in DOMAIN t => k \in 1 .. n - 1
  BY <1>1
<1>8. ParsesKnown(d, t, m2)
  BY <1>1, <1>5, <1>6, <1>7 DEF ParsesKnown
<1> QED
  BY <1>2, <1>8
-----------------------------------------------------------------------------
(* The steps of a parse.                                                   *)

(* The innermost parse, and what is established of it.                     *)
LEMMA TopKnown ==
  ASSUME IInv, KnownOK, stack # <<>>
  PROVE  /\ disk \in [Path -> File] /\ Top \in Frame /\ FrameKnown(disk, Top, modules)
         /\ Body = disk[Top.path].body /\ DOMAIN Body = 1 .. Len(Body) /\ Len(Body) \in Nat
         /\ End(disk, Top.path) = Len(Body) + 1 /\ Top.next \in Nat
         /\ Top.id \in DOMAIN modules /\ IsObject(modules[Top.id]) /\ ~modules[Top.id].ready
         /\ Top.path = modules[Top.id].path /\ Top.path \in Path
         /\ IsSeq(modules[Top.id].nodes) /\ IsSeq(modules[Top.id].augments)
         /\ SharedOK(cache, modules)
<1>1. Top \in Frame
  <2>1. stack \in Seq(Frame) /\ Depth \in DOMAIN stack
    BY TopFacts
  <2> QED
    BY <2>1 DEF Top
<1>2. FrameKnown(disk, Top, modules)
  BY TopFacts DEF KnownOK, ParsesKnown, Top
<1>3. Body = disk[Top.path].body /\ DOMAIN Body = 1 .. Len(Body) /\ Len(Body) \in Nat
  BY DiskFile, TopFacts, FileFields DEF Body
<1>4. /\ Top.id \in DOMAIN modules /\ IsObject(modules[Top.id]) /\ ~modules[Top.id].ready
      /\ Top.path = modules[Top.id].path /\ Top.path \in Path
      /\ IsSeq(modules[Top.id].nodes) /\ IsSeq(modules[Top.id].augments)
  BY TopFacts DEF KnownOK, ListsOK
<1>5. Top.next \in Nat /\ End(disk, Top.path) = Len(Body) + 1
  BY <1>1, <1>3 DEF Frame, End
<1> QED
  BY <1>1, <1>2, <1>3, <1>4, <1>5, DiskFile DEF IInv

(* The innermost parse goes on; it edits its object, and may add nodes to  *)
(* finished ones.                                                          *)
LEMMA MoveKnown ==
  ASSUME IInv, KnownOK, stack # <<>>, disk' = disk, SameParses(stack', stack, Depth),
         \A k \in 1 .. Depth - 1 : stack'[k] = stack[k],
         FrameKnown(disk, stack'[Depth], modules'),
         DOMAIN modules' = DOMAIN modules, PathsKept(modules, modules'), ListsOK(modules'),
         \A i \in DOMAIN modules :
           /\ modules'[i].ready = modules[i].ready
           /\ modules[i].ready => Further(disk, modules[i], modules'[i])
           /\ i # Top.id /\ ~modules[i].ready => Alike(modules[i], modules'[i])
  PROVE  KnownOK'
<1>1. /\ Depth \in Nat /\ Depth \in 0 .. Len(stack) /\ DOMAIN stack = 1 .. Depth
      /\ Depth \in DOMAIN stack
  BY TopFacts DEF Depth
<1>2. \A k \in 1 .. Depth - 1 : k \in DOMAIN stack /\ k # Depth
  BY <1>1
<1>3. \A k \in 1 .. Depth - 1 :
        stack[k].id \in DOMAIN modules /\ stack[k].id # Top.id /\ ~modules[stack[k].id].ready
  BY <1>1, <1>2 DEF IInv, StackOK, Top
<1>4. \A k \in 1 .. Depth - 1 : stack'[k] = stack[k] /\ Alike(modules[stack[k].id], modules'[stack[k].id])
  BY <1>3
<1>5. SharedOK(cache, modules) /\ StackOK(stack, modules)
      /\ ParsesKnown(disk, stack, modules) /\ ReadyKnown(disk, modules)
  BY DEF IInv, KnownOK
<1>6. ReadyKnown(disk, modules') /\ ParsesKnown(disk, stack', modules')
  BY <1>1, <1>4, <1>5, KnownKept
<1> QED
  BY <1>6 DEF KnownOK

(* The statement at hand has been read, into the object r.                 *)
LEMMA AdvanceKnown ==
  ASSUME IInv, KnownOK, Reading, Top.next \in DOMAIN Body, disk' = disk, stack' = Advanced,
         NEW r, modules' = [modules EXCEPT ![Top.id] = r],
         r.path = modules[Top.id].path, r.ready = modules[Top.id].ready,
         IsSeq(r.nodes), IsSeq(r.augments),
         Reads(disk, Established(disk), Top.path, Current, Seen(modules, Top.id), Seen(modules', Top.id))
  PROVE  KnownOK'
<1>1. stack # <<>> /\ ~Top.finalizing
  BY DEF Reading
<1>2. /\ disk \in [Path -> File] /\ Top \in Frame /\ FrameKnown(disk, Top, modules)
      /\ Body = disk[Top.path].body /\ DOMAIN Body = 1 .. Len(Body) /\ Len(Body) \in Nat
      /\ Top.id \in DOMAIN modules /\ Top.path \in Path /\ ~modules[Top.id].ready
      /\ End(disk, Top.path) = Len(Body) + 1
  BY <1>1, TopKnown
<1>3. /\ DOMAIN modules' = DOMAIN modules /\ modules'[Top.id] = r
      /\ \A i \in DOMAIN modules : i # Top.id => modules'[i] = modules[i]
  BY <1>2
<1>4. /\ PathsKept(modules, modules') /\ ListsOK(modules')
      /\ \A i \in DOMAIN modules : /\ modules'[i].ready = modules[i].ready
                                   /\ i # Top.id => Alike(modules[i], modules'[i])
  BY <1>3 DEF PathsKept, ListsOK, Alike, KnownOK
<1>5. \A i \in DOMAIN modules :
        /\ modules[i].ready => Further(disk, modules[i], modules'[i])
        /\ i # Top.id /\ ~modules[i].ready => Alike(modules[i], modules'[i])
  BY <1>2, <1>4, AlikeFurther
<1>6. <<Top.path, Top.next, Seen(modules, Top.id)>> \in Established(disk)
  BY <1>1, <1>2 DEF FrameKnown
<1>7. <<Top.path, Top.next + 1, Seen(modules', Top.id)>> \in Established(disk)
  BY <1>2, <1>6, ReadOn DEF Current
<1> DEFINE g == [Top EXCEPT !.next = @ + 1]
<1>8. g.path = Top.path /\ g.id = Top.id /\ g.next = Top.next + 1 /\ ~g.finalizing
  BY <1>1, <1>2 DEF Frame
<1>9. Top.next + 1 \in 1 .. End(disk, Top.path)
  BY <1>2
<1>10. FrameKnown(disk, g, modules')
  BY <1>7, <1>8, <1>9 DEF FrameKnown
<1>11. SameParses(stack', stack, Depth)
  BY <1>1, SameStack
<1>12. stack'[Depth] = g /\ \A k \in 1 .. Depth - 1 : stack'[k] = stack[k]
  <2>1. Depth \in DOMAIN stack /\ \A k \in 1 .. Depth - 1 : k \in DOMAIN stack /\ k # Depth
    BY <1>1, TopFacts
  <2> QED
    BY <2>1 DEF Advanced, Top
<1> HIDE DEF g
<1> QED
  BY <1>1, <1>3, <1>4, <1>5, <1>10, <1>11, <1>12, MoveKnown

(* What one more binding leads to, and what one more of anything comes to. *)
LEMMA LeadsMore ==
  ASSUME NEW m, NEW I, NEW b, NEW J, J = I \cup {b}
  PROVE  Leads(m, J) = Leads(m, I) \cup {<<b[1], m[b[2]].path>>}
BY DEF Leads

SameBut(m, m2, i, field) ==
  /\ field # "nodes" => Elements(m2[i].nodes) = Elements(m[i].nodes)
  /\ field # "defines" => m2[i].defines = m[i].defines
  /\ field # "augments" => Elements(m2[i].augments) = Elements(m[i].augments)
  /\ field # "imports" => Leads(m2, m2[i].imports) = Leads(m, m[i].imports)

LEMMA Extended ==
  ASSUME NEW m, NEW m2, NEW i, NEW d, NEW S, NEW p, NEW s
  PROVE  /\ /\ s.op = "node" /\ SameBut(m, m2, i, "nodes")
            /\ Elements(m2[i].nodes) = Elements(m[i].nodes) \cup {s.node}
            => Reads(d, S, p, s, Seen(m, i), Seen(m2, i))
         /\ /\ s.op = "define" /\ SameBut(m, m2, i, "defines")
            /\ m2[i].defines = m[i].defines \cup {s.node}
            => Reads(d, S, p, s, Seen(m, i), Seen(m2, i))
         /\ /\ s.op = "augment" /\ SameBut(m, m2, i, "augments")
            /\ Elements(m2[i].augments) = Elements(m[i].augments) \cup {s}
            => Reads(d, S, p, s, Seen(m, i), Seen(m2, i))
         /\ /\ s.op = "import" /\ SameBut(m, m2, i, "imports") /\ Locate[s.name] \in Path
            /\ Leads(m2, m2[i].imports)
                 = Leads(m, m[i].imports) \cup {<<s.prefix, Locate[s.name]>>}
            /\ s.prefix # d[p].prefix /\ \A b \in m[i].imports : b[1] # s.prefix
            /\ d[Locate[s.name]].name = s.name
            /\ \E own : <<Locate[s.name], End(d, Locate[s.name]) + 1, own>> \in S
            => Reads(d, S, p, s, Seen(m, i), Seen(m2, i))
<1>1. PICK r : r = Seen(m, i)
  OBVIOUS
<1>2. r = [nodes |-> r.nodes, defines |-> r.defines, augments |-> r.augments, imports |-> r.imports]
      /\ r.nodes = Elements(m[i].nodes) /\ r.defines = m[i].defines
      /\ r.augments = Elements(m[i].augments) /\ r.imports = Leads(m, m[i].imports)
  BY <1>1 DEF Seen
<1>3. \A u :
      /\ [r EXCEPT !.nodes = u]
           = [nodes |-> u, defines |-> r.defines, augments |-> r.augments, imports |-> r.imports]
      /\ [r EXCEPT !.defines = u]
           = [nodes |-> r.nodes, defines |-> u, augments |-> r.augments, imports |-> r.imports]
      /\ [r EXCEPT !.augments = u]
           = [nodes |-> r.nodes, defines |-> r.defines, augments |-> u, imports |-> r.imports]
      /\ [r EXCEPT !.imports = u]
           = [nodes |-> r.nodes, defines |-> r.defines, augments |-> r.augments, imports |-> u]
  <2>1. PICK a, b, c, e : r = [nodes |-> a, defines |-> b, augments |-> c, imports |-> e]
    BY <1>2
  <2>2. r.nodes = a /\ r.defines = b /\ r.augments = c /\ r.imports = e
    BY ONLY <2>1
  <2>3. \A u : /\ [r EXCEPT !.nodes = u] = [nodes |-> u, defines |-> b, augments |-> c, imports |-> e]
               /\ [r EXCEPT !.defines = u] = [nodes |-> a, defines |-> u, augments |-> c, imports |-> e]
               /\ [r EXCEPT !.augments = u] = [nodes |-> a, defines |-> b, augments |-> u, imports |-> e]
               /\ [r EXCEPT !.imports = u] = [nodes |-> a, defines |-> b, augments |-> c, imports |-> u]
    BY ONLY <2>1
  <2> QED
    BY ONLY <2>2, <2>3
<1>4. s.op = "node" /\ SameBut(m, m2, i, "nodes")
      /\ Elements(m2[i].nodes) = Elements(m[i].nodes) \cup {s.node}
      => Seen(m2, i) = [r EXCEPT !.nodes = @ \cup {s.node}]
  BY <1>2, <1>3 DEF Seen, SameBut
<1>5. s.op = "define" /\ SameBut(m, m2, i, "defines")
      /\ m2[i].defines = m[i].defines \cup {s.node}
      => Seen(m2, i) = [r EXCEPT !.defines = @ \cup {s.node}]
  BY <1>2, <1>3 DEF Seen, SameBut
<1>6. s.op = "augment" /\ SameBut(m, m2, i, "augments")
      /\ Elements(m2[i].augments) = Elements(m[i].augments) \cup {s}
      => Seen(m2, i) = [r EXCEPT !.augments = @ \cup {s}]
  BY <1>2, <1>3 DEF Seen, SameBut
<1>7. SameBut(m, m2, i, "imports")
      /\ Leads(m2, m2[i].imports) = Leads(m, m[i].imports) \cup {<<s.prefix, Locate[s.name]>>}
      => Seen(m2, i) = [r EXCEPT !.imports = @ \cup {<<s.prefix, Locate[s.name]>>}]
  BY <1>2, <1>3 DEF Seen, SameBut
<1>8. (\A b \in m[i].imports : b[1] # s.prefix) => \A b \in r.imports : b[1] # s.prefix
  BY <1>2 DEF Leads
<1>9. ASSUME NEW c2
       PROVE  /\ s.op = "node" /\ c2 = [r EXCEPT !.nodes = @ \cup {s.node}] => Reads(d, S, p, s, r, c2)
              /\ s.op = "define" /\ c2 = [r EXCEPT !.defines = @ \cup {s.node}]
                 => Reads(d, S, p, s, r, c2)
              /\ s.op = "augment" /\ c2 = [r EXCEPT !.augments = @ \cup {s}]
                 => Reads(d, S, p, s, r, c2)
              /\ /\ s.op = "import" /\ Locate[s.name] \in Path
                 /\ s.prefix # d[p].prefix /\ \A b \in r.imports : b[1] # s.prefix
                 /\ d[Locate[s.name]].name = s.name
                 /\ \E own : <<Locate[s.name], End(d, Locate[s.name]) + 1, own>> \in S
                 /\ c2 = [r EXCEPT !.imports = @ \cup {<<s.prefix, Locate[s.name]>>}]
                 => Reads(d, S, p, s, r, c2)
  BY DEF Reads
<1>10. PICK c2 : c2 = Seen(m2, i)
  OBVIOUS
<1>11. s.op = "node" /\ SameBut(m, m2, i, "nodes")
       /\ Elements(m2[i].nodes) = Elements(m[i].nodes) \cup {s.node}
       => Reads(d, S, p, s, r, c2)
  BY <1>4, <1>9, <1>10
<1>12. s.op = "define" /\ SameBut(m, m2, i, "defines")
       /\ m2[i].defines = m[i].defines \cup {s.node}
       => Reads(d, S, p, s, r, c2)
  BY <1>5, <1>9, <1>10
<1>13. s.op = "augment" /\ SameBut(m, m2, i, "augments")
       /\ Elements(m2[i].augments) = Elements(m[i].augments) \cup {s}
       => Reads(d, S, p, s, r, c2)
  BY <1>6, <1>9, <1>10
<1>14. /\ s.op = "import" /\ SameBut(m, m2, i, "imports") /\ Locate[s.name] \in Path
       /\ Leads(m2, m2[i].imports) = Leads(m, m[i].imports) \cup {<<s.prefix, Locate[s.name]>>}
       /\ s.prefix # d[p].prefix /\ \A b \in m[i].imports : b[1] # s.prefix
       /\ d[Locate[s.name]].name = s.name
       /\ \E own : <<Locate[s.name], End(d, Locate[s.name]) + 1, own>> \in S
       => Reads(d, S, p, s, r, c2)
  BY <1>7, <1>8, <1>9, <1>10
<1> QED
  BY ONLY <1>1, <1>10, <1>11, <1>12, <1>13, <1>14

(* A statement without a call.                                             *)
LEMMA ReadStatementKnown ==
  ASSUME IInv, KnownOK, ReadStatement
  PROVE  KnownOK'
<1>1. Reading /\ stack # <<>> /\ Top.next \in DOMAIN Body /\ disk' = disk /\ stack' = Advanced
      /\ Current.op \in {"node", "define", "augment"}
  BY DEF ReadStatement, At, Reading
<1>2. /\ Top.id \in DOMAIN modules /\ IsObject(modules[Top.id]) /\ SharedOK(cache, modules)
      /\ IsSeq(modules[Top.id].nodes) /\ IsSeq(modules[Top.id].augments)
  BY <1>1, TopKnown
<1>3. PICK o : o = modules[Top.id]
  OBVIOUS
<1>4. ASSUME NEW r, modules' = [modules EXCEPT ![Top.id] = r], r.path = o.path, r.imports = o.imports
      PROVE  Leads(modules', r.imports) = Leads(modules, o.imports) /\ modules'[Top.id] = r
  <2>1. PathsKept(modules, modules') /\ modules'[Top.id] = r
    BY <1>2, <1>3, <1>4 DEF PathsKept
  <2> QED
    BY <1>2, <1>3, <1>4, <2>1, LeadsKept
<1>5. CASE Current.op = "node"
  <2> DEFINE r == [o EXCEPT !.nodes = Append(@, Current.node)]
  <2>1. modules' = [modules EXCEPT ![Top.id] = r]
    BY <1>3, <1>5 DEF ReadStatement
  <2>2. /\ r.path = o.path /\ r.imports = o.imports /\ r.ready = o.ready
        /\ r.nodes = Append(o.nodes, Current.node) /\ r.defines = o.defines /\ r.augments = o.augments
    BY <1>2, <1>3 DEF IsObject
  <2> HIDE DEF r
  <2>3. IsSeq(r.nodes) /\ IsSeq(r.augments) /\ Elements(r.nodes) = Elements(o.nodes) \cup {Current.node}
    BY <1>2, <1>3, <2>2, AppendElements
  <2>4. SameBut(modules, modules', Top.id, "nodes")
        /\ Elements(modules'[Top.id].nodes) = Elements(modules[Top.id].nodes) \cup {Current.node}
    BY <1>3, <1>4, <2>1, <2>2, <2>3 DEF SameBut
  <2>5. Reads(disk, Established(disk), Top.path, Current, Seen(modules, Top.id), Seen(modules', Top.id))
    BY <1>5, <2>4, Extended
  <2> QED
    BY <1>1, <1>3, <2>1, <2>2, <2>3, <2>5, AdvanceKnown
<1>6. CASE Current.op = "define"
  <2> DEFINE r == [o EXCEPT !.defines = @ \cup {Current.node}]
  <2>1. modules' = [modules EXCEPT ![Top.id] = r]
    BY <1>3, <1>6 DEF ReadStatement
  <2>2. /\ r.path = o.path /\ r.imports = o.imports /\ r.ready = o.ready
        /\ r.nodes = o.nodes /\ r.defines = o.defines \cup {Current.node} /\ r.augments = o.augments
    BY <1>2, <1>3 DEF IsObject
  <2> HIDE DEF r
  <2>3. SameBut(modules, modules', Top.id, "defines")
        /\ modules'[Top.id].defines = modules[Top.id].defines \cup {Current.node}
    BY <1>3, <1>4, <2>1, <2>2 DEF SameBut
  <2>4. Reads(disk, Established(disk), Top.path, Current, Seen(modules, Top.id), Seen(modules', Top.id))
    BY <1>6, <2>3, Extended
  <2> QED
    BY <1>1, <1>2, <1>3, <2>1, <2>2, <2>4, AdvanceKnown
<1>7. CASE Current.op = "augment"
  <2> DEFINE r == [o EXCEPT !.augments = Append(@, Current)]
  <2>1. modules' = [modules EXCEPT ![Top.id] = r]
    BY <1>3, <1>7 DEF ReadStatement
  <2>2. /\ r.path = o.path /\ r.imports = o.imports /\ r.ready = o.ready
        /\ r.nodes = o.nodes /\ r.defines = o.defines /\ r.augments = Append(o.augments, Current)
    BY <1>2, <1>3 DEF IsObject
  <2> HIDE DEF r
  <2>3. IsSeq(r.nodes) /\ IsSeq(r.augments) /\ Elements(r.augments) = Elements(o.augments) \cup {Current}
    BY <1>2, <1>3, <2>2, AppendElements
  <2>4. SameBut(modules, modules', Top.id, "augments")
        /\ Elements(modules'[Top.id].augments) = Elements(modules[Top.id].augments) \cup {Current}
    BY <1>3, <1>4, <2>1, <2>2, <2>3 DEF SameBut
  <2>5. Reads(disk, Established(disk), Top.path, Current, Seen(modules, Top.id), Seen(modules', Top.id))
    BY <1>7, <2>4, Extended
  <2> QED
    BY <1>1, <1>3, <2>1, <2>2, <2>3, <2>5, AdvanceKnown
<1> QED
  BY <1>1, <1>5, <1>6, <1>7

(* An import from the cache: a finished module is accepted.                *)
LEMMA BindCachedKnown ==
  ASSUME IInv, KnownOK, BindCached
  PROVE  KnownOK'
<1> DEFINE j == cache[Target]
           r == [modules[Top.id] EXCEPT !.imports = @ \cup {<<Current.prefix, j>>}]
<1>1. /\ Reading /\ stack # <<>> /\ Top.next \in DOMAIN Body /\ disk' = disk /\ stack' = Advanced
      /\ Current.op = "import" /\ ~ImportRefused /\ j # 0 /\ Target # NoPath
      /\ modules' = [modules EXCEPT ![Top.id] = r]
  BY DEF BindCached, At, Reading, Bind, ImportRefused
<1>2. /\ Top.id \in DOMAIN modules /\ IsObject(modules[Top.id]) /\ SharedOK(cache, modules)
      /\ IsSeq(modules[Top.id].nodes) /\ IsSeq(modules[Top.id].augments)
      /\ Top.path = modules[Top.id].path
  BY <1>1, TopKnown
<1>3. /\ r.path = modules[Top.id].path /\ r.ready = modules[Top.id].ready
      /\ r.imports = modules[Top.id].imports \cup {<<Current.prefix, j>>}
      /\ r.nodes = modules[Top.id].nodes /\ r.defines = modules[Top.id].defines
      /\ r.augments = modules[Top.id].augments
  BY <1>2 DEF IsObject
<1> HIDE DEF r, j
<1>4. PathsKept(modules, modules') /\ modules'[Top.id] = r
  BY <1>1, <1>2, <1>3 DEF PathsKept
<1>5. Target \in Path
  BY <1>1, TargetPath DEF At
<1>6. j \in DOMAIN modules /\ modules[j].path = Target /\ modules[j].ready /\ NameOf(j) = Current.name
  <2>1. DOMAIN modules = 1 .. Len(modules) /\ Len(modules) \in Nat
    BY TopFacts
  <2> QED
    BY <1>1, <1>5, <2>1 DEF IInv, CacheOK, ImportRefused, j
<1>7. modules'[j].path = Target
  BY <1>4, <1>6 DEF PathsKept
<1>8. \E own : <<Target, End(disk, Target) + 1, own>> \in Established(disk)
  BY <1>6 DEF KnownOK, ReadyKnown, Finished
<1>9. Leads(modules', r.imports) = Leads(modules, modules[Top.id].imports) \cup {<<Current.prefix, Target>>}
  <2>1. Leads(modules', modules[Top.id].imports) = Leads(modules, modules[Top.id].imports)
    BY <1>2, <1>4, LeadsKept
  <2>2. PICK b : b = <<Current.prefix, j>>
    OBVIOUS
  <2>3. b[1] = Current.prefix /\ b[2] = j
    BY <2>2
  <2>4. PICK I : I = modules[Top.id].imports
    OBVIOUS
  <2>5. r.imports = I \cup {b}
    BY <1>3, <2>2, <2>4
  <2>6. Leads(modules', r.imports) = Leads(modules', I) \cup {<<b[1], modules'[b[2]].path>>}
    <3>1. PICK m, J : m = modules' /\ J = r.imports
      OBVIOUS
    <3>2. J = I \cup {b}
      BY <2>5, <3>1
    <3>3. Leads(m, J) = Leads(m, I) \cup {<<b[1], m[b[2]].path>>}
      BY ONLY <3>2, LeadsMore
    <3> QED
      BY ONLY <3>1, <3>3
  <2> QED
    BY <1>7, <2>1, <2>3, <2>4, <2>6
<1>10. SameBut(modules, modules', Top.id, "imports")
  BY <1>3, <1>4 DEF SameBut
<1>11. Current.prefix # disk[Top.path].prefix
       /\ \A b \in modules[Top.id].imports : b[1] # Current.prefix
  BY <1>1, <1>2 DEF ImportRefused, Own, Bound
<1>12. disk[Target].name = Current.name
  BY <1>6 DEF NameOf
<1>13. Reads(disk, Established(disk), Top.path, Current, Seen(modules, Top.id), Seen(modules', Top.id))
  BY <1>1, <1>4, <1>5, <1>8, <1>9, <1>10, <1>11, <1>12, Extended DEF Target
<1> QED
  BY <1>1, <1>2, <1>3, <1>13, AdvanceKnown
-----------------------------------------------------------------------------
(* A new parse, of a file of which nothing has been read.                  *)
LEMMA PushKnown ==
  ASSUME IInv, KnownOK, NEW how, NEW p \in Path, disk' = disk,
         modules' = Append(modules, NewModule(p)),
         stack' = Append(stack, Activation(how, p, Fresh)),
         stack # <<>> => LinkOK(disk, Top, Activation(how, p, Fresh), modules)
  PROVE  KnownOK'
<1> DEFINE f == Activation(how, p, Fresh)
<1>1. /\ Len(stack) \in Nat /\ DOMAIN stack = 1 .. Len(stack) /\ stack \in Seq(Frame)
      /\ Len(modules) \in Nat /\ DOMAIN modules = 1 .. Len(modules)
      /\ Fresh = Len(modules) + 1 /\ Depth = Len(stack)
  BY TopFacts DEF Depth, Fresh
<1>2. /\ f.path = p /\ f.id = Fresh /\ f.next = 1 /\ ~f.finalizing
  BY DEF Activation
<1>3. /\ DOMAIN modules' = 1 .. Len(modules) + 1
      /\ modules'[Fresh] = NewModule(p) /\ \A i \in DOMAIN modules : modules'[i] = modules[i]
  BY <1>1, HeapAppend, HeapDomain DEF IInv
<1>4. /\ NewModule(p).nodes = <<>> /\ NewModule(p).imports = {} /\ NewModule(p).path = p
      /\ ~NewModule(p).ready /\ NewModule(p).defines = {} /\ NewModule(p).augments = <<>>
  BY DEF NewModule
<1>5. \A i \in DOMAIN modules' : i \in DOMAIN modules \/ i = Fresh
  BY <1>1, <1>3
<1>6. IsSeq(<<>>) /\ Elements(<<>>) = {}
  BY DEF IsSeq, Elements
<1>7. ListsOK(modules')
  BY <1>3, <1>4, <1>5, <1>6 DEF ListsOK, KnownOK
<1>8. DOMAIN modules \subseteq DOMAIN modules'
  BY <1>1, <1>3
<1>9. PathsKept(modules, modules') /\ \A i \in DOMAIN modules : Alike(modules[i], modules'[i])
  BY <1>3, <1>8 DEF PathsKept, Alike
<1>10. FrameKnown(disk, f, modules')
  <2>1. Len(disk[p].body) \in Nat
    BY DiskFile, FileFields
  <2>2. 1 \in 1 .. End(disk, p)
    BY <2>1 DEF End
  <2>3. Seen(modules', Fresh) = Nothing
    BY <1>3, <1>4, <1>6 DEF Seen, Leads, Nothing
  <2>4. <<p, 1, Nothing>> \in Established(disk)
    BY Begin
  <2> HIDE DEF f
  <2> QED
    BY <1>2, <2>2, <2>3, <2>4 DEF FrameKnown
<1> HIDE DEF f
<1>11. /\ Len(stack') = Len(stack) + 1 /\ DOMAIN stack' = 1 .. Len(stack) + 1
       /\ stack'[Len(stack) + 1] = f /\ \A k \in DOMAIN stack : stack'[k] = stack[k]
  <2> DEFINE S == Frame \cup {f}
  <2>1. stack \in Seq(S) /\ f \in S
    BY <1>1
  <2>2. stack' = Append(stack, f)
    BY DEF f
  <2> QED
    BY <1>1, <2>1, <2>2
<1>12. SharedOK(cache, modules) /\ StackOK(stack, modules) /\ ParsesKnown(disk, stack, modules)
       /\ ReadyKnown(disk, modules)
  BY DEF IInv, KnownOK
<1>13. ReadyKnown(disk, modules') /\ ParsesKnown(disk, stack, modules')
  <2>1. Len(stack) \in 0 .. Len(stack) /\ SameParses(stack, stack, Len(stack))
    BY <1>1 DEF SameParses
  <2>2. \A k \in DOMAIN stack : /\ stack[k].id \in DOMAIN modules
                                /\ Alike(modules[stack[k].id], modules'[stack[k].id])
    BY <1>9, <1>12 DEF StackOK
  <2>3. \A k \in 1 .. Len(stack) - 1 : k \in DOMAIN stack
    BY <1>1
  <2>4. ASSUME Len(stack) > 0
        PROVE  FrameKnown(disk, stack[Len(stack)], modules')
    <3>1. Len(stack) \in DOMAIN stack
      BY <1>1, <2>4
    <3> QED
      BY <1>9, <1>12, <2>2, <3>1, FrameKnownKept DEF ParsesKnown
  <2>5. \A i \in DOMAIN modules' : modules'[i].ready =>
          i \in DOMAIN modules /\ modules[i].ready /\ Further(disk, modules[i], modules'[i])
    BY <1>3, <1>4, <1>5, <1>9, AlikeFurther
  <2> QED
    BY <1>9, <1>12, <2>1, <2>2, <2>3, <2>4, <2>5, KnownKept
<1>14. ParsesKnown(disk, stack', modules')
  <2>1. \A k \in DOMAIN stack' : k \in DOMAIN stack \/ k = Len(stack) + 1
    BY <1>1, <1>11
  <2>2. \A k \in DOMAIN stack' : FrameKnown(disk, stack'[k], modules')
    BY <1>10, <1>11, <1>13, <2>1 DEF ParsesKnown, f
  <2>3. ASSUME NEW k \in DOMAIN stack', k + 1 \in DOMAIN stack'
        PROVE  LinkOK(disk, stack'[k], stack'[k + 1], modules')
    <3>1. k \in DOMAIN stack
      BY <1>1, <1>11, <2>3
    <3>2. CASE k + 1 \in DOMAIN stack
      BY <1>11, <1>13, <3>1, <3>2 DEF ParsesKnown
    <3>3. CASE k + 1 = Len(stack) + 1
      <4>1. k = Depth /\ stack # <<>>
        BY <1>1, <3>1, <3>3
      <4>2. stack'[k] = Top /\ stack'[k + 1] = f
        BY <1>11, <3>1, <3>3, <4>1 DEF Top
      <4>3. Same(modules[Top.id], modules'[Top.id])
        BY <1>9, <4>1, TopFacts, AlikeFurther
      <4>4. LinkOK(disk, Top, f, modules)
        BY <4>1 DEF f
      <4>5. LinkOK(disk, Top, f, modules')
        BY <4>3, <4>4, LinkKept
      <4> QED
        BY <4>2, <4>5
    <3> QED
      BY <2>1, <2>3, <3>2, <3>3
  <2> QED
    BY <2>2, <2>3 DEF ParsesKnown
<1> QED
  BY <1>7, <1>13, <1>14 DEF KnownOK

(* A file that is imported, or included, or the one of a call.             *)
LEMMA LoadKnown ==
  ASSUME IInv, KnownOK, LoadImport \/ LoadInclude
  PROVE  KnownOK'
<1>1. PICK how \in {"import", "include"} :
        /\ stack # <<>> /\ ~Top.finalizing /\ Top.next \in DOMAIN Body
        /\ At("import") \/ At("include")
        /\ Current.op = how /\ Target # NoPath /\ disk' = disk
        /\ how = "import" => ~ImportRefused
        /\ modules' = Append(modules, NewModule(Target))
        /\ stack' = Append(stack, Activation(how, Target, Fresh))
  <2>1. CASE LoadImport
    BY <2>1 DEF LoadImport, ImportRefused, At, Reading
  <2>2. CASE LoadInclude
    BY <2>2 DEF LoadInclude, At, Reading
  <2> QED
    BY <2>1, <2>2
<1>2. Target \in Path
  BY <1>1, TargetPath
<1>3. /\ Body = disk[Top.path].body /\ DOMAIN Body = 1 .. Len(Body) /\ Len(Body) \in Nat
      /\ Top.path = modules[Top.id].path
  BY <1>1, TopKnown
<1>4. Top.next <= Len(Body)
  BY <1>1, <1>3
<1>5. LinkOK(disk, Top, Activation(how, Target, Fresh), modules)
  BY <1>1, <1>3, <1>4 DEF LinkOK, Activation, Target, Current, ImportRefused, Own, Bound
<1> QED
  BY <1>1, <1>2, <1>5, PushKnown

LEMMA CallKnown ==
  ASSUME IInv, KnownOK, NEW p \in Path, ParseFile(p) \/ ParseString(p)
  PROVE  KnownOK'
<1>1. PICK how \in {"file", "string"} : Call(how, p)
  BY DEF ParseFile, ParseString
<1>2. stack = <<>>
  BY <1>1 DEF Call, IInv, CallsOK
<1>3. stack' = Append(stack, Activation(how, p, Fresh)) /\ disk' = disk
      /\ modules' = Append(modules, NewModule(p))
  BY <1>1, <1>2 DEF Call
<1> QED
  BY <1>2, <1>3, PushKnown

(* Expansion begins when the file has been read to its end.                *)
LEMMA ExpandUsesKnown ==
  ASSUME IInv, KnownOK, ExpandUses
  PROVE  KnownOK'
<1>1. /\ stack # <<>> /\ ~Top.finalizing /\ Top.next \notin DOMAIN Body /\ UNCHANGED <<disk, modules>>
      /\ Top.how # "include" /\ disk[Top.path].fault # "uses"
      /\ stack' = [stack EXCEPT ![Depth].finalizing = TRUE]
  BY DEF ExpandUses, AtEnd, Reading
<1>2. /\ disk \in [Path -> File] /\ Top \in Frame /\ FrameKnown(disk, Top, modules)
      /\ Body = disk[Top.path].body /\ DOMAIN Body = 1 .. Len(Body) /\ Len(Body) \in Nat
      /\ End(disk, Top.path) = Len(Body) + 1 /\ Top.id \in DOMAIN modules
  BY <1>1, TopKnown
<1> DEFINE g == [Top EXCEPT !.finalizing = TRUE]
<1>3. g.path = Top.path /\ g.id = Top.id /\ g.next = Top.next /\ g.how = Top.how /\ g.finalizing
  BY <1>2 DEF Frame
<1>4. Depth \in DOMAIN stack /\ Depth = Len(stack) /\ stack \in Seq(Frame)
      /\ \A k \in 1 .. Depth - 1 : k \in DOMAIN stack /\ k # Depth
  BY <1>1, TopFacts DEF Depth
<1>5. stack' = [stack EXCEPT ![Depth] = g]
  BY <1>1, <1>4 DEF Top
<1> HIDE DEF g
<1>6. Top.next = End(disk, Top.path)
  BY <1>1, <1>2 DEF FrameKnown
<1>7. Merging(disk, Top.path, modules, Top.id)
  <2>1. <<Top.path, End(disk, Top.path), Seen(modules, Top.id)>> \in Established(disk)
    BY <1>1, <1>2, <1>6 DEF FrameKnown
  <2>2. Grew(disk, Seen(modules, Top.id), modules, Top.id)
    BY DEF Grew, Seen
  <2>3. Seen(modules, Top.id).augments = Elements(modules[Top.id].augments)
    BY DEF Seen
  <2> QED
    BY <2>1, <2>2, <2>3 DEF Merging
<1>8. FrameKnown(disk, g, modules)
  BY <1>1, <1>2, <1>3, <1>6, <1>7 DEF FrameKnown
<1>9. SameParses(stack', stack, Depth)
  BY <1>1, <1>4, Moved
<1>10. stack'[Depth] = g /\ \A k \in 1 .. Depth - 1 : stack'[k] = stack[k]
  BY <1>4, <1>5
<1>11. PathsKept(modules, modules)
       /\ \A i \in DOMAIN modules : Alike(modules[i], modules[i]) /\ Further(disk, modules[i], modules[i])
  BY DEF PathsKept, Alike, Further
<1> QED
  BY <1>1, <1>8, <1>9, <1>10, <1>11, MoveKnown DEF KnownOK

(* No augment adds a target.                                               *)
LEMMA TargetNotAdded ==
  ASSUME TargetsInSource, NEW s \in AugmentsOf(disk)
  PROVE  s.target \notin AddedNodes(disk) /\ s.node \in AddedNodes(disk)
<1>1. ASSUME NEW t \in AugmentsOf(disk) PROVE t.node # s.target
  BY DEF AugmentsOf, TargetsInSource, Statements
<1> QED
  BY <1>1 DEF AddedNodes

(* The augment at hand is one of those the file comes to; a target found   *)
(* in the heap is a target by the rules, and the reverse.                  *)
LEMMA TargetKnown ==
  ASSUME IInv, KnownOK, TargetsInSource, Finalizing, modules[Top.id].augments # <<>>,
         NEW c, <<Top.path, End(disk, Top.path), c>> \in Established(disk), Grew(disk, c, modules, Top.id),
         Elements(modules[Top.id].augments) \subseteq c.augments
  PROVE  /\ Augment \in c.augments /\ Augment.node \in AddedNodes(disk)
         /\ AugmentTargets # {} <=> HasTarget(disk, Established(disk), Top.path, c, Augment)
<1>1. stack # <<>>
  BY DEF Finalizing
<1>2. /\ Top.id \in DOMAIN modules /\ Top.path = modules[Top.id].path /\ SharedOK(cache, modules)
      /\ IsSeq(modules[Top.id].augments)
  BY <1>1, TopKnown
<1>3. Augment \in c.augments
  <2>1. Augment = modules[Top.id].augments[1] /\ 1 \in DOMAIN modules[Top.id].augments
    BY <1>2, TailPlaces DEF Augment
  <2> QED
    BY <2>1 DEF Elements
<1>4. Augment \in AugmentsOf(disk)
  <2>1. c \in Content(disk)
    BY FactParts
  <2> QED
    BY <1>3, <2>1 DEF Content
<1>5. Augment.node \in AddedNodes(disk) /\ Augment.target \notin AddedNodes(disk)
  BY <1>4, TargetNotAdded
<1>6. \A i \in DOMAIN modules : \A x : Grew(disk, x, modules, i) =>
        (Augment.target \in Elements(modules[i].nodes) <=> Augment.target \in x.nodes)
  BY <1>5 DEF Grew
<1>7. \A i : (\E k \in DOMAIN modules[i].nodes : modules[i].nodes[k] = Augment.target)
             <=> Augment.target \in Elements(modules[i].nodes)
  BY DEF Elements
<1>8. AugmentTargets = {i \in Resolved(Top.id, Augment.prefix) :
                          Augment.target \in Elements(modules[i].nodes)}
  BY <1>7 DEF AugmentTargets
<1>9. Own(Top.id) = disk[Top.path].prefix
  BY <1>2 DEF Own
<1>10. CASE Augment.prefix = disk[Top.path].prefix
  <2>1. AugmentTargets # {} <=> Augment.target \in Elements(modules[Top.id].nodes)
    BY <1>8, <1>9, <1>10 DEF Resolved
  <2> QED
    BY <1>2, <1>3, <1>5, <1>6, <1>10, <2>1 DEF HasTarget
<1>11. CASE Augment.prefix # disk[Top.path].prefix
  <2>1. AugmentTargets # {} <=>
          \E b \in modules[Top.id].imports :
            b[1] = Augment.prefix /\ Augment.target \in Elements(modules[b[2]].nodes)
    BY <1>8, <1>9, <1>11 DEF Resolved, Bound
  <2>2. ASSUME NEW b \in modules[Top.id].imports
        PROVE  \E own : /\ <<modules[b[2]].path, End(disk, modules[b[2]].path) + 1, own>>
                              \in Established(disk)
                        /\ Augment.target \in Elements(modules[b[2]].nodes)
                             <=> Augment.target \in own.nodes
    <3>1. b[2] \in DOMAIN modules /\ modules[b[2]].ready
      BY <1>2 DEF SharedOK
    <3>2. Finished(disk, modules, b[2])
      BY <3>1 DEF KnownOK, ReadyKnown
    <3> QED
      BY <1>6, <3>1, <3>2 DEF Finished
  <2>3. c.imports = {<<b[1], modules[b[2]].path>> : b \in modules[Top.id].imports}
    BY DEF Grew, Leads
  <2>4. ASSUME AugmentTargets # {}
        PROVE  HasTarget(disk, Established(disk), Top.path, c, Augment)
    <3>1. PICK b \in modules[Top.id].imports :
            b[1] = Augment.prefix /\ Augment.target \in Elements(modules[b[2]].nodes)
      BY <2>1, <2>4
    <3>2. PICK own : /\ <<modules[b[2]].path, End(disk, modules[b[2]].path) + 1, own>>
                          \in Established(disk)
                     /\ Augment.target \in own.nodes
      BY <2>2, <3>1
    <3>3. PICK e : e = <<b[1], modules[b[2]].path>>
      OBVIOUS
    <3>4. e \in c.imports /\ e[1] = b[1] /\ e[2] = modules[b[2]].path
      BY <2>3, <3>3
    <3> QED
      BY <1>11, <3>1, <3>2, <3>4 DEF HasTarget
  <2>5. ASSUME HasTarget(disk, Established(disk), Top.path, c, Augment)
        PROVE  AugmentTargets # {}
    <3>0. PICK e \in c.imports :
            \E own : /\ e[1] = Augment.prefix
                     /\ <<e[2], End(disk, e[2]) + 1, own>> \in Established(disk)
                     /\ Augment.target \in own.nodes
      BY <1>11, <2>5 DEF HasTarget
    <3>1. PICK own : /\ e[1] = Augment.prefix
                     /\ <<e[2], End(disk, e[2]) + 1, own>> \in Established(disk)
                     /\ Augment.target \in own.nodes
      BY <3>0
    <3>2. PICK b \in modules[Top.id].imports : e = <<b[1], modules[b[2]].path>>
      BY <2>3
    <3>3. e[1] = b[1] /\ e[2] = modules[b[2]].path
      BY <3>2
    <3>4. PICK x : /\ <<modules[b[2]].path, End(disk, modules[b[2]].path) + 1, x>> \in Established(disk)
                   /\ Augment.target \in Elements(modules[b[2]].nodes) <=> Augment.target \in x.nodes
      BY <2>2
    <3>5. own = x
      BY <3>1, <3>3, <3>4, DiskFile, OneContent
    <3> QED
      BY <2>1, <3>1, <3>3, <3>4, <3>5
  <2> QED
    BY <1>3, <1>5, <2>4, <2>5
<1> QED
  BY <1>10, <1>11

(* An augment is merged: it had a target.                                  *)
LEMMA MergeAugmentKnown ==
  ASSUME IInv, KnownOK, TargetsInSource, MergeAugment
  PROVE  KnownOK'
<1> DEFINE q == modules[Top.id].augments
<1>1. /\ stack # <<>> /\ stack' = stack /\ disk' = disk /\ q # <<>> /\ Finalizing /\ Top.finalizing
  BY DEF MergeAugment, Finalizing
<1>2. PICK i \in AugmentTargets :
        modules' = [modules EXCEPT ![i].nodes = Append(@, Augment.node),
                                   ![Top.id].augments = Tail(@)]
  BY DEF MergeAugment
<1>3. /\ Top.id \in DOMAIN modules /\ ~modules[Top.id].ready /\ SharedOK(cache, modules)
      /\ FrameKnown(disk, Top, modules)
      /\ (\A j \in DOMAIN modules : IsObject(modules[j])) /\ ListsOK(modules)
  BY <1>1, TopKnown DEF IInv, Heap, KnownOK
<1>4. i \in DOMAIN modules /\ (i = Top.id \/ modules[i].ready)
  BY <1>3 DEF AugmentTargets, Resolved, Bound, SharedOK
<1>5. PICK r : r = [modules[i] EXCEPT !.nodes = Append(@, Augment.node)]
  OBVIOUS
<1>6. /\ IsObject(r) /\ r.path = modules[i].path /\ r.ready = modules[i].ready
      /\ r.imports = modules[i].imports /\ r.defines = modules[i].defines
      /\ r.nodes = Append(modules[i].nodes, Augment.node) /\ r.augments = modules[i].augments
  BY <1>3, <1>4, <1>5 DEF IsObject
<1>7. PICK m : m = [modules EXCEPT ![i] = r]
  OBVIOUS
<1>8. /\ DOMAIN m = DOMAIN modules /\ m[i] = r /\ \A j \in DOMAIN modules : j # i => m[j] = modules[j]
  BY <1>4, <1>7
<1>9. PICK u : u = [m[Top.id] EXCEPT !.augments = Tail(@)]
  OBVIOUS
<1>10. IsObject(m[Top.id]) /\ m[Top.id].augments = q
  BY <1>3, <1>6, <1>8
<1>11. /\ u.path = m[Top.id].path /\ u.nodes = m[Top.id].nodes /\ u.augments = Tail(q)
       /\ u.ready = m[Top.id].ready /\ u.imports = m[Top.id].imports
  BY <1>9, <1>10 DEF IsObject
<1>12. modules' = [m EXCEPT ![Top.id] = u]
  BY <1>2, <1>3, <1>4, <1>5, <1>7, <1>9
<1>13. /\ DOMAIN modules' = DOMAIN modules
       /\ \A j \in DOMAIN modules :
            /\ modules'[j].path = modules[j].path
            /\ modules'[j].ready = modules[j].ready
            /\ modules'[j].imports = modules[j].imports
            /\ j # i => modules'[j].nodes = modules[j].nodes
            /\ j # Top.id => modules'[j].augments = modules[j].augments
            /\ j # i /\ j # Top.id => modules'[j] = modules[j]
       /\ modules'[i].nodes = Append(modules[i].nodes, Augment.node)
       /\ modules'[Top.id].augments = Tail(q)
  BY <1>3, <1>4, <1>6, <1>8, <1>11, <1>12
<1>14. PathsKept(modules, modules')
  BY <1>13 DEF PathsKept
<1>15. IsSeq(q) /\ IsSeq(modules[i].nodes)
  BY <1>3, <1>4 DEF ListsOK
<1> HIDE DEF q
<1>16. /\ IsSeq(modules'[i].nodes) /\ IsSeq(Tail(q))
       /\ Elements(modules'[i].nodes) = Elements(modules[i].nodes) \cup {Augment.node}
  BY <1>1, <1>13, <1>15, AppendElements, TailPlaces
<1>17. ListsOK(modules')
  BY <1>3, <1>13, <1>16 DEF ListsOK
<1>18. PICK c : /\ <<Top.path, End(disk, Top.path), c>> \in Established(disk)
                /\ Grew(disk, c, modules, Top.id) /\ Elements(q) \subseteq c.augments
                /\ \A s \in c.augments :
                     s \in Elements(q) \/ HasTarget(disk, Established(disk), Top.path, c, s)
  BY <1>1, <1>3 DEF FrameKnown, Merging, q
<1>19. /\ Augment.node \in AddedNodes(disk)
       /\ HasTarget(disk, Established(disk), Top.path, c, Augment)
  BY <1>1, <1>2, <1>18, TargetKnown DEF q
<1>20. \A j \in DOMAIN modules : Further(disk, modules[j], modules'[j])
  <2>1. ASSUME NEW j \in DOMAIN modules
        PROVE  /\ Elements(modules[j].nodes) \subseteq Elements(modules'[j].nodes)
               /\ Elements(modules'[j].nodes) \subseteq Elements(modules[j].nodes) \cup AddedNodes(disk)
    BY <1>13, <1>16, <1>19
  <2> QED
    BY <1>13, <2>1 DEF Further
<1>21. /\ Elements(Tail(q)) \subseteq Elements(q)
       /\ Elements(q) \subseteq Elements(Tail(q)) \cup {Augment}
  <2>1. Head(q) = q[1] /\ Augment = Head(q)
    BY <1>1, <1>15, TailPlaces DEF Augment, q
  <2>2. Elements(Tail(q)) \subseteq Elements(q)
    BY <1>1, <1>15, TailPlaces DEF Elements
  <2>3. PICK S : q \in Seq(S)
    BY <1>15 DEF IsSeq
  <2>4. /\ DOMAIN q = 1 .. Len(q) /\ Len(q) \in Nat
        /\ DOMAIN Tail(q) = 1 .. Len(q) - 1 /\ \A k \in 1 .. Len(q) - 1 : Tail(q)[k] = q[k + 1]
    BY <1>1, <2>3
  <2>5. \A k \in 1 .. Len(q) : k = 1 \/ (k - 1 \in 1 .. Len(q) - 1 /\ (k - 1) + 1 = k)
    BY <2>4
  <2>6. \A k \in DOMAIN q : k = 1 \/ \E l \in DOMAIN Tail(q) : q[k] = Tail(q)[l]
    BY <2>4, <2>5
  <2> QED
    BY <2>1, <2>2, <2>6 DEF Elements
<1>22. FrameKnown(disk, Top, modules')
  <2>1. Grew(disk, c, modules', Top.id)
    BY <1>3, <1>14, <1>18, <1>20, GrewKept
  <2>2. /\ Elements(modules'[Top.id].augments) \subseteq c.augments
        /\ \A s \in c.augments : \/ s \in Elements(modules'[Top.id].augments)
                                 \/ HasTarget(disk, Established(disk), Top.path, c, s)
    BY <1>13, <1>18, <1>19, <1>21
  <2>3. Merging(disk, Top.path, modules', Top.id)
    BY <1>18, <2>1, <2>2 DEF Merging
  <2> QED
    BY <1>1, <1>3, <2>3 DEF FrameKnown
<1>23. /\ Depth \in DOMAIN stack /\ SameParses(stack', stack, Depth)
       /\ \A k \in 1 .. Depth - 1 : stack'[k] = stack[k]
  BY <1>1, TopFacts, SameStack
<1>24. \A j \in DOMAIN modules :
         /\ modules'[j].ready = modules[j].ready
         /\ modules[j].ready => Further(disk, modules[j], modules'[j])
         /\ j # Top.id /\ ~modules[j].ready => Alike(modules[j], modules'[j])
  BY <1>4, <1>13, <1>20 DEF Alike
<1>25. FrameKnown(disk, stack'[Depth], modules')
  BY <1>1, <1>22 DEF Top
<1> QED
  BY <1>1, <1>13, <1>14, <1>17, <1>23, <1>24, <1>25, MoveKnown
-----------------------------------------------------------------------------
(* The end of a parse.                                                     *)

(* A module that has passed its checks is accepted by the rules.           *)
LEMMA EndKnown ==
  ASSUME IInv, KnownOK, Merged, Sound
  PROVE  /\ Loads(disk, Top.path) /\ Finished(disk, modules, Top.id)
         /\ Finished(disk, Ready, Top.id) /\ PathsKept(modules, Ready) /\ ListsOK(Ready)
         /\ DOMAIN Ready = DOMAIN modules
         /\ \A i \in DOMAIN modules : Alike(modules[i], Ready[i])
         /\ \A i \in DOMAIN modules : i # Top.id => Ready[i] = modules[i]
<1>1. stack # <<>> /\ Top.finalizing /\ modules[Top.id].augments = <<>>
  BY DEF Merged, Finalizing
<1>2. /\ Top.id \in DOMAIN modules /\ Top.path = modules[Top.id].path /\ Top.path \in Path
      /\ SharedOK(cache, modules) /\ FrameKnown(disk, Top, modules) /\ disk \in [Path -> File]
      /\ IsObject(modules[Top.id])
  BY <1>1, TopKnown
<1>3. PICK c : /\ <<Top.path, End(disk, Top.path), c>> \in Established(disk)
               /\ Grew(disk, c, modules, Top.id)
               /\ \A s \in c.augments :
                    \/ s \in Elements(modules[Top.id].augments)
                    \/ HasTarget(disk, Established(disk), Top.path, c, s)
  BY <1>1, <1>2 DEF FrameKnown, Merging
<1>4. Elements(modules[Top.id].augments) = {}
  BY <1>1 DEF Elements
<1>5. disk[Top.path].fault = "none"
  <2>1. disk[Top.path].fault \in {"none", "uses", "semantics"}
    BY <1>2 DEF File
  <2> QED
    BY <1>1, <1>2, <2>1 DEF FrameKnown, Sound
<1>6. Accepted(disk, Established(disk), Top.path, c)
  BY <1>3, <1>4, <1>5 DEF Accepted
<1>7. <<Top.path, End(disk, Top.path) + 1, c>> \in Established(disk)
  BY <1>2, <1>3, <1>6, Accept
<1>8. Loads(disk, Top.path) /\ Finished(disk, modules, Top.id)
  BY <1>2, <1>3, <1>7 DEF Loads, Finished
<1> DEFINE r == [modules[Top.id] EXCEPT !.ready = TRUE]
<1>9. Alike(modules[Top.id], r)
  BY <1>2 DEF IsObject, Alike
<1>10. Ready = [modules EXCEPT ![Top.id] = r]
  BY DEF Ready
<1> HIDE DEF r
<1>11. /\ DOMAIN Ready = DOMAIN modules /\ Ready[Top.id] = r
       /\ \A i \in DOMAIN modules : i # Top.id => Ready[i] = modules[i]
  BY <1>2, <1>10
<1>12. \A i \in DOMAIN modules : Alike(modules[i], Ready[i])
  BY <1>9, <1>11 DEF Alike
<1>13. PathsKept(modules, Ready)
  BY <1>11, <1>12 DEF PathsKept, Alike
<1>14. ListsOK(Ready)
  BY <1>11, <1>12 DEF ListsOK, KnownOK, Alike
<1>15. Finished(disk, Ready, Top.id)
  <2>1. Grew(disk, c, Ready, Top.id)
    BY <1>2, <1>3, <1>12, <1>13, AlikeFurther, GrewKept
  <2>2. Ready[Top.id].path = Top.path
    BY <1>2, <1>12 DEF Alike
  <2> QED
    BY <1>7, <2>1, <2>2 DEF Finished
<1> QED
  BY <1>8, <1>11, <1>12, <1>13, <1>14, <1>15

(* It is finished, and the call ends.                                      *)
LEMMA ReturnKnown ==
  ASSUME IInv, KnownOK, Merged, Sound, modules' = Ready, stack' = <<>>, disk' = disk
  PROVE  KnownOK'
<1>1. SharedOK(cache, modules) /\ StackOK(stack, modules)
      /\ ParsesKnown(disk, stack, modules) /\ ReadyKnown(disk, modules)
  BY DEF IInv, KnownOK
<1>2. \A i \in DOMAIN Ready : Ready[i].ready =>
        \/ i \in DOMAIN modules /\ modules[i].ready /\ Further(disk, modules[i], Ready[i])
        \/ Finished(disk, Ready, i)
  BY EndKnown, AlikeFurther
<1>3. 0 \in 0 .. Len(stack) /\ SameParses(<<>>, stack, 0) /\ 1 .. 0 - 1 = {} /\ ~(0 > 0)
  BY DEF IInv, StackOK, SameParses
<1>4. PathsKept(modules, Ready) /\ ListsOK(Ready)
  BY EndKnown
<1>5. ReadyKnown(disk, Ready) /\ ParsesKnown(disk, <<>>, Ready)
  BY ONLY <1>1, <1>2, <1>3, <1>4, KnownKept
<1> QED
  BY <1>4, <1>5 DEF KnownOK

LEMMA AbortKnown ==
  ASSUME KnownOK, Abort
  PROVE  KnownOK'
<1>1. stack' = <<>> /\ UNCHANGED <<disk, modules>>
  BY DEF Abort
<1>2. ParsesKnown(disk, <<>>, modules)
  BY DEF ParsesKnown
<1> QED
  BY <1>1, <1>2 DEF KnownOK

(* The parse below the innermost one, and what is established of it.       *)
LEMMA CallerKnown ==
  ASSUME IInv, KnownOK, stack # <<>>, Top.how \in {"import", "include"}
  PROVE  /\ Caller \in Frame /\ FrameKnown(disk, Caller, modules) /\ LinkOK(disk, Caller, Top, modules)
         /\ Caller.path = modules[Caller.id].path /\ Caller.path \in Path
         /\ Caller.next \in 1 .. Len(disk[Caller.path].body)
         /\ Caller.next + 1 \in 1 .. End(disk, Caller.path) /\ ~Caller.finalizing
         /\ <<Caller.path, Caller.next, Seen(modules, Caller.id)>> \in Established(disk)
<1>1. /\ Depth \in Nat /\ Depth - 1 \in DOMAIN stack /\ Depth \in DOMAIN stack
      /\ (Depth - 1) + 1 = Depth /\ stack \in Seq(Frame)
  BY CallerFacts, TopFacts
<1>2. Caller \in Frame
  BY <1>1 DEF Caller
<1>3. FrameKnown(disk, Caller, modules) /\ LinkOK(disk, Caller, Top, modules)
  <2>1. ParsesKnown(disk, stack, modules)
    BY DEF KnownOK
  <2>2. \A k \in DOMAIN stack : k + 1 \in DOMAIN stack => LinkOK(disk, stack[k], stack[k + 1], modules)
    BY <2>1 DEF ParsesKnown
  <2>3. LinkOK(disk, stack[Depth - 1], stack[(Depth - 1) + 1], modules)
    BY <1>1, <2>2
  <2>4. LinkOK(disk, stack[Depth - 1], stack[Depth], modules)
    BY <1>1, <2>3
  <2> QED
    BY <1>1, <2>1, <2>4 DEF ParsesKnown, Caller, Top
<1>4. Caller.path = modules[Caller.id].path
  BY <1>1 DEF IInv, StackOK, Caller
<1>5. Caller.path \in Path /\ Caller.next \in Nat
  BY <1>2 DEF Frame
<1>6. Len(disk[Caller.path].body) \in Nat
  BY <1>5, DiskFile, FileFields
<1>7. Caller.next \in 1 .. Len(disk[Caller.path].body) /\ ~Caller.finalizing
      /\ Caller.next + 1 \in 1 .. End(disk, Caller.path)
  BY <1>3, <1>5, <1>6 DEF LinkOK, FrameKnown, End
<1>8. <<Caller.path, Caller.next, Seen(modules, Caller.id)>> \in Established(disk)
  BY <1>3, <1>7 DEF FrameKnown
<1> QED
  BY <1>2, <1>3, <1>4, <1>5, <1>7, <1>8

(* The parses that are left when the innermost one ends.                   *)
LEMMA PoppedFrames ==
  ASSUME IInv, stack # <<>>, Top.how \in {"import", "include"},
         stack' = [SubSeq(stack, 1, Depth - 1) EXCEPT ![Depth - 1].next = @ + 1]
  PROVE  /\ Depth - 1 \in 0 .. Len(stack) /\ SameParses(stack', stack, Depth - 1)
         /\ stack'[Depth - 1] = [Caller EXCEPT !.next = @ + 1]
         /\ \A k \in 1 .. (Depth - 1) - 1 :
              /\ stack'[k] = stack[k] /\ stack[k].id \in DOMAIN modules
              /\ stack[k].id # Top.id /\ stack[k].id # Caller.id
<1>1. /\ Depth \in Nat /\ Depth = Len(stack) /\ Depth >= 2 /\ stack \in Seq(Frame)
      /\ Depth - 1 \in 0 .. Len(stack) /\ Depth - 1 \in DOMAIN stack /\ DOMAIN stack = 1 .. Depth
  BY CallerFacts, TopFacts
<1>2. SameParses(stack', stack, Depth - 1)
  BY <1>1, Popped
<1>3. /\ stack'[Depth - 1] = [Caller EXCEPT !.next = @ + 1]
      /\ \A k \in 1 .. (Depth - 1) - 1 : stack'[k] = stack[k]
  <2>1. PICK u : u = SubSeq(stack, 1, Depth - 1)
    OBVIOUS
  <2>2. Depth - 1 \in Nat /\ Len(stack) = (Depth - 1) + 1
    BY <1>1
  <2>3. u \in Seq(Frame) /\ Len(u) = Depth - 1 /\ \A k \in 1 .. Depth - 1 : u[k] = stack[k]
    BY <1>1, <2>1, <2>2, DropLast
  <2>4. Depth - 1 \in 1 .. Depth - 1 /\ DOMAIN u = 1 .. Depth - 1
    BY <1>1, <2>3
  <2>5. stack' = [u EXCEPT ![Depth - 1].next = @ + 1]
    BY <2>1
  <2>6. \A k \in 1 .. (Depth - 1) - 1 : k \in 1 .. Depth - 1 /\ k # Depth - 1
    BY <1>1
  <2> QED
    BY <2>3, <2>4, <2>5, <2>6 DEF Caller
<1>4. \A k \in 1 .. (Depth - 1) - 1 :
        k \in DOMAIN stack /\ k # Depth /\ k # Depth - 1 /\ Depth \in DOMAIN stack
  BY <1>1
<1>5. \A k \in 1 .. (Depth - 1) - 1 :
        stack[k].id \in DOMAIN modules /\ stack[k].id # Top.id /\ stack[k].id # Caller.id
  BY <1>1, <1>4 DEF IInv, StackOK, Top, Caller
<1> QED
  BY <1>1, <1>2, <1>3, <1>5

(* A parse ends, and the one below has dealt with its statement.           *)
LEMMA PopKnown ==
  ASSUME IInv, KnownOK, stack # <<>>, Top.how \in {"import", "include"}, disk' = disk,
         stack' = [SubSeq(stack, 1, Depth - 1) EXCEPT ![Depth - 1].next = @ + 1],
         DOMAIN modules' = DOMAIN modules, PathsKept(modules, modules'), ListsOK(modules'),
         Reads(disk, Established(disk), Caller.path, disk[Caller.path].body[Caller.next],
               Seen(modules, Caller.id), Seen(modules', Caller.id)),
         \A i \in DOMAIN modules : i # Top.id /\ i # Caller.id => Alike(modules[i], modules'[i]),
         \A i \in DOMAIN modules : modules'[i].ready =>
           \/ modules[i].ready /\ Further(disk, modules[i], modules'[i])
           \/ Finished(disk, modules', i)
  PROVE  KnownOK'
<1>1. /\ Caller \in Frame /\ ~Caller.finalizing /\ Caller.path \in Path
      /\ Caller.next \in 1 .. Len(disk[Caller.path].body)
      /\ Caller.next + 1 \in 1 .. End(disk, Caller.path)
      /\ <<Caller.path, Caller.next, Seen(modules, Caller.id)>> \in Established(disk)
  BY CallerKnown
<1>2. <<Caller.path, Caller.next + 1, Seen(modules', Caller.id)>> \in Established(disk)
  BY <1>1, DiskFile, ReadOn
<1> DEFINE g == [Caller EXCEPT !.next = @ + 1]
<1>3. g.path = Caller.path /\ g.id = Caller.id /\ g.next = Caller.next + 1 /\ ~g.finalizing
  BY <1>1 DEF Frame
<1> HIDE DEF g
<1>4. FrameKnown(disk, g, modules')
  BY <1>1, <1>2, <1>3 DEF FrameKnown
<1>5. /\ Depth - 1 \in 0 .. Len(stack) /\ SameParses(stack', stack, Depth - 1)
      /\ stack'[Depth - 1] = g
      /\ \A k \in 1 .. (Depth - 1) - 1 :
           stack'[k] = stack[k] /\ Alike(modules[stack[k].id], modules'[stack[k].id])
  BY PoppedFrames DEF g
<1>6. SharedOK(cache, modules) /\ StackOK(stack, modules)
      /\ ParsesKnown(disk, stack, modules) /\ ReadyKnown(disk, modules)
  BY DEF IInv, KnownOK
<1>7. \A i \in DOMAIN modules' : modules'[i].ready =>
        \/ i \in DOMAIN modules /\ modules[i].ready /\ Further(disk, modules[i], modules'[i])
        \/ Finished(disk, modules', i)
  OBVIOUS
<1>8. ListsOK(modules') /\ PathsKept(modules, modules')
  OBVIOUS
<1>9. PICK n : n = Depth - 1
  OBVIOUS
<1>10. /\ \A k \in 1 .. n - 1 : stack'[k] = stack[k] /\ Alike(modules[stack[k].id], modules'[stack[k].id])
       /\ FrameKnown(disk, stack'[n], modules') /\ n \in 0 .. Len(stack)
       /\ SameParses(stack', stack, n)
  BY <1>4, <1>5, <1>9
<1>11. ReadyKnown(disk, modules') /\ ParsesKnown(disk, stack', modules')
  BY ONLY <1>6, <1>7, <1>8, <1>10, KnownKept
<1> QED
  BY <1>8, <1>11 DEF KnownOK

(* The imported module is accepted, and its importer binds it.             *)
LEMMA ReturnImportKnown ==
  ASSUME IInv, KnownOK, ReturnImport
  PROVE  KnownOK'
<1>1. /\ Merged /\ Sound /\ Top.how = "import" /\ NameOf(Top.id) = Expected.name /\ disk' = disk
      /\ modules' = [Ready EXCEPT ![Caller.id].imports = @ \cup {<<Expected.prefix, Top.id>>}]
      /\ stack' = [SubSeq(stack, 1, Depth - 1) EXCEPT ![Depth - 1].next = @ + 1]
  BY DEF ReturnImport
<1>2. stack # <<>> /\ Top.how \in {"import", "include"}
  BY <1>1 DEF Merged, Finalizing
<1>3. /\ Caller.id \in DOMAIN modules /\ Top.id \in DOMAIN modules /\ Caller.id # Top.id
      /\ ~modules[Caller.id].ready /\ IsObject(modules[Caller.id])
      /\ Top.path = modules[Top.id].path /\ Top.path \in Path /\ SharedOK(cache, modules)
  BY <1>1, <1>2, CallerFacts, TopFacts DEF IInv
<1>4. /\ Loads(disk, Top.path) /\ Finished(disk, modules, Top.id)
      /\ PathsKept(modules, Ready) /\ ListsOK(Ready) /\ DOMAIN Ready = DOMAIN modules
      /\ \A i \in DOMAIN modules : Alike(modules[i], Ready[i])
      /\ \A i \in DOMAIN modules : i # Top.id => Ready[i] = modules[i]
  BY <1>1, EndKnown
<1> DEFINE r == [modules[Caller.id] EXCEPT !.imports = @ \cup {<<Expected.prefix, Top.id>>}]
<1>5. modules' = [Ready EXCEPT ![Caller.id] = r]
  BY <1>1, <1>3, <1>4
<1>6. /\ r.path = modules[Caller.id].path /\ ~r.ready /\ r.nodes = modules[Caller.id].nodes
      /\ r.defines = modules[Caller.id].defines /\ r.augments = modules[Caller.id].augments
      /\ r.imports = modules[Caller.id].imports \cup {<<Expected.prefix, Top.id>>}
  BY <1>3 DEF IsObject
<1> HIDE DEF r
<1>7. /\ DOMAIN modules' = DOMAIN modules /\ modules'[Caller.id] = r
      /\ \A i \in DOMAIN modules : i # Caller.id => modules'[i] = Ready[i]
  BY <1>3, <1>4, <1>5
<1>8. \A i \in DOMAIN modules : i # Caller.id => Alike(modules[i], modules'[i])
  BY <1>4, <1>7
<1>9. PathsKept(modules, modules')
  BY <1>6, <1>7, <1>8 DEF PathsKept, Alike
<1>10. ListsOK(modules')
  BY <1>3, <1>4, <1>6, <1>7 DEF ListsOK, KnownOK
<1>11. /\ LinkOK(disk, Caller, Top, modules) /\ Caller.path = modules[Caller.id].path
  BY <1>2, CallerKnown
<1>12. /\ Expected = disk[Caller.path].body[Caller.next]
       /\ Expected.op = "import" /\ Locate[Expected.name] = Top.path
       /\ Expected.prefix # disk[Caller.path].prefix
       /\ \A b \in modules[Caller.id].imports : b[1] # Expected.prefix
  BY <1>1, <1>11 DEF LinkOK, Expected
<1>13. Leads(modules', r.imports)
         = Leads(modules, modules[Caller.id].imports) \cup {<<Expected.prefix, Top.path>>}
  <2>1. Leads(modules', modules[Caller.id].imports) = Leads(modules, modules[Caller.id].imports)
    BY <1>3, <1>9, LeadsKept
  <2>2. PICK b : b = <<Expected.prefix, Top.id>>
    OBVIOUS
  <2>3. PICK m, I, J : m = modules' /\ I = modules[Caller.id].imports /\ J = r.imports
    OBVIOUS
  <2>4. J = I \cup {b}
    BY <1>6, <2>2, <2>3
  <2>5. Leads(m, J) = Leads(m, I) \cup {<<b[1], m[b[2]].path>>}
    BY ONLY <2>4, LeadsMore
  <2>6. b[1] = Expected.prefix /\ m[b[2]].path = Top.path
    BY <1>3, <1>9, <2>2, <2>3 DEF PathsKept
  <2> QED
    BY <2>1, <2>3, <2>5, <2>6
<1>14. SameBut(modules, modules', Caller.id, "imports")
  BY <1>6, <1>7 DEF SameBut
<1>15. disk[Top.path].name = Expected.name
  BY <1>1, <1>3 DEF NameOf
<1>16. \E own : <<Top.path, End(disk, Top.path) + 1, own>> \in Established(disk)
  BY <1>4 DEF Loads
<1>17. Reads(disk, Established(disk), Caller.path, Expected, Seen(modules, Caller.id), Seen(modules', Caller.id))
  BY <1>3, <1>7, <1>12, <1>13, <1>14, <1>15, <1>16, Extended
<1>18. Finished(disk, modules', Top.id)
  <2>1. PICK x : <<Top.path, End(disk, Top.path) + 1, x>> \in Established(disk) /\ Grew(disk, x, modules, Top.id)
    BY <1>3, <1>4 DEF Finished
  <2>2. Grew(disk, x, modules', Top.id)
    BY <1>3, <1>8, <1>9, <2>1, AlikeFurther, GrewKept
  <2>3. modules'[Top.id].path = Top.path
    BY <1>3, <1>9 DEF PathsKept
  <2> QED
    BY <2>1, <2>2, <2>3 DEF Finished
<1>19. \A i \in DOMAIN modules : modules'[i].ready =>
         \/ modules[i].ready /\ Further(disk, modules[i], modules'[i])
         \/ Finished(disk, modules', i)
  <2>1. \A i \in DOMAIN modules : i # Top.id /\ i # Caller.id => modules'[i] = modules[i]
    BY <1>4, <1>7
  <2>2. \A i \in DOMAIN modules : i # Top.id /\ i # Caller.id => Further(disk, modules[i], modules'[i])
    BY <1>8, AlikeFurther
  <2> QED
    BY <1>6, <1>7, <1>18, <2>1, <2>2
<1>20. Reads(disk, Established(disk), Caller.path, disk[Caller.path].body[Caller.next],
             Seen(modules, Caller.id), Seen(modules', Caller.id))
  BY <1>12, <1>17
<1> QED
  BY ONLY IInv, KnownOK, <1>1, <1>2, <1>7, <1>8, <1>9, <1>10, <1>19, <1>20, PopKnown

(* Bindings with those of J whose prefix is not in use.                    *)
Overlay(I, J, own) == I \cup {b \in J : b[1] # own /\ \A e \in I : e[1] # b[1]}

(* The bindings that are taken over from a submodule lead to the files     *)
(* the rules say.                                                          *)
LEMMA LeadsJoined ==
  ASSUME NEW m, NEW I, NEW J, NEW own
  PROVE  Leads(m, Overlay(I, J, own)) = Overlay(Leads(m, I), Leads(m, J), own)
<1> DEFINE f(b) == <<b[1], m[b[2]].path>>
           K == {b \in J : b[1] # own /\ ~\E e \in I : e[1] = b[1]}
           R == {b \in Leads(m, J) : b[1] # own /\ \A e \in Leads(m, I) : e[1] # b[1]}
<1>1. \A b : f(b)[1] = b[1]
  OBVIOUS
<1> HIDE DEF f
<1>2. \A S : Leads(m, S) = {f(b) : b \in S}
  BY DEF Leads, f
<1>3. Leads(m, I \cup K) = Leads(m, I) \cup Leads(m, K)
  <2> HIDE DEF K
  <2> QED
    BY <1>2
<1>4. Leads(m, K) \subseteq R
  BY <1>1, <1>2
<1>5. R \subseteq Leads(m, K)
  BY <1>1, <1>2
<1>6. Overlay(I, J, own) = I \cup K /\ Overlay(Leads(m, I), Leads(m, J), own) = Leads(m, I) \cup R
  BY DEF Overlay
<1> QED
  BY <1>3, <1>4, <1>5, <1>6

(* A submodule has been read to its end, and fits the file that includes   *)
(* it: what it has read joins what that file has.                          *)
LEMMA MergeSubmoduleKnown ==
  ASSUME IInv, KnownOK, MergeSubmodule
  PROVE  KnownOK'
<1>1. /\ stack # <<>> /\ ~Top.finalizing /\ Top.next \notin DOMAIN Body
      /\ Top.how = "include" /\ Top.how \in {"import", "include"} /\ ~SubmoduleRefused
      /\ stack' = [SubSeq(stack, 1, Depth - 1) EXCEPT ![Depth - 1].next = @ + 1]
      /\ disk' = disk
  BY DEF MergeSubmodule, AtEnd, Reading
<1>2. /\ Caller.id \in DOMAIN modules /\ Top.id \in DOMAIN modules /\ Caller.id # Top.id
      /\ ~modules[Caller.id].ready /\ IsObject(modules[Caller.id])
      /\ Top.path = modules[Top.id].path /\ Top.path \in Path /\ SharedOK(cache, modules)
  BY <1>1, CallerFacts, TopFacts DEF IInv
<1> DEFINE r == [modules[Caller.id] EXCEPT
                   !.nodes = @ \o Sub.nodes,
                   !.defines = @ \cup Sub.defines,
                   !.augments = @ \o Sub.augments,
                   !.imports = @ \cup {b \in Sub.imports : b[1] # Own(Caller.id) /\ ~Taken(b[1])}]
           new == NewModule(Top.path)
<1>3. modules' = [[modules EXCEPT ![Caller.id] = r] EXCEPT ![Top.id] = new]
  BY <1>2 DEF MergeSubmodule
<1>4. /\ r.path = modules[Caller.id].path /\ ~r.ready
      /\ r.nodes = modules[Caller.id].nodes \o modules[Top.id].nodes
      /\ r.defines = modules[Caller.id].defines \cup modules[Top.id].defines
      /\ r.augments = modules[Caller.id].augments \o modules[Top.id].augments
      /\ r.imports = modules[Caller.id].imports \cup
           {b \in modules[Top.id].imports : b[1] # Own(Caller.id)
                                            /\ ~\E e \in modules[Caller.id].imports : e[1] = b[1]}
  BY <1>2 DEF IsObject, Sub, Taken, Parent
<1>5. new.path = Top.path /\ new.nodes = <<>> /\ new.augments = <<>> /\ ~new.ready
  BY DEF NewModule
<1> HIDE DEF r, new
<1>6. /\ DOMAIN modules' = DOMAIN modules /\ modules'[Caller.id] = r /\ modules'[Top.id] = new
      /\ \A i \in DOMAIN modules : i # Top.id /\ i # Caller.id => modules'[i] = modules[i]
  BY <1>2, <1>3
<1>7. PathsKept(modules, modules')
  BY <1>2, <1>4, <1>5, <1>6 DEF PathsKept
<1>8. /\ IsSeq(r.nodes) /\ IsSeq(r.augments)
      /\ Elements(r.nodes) = Elements(modules[Caller.id].nodes) \cup Elements(modules[Top.id].nodes)
      /\ Elements(r.augments)
           = Elements(modules[Caller.id].augments) \cup Elements(modules[Top.id].augments)
  BY <1>2, <1>4, ConcatElements DEF KnownOK, ListsOK
<1>9. IsSeq(<<>>)
  BY DEF IsSeq, Elements
<1>10. ListsOK(modules')
  BY <1>5, <1>6, <1>8, <1>9 DEF ListsOK, KnownOK
<1> DEFINE s == disk[Caller.path].body[Caller.next]
<1>11. /\ s.op = "include" /\ Locate[s.name] = Top.path /\ Caller.path = modules[Caller.id].path
       /\ Own(Caller.id) = disk[Caller.path].prefix
  BY <1>1, CallerKnown DEF LinkOK, Own
<1>12. <<Top.path, End(disk, Top.path), Seen(modules, Top.id)>> \in Established(disk)
  <2>1. /\ FrameKnown(disk, Top, modules) /\ DOMAIN Body = 1 .. Len(Body) /\ Len(Body) \in Nat
        /\ End(disk, Top.path) = Len(Body) + 1 /\ Top.next \in Nat
    BY <1>1, TopKnown
  <2>2. Top.next = End(disk, Top.path)
    BY <1>1, <2>1 DEF FrameKnown
  <2> QED
    BY <1>1, <2>1, <2>2 DEF FrameKnown
<1>13. PICK m, m2, i, j : m = modules /\ m2 = modules' /\ i = Caller.id /\ j = Top.id
  OBVIOUS
<1>14. PICK d, p, own : d = disk /\ p = Caller.path /\ own = Own(Caller.id)
  OBVIOUS
<1>15. Fits(d, p, Seen(m, i), s.name, Top.path, Seen(m, j))
  <2>1. d[Top.path].name = s.name
    BY <1>1, <1>2, <1>14 DEF SubmoduleRefused, NameOf
  <2>2. d[Top.path].belongs \subseteq {d[p].name}
    BY <1>1, <1>11, <1>14 DEF SubmoduleRefused, NameOf
  <2>3. Seen(m, j).defines \cap Seen(m, i).defines = {}
    BY <1>1, <1>13 DEF SubmoduleRefused, Sub, Parent, Seen
  <2>4. \A b \in m[j].imports, e \in m[i].imports :
          b[1] # own /\ e[1] = b[1] => d[m[e[2]].path].name = d[m[b[2]].path].name
    BY <1>1, <1>13, <1>14 DEF SubmoduleRefused, Sub, Parent, NameOf
  <2>5. ASSUME NEW b \in Leads(m, m[j].imports), NEW e \in Leads(m, m[i].imports),
               b[1] # d[p].prefix, e[1] = b[1]
        PROVE  d[e[2]].name = d[b[2]].name
    <3>1. PICK b0 \in m[j].imports : b = <<b0[1], m[b0[2]].path>>
      BY DEF Leads
    <3>2. PICK e0 \in m[i].imports : e = <<e0[1], m[e0[2]].path>>
      BY DEF Leads
    <3>3. b[1] = b0[1] /\ b[2] = m[b0[2]].path /\ e[1] = e0[1] /\ e[2] = m[e0[2]].path
      BY <3>1, <3>2
    <3> QED
      BY <1>11, <1>14, <2>4, <2>5, <3>3
  <2>6. Seen(m, j).imports = Leads(m, m[j].imports) /\ Seen(m, i).imports = Leads(m, m[i].imports)
    BY DEF Seen
  <2> QED
    BY <2>1, <2>2, <2>3, <2>5, <2>6 DEF Fits
<1>16. Seen(m2, i) = Joined(d, p, Seen(m, i), Seen(m, j))
  <2>1. m2[i].nodes = r.nodes /\ m2[i].defines = r.defines /\ m2[i].augments = r.augments
        /\ m2[i].imports = r.imports
    BY <1>6, <1>13
  <2>2. Leads(m2, r.imports) = Leads(m, r.imports)
    <3>1. \A b \in r.imports : m2[b[2]].path = m[b[2]].path
      BY <1>2, <1>4, <1>7, <1>13 DEF SharedOK, PathsKept
    <3> QED
      BY <3>1 DEF Leads
  <2>3. r.imports = Overlay(m[i].imports, m[j].imports, own)
    BY <1>4, <1>13, <1>14 DEF Overlay
  <2>4. Leads(m, r.imports) = Overlay(Leads(m, m[i].imports), Leads(m, m[j].imports), own)
    <3>1. PICK I, J : I = m[i].imports /\ J = m[j].imports
      OBVIOUS
    <3>2. Leads(m, Overlay(I, J, own)) = Overlay(Leads(m, I), Leads(m, J), own)
      BY ONLY LeadsJoined
    <3> QED
      BY ONLY <2>3, <3>1, <3>2
  <2>5. own = d[p].prefix
    BY <1>11, <1>14
  <2>6. /\ Elements(r.nodes) = Elements(m[i].nodes) \cup Elements(m[j].nodes)
        /\ Elements(r.augments) = Elements(m[i].augments) \cup Elements(m[j].augments)
        /\ r.defines = m[i].defines \cup m[j].defines
    BY <1>4, <1>8, <1>13
  <2> QED
    BY ONLY <2>1, <2>2, <2>4, <2>5, <2>6 DEF Seen, Joined, Overlay
<1>17. Reads(disk, Established(disk), Caller.path, s, Seen(modules, Caller.id), Seen(modules', Caller.id))
  <2>1. PICK c, c2, sub : c = Seen(m, i) /\ c2 = Seen(m2, i) /\ sub = Seen(m, j)
    OBVIOUS
  <2>2. /\ <<Top.path, End(d, Top.path), sub>> \in Established(d)
        /\ Fits(d, p, c, s.name, Top.path, sub) /\ c2 = Joined(d, p, c, sub)
    BY <1>12, <1>13, <1>14, <1>15, <1>16, <2>1
  <2>3. Reads(d, Established(d), p, s, c, c2)
    <3> HIDE DEF s
    <3> QED
      BY <1>2, <1>11, <2>2 DEF Reads
  <2> QED
    BY <1>13, <1>14, <2>1, <2>3
<1>18. \A k \in DOMAIN modules : k # Top.id /\ k # Caller.id => Alike(modules[k], modules'[k])
  BY <1>6 DEF Alike
<1>19. \A k \in DOMAIN modules : modules'[k].ready =>
         \/ modules[k].ready /\ Further(disk, modules[k], modules'[k])
         \/ Finished(disk, modules', k)
  <2>1. \A k \in DOMAIN modules : k # Top.id /\ k # Caller.id => Further(disk, modules[k], modules'[k])
    BY <1>18, AlikeFurther
  <2> QED
    BY <1>4, <1>5, <1>6, <2>1
<1> QED
  BY ONLY IInv, KnownOK, <1>1, <1>6, <1>7, <1>10, <1>17, <1>18, <1>19, PopKnown
-----------------------------------------------------------------------------
(* What refuses a file.                                                    *)

(* What the first n parses wait at, and what is established but not beyond *)
(* that.                                                                   *)
Waits(n) == {<<stack[k].path, stack[k].next>> : k \in 1 .. n}
Short(n) == Established(disk) \ Beyond(disk, Waits(n))

(* A parse and what it waits at.                                           *)
LEMMA WaitFacts ==
  ASSUME IInv, KnownOK, stack # <<>>, NEW n \in 1 .. Depth
  PROVE  /\ n \in Nat \ {0} /\ n \in DOMAIN stack /\ FrameKnown(disk, stack[n], modules)
         /\ stack[n].path \in Path /\ stack[n].next \in Nat \ {0}
         /\ Len(disk[stack[n].path].body) \in Nat
         /\ End(disk, stack[n].path) = Len(disk[stack[n].path].body) + 1
         /\ stack[n].next <= End(disk, stack[n].path)
         /\ n # Depth => /\ n + 1 \in 1 .. Depth /\ LinkOK(disk, stack[n], stack[n + 1], modules)
                         /\ stack[n + 1].how \in {"import", "include"}
<1>1. Depth \in Nat /\ DOMAIN stack = 1 .. Depth /\ stack \in Seq(Frame)
  BY TopFacts
<1>2. n \in Nat \ {0} /\ n \in DOMAIN stack /\ (n # Depth => n + 1 \in 1 .. Depth /\ n + 1 # 1)
  BY <1>1
<1>3. FrameKnown(disk, stack[n], modules)
  BY <1>2 DEF KnownOK, ParsesKnown
<1>4. stack[n] \in Frame
  BY <1>1, <1>2
<1>5. stack[n].path \in Path /\ stack[n].next \in Nat
  BY <1>4 DEF Frame
<1>6. Len(disk[stack[n].path].body) \in Nat
  BY <1>5, DiskFile, FileFields
<1>7. stack[n].next \in Nat \ {0} /\ stack[n].next <= End(disk, stack[n].path)
      /\ End(disk, stack[n].path) = Len(disk[stack[n].path].body) + 1
  BY <1>3, <1>5, <1>6 DEF FrameKnown, End
<1>8. n # Depth => LinkOK(disk, stack[n], stack[n + 1], modules)
  BY <1>1, <1>2 DEF KnownOK, ParsesKnown
<1>9. n # Depth => stack[n + 1].how \in {"import", "include"}
  BY <1>1, <1>2 DEF IInv, StackOK
<1> QED
  BY <1>2, <1>3, <1>5, <1>6, <1>7, <1>8, <1>9

(* The file of a parse is not known to be read beyond what it waits at.    *)
LEMMA NotShort ==
  ASSUME NEW n \in Nat, NEW k \in 1 .. n, NEW i, NEW c, i > stack[k].next
  PROVE  <<stack[k].path, i, c>> \notin Short(n)
<1>1. SUFFICES ASSUME <<stack[k].path, i, c>> \in Established(disk)
               PROVE  <<stack[k].path, i, c>> \in Beyond(disk, Waits(n))
  BY DEF Short
<1>2. PICK f : f = <<stack[k].path, i, c>>
  OBVIOUS
<1>3. f \in Facts(disk) /\ f[1] = stack[k].path /\ f[2] = i
  BY <1>1, <1>2, FactParts
<1>4. PICK b : b = <<stack[k].path, stack[k].next>>
  OBVIOUS
<1>5. b \in Waits(n) /\ b[1] = stack[k].path /\ b[2] = stack[k].next
  BY <1>4 DEF Waits
<1>6. f \in Beyond(disk, Waits(n))
  BY <1>3, <1>5 DEF Beyond
<1> QED
  BY <1>2, <1>6

(* When the n-th parse cannot go on with what is established short of what *)
(* the parses wait at, the file of the call does not load: what each of    *)
(* the others waits for is beyond that.                                    *)
LEMMA StackBlocked ==
  ASSUME IInv, KnownOK, stack # <<>>, NEW n \in 1 .. Depth,
         stack[n].next <= Len(disk[stack[n].path].body) \/ stack[n].how # "include",
         \A c : ~Follows(disk, Short(n), stack[n].path, stack[n].next + 1, c)
  PROVE  ~Loads(disk, stack[1].path)
<1>1. /\ Depth \in Nat /\ n \in Nat \ {0} /\ \A k \in 1 .. n : k \in 1 .. Depth /\ k \in Nat \ {0}
      /\ 1 \in 1 .. n /\ \A k \in 1 .. n : k # n => k + 1 \in 1 .. n /\ k # Depth
  BY TopFacts
<1>2. \A k \in 1 .. n : /\ stack[k].path \in Path /\ stack[k].next \in Nat \ {0}
                        /\ Len(disk[stack[k].path].body) \in Nat
                        /\ End(disk, stack[k].path) = Len(disk[stack[k].path].body) + 1
                        /\ stack[k].next <= End(disk, stack[k].path)
  BY <1>1, WaitFacts
<1>3. Waits(n) \subseteq Path \X (Nat \ {0})
  BY <1>2 DEF Waits
<1>4. ASSUME NEW k \in 1 .. n, k # n, NEW c,
             Follows(disk, Short(n), stack[k].path, stack[k].next + 1, c)
      PROVE  FALSE
  <2>1. /\ LinkOK(disk, stack[k], stack[k + 1], modules) /\ k + 1 \in 1 .. n
        /\ stack[k + 1].how \in {"import", "include"}
    BY <1>1, <1>4, WaitFacts
  <2> DEFINE s == disk[stack[k].path].body[stack[k].next]
             q == stack[k + 1].path
  <2>2. s.op = stack[k + 1].how /\ Locate[s.name] = q /\ stack[k].next <= Len(disk[stack[k].path].body)
    BY <2>1 DEF LinkOK
  <2>3. stack[k].next \in 1 .. Len(disk[stack[k].path].body)
    BY <1>2, <2>2
  <2>4. PICK e : Reads(disk, Short(n), stack[k].path, s, e, c)
    BY <1>2, <1>4, <2>3, DiskFile, ReadFrom
  <2>5. CASE s.op = "import"
    <3>1. PICK own : <<q, End(disk, q) + 1, own>> \in Short(n)
      BY <2>2, <2>4, <2>5 DEF Reads
    <3>2. End(disk, q) + 1 > stack[k + 1].next
      <4>1. /\ End(disk, q) = Len(disk[q].body) + 1 /\ Len(disk[q].body) \in Nat
            /\ stack[k + 1].next <= End(disk, q) /\ stack[k + 1].next \in Nat
        BY <1>2, <2>1
      <4> HIDE DEF q
      <4> QED
        BY <4>1
    <3> QED
      BY <1>1, <2>1, <3>1, <3>2, NotShort
  <2>6. CASE s.op = "include"
    <3>1. PICK sub : <<q, End(disk, q), sub>> \in Short(n)
      BY <2>2, <2>4, <2>6 DEF Reads
    <3>2. stack[k + 1].next <= Len(disk[q].body)
      <4>1. CASE k + 1 = n
        BY <2>2, <2>6, <4>1
      <4>2. CASE k + 1 # n
        <5>1. LinkOK(disk, stack[k + 1], stack[(k + 1) + 1], modules)
          BY <1>1, <2>1, <4>2, WaitFacts
        <5> QED
          BY <5>1 DEF LinkOK
      <4> QED
        BY <4>1, <4>2
    <3>3. End(disk, q) > stack[k + 1].next
      BY <1>2, <2>1, <3>2
    <3> QED
      BY <1>1, <2>1, <3>1, <3>3, NotShort
  <2> QED
    BY <2>1, <2>2, <2>5, <2>6
<1>5. \A b \in Waits(n) : \A c : ~Follows(disk, Short(n), b[1], b[2] + 1, c)
  <2>1. SUFFICES ASSUME NEW k \in 1 .. n, NEW c
                 PROVE  ~Follows(disk, Short(n), stack[k].path, stack[k].next + 1, c)
    BY DEF Waits
  <2> QED
    BY <1>4
<1>6. \A f \in Established(disk) : f \notin Beyond(disk, Waits(n))
  <2>1. PICK B, d : B = Waits(n) /\ d = disk
    OBVIOUS
  <2>2. \A b \in B : \A c : ~Follows(d, Established(d) \ Beyond(d, B), b[1], b[2] + 1, c)
    BY <1>5, <2>1 DEF Short
  <2>3. B \subseteq Path \X (Nat \ {0})
    BY <1>3, <2>1
  <2>4. \A f \in Established(d) : f \notin Beyond(d, B)
    BY ONLY <2>2, <2>3, Blocked
  <2> QED
    BY <2>1, <2>4
<1>7. \A c : <<stack[1].path, End(disk, stack[1].path) + 1, c>> \notin Short(n)
  <2>1. End(disk, stack[1].path) + 1 > stack[1].next
    BY <1>1, <1>2
  <2> QED
    BY <1>1, <2>1, NotShort
<1> QED
  BY <1>6, <1>7 DEF Loads, Short

(* So it is when the statement it waits at cannot be read.                 *)
LEMMA ReadBlocked ==
  ASSUME IInv, KnownOK, stack # <<>>, NEW n \in 1 .. Depth, ~stack[n].finalizing,
         stack[n].next <= Len(disk[stack[n].path].body),
         \A c : ~Reads(disk, Short(n), stack[n].path, disk[stack[n].path].body[stack[n].next],
                       Seen(modules, stack[n].id), c)
  PROVE  ~Loads(disk, stack[1].path)
<1>1. /\ stack[n].path \in Path /\ stack[n].next \in Nat \ {0} /\ FrameKnown(disk, stack[n], modules)
      /\ Len(disk[stack[n].path].body) \in Nat
  BY WaitFacts
<1>2. stack[n].next \in 1 .. Len(disk[stack[n].path].body)
  BY <1>1
<1>3. <<stack[n].path, stack[n].next, Seen(modules, stack[n].id)>> \in Established(disk)
  BY <1>1 DEF FrameKnown
<1>4. ASSUME NEW c, Follows(disk, Short(n), stack[n].path, stack[n].next + 1, c)
      PROVE  FALSE
  <2>1. PICK e : /\ <<stack[n].path, stack[n].next, e>> \in Short(n)
                 /\ Reads(disk, Short(n), stack[n].path, disk[stack[n].path].body[stack[n].next], e, c)
    BY <1>1, <1>2, <1>4, DiskFile, ReadFrom
  <2>2. e = Seen(modules, stack[n].id)
    BY <1>3, <2>1, DiskFile, OneContent DEF Short
  <2> QED
    BY <2>1, <2>2
<1> QED
  BY <1>4, StackBlocked

(* And when a module that has been read to its end is not accepted.        *)
LEMMA AcceptBlocked ==
  ASSUME IInv, KnownOK, stack # <<>>, Top.how # "include", Top.next = End(disk, Top.path),
         \A c : <<Top.path, End(disk, Top.path), c>> \in Established(disk)
                  => ~Accepted(disk, Established(disk), Top.path, c)
  PROVE  ~Loads(disk, stack[1].path)
<1>1. Depth \in 1 .. Depth /\ Top.path \in Path
  BY TopFacts
<1>2. ASSUME NEW c, Follows(disk, Short(Depth), Top.path, Top.next + 1, c)
      PROVE  FALSE
  <2>1. Short(Depth) \subseteq Established(disk)
    BY DEF Short
  <2>2. Follows(disk, Established(disk), Top.path, End(disk, Top.path) + 1, c)
    BY <1>2, <2>1, FollowsMore
  <2> QED
    BY <1>1, <2>2, DiskFile, AcceptedFrom
<1> QED
  BY <1>1, <1>2, StackBlocked DEF Top

(* The innermost parse, and what a refusal comes to.                       *)
LEMMA TopBlocked ==
  ASSUME IInv, KnownOK, Reading, Top.next \in DOMAIN Body,
         \A c : ~Reads(disk, Short(Depth), Top.path, Current, Seen(modules, Top.id), c)
  PROVE  ~Loads(disk, stack[1].path)
<1>1. stack # <<>> /\ ~Top.finalizing
  BY DEF Reading
<1>2. Depth \in 1 .. Depth
  BY <1>1, TopFacts
<1>3. Top.next <= Len(disk[Top.path].body)
  BY <1>1, TopKnown
<1> QED
  BY <1>1, <1>2, <1>3, ReadBlocked DEF Top, Current, Body

LEMMA SyntaxErrorRight ==
  ASSUME IInv, KnownOK, SyntaxError
  PROVE  ~Loads(disk, stack[1].path)
BY TopBlocked DEF SyntaxError, At, Reads

(* A prefix that is taken, no such file, a file whose import is in         *)
(* progress, or one that is in the cache and has another name.             *)
LEMMA RefuseImportRight ==
  ASSUME IInv, KnownOK, RefuseImport
  PROVE  ~Loads(disk, stack[1].path)
<1>1. Reading /\ stack # <<>> /\ At("import") /\ Top.next \in DOMAIN Body /\ Current.op = "import" /\ ImportRefused
  BY DEF RefuseImport, At, Reading
<1>2. Top.path = modules[Top.id].path /\ Depth \in Nat
  BY <1>1, TopFacts
<1> SUFFICES ASSUME NEW c, Reads(disk, Short(Depth), Top.path, Current, Seen(modules, Top.id), c)
             PROVE  FALSE
  BY <1>1, TopBlocked
<1>3. /\ Target \in Path /\ Current.prefix # disk[Top.path].prefix
      /\ \A b \in Seen(modules, Top.id).imports : b[1] # Current.prefix
      /\ disk[Target].name = Current.name
      /\ \E own : <<Target, End(disk, Target) + 1, own>> \in Short(Depth)
  BY <1>1 DEF Reads, Target
<1>4. Current.prefix # Own(Top.id)
  BY <1>2, <1>3 DEF Own
<1>5. Bound(Top.id, Current.prefix) = {}
  <2>1. Seen(modules, Top.id).imports = {<<b[1], modules[b[2]].path>> : b \in modules[Top.id].imports}
    BY DEF Seen, Leads
  <2>2. ASSUME NEW b \in modules[Top.id].imports PROVE b[1] # Current.prefix
    <3>1. PICK e : e = <<b[1], modules[b[2]].path>>
      OBVIOUS
    <3>2. e \in Seen(modules, Top.id).imports /\ e[1] = b[1]
      BY <2>1, <3>1
    <3> QED
      BY <1>3, <3>2
  <2> QED
    BY <2>2 DEF Bound
<1>6. Target # NoPath
  BY <1>3, DiskAssumption
<1>7. Target \notin pending
  <2>1. SUFFICES ASSUME Target \in pending PROVE FALSE
    OBVIOUS
  <2>2. PICK k \in 1 .. Depth : stack[k].path = Target
    BY <2>1 DEF IInv, ImportsOK, Depth
  <2>3. /\ stack[k].next <= End(disk, Target) /\ stack[k].next \in Nat
        /\ End(disk, Target) = Len(disk[Target].body) + 1 /\ Len(disk[Target].body) \in Nat
    BY <1>1, <2>2, WaitFacts
  <2>4. End(disk, Target) + 1 > stack[k].next
    BY <2>3
  <2> QED
    BY <1>2, <1>3, <2>2, <2>4, NotShort
<1>8. cache[Target] # 0 => NameOf(cache[Target]) = Current.name
  BY <1>3 DEF IInv, CacheOK, NameOf
<1> QED
  BY <1>1, <1>4, <1>5, <1>6, <1>7, <1>8 DEF ImportRefused

(* No such file, or one that is being included already.                    *)
LEMMA RefuseIncludeRight ==
  ASSUME IInv, KnownOK, RefuseInclude
  PROVE  ~Loads(disk, stack[1].path)
<1>1. /\ Reading /\ stack # <<>> /\ Top.next \in DOMAIN Body /\ Current.op = "include"
      /\ Target = NoPath \/ Target \in IncludeStack
  BY DEF RefuseInclude, At, Reading
<1>2. Depth \in Nat
  BY TopFacts
<1> SUFFICES ASSUME NEW c, Reads(disk, Short(Depth), Top.path, Current, Seen(modules, Top.id), c)
             PROVE  FALSE
  BY <1>1, TopBlocked
<1>3. Target \in Path /\ \E sub : <<Target, End(disk, Target), sub>> \in Short(Depth)
  BY <1>1 DEF Reads, Target
<1>4. Target # NoPath
  BY <1>3, DiskAssumption
<1>5. PICK k \in 1 .. Depth : stack[k].path = Target
  BY <1>1, <1>4 DEF IncludeStack
<1>6. /\ stack[k].next \in Nat /\ End(disk, Target) = Len(disk[Target].body) + 1
      /\ Len(disk[Target].body) \in Nat
  BY <1>1, <1>5, WaitFacts
<1>7. stack[k].next <= Len(disk[Target].body)
  <2>1. CASE k = Depth
    BY <1>1, <1>5, <2>1, TopKnown DEF Top
  <2>2. CASE k # Depth
    <3>1. LinkOK(disk, stack[k], stack[k + 1], modules)
      BY <1>1, <2>2, WaitFacts
    <3> QED
      BY <1>5, <3>1 DEF LinkOK
  <2> QED
    BY <2>1, <2>2
<1>8. End(disk, Target) > stack[k].next
  BY <1>6, <1>7
<1> QED
  BY <1>2, <1>3, <1>5, <1>8, NotShort

(* The parse below the innermost one cannot read its statement.            *)
LEMMA CallerBlocked ==
  ASSUME IInv, KnownOK, stack # <<>>, Top.how \in {"import", "include"},
         \A c : ~Reads(disk, Short(Depth - 1), Caller.path, disk[Caller.path].body[Caller.next],
                       Seen(modules, Caller.id), c)
  PROVE  ~Loads(disk, stack[1].path)
<1>1. Depth \in Nat /\ Depth >= 2
  BY CallerFacts
<1>2. Depth - 1 \in 1 .. Depth
  BY <1>1
<1>3. ~Caller.finalizing /\ Caller.next <= Len(disk[Caller.path].body)
  BY CallerKnown DEF LinkOK
<1> QED
  BY <1>2, <1>3, ReadBlocked DEF Caller

(* A submodule of another name, of another module, or that has what is     *)
(* there already.                                                          *)
LEMMA RefuseSubmoduleRight ==
  ASSUME IInv, KnownOK, RefuseSubmodule
  PROVE  ~Loads(disk, stack[1].path)
<1>1. /\ stack # <<>> /\ ~Top.finalizing /\ Top.next \notin DOMAIN Body
      /\ Top.how = "include" /\ Top.how \in {"import", "include"} /\ SubmoduleRefused
  BY DEF RefuseSubmodule, AtEnd, Reading
<1> DEFINE s == disk[Caller.path].body[Caller.next]
<1> SUFFICES ASSUME NEW c, Reads(disk, Short(Depth - 1), Caller.path, s, Seen(modules, Caller.id), c)
             PROVE  FALSE
  BY <1>1, CallerBlocked
<1>2. /\ s.op = "include" /\ Locate[s.name] = Top.path /\ Caller.path = modules[Caller.id].path
      /\ Own(Caller.id) = disk[Caller.path].prefix
  BY <1>1, CallerKnown DEF LinkOK, Own
<1>3. <<Top.path, End(disk, Top.path), Seen(modules, Top.id)>> \in Established(disk)
  <2>1. /\ FrameKnown(disk, Top, modules) /\ DOMAIN Body = 1 .. Len(Body) /\ Len(Body) \in Nat
        /\ End(disk, Top.path) = Len(Body) + 1 /\ Top.next \in Nat
    BY <1>1, TopKnown
  <2>2. Top.next = End(disk, Top.path)
    BY <1>1, <2>1 DEF FrameKnown
  <2> QED
    BY <1>1, <2>1, <2>2 DEF FrameKnown
<1>4. PICK sub : /\ <<Top.path, End(disk, Top.path), sub>> \in Established(disk)
                 /\ Fits(disk, Caller.path, Seen(modules, Caller.id), s.name, Top.path, sub)
  <2> HIDE DEF s
  <2> QED
    BY <1>2 DEF Reads, Short
<1>5. sub = Seen(modules, Top.id)
  BY <1>3, <1>4, DiskFile, OneContent
<1>6. Top.path = modules[Top.id].path
  BY <1>1, TopFacts
<1>7. NameOf(Top.id) = s.name
  BY <1>4, <1>6 DEF Fits, NameOf
<1>8. ~\E n \in disk[Top.path].belongs : n # NameOf(Caller.id)
  BY <1>2, <1>4 DEF Fits, NameOf
<1>9. Sub.defines \cap Parent.defines = {}
  BY <1>4, <1>5 DEF Fits, Seen, Sub, Parent
<1>10. \A b \in Sub.imports, e \in Parent.imports :
         b[1] # Own(Caller.id) /\ e[1] = b[1] => NameOf(e[2]) = NameOf(b[2])
  <2>1. SUFFICES ASSUME NEW b \in modules[Top.id].imports, NEW e \in modules[Caller.id].imports,
                        b[1] # disk[Caller.path].prefix, e[1] = b[1]
                 PROVE  disk[modules[e[2]].path].name = disk[modules[b[2]].path].name
    BY <1>2 DEF Sub, Parent, NameOf
  <2>2. PICK b2, e2 : b2 = <<b[1], modules[b[2]].path>> /\ e2 = <<e[1], modules[e[2]].path>>
    OBVIOUS
  <2>3. b2 \in Seen(modules, Top.id).imports /\ e2 \in Seen(modules, Caller.id).imports
    BY <2>2 DEF Seen, Leads
  <2>4. b2[1] = b[1] /\ b2[2] = modules[b[2]].path /\ e2[1] = e[1] /\ e2[2] = modules[e[2]].path
    BY <2>2
  <2>5. b2[1] # disk[Caller.path].prefix /\ e2[1] = b2[1] => disk[e2[2]].name = disk[b2[2]].name
    BY <1>4, <1>5, <2>3 DEF Fits
  <2> QED
    BY <2>1, <2>4, <2>5
<1> QED
  BY <1>1, <1>7, <1>8, <1>9, <1>10 DEF SubmoduleRefused

(* Expansion of uses, or the semantic checks, fail.                        *)
LEMMA RefuseModuleRight ==
  ASSUME IInv, KnownOK, RefuseUses \/ RefuseSemantics
  PROVE  ~Loads(disk, stack[1].path)
<1>1. stack # <<>> /\ disk[Top.path].fault # "none"
  BY DEF RefuseUses, RefuseSemantics, AtEnd, Merged, Finalizing, Reading, Sound
<1>2. Top.how # "include" /\ Top.next = End(disk, Top.path)
  <2>1. /\ FrameKnown(disk, Top, modules) /\ DOMAIN Body = 1 .. Len(Body) /\ Len(Body) \in Nat
        /\ End(disk, Top.path) = Len(Body) + 1 /\ Top.next \in Nat
    BY <1>1, TopKnown
  <2>2. CASE RefuseUses
    <3>1. Top.how # "include" /\ Top.next \notin DOMAIN Body
      BY <2>2 DEF RefuseUses, AtEnd
    <3> QED
      BY <2>1, <3>1 DEF FrameKnown
  <2>3. CASE RefuseSemantics
    BY <2>1, <2>3 DEF RefuseSemantics, Merged, Finalizing, FrameKnown
  <2> QED
    BY <2>2, <2>3
<1> QED
  BY <1>1, <1>2, AcceptBlocked DEF Accepted

(* An augment has no target.                                               *)
LEMMA RefuseAugmentRight ==
  ASSUME IInv, KnownOK, TargetsInSource, RefuseAugment
  PROVE  ~Loads(disk, stack[1].path)
<1>1. /\ Finalizing /\ stack # <<>> /\ Top.finalizing
      /\ modules[Top.id].augments # <<>> /\ AugmentTargets = {}
  BY DEF RefuseAugment, Finalizing
<1>2. FrameKnown(disk, Top, modules)
  BY <1>1, TopKnown
<1>3. Top.how # "include" /\ Top.next = End(disk, Top.path)
  BY <1>1, <1>2 DEF FrameKnown
<1>4. PICK e : /\ <<Top.path, End(disk, Top.path), e>> \in Established(disk)
               /\ Grew(disk, e, modules, Top.id)
               /\ Elements(modules[Top.id].augments) \subseteq e.augments
  BY <1>1, <1>2 DEF FrameKnown, Merging
<1>5. Augment \in e.augments /\ ~HasTarget(disk, Established(disk), Top.path, e, Augment)
  BY <1>1, <1>4, TargetKnown
<1>6. ASSUME NEW c, <<Top.path, End(disk, Top.path), c>> \in Established(disk)
      PROVE  ~Accepted(disk, Established(disk), Top.path, c)
  <2>1. c = e
    BY <1>4, <1>6, DiskFile, OneContent
  <2> QED
    BY <1>5, <2>1 DEF Accepted
<1> QED
  BY <1>1, <1>3, <1>6, AcceptBlocked

(* The imported file has another name.                                     *)
LEMMA RefuseImportedRight ==
  ASSUME IInv, KnownOK, RefuseImported
  PROVE  ~Loads(disk, stack[1].path)
<1>1. stack # <<>> /\ Top.how = "import" /\ Top.how \in {"import", "include"} /\ NameOf(Top.id) # Expected.name
  BY DEF RefuseImported, Merged, Finalizing
<1>2. Expected = disk[Caller.path].body[Caller.next] /\ Expected.op = "import" /\ Locate[Expected.name] = Top.path
  BY <1>1, CallerKnown DEF LinkOK, Expected
<1>3. disk[Top.path].name # Expected.name
  BY <1>1, TopFacts DEF NameOf
<1>4. \A c : ~Reads(disk, Short(Depth - 1), Caller.path, Expected, Seen(modules, Caller.id), c)
  BY <1>2, <1>3 DEF Reads
<1> QED
  BY <1>1, <1>2, <1>4, CallerBlocked
-----------------------------------------------------------------------------
(* Every step.                                                             *)

(* What a step comes to: the call goes on, or it ends, and then with the   *)
(* verdict of the rules.                                                   *)
GoesOn == first' = first /\ (status = "running" => status' = "running")
Ends ==
  /\ stack # <<>> /\ status' \in {"ok", "error"}
  /\ first' = [first EXCEPT ![stack[1].path] = IF @ = "none" THEN status' ELSE @]
  /\ status' = "ok" <=> Loads(disk, stack[1].path)

LEMMA AbortRight ==
  ASSUME IInv, KnownOK, stack # <<>>, Abort, ~Loads(disk, stack[1].path)
  PROVE  KnownOK' /\ Ends
<1>1. KnownOK'
  BY AbortKnown
<1>2. Ends
  BY DEF Abort, Verdict, Ends
<1> QED
  BY <1>1, <1>2

LEMMA ReadStepRight ==
  ASSUME IInv, KnownOK, ReadStep
  PROVE  KnownOK' /\ (GoesOn \/ Ends)
<1>1. CASE SyntaxError \/ RefuseImport \/ RefuseInclude \/ RefuseSubmodule
  <2>1. stack # <<>> /\ Abort
    BY <1>1 DEF SyntaxError, RefuseImport, RefuseInclude, RefuseSubmodule, At, AtEnd, Reading
  <2>2. ~Loads(disk, stack[1].path)
    BY <1>1, SyntaxErrorRight, RefuseImportRight, RefuseIncludeRight, RefuseSubmoduleRight
  <2> QED
    BY <2>1, <2>2, AbortRight
<1>2. CASE ReadStatement \/ BindCached \/ LoadImport \/ LoadInclude \/ MergeSubmodule
  <2>1. GoesOn
    BY <1>2 DEF ReadStatement, BindCached, LoadImport, LoadInclude, MergeSubmodule, GoesOn
  <2> QED
    BY <1>2, <2>1, ReadStatementKnown, BindCachedKnown, LoadKnown, MergeSubmoduleKnown
<1> QED
  BY <1>1, <1>2 DEF ReadStep

(* A call returns when its own file is finished.                           *)
LEMMA ReturnRight ==
  ASSUME IInv, KnownOK, Return
  PROVE  KnownOK' /\ Ends
<1>1. /\ Merged /\ Sound /\ Top.how \in {"file", "string"} /\ modules' = Ready /\ stack' = <<>>
      /\ disk' = disk /\ status' = "ok" /\ Verdict("ok")
  BY DEF Return
<1>2. stack # <<>>
  BY <1>1 DEF Merged, Finalizing
<1>3. Top = stack[1]
  <2>1. Depth \in DOMAIN stack
    BY <1>2, TopFacts
  <2>2. Depth = 1
    BY <1>1, <2>1 DEF IInv, StackOK, Top
  <2> QED
    BY <2>2 DEF Top
<1>4. Loads(disk, stack[1].path)
  BY <1>1, <1>3, EndKnown
<1>5. KnownOK'
  BY <1>1, ReturnKnown
<1>6. Ends
  BY <1>1, <1>2, <1>4 DEF Ends, Verdict
<1> QED
  BY <1>5, <1>6

LEMMA FinalizeStepRight ==
  ASSUME IInv, KnownOK, TargetsInSource, FinalizeStep
  PROVE  KnownOK' /\ (GoesOn \/ Ends)
<1>1. CASE RefuseUses \/ RefuseAugment \/ RefuseSemantics
  <2>1. stack # <<>> /\ Abort
    BY <1>1 DEF RefuseUses, RefuseAugment, RefuseSemantics, AtEnd, Reading, Merged, Finalizing
  <2>2. ~Loads(disk, stack[1].path)
    BY <1>1, RefuseModuleRight, RefuseAugmentRight
  <2> QED
    BY <2>1, <2>2, AbortRight
<1>2. CASE RefuseImported
  <2>1. /\ Merged /\ Sound /\ modules' = Ready /\ stack' = <<>> /\ disk' = disk
        /\ stack # <<>> /\ status' = "error" /\ Verdict("error")
    BY <1>2 DEF RefuseImported, Merged, Finalizing
  <2>2. ~Loads(disk, stack[1].path)
    BY <1>2, RefuseImportedRight
  <2>3. KnownOK'
    BY <2>1, ReturnKnown
  <2>4. Ends
    BY <2>1, <2>2 DEF Ends, Verdict
  <2> QED
    BY <2>3, <2>4
<1>3. CASE ExpandUses \/ MergeAugment \/ ReturnImport
  <2>1. GoesOn
    BY <1>3 DEF ExpandUses, MergeAugment, ReturnImport, GoesOn
  <2> QED
    BY <1>3, <2>1, ExpandUsesKnown, MergeAugmentKnown, ReturnImportKnown
<1> QED
  BY <1>1, <1>2, <1>3, ReturnRight DEF FinalizeStep

LEMMA StepRight ==
  ASSUME IInv, KnownOK, TargetsInSource, [Next]_vars
  PROVE  KnownOK' /\ (GoesOn \/ Ends)
<1>1. CASE \E p \in Path : ParseFile(p) \/ ParseString(p)
  <2>1. GoesOn
    BY <1>1 DEF ParseFile, ParseString, Call, GoesOn
  <2> QED
    BY <1>1, <2>1, CallKnown
<1>2. CASE UNCHANGED vars
  BY <1>2 DEF vars, KnownOK, GoesOn
<1> QED
  BY <1>1, <1>2, ReadStepRight, FinalizeStepRight DEF Next, Step

LEMMA KnownInitially == Init => KnownInv
  BY DEF Init, KnownInv, KnownOK, ListsOK, ReadyKnown, ParsesKnown, VerdictsKnown

LEMMA KnownInductive == IInv /\ KnownInv /\ [Next]_vars => KnownInv'
<1> SUFFICES ASSUME IInv, KnownInv, [Next]_vars PROVE KnownInv'
  OBVIOUS
<1>1. disk' = disk
  BY DEF Next, Step, ReadStep, FinalizeStep, vars, ReadStatement, SyntaxError, RefuseImport,
     BindCached, LoadImport, RefuseInclude, LoadInclude, RefuseSubmodule, MergeSubmodule, ExpandUses,
     RefuseUses, MergeAugment, RefuseAugment, RefuseSemantics, Return, ReturnImport, RefuseImported,
     Abort, ParseFile, ParseString, Call
<1>2. TargetsInSource' => TargetsInSource
  BY <1>1 DEF TargetsInSource, Statements
<1> SUFFICES ASSUME TargetsInSource PROVE KnownOK' /\ VerdictsKnown(disk, first')
  BY <1>1, <1>2 DEF KnownInv
<1>3. KnownOK /\ VerdictsKnown(disk, first)
  BY DEF KnownInv
<1>4. KnownOK' /\ (GoesOn \/ Ends)
  BY <1>3, StepRight
<1>5. CASE GoesOn
  BY <1>3, <1>4, <1>5 DEF GoesOn
<1>6. CASE Ends
  <2>1. stack[1].path \in Path /\ first \in [Path -> {"none", "ok", "error"}]
    BY <1>6, TopFacts DEF Ends, IInv, CallsOK
  <2>2. ASSUME NEW p \in Path
        PROVE  (first'[p] = "ok" => Loads(disk, p)) /\ (first'[p] = "error" => ~Loads(disk, p))
    <3>1. CASE p = stack[1].path
      BY <1>3, <1>6, <2>1, <3>1 DEF Ends, VerdictsKnown
    <3>2. CASE p # stack[1].path
      BY <1>3, <1>6, <2>1, <3>2 DEF Ends, VerdictsKnown
    <3> QED
      BY <3>1, <3>2
  <2> QED
    BY <1>4, <2>2 DEF VerdictsKnown
<1> QED
  BY <1>4, <1>5, <1>6

(* A call of parse_file or parse_string accepts a file exactly when it     *)
(* loads by the rules, which know no cache, no pending set, no order of    *)
(* calls and no earlier failure.                                           *)
THEOREM VerdictsAreExact == Spec => VerdictsExact
<1>1. Init => KnownInv
  BY KnownInitially
<1>2. IInv /\ KnownInv /\ [Next]_vars => KnownInv'
  BY KnownInductive
<1>3. ASSUME IInv, KnownInv, [Next]_vars, status = "running", status' # "running", TargetsInSource
      PROVE  status' = "ok" <=> Loads(disk, stack[1].path)
  BY <1>3, StepRight DEF KnownInv, GoesOn, Ends
<1> QED
  BY <1>1, <1>2, <1>3, Invariance, PTL DEF Spec, VerdictsExact

(* What a parser has loaded, and failed to load, before decides nothing: a *)
(* file that is parsed again is accepted or refused as it was at first.    *)
THEOREM VerdictsAreStable == Spec => VerdictStable
<1>1. Init => KnownInv
  BY KnownInitially
<1>2. IInv /\ KnownInv /\ [Next]_vars => KnownInv'
  BY KnownInductive
<1>3. ASSUME IInv, KnownInv, [Next]_vars, status = "running", status' # "running", TargetsInSource
      PROVE  first[stack[1].path] \in {"none", status'}
  <2>1. Ends /\ VerdictsKnown(disk, first)
    BY <1>3, StepRight DEF KnownInv, GoesOn
  <2>2. stack[1].path \in Path /\ first[stack[1].path] \in {"none", "ok", "error"}
    BY <1>3, <2>1, TopFacts DEF Ends, IInv, CallsOK
  <2> QED
    BY <1>3, <2>1, <2>2 DEF Ends, VerdictsKnown
<1> QED
  BY <1>1, <1>2, <1>3, Invariance, PTL DEF Spec, VerdictStable
=============================================================================
