-------------------------- MODULE ModuleLoaderProofs --------------------------
(***************************************************************************)
(* Proofs about ModuleLoader, for every directory of files, every sequence *)
(* of calls and every size of the heap.                                    *)
(***************************************************************************)
EXTENDS ModuleLoader, FiniteSetTheorems, TLAPS

Frame ==
  [how : {"file", "string", "import", "include"}, path : Path, id : Nat,
   next : Nat, finalizing : BOOLEAN]

(* A record of these fields; the last four may hold anything.              *)
IsObject(r) ==
  r \in [path : Path, ready : BOOLEAN, nodes : {r.nodes}, defines : {r.defines},
         augments : {r.augments}, imports : {r.imports}]

Heap(m) ==
  /\ m \in Seq(Elements(m))
  /\ \A i \in DOMAIN m : IsObject(m[i])

(* The parses of t are of distinct unfinished objects of the heap m.       *)
StackOK(t, m) ==
  /\ t \in Seq(Frame)
  /\ \A k \in DOMAIN t :
       /\ t[k].id \in DOMAIN m /\ t[k].path = m[t[k].id].path
       /\ t[k].how \in IF k = 1 THEN {"file", "string"} ELSE {"import", "include"}
       /\ ~m[t[k].id].ready
  /\ \A j, k \in DOMAIN t : t[j].id = t[k].id => j = k

(* A file whose import is in progress is pending, once, and not cached.    *)
ImportsOK(t, c, pend) ==
  /\ pend = {t[i].path : i \in {j \in 1 .. Len(t) : t[j].how = "import"}}
  /\ \A k \in DOMAIN t : t[k].how = "import" => c[t[k].path] = 0
  /\ \A j, k \in DOMAIN t :
       t[j].how = "import" /\ t[k].how = "import" /\ t[j].path = t[k].path => j = k

(* The cache c leads to finished objects of the heap m.                    *)
CacheOK(c, m) ==
  /\ c \in [Path -> 0 .. Len(m)]
  /\ \A p \in Path : c[p] # 0 =>
       m[c[p]].path = p /\ m[c[p]].ready /\ m[c[p]].augments = <<>>

(* No set of objects has an import of each that leads into the set.        *)
Acyclic(m) ==
  \A S \in SUBSET {i \in DOMAIN m : m[i].imports # {}} : S # {} =>
    \E i \in S : \A b \in m[i].imports : b[2] \notin S

(* Imports lead to cached objects, and form no cycle.                      *)
SharedOK(c, m) ==
  /\ \A i \in DOMAIN m : \A b \in m[i].imports :
       b[2] \in DOMAIN m /\ m[b[2]].ready /\ c[m[b[2]].path] = b[2]
  /\ Acyclic(m)

(* The variables that are not about parses.                                *)
CallsOK ==
  /\ disk \in Disks
  /\ registered \in [Name -> 0 .. Len(modules)]
  /\ status \in {"idle", "running", "ok", "error"}
  /\ status = "running" <=> stack # <<>>
  /\ result \in 0 .. Len(modules) /\ (result # 0 <=> status = "ok")
  /\ first \in [Path -> {"none", "ok", "error"}]

IInv ==
  /\ CallsOK
  /\ Heap(modules)
  /\ StackOK(stack, modules)
  /\ ImportsOK(stack, cache, pending)
  /\ CacheOK(cache, modules)
  /\ SharedOK(cache, modules)

-----------------------------------------------------------------------------
(* The heap.                                                               *)

LEMMA HeapDomain ==
  ASSUME NEW m, Heap(m)
  PROVE  Len(m) \in Nat /\ DOMAIN m = 1 .. Len(m)
  BY DEF Heap

LEMMA SameLength ==
  ASSUME NEW m, Heap(m), NEW n, Heap(n), DOMAIN n = DOMAIN m
  PROVE  Len(n) = Len(m)
<1>1. \A a, b \in Nat : 1 .. a = 1 .. b => a = b
  <2>1. SUFFICES ASSUME NEW a \in Nat, NEW b \in Nat, 1 .. a = 1 .. b
                 PROVE  a = b
    OBVIOUS
  <2>2. (a \in 1 .. a <=> a >= 1) /\ (b \in 1 .. b <=> b >= 1)
    OBVIOUS
  <2>3. (a \in 1 .. b => a <= b) /\ (b \in 1 .. a => b <= a)
    OBVIOUS
  <2> QED
    BY <2>1, <2>2, <2>3
<1> QED
  BY <1>1, HeapDomain

(* A sequence is one over its own elements.                                *)
LEMMA SeqOfElements ==
  ASSUME NEW S, NEW s \in Seq(S)
  PROVE  s \in Seq(Elements(s))
  BY DEF Elements

LEMMA ObjectFields ==
  ASSUME NEW o, IsObject(o)
  PROVE  o.path \in Path /\ o.ready \in BOOLEAN
  BY DEF IsObject

(* An object that becomes ready.                                           *)
LEMMA SetReady ==
  ASSUME NEW o, IsObject(o), NEW r, r = [o EXCEPT !.ready = TRUE]
  PROVE  /\ IsObject(r) /\ r.path = o.path /\ r.ready
         /\ r.augments = o.augments /\ r.imports = o.imports
  BY DEF IsObject

(* Replacing an object by another of the same file.                        *)
LEMMA HeapEdit ==
  ASSUME NEW m, Heap(m), NEW i \in DOMAIN m, NEW r, IsObject(r), NEW n, n = [m EXCEPT ![i] = r]
  PROVE  /\ Heap(n) /\ DOMAIN n = DOMAIN m /\ Len(n) = Len(m)
         /\ n[i] = r /\ \A j \in DOMAIN m : j # i => n[j] = m[j]
<1> DEFINE S == Elements(m) \cup {r}
<1>1. m \in Seq(S) /\ DOMAIN m = 1 .. Len(m) /\ Len(m) \in Nat
  BY DEF Heap, Elements
<1>2. n \in Seq(S) /\ Len(n) = Len(m) /\ DOMAIN n = DOMAIN m
  BY <1>1
<1>3. n[i] = r /\ \A j \in DOMAIN m : j # i => n[j] = m[j]
  OBVIOUS
<1>4. n \in Seq(Elements(n))
  BY <1>2, SeqOfElements
<1>5. \A j \in DOMAIN n : IsObject(n[j])
  BY <1>2, <1>3 DEF Heap
<1> QED
  BY <1>2, <1>3, <1>4, <1>5 DEF Heap

(* A new object.                                                           *)
LEMMA HeapAppend ==
  ASSUME NEW m, Heap(m), NEW p \in Path
  PROVE  LET n == Append(m, NewModule(p))
         IN  /\ Heap(n)
             /\ Len(n) = Len(m) + 1
             /\ n[Len(m) + 1] = NewModule(p)
             /\ \A i \in DOMAIN m : n[i] = m[i]
<1> DEFINE r == NewModule(p)
           n == Append(m, r)
           S == Elements(m) \cup {r}
<1>1. m \in Seq(S) /\ DOMAIN m = 1 .. Len(m) /\ Len(m) \in Nat
  BY DEF Heap, Elements
<1>2. n \in Seq(S) /\ Len(n) = Len(m) + 1 /\ DOMAIN n = 1 .. Len(m) + 1
  BY <1>1
<1>3. n[Len(m) + 1] = r /\ \A i \in DOMAIN m : n[i] = m[i]
  BY <1>1
<1>4. n \in Seq(Elements(n))
  BY <1>2, SeqOfElements
<1>5. IsObject(r)
  BY DEF IsObject, NewModule
<1>6. \A i \in DOMAIN n : IsObject(n[i])
  BY <1>1, <1>2, <1>3, <1>5 DEF Heap
<1> HIDE DEF n, r
<1> QED
  BY <1>2, <1>3, <1>4, <1>6 DEF Heap, n, r
-----------------------------------------------------------------------------
(* The stack.                                                              *)

(* t has the first n parses of s, perhaps further on.                      *)
SameParses(t, s, n) ==
  /\ t \in Seq(Frame) /\ Len(t) = n
  /\ \A k \in 1 .. n : t[k].how = s[k].how /\ t[k].path = s[k].path /\ t[k].id = s[k].id

(* Replacing the last element.                                             *)
LEMMA ReplaceLast ==
  ASSUME NEW S, NEW s \in Seq(S), NEW n \in Nat \ {0}, Len(s) = n, NEW x \in S
  PROVE  /\ [s EXCEPT ![n] = x] \in Seq(S) /\ Len([s EXCEPT ![n] = x]) = n
         /\ \A k \in 1 .. n : [s EXCEPT ![n] = x][k] = IF k = n THEN x ELSE s[k]
<1>1. DOMAIN s = 1 .. n
  OBVIOUS
<1> QED
  BY <1>1

(* Dropping the last element.                                              *)
LEMMA DropLast ==
  ASSUME NEW S, NEW s \in Seq(S), NEW n \in Nat, Len(s) = n + 1
  PROVE  /\ SubSeq(s, 1, n) \in Seq(S) /\ Len(SubSeq(s, 1, n)) = n
         /\ \A k \in 1 .. n : SubSeq(s, 1, n)[k] = s[k]
  OBVIOUS

(* A parse that moves on, or starts to finalize, is the same parse.        *)
LEMMA FrameMoves ==
  ASSUME NEW x \in Frame
  PROVE  /\ [x EXCEPT !.next = @ + 1] \in Frame
         /\ [x EXCEPT !.next = @ + 1].how = x.how
         /\ [x EXCEPT !.next = @ + 1].path = x.path
         /\ [x EXCEPT !.next = @ + 1].id = x.id
         /\ [x EXCEPT !.finalizing = TRUE] \in Frame
         /\ [x EXCEPT !.finalizing = TRUE].how = x.how
         /\ [x EXCEPT !.finalizing = TRUE].path = x.path
         /\ [x EXCEPT !.finalizing = TRUE].id = x.id
<1>1. ASSUME NEW p \in Nat
      PROVE  /\ [x EXCEPT !.next = p] \in Frame /\ [x EXCEPT !.next = p].how = x.how
             /\ [x EXCEPT !.next = p].path = x.path /\ [x EXCEPT !.next = p].id = x.id
  BY DEF Frame
<1>2. /\ [x EXCEPT !.finalizing = TRUE] \in Frame /\ [x EXCEPT !.finalizing = TRUE].how = x.how
      /\ [x EXCEPT !.finalizing = TRUE].path = x.path /\ [x EXCEPT !.finalizing = TRUE].id = x.id
  BY DEF Frame
<1>3. x.next + 1 \in Nat
  BY DEF Frame
<1> QED
  BY <1>1, <1>2, <1>3

(* The innermost parse moves on.                                           *)
LEMMA Moved ==
  ASSUME NEW s \in Seq(Frame), s # <<>>
  PROVE  /\ SameParses([s EXCEPT ![Len(s)].next = @ + 1], s, Len(s))
         /\ SameParses([s EXCEPT ![Len(s)].finalizing = TRUE], s, Len(s))
<1> DEFINE n == Len(s)
           f == [s[n] EXCEPT !.next = @ + 1]
           g == [s[n] EXCEPT !.finalizing = TRUE]
<1>1. n \in Nat \ {0} /\ DOMAIN s = 1 .. n /\ s[n] \in Frame
  OBVIOUS
<1>2. f \in Frame /\ f.how = s[n].how /\ f.path = s[n].path /\ f.id = s[n].id
  BY <1>1, FrameMoves
<1>3. g \in Frame /\ g.how = s[n].how /\ g.path = s[n].path /\ g.id = s[n].id
  BY <1>1, FrameMoves
<1>4. ASSUME NEW h \in Frame, h.how = s[n].how, h.path = s[n].path, h.id = s[n].id
      PROVE  SameParses([s EXCEPT ![n] = h], s, n)
  BY <1>1, <1>4, ReplaceLast DEF SameParses
<1> HIDE DEF f, g
<1>5. SameParses([s EXCEPT ![n] = f], s, n) /\ SameParses([s EXCEPT ![n] = g], s, n)
  BY <1>2, <1>3, <1>4
<1> QED
  BY <1>5 DEF f, g

(* An importer moves on when its import returns.                           *)
LEMMA Popped ==
  ASSUME NEW s \in Seq(Frame), Len(s) >= 2
  PROVE  SameParses([SubSeq(s, 1, Len(s) - 1) EXCEPT ![Len(s) - 1].next = @ + 1], s, Len(s) - 1)
<1>1. PICK u : u = SubSeq(s, 1, Len(s) - 1)
  OBVIOUS
<1>2. Len(s) \in Nat /\ Len(s) - 1 \in Nat \ {0}
  <2>1. \A n \in Nat : n >= 2 => n - 1 \in Nat \ {0}
    OBVIOUS
  <2>2. Len(s) \in Nat
    OBVIOUS
  <2> QED
    BY <2>1, <2>2
<1>3. u \in Seq(Frame) /\ Len(u) = Len(s) - 1 /\ \A k \in 1 .. Len(s) - 1 : u[k] = s[k]
  BY <1>1, <1>2, DropLast
<1>4. u # <<>>
  BY <1>2, <1>3
<1>5. SameParses([u EXCEPT ![Len(u)].next = @ + 1], u, Len(u))
  BY <1>3, <1>4, Moved
<1>6. SameParses([u EXCEPT ![Len(s) - 1].next = @ + 1], u, Len(s) - 1)
  BY <1>3, <1>5
<1>7. SameParses([u EXCEPT ![Len(s) - 1].next = @ + 1], s, Len(s) - 1)
  BY <1>3, <1>6 DEF SameParses
<1> QED
  BY <1>1, <1>7

(* The objects of the first n parses are still unfinished, and of the same *)
(* files, in the heap m2.                                                  *)
Unfinished(s, n, m, m2) ==
  \A k \in 1 .. n : /\ s[k].id \in DOMAIN m2
                    /\ m2[s[k].id].path = m[s[k].id].path
                    /\ ~m2[s[k].id].ready

(* The first n parses of a good stack are one, as long as their objects    *)
(* stay unfinished.                                                        *)
LEMMA StackKept ==
  ASSUME NEW s, NEW m, StackOK(s, m), NEW n \in 0 .. Len(s), NEW t, SameParses(t, s, n), NEW m2,
         Unfinished(s, n, m, m2)
  PROVE  StackOK(t, m2)
<1>1. Len(s) \in Nat /\ DOMAIN s = 1 .. Len(s) /\ DOMAIN t = 1 .. n /\ 1 .. n \subseteq 1 .. Len(s)
  BY DEF StackOK, SameParses
<1> QED
  BY <1>1 DEF StackOK, SameParses, Unfinished

(* A new parse, of a new object.                                           *)
LEMMA StackPushed ==
  ASSUME NEW s, NEW m, Heap(m), StackOK(s, m), NEW p \in Path, NEW how,
         how \in IF s = <<>> THEN {"file", "string"} ELSE {"import", "include"}
  PROVE  StackOK(Append(s, Activation(how, p, Len(m) + 1)), Append(m, NewModule(p)))
<1> DEFINE f == Activation(how, p, Len(m) + 1)
           t == Append(s, f)
           m2 == Append(m, NewModule(p))
<1>1. Len(m) \in Nat /\ DOMAIN m = 1 .. Len(m)
  BY HeapDomain
<1>2. /\ Len(m2) = Len(m) + 1 /\ DOMAIN m2 = 1 .. Len(m) + 1
      /\ m2[Len(m) + 1] = NewModule(p) /\ \A i \in DOMAIN m : m2[i] = m[i]
  BY HeapAppend, HeapDomain
<1>3. f \in Frame /\ f.how = how /\ f.path = p /\ f.id = Len(m) + 1
  BY <1>1 DEF Activation, Frame
<1>4. NewModule(p).path = p /\ ~NewModule(p).ready
  BY DEF NewModule
<1> HIDE DEF f, m2
<1>5. /\ s \in Seq(Frame) /\ Len(s) \in Nat /\ DOMAIN s = 1 .. Len(s)
      /\ t \in Seq(Frame) /\ Len(t) = Len(s) + 1 /\ DOMAIN t = 1 .. Len(s) + 1
      /\ t[Len(s) + 1] = f /\ \A k \in DOMAIN s : t[k] = s[k]
  BY <1>3 DEF StackOK
<1>6. \A k \in DOMAIN t : k \in DOMAIN s \/ k = Len(s) + 1
  BY <1>5
<1>7. f.how \in IF Len(s) + 1 = 1 THEN {"file", "string"} ELSE {"import", "include"}
  BY <1>3, <1>5
<1>8. \A k \in DOMAIN s : /\ s[k].id \in DOMAIN m /\ s[k].id # Len(m) + 1
                          /\ m2[s[k].id] = m[s[k].id] /\ s[k].id \in DOMAIN m2
  BY <1>1, <1>2 DEF StackOK
<1>9. Len(m) + 1 \in DOMAIN m2
  BY <1>1, <1>2
<1>10. StackOK(t, m2)
  <2>1. ASSUME NEW k \in DOMAIN t
        PROVE  /\ t[k].id \in DOMAIN m2 /\ t[k].path = m2[t[k].id].path
               /\ t[k].how \in IF k = 1 THEN {"file", "string"} ELSE {"import", "include"}
               /\ ~m2[t[k].id].ready
    <3>1. CASE k \in DOMAIN s
      BY <3>1, <1>5, <1>8 DEF StackOK
    <3>2. CASE k = Len(s) + 1
      BY <3>2, <1>2, <1>3, <1>4, <1>5, <1>7, <1>9
    <3> QED
      BY <3>1, <3>2, <1>6
  <2>2. ASSUME NEW j \in DOMAIN t, NEW k \in DOMAIN t, t[j].id = t[k].id
        PROVE  j = k
    BY <2>2, <1>3, <1>5, <1>6, <1>8 DEF StackOK
  <2> QED
    BY <2>1, <2>2, <1>5 DEF StackOK
<1> QED
  BY <1>10 DEF f, m2
-----------------------------------------------------------------------------
(* Imports in progress, the cache and the bindings.                        *)

(* Fewer parses, with as many fewer pending.                               *)
LEMMA ImportsKept ==
  ASSUME NEW s \in Seq(Frame), NEW c, NEW pend, ImportsOK(s, c, pend), NEW n \in 0 .. Len(s),
         NEW t, SameParses(t, s, n)
  PROVE  ImportsOK(t, c, {t[i].path : i \in {j \in 1 .. Len(t) : t[j].how = "import"}})
<1>1. Len(s) \in Nat /\ DOMAIN s = 1 .. Len(s) /\ DOMAIN t = 1 .. n /\ 1 .. n \subseteq 1 .. Len(s)
  BY DEF SameParses
<1> QED
  BY <1>1 DEF ImportsOK, SameParses

(* The heap m has become m2: what was finished keeps its file, imports and *)
(* lack of augments, what is finished now has the imports it had, and new  *)
(* imports lead to the cache.                                              *)
Grown(m, m2, c) ==
  /\ Heap(m2)
  /\ DOMAIN m \subseteq DOMAIN m2
  /\ \A i \in DOMAIN m : m[i].ready =>
       m2[i].ready /\ m2[i].path = m[i].path /\ m2[i].augments = m[i].augments
  /\ \A i \in DOMAIN m2 : m2[i].ready => i \in DOMAIN m /\ m2[i].imports = m[i].imports
  /\ \A i \in DOMAIN m2 : \A b \in m2[i].imports :
       \/ \E j \in DOMAIN m : b \in m[j].imports
       \/ b[2] \in DOMAIN m2 /\ m2[b[2]].ready /\ c[m2[b[2]].path] = b[2]

(* A cycle of m2 would have a finished object, since imports lead to such; *)
(* the next on the cycle was finished in m, and so were all that follow.   *)
LEMMA AcyclicKept ==
  ASSUME NEW m, NEW m2, NEW c, Grown(m, m2, c), SharedOK(c, m),
         \A i \in DOMAIN m2 : \A b \in m2[i].imports : b[2] \in DOMAIN m2 /\ m2[b[2]].ready
  PROVE  Acyclic(m2)
<1> SUFFICES ASSUME NEW S \in SUBSET {i \in DOMAIN m2 : m2[i].imports # {}}, S # {},
                    \A i \in S : \E b \in m2[i].imports : b[2] \in S
             PROVE  FALSE
  BY DEF Acyclic
<1> DEFINE R == {i \in S : i \in DOMAIN m /\ m[i].ready}
<1>1. \A i \in S : m2[i].ready => \E j \in R : TRUE
  <2>1. SUFFICES ASSUME NEW i \in S, m2[i].ready
                 PROVE  \E j \in R : TRUE
    OBVIOUS
  <2>2. PICK b \in m2[i].imports : b[2] \in S
    OBVIOUS
  <2>3. i \in DOMAIN m /\ b \in m[i].imports
    BY <2>1, <2>2 DEF Grown
  <2>4. b[2] \in R
    BY <2>2, <2>3 DEF SharedOK
  <2> QED
    BY <2>4
<1>2. R # {}
  <2>1. PICK i \in S : TRUE
    OBVIOUS
  <2>2. PICK b \in m2[i].imports : b[2] \in S
    OBVIOUS
  <2>3. m2[b[2]].ready
    BY <2>2
  <2> QED
    BY <1>1, <2>2, <2>3
<1>3. \A i \in R : i \in DOMAIN m /\ \E b \in m[i].imports : b[2] \in R
  <2>1. SUFFICES ASSUME NEW i \in R
                 PROVE  i \in DOMAIN m /\ \E b \in m[i].imports : b[2] \in R
    OBVIOUS
  <2>2. PICK b \in m2[i].imports : b[2] \in S
    OBVIOUS
  <2>3. i \in DOMAIN m /\ b \in m[i].imports
    BY <2>2 DEF Grown
  <2>4. b[2] \in R
    BY <2>2, <2>3 DEF SharedOK
  <2> QED
    BY <2>3, <2>4
<1> HIDE DEF R
<1>4. R \in SUBSET {i \in DOMAIN m : m[i].imports # {}}
  BY <1>3
<1> QED
  BY <1>2, <1>3, <1>4 DEF SharedOK, Acyclic

LEMMA CacheKept ==
  ASSUME NEW m, Heap(m), NEW m2, NEW c, Grown(m, m2, c), CacheOK(c, m), SharedOK(c, m)
  PROVE  CacheOK(c, m2) /\ SharedOK(c, m2)
<1>1. /\ Len(m) \in Nat /\ DOMAIN m = 1 .. Len(m)
      /\ Len(m2) \in Nat /\ DOMAIN m2 = 1 .. Len(m2)
  BY HeapDomain DEF Grown
<1>2. Len(m) <= Len(m2)
  BY <1>1 DEF Grown
<1>3. c \in [Path -> 0 .. Len(m2)]
  BY <1>1, <1>2 DEF CacheOK
<1>4. ASSUME NEW p \in Path, c[p] # 0
      PROVE  m2[c[p]].path = p /\ m2[c[p]].ready /\ m2[c[p]].augments = <<>>
  <2>1. c[p] \in DOMAIN m
    BY <1>1, <1>4 DEF CacheOK
  <2> QED
    BY <1>4, <2>1 DEF CacheOK, Grown
<1>5. SharedOK(c, m2)
  <2>1. \A i \in DOMAIN m2 : \A b \in m2[i].imports :
          b[2] \in DOMAIN m2 /\ m2[b[2]].ready /\ c[m2[b[2]].path] = b[2]
    BY DEF SharedOK, Grown
  <2>2. Acyclic(m2)
    BY <2>1, AcyclicKept
  <2> QED
    BY <2>1, <2>2 DEF SharedOK
<1> QED
  BY <1>3, <1>4, <1>5 DEF CacheOK

(* One object of the heap is replaced, which was not finished.             *)
LEMMA GrownByEdit ==
  ASSUME NEW m, Heap(m), NEW i \in DOMAIN m, NEW r, IsObject(r), NEW c,
         NEW n, n = [m EXCEPT ![i] = r], ~m[i].ready,
         r.ready => r.imports = m[i].imports,
         \A b \in r.imports :
           \/ \E j \in DOMAIN m : b \in m[j].imports
           \/ b[2] \in DOMAIN m /\ m[b[2]].ready /\ c[m[b[2]].path] = b[2]
  PROVE  Grown(m, n, c)
<1>2. /\ Heap(n) /\ DOMAIN n = DOMAIN m /\ n[i] = r
      /\ \A j \in DOMAIN m : j # i => n[j] = m[j]
  BY HeapEdit
<1>3. \A j \in DOMAIN m : m[j].ready => n[j] = m[j]
  BY <1>2
<1>4. Grown(m, n, c)
  <2>1. ASSUME NEW j \in DOMAIN n, NEW b \in n[j].imports
        PROVE  \/ \E k \in DOMAIN m : b \in m[k].imports
               \/ b[2] \in DOMAIN n /\ n[b[2]].ready /\ c[n[b[2]].path] = b[2]
    BY <1>2, <1>3
  <2> QED
    BY <1>2, <1>3, <2>1 DEF Grown
<1> QED
  BY <1>4

(* Nodes are added to an object, finished or not.                          *)
LEMMA GrownByNode ==
  ASSUME NEW m, Heap(m), NEW i \in DOMAIN m, NEW r, IsObject(r), NEW c,
         NEW n, n = [m EXCEPT ![i] = r],
         r.path = m[i].path, r.ready = m[i].ready,
         r.augments = m[i].augments, r.imports = m[i].imports
  PROVE  Grown(m, n, c)
<1>2. /\ Heap(n) /\ DOMAIN n = DOMAIN m /\ n[i] = r
      /\ \A j \in DOMAIN m : j # i => n[j] = m[j]
  BY HeapEdit
<1>3. Grown(m, n, c)
  BY <1>2 DEF Grown
<1> QED
  BY <1>3

(* A new object is added.                                                  *)
LEMMA GrownByNew ==
  ASSUME NEW m, Heap(m), NEW p \in Path, NEW c
  PROVE  Grown(m, Append(m, NewModule(p)), c)
<1>1. PICK n : n = Append(m, NewModule(p))
  OBVIOUS
<1>2. /\ Len(m) \in Nat /\ DOMAIN m = 1 .. Len(m)
      /\ Heap(n) /\ DOMAIN n = 1 .. Len(m) + 1
      /\ n[Len(m) + 1] = NewModule(p) /\ \A i \in DOMAIN m : n[i] = m[i]
  BY <1>1, HeapAppend, HeapDomain
<1>3. NewModule(p).imports = {} /\ ~NewModule(p).ready
  BY DEF NewModule
<1>4. \A i \in DOMAIN n : i \in DOMAIN m \/ i = Len(m) + 1
  BY <1>2
<1>5. DOMAIN m \subseteq DOMAIN n
  BY <1>2
<1>6. Grown(m, n, c)
  BY <1>2, <1>3, <1>4, <1>5 DEF Grown
<1> QED
  BY <1>1, <1>6
-----------------------------------------------------------------------------
(* The steps.                                                              *)

(* What IInv says of the sizes and of the innermost parse.                 *)
LEMMA TopFacts ==
  ASSUME IInv
  PROVE  /\ Len(modules) \in Nat /\ DOMAIN modules = 1 .. Len(modules)
         /\ Depth \in Nat /\ DOMAIN stack = 1 .. Depth /\ stack \in Seq(Frame)
         /\ stack # <<>> =>
              /\ Depth \in DOMAIN stack /\ 1 \in DOMAIN stack
              /\ Top.id \in DOMAIN modules /\ ~modules[Top.id].ready
              /\ IsObject(modules[Top.id])
              /\ Top.path \in Path /\ Top.path = modules[Top.id].path
              /\ stack[1].path \in Path /\ status = "running"
<1>1. Len(modules) \in Nat /\ DOMAIN modules = 1 .. Len(modules)
  BY HeapDomain DEF IInv
<1>2. Depth \in Nat /\ DOMAIN stack = 1 .. Depth /\ stack \in Seq(Frame)
  BY DEF IInv, StackOK, Depth
<1>3. ASSUME stack # <<>>
      PROVE  /\ Depth \in DOMAIN stack /\ 1 \in DOMAIN stack
             /\ Top.id \in DOMAIN modules /\ ~modules[Top.id].ready
             /\ IsObject(modules[Top.id])
             /\ Top.path \in Path /\ Top.path = modules[Top.id].path
             /\ stack[1].path \in Path /\ status = "running"
  <2>1. Depth \in DOMAIN stack /\ 1 \in DOMAIN stack
    BY <1>2, <1>3 DEF Depth
  <2>2. /\ Top.id \in DOMAIN modules /\ ~modules[Top.id].ready
        /\ Top.path = modules[Top.id].path
    BY <2>1 DEF IInv, StackOK, Top
  <2>3. IsObject(modules[Top.id]) /\ Top.path \in Path
    BY <2>2, ObjectFields DEF IInv, Heap
  <2>4. stack[1].path \in Path
    <3>1. stack[1] \in Frame
      BY <1>2, <2>1
    <3> QED
      BY <3>1 DEF Frame
  <2> QED
    BY <1>3, <2>1, <2>2, <2>3, <2>4 DEF IInv, CallsOK
<1> QED
  BY <1>1, <1>2, <1>3

(* An exception.                                                           *)
LEMMA AbortStep ==
  ASSUME IInv, stack # <<>>, Abort
  PROVE  IInv'
<1>1. UNCHANGED <<disk, modules, cache, registered>> /\ stack' = <<>>
      /\ status' = "error" /\ result' = 0 /\ pending' = pending \ Importing /\ Verdict("error")
  BY DEF Abort
<1>2. CallsOK'
  <2>1. first' \in [Path -> {"none", "ok", "error"}]
    BY <1>1, TopFacts DEF IInv, CallsOK, Verdict
  <2> QED
    BY <1>1, <2>1, TopFacts DEF IInv, CallsOK
<1>3. StackOK(<<>>, modules)
  BY DEF StackOK
<1>4. ImportsOK(<<>>, cache, {})
  BY DEF ImportsOK
<1>5. pending \ Importing = {}
  BY DEF IInv, ImportsOK, Importing, Depth
<1> QED
  BY <1>1, <1>2, <1>3, <1>4, <1>5 DEF IInv

(* A step within the innermost parse: it may move on, and what it does to  *)
(* the heap leaves unfinished what is being parsed.                        *)
LEMMA InnerStep ==
  ASSUME IInv, stack # <<>>, SameParses(stack', stack, Depth),
         UNCHANGED <<disk, cache, pending, status, result, registered, first>>,
         Grown(modules, modules', cache), Len(modules') = Len(modules),
         \A i \in DOMAIN modules :
           modules'[i].path = modules[i].path /\ modules'[i].ready = modules[i].ready
  PROVE  IInv'
<1>1. CallsOK'
  <2>1. stack' # <<>>
    BY TopFacts DEF SameParses
  <2> QED
    BY <2>1, TopFacts DEF IInv, CallsOK
<1>2. DOMAIN modules' = DOMAIN modules
  BY TopFacts, HeapDomain DEF Grown
<1>3. /\ Depth = Len(stack) /\ Depth \in Nat /\ DOMAIN stack = 1 .. Depth
      /\ Depth \in 0 .. Len(stack) /\ stack \in Seq(Frame)
  BY TopFacts DEF Depth
<1>4. StackOK(stack', modules')
  <2>1. Unfinished(stack, Depth, modules, modules')
    BY <1>2, <1>3 DEF IInv, StackOK, Unfinished
  <2>2. StackOK(stack, modules) /\ SameParses(stack', stack, Depth)
    BY DEF IInv
  <2> QED
    BY <1>3, <2>1, <2>2, StackKept
<1>5. ImportsOK(stack', cache, pending)
  <2> DEFINE P(t) == {t[i].path : i \in {j \in 1 .. Len(t) : t[j].how = "import"}}
  <2>1. ImportsOK(stack', cache, P(stack'))
    BY <1>3, ImportsKept DEF IInv
  <2>2. P(stack') = P(stack)
    <3>1. \A k \in 1 .. Depth : stack'[k].how = stack[k].how /\ stack'[k].path = stack[k].path
      BY DEF SameParses
    <3>2. Len(stack') = Depth
      BY DEF SameParses
    <3> QED
      BY <1>3, <3>1, <3>2
  <2>3. pending = P(stack)
    BY DEF IInv, ImportsOK
  <2> QED
    BY <2>1, <2>2, <2>3
<1>6. CacheOK(cache, modules') /\ SharedOK(cache, modules')
  BY CacheKept DEF IInv
<1> QED
  BY <1>1, <1>4, <1>5, <1>6 DEF IInv, Grown

(* Such a step that edits the object being parsed.                         *)
LEMMA BindStep ==
  ASSUME IInv, stack # <<>>, SameParses(stack', stack, Depth),
         UNCHANGED <<disk, cache, pending, status, result, registered, first>>,
         NEW r, IsObject(r), modules' = [modules EXCEPT ![Top.id] = r],
         r.path = modules[Top.id].path, r.ready = modules[Top.id].ready,
         \A b \in r.imports :
           \/ \E j \in DOMAIN modules : b \in modules[j].imports
           \/ b[2] \in DOMAIN modules /\ modules[b[2]].ready /\ cache[modules[b[2]].path] = b[2]
  PROVE  IInv'
<1>1. Top.id \in DOMAIN modules /\ ~modules[Top.id].ready /\ Heap(modules)
  BY TopFacts DEF IInv
<1>2. Grown(modules, modules', cache)
  BY <1>1, GrownByEdit
<1>3. DOMAIN modules' = DOMAIN modules
      /\ \A i \in DOMAIN modules : modules'[i] = IF i = Top.id THEN r ELSE modules[i]
  BY <1>1
<1>4. Len(modules') = Len(modules)
  BY <1>1, <1>2, <1>3, SameLength DEF Grown
<1> QED
  BY <1>2, <1>3, <1>4, InnerStep

(* And adds no import to it.                                               *)
LEMMA EditStep ==
  ASSUME IInv, stack # <<>>, SameParses(stack', stack, Depth),
         UNCHANGED <<disk, cache, pending, status, result, registered, first>>,
         NEW r, IsObject(r), modules' = [modules EXCEPT ![Top.id] = r],
         r.path = modules[Top.id].path, r.ready = modules[Top.id].ready,
         r.imports = modules[Top.id].imports
  PROVE  IInv'
<1>1. Top.id \in DOMAIN modules
  BY TopFacts
<1> QED
  BY <1>1, BindStep

(* The statement at hand, and the file it names.                           *)
LEMMA TargetPath ==
  ASSUME IInv, At("import") \/ At("include"), Target # NoPath
  PROVE  Target \in Path
<1>1. stack # <<>> /\ Top.next \in DOMAIN Body
  BY DEF At, Reading
<1>2. Top.path \in Path
  BY <1>1, TopFacts
<1>3. disk \in [Path -> File]
  BY DiskAssumption DEF IInv, CallsOK
<1>4. disk[Top.path] \in File
  BY <1>2, <1>3
<1>5. Body \in Seq(Statement)
  BY <1>4 DEF Body, File
<1>6. Current \in Statement
  <2>1. \A q \in Seq(Statement) : \A i \in DOMAIN q : q[i] \in Statement
    OBVIOUS
  <2> QED
    BY <1>1, <1>5, <2>1 DEF Current
<1>7. Current.name \in Name
  BY <1>6 DEF Statement
<1>8. Target \in Path \cup {NoPath}
  BY <1>7, DiskAssumption DEF Target
<1> QED
  BY <1>8

LEMMA SameStack ==
  ASSUME IInv, stack # <<>>, stack' = stack \/ stack' = Advanced
  PROVE  SameParses(stack', stack, Depth)
<1>1. Depth = Len(stack) /\ stack \in Seq(Frame)
  BY TopFacts DEF Depth
<1>2. SameParses(stack, stack, Len(stack))
  BY <1>1 DEF SameParses
<1>3. SameParses(Advanced, stack, Len(stack))
  BY <1>1, Moved DEF Advanced, Depth
<1> QED
  BY <1>1, <1>2, <1>3

(* A new parse, of a call or of an import or include.                      *)
LEMMA PushStep ==
  ASSUME IInv, NEW how, NEW p \in Path,
         how \in IF stack = <<>> THEN {"file", "string"} ELSE {"import", "include"},
         how = "import" => p \notin pending /\ cache[p] = 0,
         modules' = Append(modules, NewModule(p)),
         stack' = Append(stack, Activation(how, p, Fresh)),
         pending' = IF how = "import" THEN pending \cup {p} ELSE pending,
         status' = "running", result' = 0, UNCHANGED <<disk, cache, registered, first>>
  PROVE  IInv'
<1> DEFINE f == Activation(how, p, Fresh)
<1>1. /\ Len(stack) \in Nat /\ stack \in Seq(Frame)
      /\ Len(modules) \in Nat /\ DOMAIN modules = 1 .. Len(modules)
      /\ Fresh = Len(modules) + 1
  BY TopFacts DEF Depth, Fresh
<1>2. f \in Frame /\ f.how = how /\ f.path = p
  BY <1>1 DEF Activation, Frame
<1> HIDE DEF f
<1>3. /\ Len(stack') = Len(stack) + 1 /\ DOMAIN stack' = 1 .. Len(stack) + 1
      /\ DOMAIN stack = 1 .. Len(stack)
      /\ stack'[Len(stack) + 1] = f /\ \A k \in DOMAIN stack : stack'[k] = stack[k]
  <2>1. stack' = Append(stack, f)
    BY DEF f
  <2> QED
    BY <1>1, <1>2, <2>1
<1>4. Grown(modules, modules', cache) /\ Len(modules') = Len(modules) + 1
  BY GrownByNew, HeapAppend DEF IInv
<1>5. CallsOK'
  <2>1. stack' # <<>>
    BY <1>1, <1>3
  <2>2. 0 .. Len(modules) \subseteq 0 .. Len(modules') /\ 0 \in 0 .. Len(modules')
    BY <1>1, <1>4
  <2>3. registered' \in [Name -> 0 .. Len(modules')]
    BY <2>2 DEF IInv, CallsOK
  <2> QED
    BY <2>1, <2>2, <2>3 DEF IInv, CallsOK
<1>6. StackOK(stack', modules')
  BY <1>1, StackPushed DEF IInv
<1>7. ImportsOK(stack', cache, pending')
  <2>1. \A k \in DOMAIN stack' : k \in DOMAIN stack \/ k = Len(stack) + 1
    BY <1>1, <1>3
  <2>2. pending' = {stack'[i].path : i \in {j \in 1 .. Len(stack') : stack'[j].how = "import"}}
    BY <1>1, <1>2, <1>3, <2>1 DEF IInv, ImportsOK
  <2>3. \A k \in DOMAIN stack' : stack'[k].how = "import" => cache[stack'[k].path] = 0
    BY <1>2, <1>3, <2>1 DEF IInv, ImportsOK
  <2>4. how = "import" =>
          \A k \in DOMAIN stack : stack[k].how = "import" => stack[k].path # p
    BY <1>3 DEF IInv, ImportsOK
  <2>5. \A j, k \in DOMAIN stack' :
          stack'[j].how = "import" /\ stack'[k].how = "import" /\ stack'[j].path = stack'[k].path
          => j = k
    BY <1>2, <1>3, <2>1, <2>4 DEF IInv, ImportsOK
  <2> QED
    BY <2>2, <2>3, <2>5 DEF ImportsOK
<1>8. CacheOK(cache, modules') /\ SharedOK(cache, modules')
  BY <1>4, CacheKept DEF IInv
<1> QED
  BY <1>4, <1>5, <1>6, <1>7, <1>8 DEF IInv, Grown
-----------------------------------------------------------------------------
(* The end of a parse.                                                     *)

(* The importer, and the objects of the parses below the innermost one.    *)
LEMMA CallerFacts ==
  ASSUME IInv, stack # <<>>, Top.how \in {"import", "include"}
  PROVE  /\ Depth \in Nat /\ Depth >= 2 /\ Depth = Len(stack)
         /\ Depth - 1 \in 0 .. Len(stack) /\ Depth - 1 \in DOMAIN stack
         /\ Caller.id \in DOMAIN modules /\ ~modules[Caller.id].ready
         /\ IsObject(modules[Caller.id]) /\ Caller.id # Top.id
         /\ \A k \in 1 .. Depth - 1 :
              /\ k \in DOMAIN stack /\ stack[k].id \in DOMAIN modules
              /\ ~modules[stack[k].id].ready /\ stack[k].id # Top.id
<1>1. /\ Depth \in Nat /\ Depth = Len(stack) /\ DOMAIN stack = 1 .. Depth /\ Depth \in DOMAIN stack
  BY TopFacts DEF Depth
<1>2. Depth # 1
  BY <1>1 DEF IInv, StackOK, Top
<1>3. Depth >= 2 /\ Depth - 1 \in 0 .. Len(stack) /\ Depth - 1 \in DOMAIN stack
  BY <1>1, <1>2
<1>4. \A k \in 1 .. Depth - 1 : k \in DOMAIN stack /\ k # Depth
  BY <1>1
<1>5. \A k \in 1 .. Depth - 1 : /\ stack[k].id \in DOMAIN modules
                                /\ ~modules[stack[k].id].ready /\ stack[k].id # Top.id
  BY <1>1, <1>4 DEF IInv, StackOK, Top
<1>6. Depth - 1 \in 1 .. Depth - 1
  BY <1>1, <1>3
<1>7. /\ Caller.id \in DOMAIN modules /\ ~modules[Caller.id].ready /\ Caller.id # Top.id
  BY <1>5, <1>6 DEF Caller
<1>8. IsObject(modules[Caller.id])
  BY <1>7 DEF IInv, Heap
<1> QED
  BY <1>1, <1>3, <1>4, <1>5, <1>7, <1>8

(* The innermost object becomes ready.                                     *)
LEMMA ReadyFacts ==
  ASSUME IInv, Merged
  PROVE  /\ Heap(Ready) /\ DOMAIN Ready = DOMAIN modules /\ Len(Ready) = Len(modules)
         /\ Grown(modules, Ready, cache)
         /\ Ready[Top.id].ready /\ Ready[Top.id].path = Top.path
         /\ Ready[Top.id].augments = <<>>
         /\ \A i \in DOMAIN modules : i # Top.id => Ready[i] = modules[i]
<1> DEFINE r == [modules[Top.id] EXCEPT !.ready = TRUE]
<1>1. stack # <<>> /\ modules[Top.id].augments = <<>>
  BY DEF Merged, Finalizing
<1>2. /\ Top.id \in DOMAIN modules /\ IsObject(modules[Top.id]) /\ Top.path = modules[Top.id].path
      /\ ~modules[Top.id].ready
  BY <1>1, TopFacts
<1>3. /\ IsObject(r) /\ r.ready /\ r.path = Top.path /\ r.augments = <<>>
      /\ r.imports = modules[Top.id].imports
  BY <1>1, <1>2, SetReady
<1>4. Ready = [modules EXCEPT ![Top.id] = r]
  BY DEF Ready
<1> HIDE DEF r
<1>5. Heap(modules)
  BY DEF IInv
<1>6. Grown(modules, Ready, cache)
  BY <1>2, <1>3, <1>4, <1>5, GrownByEdit
<1>7. /\ Heap(Ready) /\ DOMAIN Ready = DOMAIN modules /\ Len(Ready) = Len(modules)
      /\ Ready[Top.id] = r /\ \A i \in DOMAIN modules : i # Top.id => Ready[i] = modules[i]
  <2>1. Top.id \in DOMAIN modules /\ IsObject(r)
    BY <1>2, <1>3
  <2>2. Heap(Ready)
    BY <1>6 DEF Grown
  <2>3. /\ DOMAIN Ready = DOMAIN modules /\ Ready[Top.id] = r
        /\ \A i \in DOMAIN modules : i # Top.id => Ready[i] = modules[i]
    BY <1>4, <2>1
  <2> QED
    BY <1>5, <2>2, <2>3, SameLength
<1> QED
  BY <1>3, <1>6, <1>7

(* It enters the cache.                                                    *)
LEMMA Cached ==
  ASSUME IInv, Merged, Top.how = "import"
  PROVE  LET c == [cache EXCEPT ![Top.path] = Top.id]
         IN  CacheOK(c, Ready) /\ SharedOK(c, Ready) /\ c[Top.path] = Top.id
<1>1. stack # <<>>
  BY DEF Merged, Finalizing
<1>2. PICK c : c = [cache EXCEPT ![Top.path] = Top.id]
  OBVIOUS
<1>3. /\ Top.id \in DOMAIN modules /\ Top.path \in Path /\ Depth \in DOMAIN stack
      /\ Len(modules) \in Nat /\ DOMAIN modules = 1 .. Len(modules)
  BY <1>1, TopFacts
<1>4. cache[Top.path] = 0
  BY <1>3 DEF IInv, ImportsOK, Top
<1>5. CacheOK(cache, Ready) /\ SharedOK(cache, Ready)
  BY ReadyFacts, CacheKept DEF IInv
<1>6. Top.id \in 0 .. Len(Ready) /\ DOMAIN Ready = 1 .. Len(Ready)
  BY <1>3, ReadyFacts
<1>7. c \in [Path -> 0 .. Len(Ready)] /\ \A p \in Path : c[p] = IF p = Top.path THEN Top.id ELSE cache[p]
  BY <1>2, <1>3, <1>5, <1>6 DEF CacheOK
<1>8. CacheOK(c, Ready)
  BY <1>5, <1>7, ReadyFacts DEF CacheOK
<1>9. SharedOK(c, Ready)
  <2>1. \A i \in DOMAIN Ready : i # 0 /\ Ready[i].path \in Path
    <3>1. \A i \in DOMAIN Ready : IsObject(Ready[i]) /\ i # 0
      BY <1>6, ReadyFacts DEF Heap
    <3> QED
      BY <3>1, ObjectFields
  <2> QED
    BY <1>4, <1>5, <1>7, <2>1 DEF SharedOK
<1> QED
  BY <1>2, <1>3, <1>7, <1>8, <1>9
-----------------------------------------------------------------------------
(* The actions.                                                            *)

LEMMA ReadStatementStep ==
  ASSUME IInv, ReadStatement
  PROVE  IInv'
<1>1. stack # <<>> /\ stack' = Advanced
      /\ UNCHANGED <<disk, cache, pending, status, result, registered, first>>
  BY DEF ReadStatement, At, Reading
<1>2. Top.id \in DOMAIN modules /\ ~modules[Top.id].ready /\ IsObject(modules[Top.id]) /\ Heap(modules)
  BY <1>1, TopFacts DEF IInv
<1>3. \E r : /\ modules' = [modules EXCEPT ![Top.id] = r]
             /\ IsObject(r) /\ r.path = modules[Top.id].path /\ r.ready = modules[Top.id].ready
             /\ r.imports = modules[Top.id].imports
  <2>1. CASE Current.op = "node"
    <3> DEFINE r == [modules[Top.id] EXCEPT !.nodes = Append(@, Current.node)]
    <3>1. modules' = [modules EXCEPT ![Top.id] = r]
      BY <2>1 DEF ReadStatement
    <3>2. IsObject(r) /\ r.path = modules[Top.id].path /\ r.ready = modules[Top.id].ready
          /\ r.imports = modules[Top.id].imports
      BY <1>2 DEF IsObject
    <3> QED
      BY <3>1, <3>2
  <2>2. CASE Current.op = "define"
    <3> DEFINE r == [modules[Top.id] EXCEPT !.defines = @ \cup {Current.node}]
    <3>1. modules' = [modules EXCEPT ![Top.id] = r]
      BY <2>2 DEF ReadStatement
    <3>2. IsObject(r) /\ r.path = modules[Top.id].path /\ r.ready = modules[Top.id].ready
          /\ r.imports = modules[Top.id].imports
      BY <1>2 DEF IsObject
    <3> QED
      BY <3>1, <3>2
  <2>3. CASE Current.op # "node" /\ Current.op # "define"
    <3> DEFINE r == [modules[Top.id] EXCEPT !.augments = Append(@, Current)]
    <3>1. modules' = [modules EXCEPT ![Top.id] = r]
      BY <2>3 DEF ReadStatement
    <3>2. IsObject(r) /\ r.path = modules[Top.id].path /\ r.ready = modules[Top.id].ready
          /\ r.imports = modules[Top.id].imports
      BY <1>2 DEF IsObject
    <3> QED
      BY <3>1, <3>2
  <2> QED
    BY <2>1, <2>2, <2>3
<1> QED
  BY <1>1, <1>2, <1>3, EditStep, SameStack

LEMMA BindCachedStep ==
  ASSUME IInv, BindCached
  PROVE  IInv'
<1> DEFINE j == cache[Target]
           r == [modules[Top.id] EXCEPT !.imports = @ \cup {<<Current.prefix, j>>}]
<1>1. /\ stack # <<>> /\ stack' = Advanced /\ ~ImportRefused /\ j # 0
      /\ UNCHANGED <<disk, cache, pending, status, result, registered, first>>
      /\ modules' = [modules EXCEPT ![Top.id] = r]
  BY DEF BindCached, At, Reading, Bind
<1>2. Top.id \in DOMAIN modules /\ ~modules[Top.id].ready /\ IsObject(modules[Top.id])
      /\ Heap(modules) /\ DOMAIN modules = 1 .. Len(modules) /\ Len(modules) \in Nat
  BY <1>1, TopFacts DEF IInv
<1>3. Target \in Path
  BY <1>1, TargetPath DEF BindCached, ImportRefused
<1>4. j \in DOMAIN modules /\ modules[j].ready /\ cache[modules[j].path] = j
  BY <1>1, <1>2, <1>3 DEF IInv, CacheOK
<1>5. /\ IsObject(r) /\ r.path = modules[Top.id].path /\ r.ready = modules[Top.id].ready
      /\ r.imports = modules[Top.id].imports \cup {<<Current.prefix, j>>}
  BY <1>2 DEF IsObject
<1> HIDE DEF r, j
<1>6. \A b \in r.imports :
        \/ \E k \in DOMAIN modules : b \in modules[k].imports
        \/ b[2] \in DOMAIN modules /\ modules[b[2]].ready /\ cache[modules[b[2]].path] = b[2]
  BY <1>2, <1>4, <1>5
<1> QED
  BY <1>1, <1>2, <1>5, <1>6, BindStep, SameStack

LEMMA ExpandUsesStep ==
  ASSUME IInv, ExpandUses
  PROVE  IInv'
<1>1. /\ stack # <<>> /\ stack' = [stack EXCEPT ![Depth].finalizing = TRUE]
      /\ UNCHANGED <<disk, modules, cache, pending, status, result, registered, first>>
  BY DEF ExpandUses, AtEnd, Reading
<1>2. Depth = Len(stack) /\ stack \in Seq(Frame)
  BY TopFacts DEF Depth
<1>3. SameParses(stack', stack, Depth)
  BY <1>1, <1>2, Moved
<1>4. Top.id \in DOMAIN modules /\ IsObject(modules[Top.id]) /\ Heap(modules)
  BY <1>1, TopFacts DEF IInv
<1>5. modules' = [modules EXCEPT ![Top.id] = modules[Top.id]]
  BY <1>1, <1>4 DEF Heap
<1> QED
  BY <1>1, <1>3, <1>4, <1>5, EditStep

(* The target is edited first, then the module that states the augment.    *)
LEMMA MergeAugmentStep ==
  ASSUME IInv, MergeAugment
  PROVE  IInv'
<1>1. /\ stack # <<>> /\ stack' = stack
      /\ UNCHANGED <<disk, cache, pending, status, result, registered, first>>
  BY DEF MergeAugment, Finalizing
<1>2. PICK i \in AugmentTargets :
        modules' = [modules EXCEPT ![i].nodes = Append(@, Augment.node),
                                   ![Top.id].augments = Tail(@)]
  BY DEF MergeAugment
<1>3. /\ Top.id \in DOMAIN modules /\ ~modules[Top.id].ready /\ IsObject(modules[Top.id])
      /\ Heap(modules)
  BY <1>1, TopFacts DEF IInv
<1>4. i \in DOMAIN modules
  BY <1>3 DEF AugmentTargets, Resolved, Bound, IInv, SharedOK
<1> DEFINE r == [modules[i] EXCEPT !.nodes = Append(@, Augment.node)]
<1>5. PICK n : n = [modules EXCEPT ![i] = r]
  OBVIOUS
<1>6. IsObject(modules[i])
  BY <1>3, <1>4 DEF Heap
<1>7. /\ IsObject(r) /\ r.path = modules[i].path /\ r.ready = modules[i].ready
      /\ r.augments = modules[i].augments /\ r.imports = modules[i].imports
  BY <1>6 DEF IsObject
<1> DEFINE u == [n[Top.id] EXCEPT !.augments = Tail(@)]
<1>8. modules' = [n EXCEPT ![Top.id] = u]
  BY <1>2, <1>3, <1>4, <1>5
<1> HIDE DEF r
<1>9. Heap(n) /\ Grown(modules, n, cache)
  BY <1>3, <1>4, <1>5, <1>7, GrownByNode DEF Grown
<1>10. /\ DOMAIN n = DOMAIN modules
       /\ \A k \in DOMAIN modules : /\ n[k].path = modules[k].path /\ n[k].ready = modules[k].ready
                                    /\ n[k].imports = modules[k].imports
  BY <1>4, <1>5, <1>7
<1>11. IsObject(n[Top.id])
  BY <1>3, <1>9, <1>10 DEF Heap
<1>12. /\ IsObject(u) /\ u.path = n[Top.id].path /\ u.ready = n[Top.id].ready
       /\ u.imports = n[Top.id].imports
  BY <1>11 DEF IsObject
<1> HIDE DEF u
<1>13. Top.id \in DOMAIN n /\ ~n[Top.id].ready
  BY <1>3, <1>10
<1>14. Grown(n, modules', cache)
  BY <1>8, <1>9, <1>12, <1>13, GrownByEdit
<1>15. /\ DOMAIN modules' = DOMAIN modules
       /\ \A k \in DOMAIN modules : /\ modules'[k].path = modules[k].path
                                    /\ modules'[k].ready = modules[k].ready
                                    /\ modules'[k].imports = modules[k].imports
  BY <1>8, <1>10, <1>12, <1>13
<1>16. Heap(modules') /\ Len(modules') = Len(modules)
  BY <1>3, <1>14, <1>15, SameLength DEF Grown
<1>17. Grown(modules, modules', cache)
  BY <1>9, <1>14, <1>10, <1>15, <1>16 DEF Grown
<1> QED
  BY <1>1, <1>15, <1>16, <1>17, InnerStep, SameStack

LEMMA LoadImportStep ==
  ASSUME IInv, LoadImport
  PROVE  IInv'
<1>1. /\ stack # <<>> /\ Target # NoPath /\ Target \notin pending /\ cache[Target] = 0
      /\ modules' = Append(modules, NewModule(Target))
      /\ pending' = pending \cup {Target}
      /\ stack' = Append(stack, Activation("import", Target, Fresh))
      /\ UNCHANGED <<disk, cache, status, result, registered, first>>
  BY DEF LoadImport, ImportRefused, At, Reading
<1>2. Target \in Path
  BY <1>1, TargetPath DEF LoadImport
<1>3. status = "running" /\ result = 0
  BY <1>1 DEF IInv, CallsOK
<1> QED
  BY <1>1, <1>2, <1>3, PushStep

LEMMA LoadIncludeStep ==
  ASSUME IInv, LoadInclude
  PROVE  IInv'
<1>1. /\ stack # <<>> /\ Target # NoPath
      /\ modules' = Append(modules, NewModule(Target))
      /\ stack' = Append(stack, Activation("include", Target, Fresh))
      /\ UNCHANGED <<disk, cache, pending, status, result, registered, first>>
  BY DEF LoadInclude, At, Reading
<1>2. Target \in Path
  BY <1>1, TargetPath DEF LoadInclude
<1>3. status = "running" /\ result = 0
  BY <1>1 DEF IInv, CallsOK
<1> QED
  BY <1>1, <1>2, <1>3, PushStep

(* parse_file empties the pending set, which is empty between calls.       *)
LEMMA CallStep ==
  ASSUME IInv, NEW p \in Path, ParseFile(p) \/ ParseString(p)
  PROVE  IInv'
<1>1. PICK how \in {"file", "string"} : Call(how, p)
  BY DEF ParseFile, ParseString
<1>2. stack = <<>>
  BY <1>1 DEF Call, IInv, CallsOK
<1>3. pending' = pending
  BY <1>2 DEF ParseFile, ParseString, IInv, ImportsOK
<1>4. stack' = Append(stack, Activation(how, p, Fresh))
  BY <1>1, <1>2 DEF Call
<1> QED
  BY <1>1, <1>2, <1>3, <1>4, PushStep DEF Call

(* A parse ends and its caller moves on.                                   *)
LEMMA PopStep ==
  ASSUME IInv, stack # <<>>, Top.how \in {"import", "include"},
         SameParses(stack', stack, Depth - 1),
         UNCHANGED <<disk, status, result, registered, first>>,
         Heap(modules'), DOMAIN modules' = DOMAIN modules,
         \A k \in 1 .. Depth - 1 :
           /\ modules'[stack[k].id].path = modules[stack[k].id].path
           /\ ~modules'[stack[k].id].ready,
         CacheOK(cache', modules'), SharedOK(cache', modules'),
         ImportsOK(stack', cache', pending')
  PROVE  IInv'
<1>1. Heap(modules) /\ Len(modules') = Len(modules)
  BY SameLength DEF IInv
<1>2. stack' # <<>>
  BY CallerFacts DEF SameParses
<1>3. CallsOK'
  BY <1>1, <1>2 DEF IInv, CallsOK
<1>4. Unfinished(stack, Depth - 1, modules, modules')
  BY CallerFacts DEF Unfinished
<1>5. StackOK(stack, modules) /\ Depth - 1 \in 0 .. Len(stack)
  BY CallerFacts DEF IInv
<1>6. StackOK(stack', modules')
  BY <1>4, <1>5, StackKept
<1> QED
  BY <1>3, <1>6 DEF IInv

(* The caller is edited, then what is left of the submodule.               *)
LEMMA MergeSubmoduleStep ==
  ASSUME IInv, MergeSubmodule
  PROVE  IInv'
<1>1. /\ stack # <<>> /\ Top.how = "include"
      /\ stack' = [SubSeq(stack, 1, Depth - 1) EXCEPT ![Depth - 1].next = @ + 1]
      /\ UNCHANGED <<disk, cache, pending, status, result, registered, first>>
  BY DEF MergeSubmodule, AtEnd, Reading
<1>2. /\ Caller.id \in DOMAIN modules /\ ~modules[Caller.id].ready
      /\ IsObject(modules[Caller.id]) /\ Caller.id # Top.id
  BY <1>1, CallerFacts
<1>3. Top.id \in DOMAIN modules /\ ~modules[Top.id].ready /\ Top.path \in Path
      /\ Top.path = modules[Top.id].path /\ Heap(modules)
  BY <1>1, TopFacts DEF IInv
<1> DEFINE r == [modules[Caller.id] EXCEPT
                   !.nodes = @ \o Sub.nodes,
                   !.defines = @ \cup Sub.defines,
                   !.augments = @ \o Sub.augments,
                   !.imports = @ \cup {b \in Sub.imports : b[1] # Own(Caller.id) /\ ~Taken(b[1])}]
<1>4. PICK n : n = [modules EXCEPT ![Caller.id] = r]
  OBVIOUS
<1>5. modules' = [n EXCEPT ![Top.id] = NewModule(Top.path)]
  BY <1>2, <1>3, <1>4 DEF MergeSubmodule
<1>6. /\ IsObject(r) /\ r.path = modules[Caller.id].path /\ r.ready = modules[Caller.id].ready
      /\ r.imports \subseteq modules[Caller.id].imports \cup modules[Top.id].imports
  BY <1>2 DEF IsObject, Sub
<1> HIDE DEF r
<1>7. Heap(n) /\ Grown(modules, n, cache)
  <2>1. \A b \in r.imports : \E j \in DOMAIN modules : b \in modules[j].imports
    BY <1>2, <1>3, <1>6
  <2>2. Grown(modules, n, cache)
    BY <1>2, <1>3, <1>4, <1>6, <2>1, GrownByEdit
  <2> QED
    BY <2>2 DEF Grown
<1>8. /\ DOMAIN n = DOMAIN modules
      /\ \A k \in DOMAIN modules : n[k].path = modules[k].path /\ n[k].ready = modules[k].ready
  BY <1>2, <1>4, <1>6
<1>9. /\ IsObject(NewModule(Top.path)) /\ NewModule(Top.path).imports = {}
      /\ NewModule(Top.path).path = Top.path /\ ~NewModule(Top.path).ready
  BY <1>3 DEF IsObject, NewModule
<1>10. Top.id \in DOMAIN n /\ ~n[Top.id].ready
  BY <1>3, <1>8
<1>11. Grown(n, modules', cache)
  BY <1>5, <1>7, <1>9, <1>10, GrownByEdit
<1>12. /\ DOMAIN modules' = DOMAIN modules
       /\ \A k \in DOMAIN modules : /\ modules'[k].path = modules[k].path
                                    /\ ~modules[k].ready => ~modules'[k].ready
  BY <1>3, <1>5, <1>8, <1>9
<1>13. CacheOK(cache, n) /\ SharedOK(cache, n)
  BY <1>7, CacheKept DEF IInv
<1>14. CacheOK(cache, modules') /\ SharedOK(cache, modules')
  BY <1>7, <1>11, <1>13, CacheKept
<1>15. SameParses(stack', stack, Depth - 1)
  <2>1. stack \in Seq(Frame) /\ Depth = Len(stack) /\ Len(stack) >= 2
    BY <1>1, CallerFacts, TopFacts
  <2> QED
    BY <1>1, <2>1, Popped
<1>16. ImportsOK(stack', cache, pending)
  <2> DEFINE P(t) == {t[i].path : i \in {j \in 1 .. Len(t) : t[j].how = "import"}}
  <2>1. stack \in Seq(Frame) /\ Depth = Len(stack) /\ Depth \in Nat /\ Depth - 1 \in 0 .. Len(stack)
    BY <1>1, CallerFacts, TopFacts
  <2>2. ImportsOK(stack', cache, P(stack'))
    BY <1>15, <2>1, ImportsKept DEF IInv
  <2>3. \A k \in 1 .. Depth : stack[k].how = "import" => k \in 1 .. Depth - 1
    <3>1. \A k \in 1 .. Depth : k = Depth \/ k \in 1 .. Depth - 1
      BY <2>1
    <3> QED
      BY <1>1, <3>1 DEF Top
  <2>4. \A k \in 1 .. Depth - 1 : k \in 1 .. Depth
    BY <2>1
  <2>5. P(stack') = P(stack)
    <3>1. \A k \in 1 .. Depth - 1 : stack'[k].how = stack[k].how /\ stack'[k].path = stack[k].path
      BY <1>15 DEF SameParses
    <3>2. Len(stack') = Depth - 1
      BY <1>15 DEF SameParses
    <3>3. P(stack') = {stack[i].path : i \in {j \in 1 .. Depth - 1 : stack[j].how = "import"}}
      BY <3>1, <3>2
    <3>4. P(stack) = {stack[i].path : i \in {j \in 1 .. Depth : stack[j].how = "import"}}
      BY <2>1
    <3> HIDE DEF P
    <3>5. {j \in 1 .. Depth : stack[j].how = "import"}
            = {j \in 1 .. Depth - 1 : stack[j].how = "import"}
      BY <2>3, <2>4
    <3> QED
      BY <3>3, <3>4, <3>5
  <2>6. pending = P(stack)
    BY DEF IInv, ImportsOK
  <2> QED
    BY <2>2, <2>5, <2>6
<1>17. Heap(modules')
  BY <1>11 DEF Grown
<1>18. \A k \in 1 .. Depth - 1 :
         /\ modules'[stack[k].id].path = modules[stack[k].id].path
         /\ ~modules'[stack[k].id].ready
  <2>1. \A k \in 1 .. Depth - 1 : stack[k].id \in DOMAIN modules /\ ~modules[stack[k].id].ready
    BY <1>1, CallerFacts
  <2>2. ASSUME NEW k \in 1 .. Depth - 1
        PROVE  /\ modules'[stack[k].id].path = modules[stack[k].id].path
               /\ ~modules'[stack[k].id].ready
    <3>1. PICK i \in DOMAIN modules : i = stack[k].id /\ ~modules[i].ready
      BY <2>1
    <3>2. modules'[i].path = modules[i].path /\ ~modules'[i].ready
      BY <1>12, <3>1
    <3> QED
      BY <3>1, <3>2
  <2> QED
    BY <2>2
<1> QED
  BY <1>1, <1>12, <1>14, <1>15, <1>16, <1>17, <1>18, PopStep

(* The end of a call, or a call that ends with the import of a wrong name. *)
LEMMA EndStep ==
  ASSUME IInv, Merged, modules' = Ready, stack' = <<>>, disk' = disk,
         CacheOK(cache', Ready), SharedOK(cache', Ready), pending' = {},
         registered' \in [Name -> 0 .. Len(modules)],
         \/ status' = "ok" /\ result' = Top.id /\ Verdict("ok")
         \/ status' = "error" /\ result' = 0 /\ Verdict("error")
  PROVE  IInv'
<1>1. stack # <<>>
  BY DEF Merged, Finalizing
<1>2. Heap(modules') /\ Len(modules') = Len(modules)
  BY ReadyFacts
<1>3. CallsOK'
  <2>1. /\ Top.id \in DOMAIN modules /\ DOMAIN modules = 1 .. Len(modules)
        /\ Len(modules) \in Nat /\ stack[1].path \in Path
    BY <1>1, TopFacts
  <2>2. first' \in [Path -> {"none", "ok", "error"}]
    BY <2>1 DEF IInv, CallsOK, Verdict
  <2>3. result' \in 0 .. Len(modules') /\ (result' # 0 <=> status' = "ok")
    BY <1>2, <2>1
  <2> QED
    BY <1>2, <2>2, <2>3 DEF IInv, CallsOK
<1>4. StackOK(<<>>, modules')
  BY DEF StackOK
<1>5. ImportsOK(<<>>, cache', {})
  BY DEF ImportsOK
<1> QED
  BY <1>2, <1>3, <1>4, <1>5 DEF IInv

LEMMA ReturnStep ==
  ASSUME IInv, Return
  PROVE  IInv'
<1>1. /\ Merged /\ Top.how \in {"file", "string"} /\ modules' = Ready
      /\ stack' = <<>> /\ status' = "ok" /\ result' = Top.id /\ Verdict("ok")
      /\ UNCHANGED <<disk, cache, pending>>
      /\ IF Top.how = "file" THEN Register(Top.id) ELSE UNCHANGED registered
  BY DEF Return
<1>2. stack # <<>>
  BY <1>1 DEF Merged, Finalizing
<1>3. /\ Depth \in Nat /\ DOMAIN stack = 1 .. Depth /\ Depth \in DOMAIN stack
      /\ DOMAIN modules = 1 .. Len(modules) /\ Len(modules) \in Nat /\ Top.id \in DOMAIN modules
  BY <1>2, TopFacts
<1>4. pending = {}
  <2>1. Depth = 1
    BY <1>1, <1>3 DEF IInv, StackOK, Top
  <2>2. \A i \in 1 .. Len(stack) : stack[i].how # "import"
    BY <1>1, <2>1 DEF Depth, Top
  <2> QED
    BY <2>2 DEF IInv, ImportsOK
<1>5. CacheOK(cache, Ready) /\ SharedOK(cache, Ready)
  BY <1>1, ReadyFacts, CacheKept DEF IInv
<1>6. registered' \in [Name -> 0 .. Len(modules)]
  <2>1. CASE Top.how = "file"
    <3> DEFINE found(n) == {j \in Objects \ {Top.id} : j \in Closure(Top.id) /\ NameOf(j) = n}
               entry(n) == CASE found(n) # {} -> CHOOSE j \in found(n) : TRUE
                             [] found(n) = {} /\ NameOf(Top.id) = n -> Top.id
                             [] OTHER -> registered[n]
    <3>1. registered' = [n \in Name |-> entry(n)]
      BY <1>1, <2>1 DEF Register
    <3>2. ASSUME NEW n \in Name
          PROVE  entry(n) \in 0 .. Len(modules)
      <4>1. found(n) \subseteq 0 .. Len(modules) /\ Top.id \in 0 .. Len(modules)
        BY <1>3 DEF Objects
      <4>2. registered[n] \in 0 .. Len(modules)
        BY DEF IInv, CallsOK
      <4> HIDE DEF found
      <4> QED
        BY <4>1, <4>2
    <3> HIDE DEF entry
    <3> QED
      BY <3>1, <3>2
  <2>2. CASE Top.how # "file"
    BY <1>1, <2>2 DEF IInv, CallsOK
  <2> QED
    BY <2>1, <2>2
<1> QED
  BY <1>1, <1>4, <1>5, <1>6, EndStep

LEMMA RefuseImportedStep ==
  ASSUME IInv, RefuseImported
  PROVE  IInv'
<1>1. /\ Merged /\ Top.how = "import" /\ modules' = Ready
      /\ stack' = <<>> /\ status' = "error" /\ result' = 0 /\ Verdict("error")
      /\ cache' = [cache EXCEPT ![Top.path] = Top.id]
      /\ pending' = pending \ Importing /\ UNCHANGED <<disk, registered>>
  BY DEF RefuseImported
<1>2. pending' = {}
  BY <1>1 DEF IInv, ImportsOK, Importing, Depth
<1>3. registered' \in [Name -> 0 .. Len(modules)]
  BY <1>1 DEF IInv, CallsOK
<1> QED
  BY <1>1, <1>2, <1>3, Cached, EndStep

(* The module enters the cache, then the importer binds it.                *)
LEMMA ReturnImportStep ==
  ASSUME IInv, ReturnImport
  PROVE  IInv'
<1>1. /\ Merged /\ Top.how = "import"
      /\ modules' = [Ready EXCEPT ![Caller.id].imports = @ \cup {<<Expected.prefix, Top.id>>}]
      /\ cache' = [cache EXCEPT ![Top.path] = Top.id]
      /\ pending' = pending \ {Top.path}
      /\ stack' = [SubSeq(stack, 1, Depth - 1) EXCEPT ![Depth - 1].next = @ + 1]
      /\ UNCHANGED <<disk, status, result, registered, first>>
  BY DEF ReturnImport
<1>2. stack # <<>>
  BY <1>1 DEF Merged, Finalizing
<1>3. /\ Heap(Ready) /\ DOMAIN Ready = DOMAIN modules
      /\ Ready[Top.id].ready /\ Ready[Top.id].path = Top.path
      /\ \A i \in DOMAIN modules : i # Top.id => Ready[i] = modules[i]
  BY <1>1, ReadyFacts
<1>4. CacheOK(cache', Ready) /\ SharedOK(cache', Ready) /\ cache'[Top.path] = Top.id
  BY <1>1, Cached
<1>5. /\ Caller.id \in DOMAIN Ready /\ ~Ready[Caller.id].ready /\ IsObject(Ready[Caller.id])
      /\ Caller.id # Top.id /\ Top.id \in DOMAIN Ready
  BY <1>1, <1>2, <1>3, CallerFacts, TopFacts
<1> DEFINE r == [Ready[Caller.id] EXCEPT !.imports = @ \cup {<<Expected.prefix, Top.id>>}]
<1>6. modules' = [Ready EXCEPT ![Caller.id] = r]
  BY <1>1
<1>7. /\ IsObject(r) /\ r.path = Ready[Caller.id].path /\ r.ready = Ready[Caller.id].ready
      /\ r.imports = Ready[Caller.id].imports \cup {<<Expected.prefix, Top.id>>}
  BY <1>5 DEF IsObject
<1> HIDE DEF r
<1>8. \A b \in r.imports :
        \/ \E j \in DOMAIN Ready : b \in Ready[j].imports
        \/ b[2] \in DOMAIN Ready /\ Ready[b[2]].ready /\ cache'[Ready[b[2]].path] = b[2]
  BY <1>3, <1>4, <1>5, <1>7
<1>9. Grown(Ready, modules', cache')
  BY <1>3, <1>5, <1>6, <1>7, <1>8, GrownByEdit
<1>10. CacheOK(cache', modules') /\ SharedOK(cache', modules')
  BY <1>3, <1>4, <1>9, CacheKept
<1>11. /\ DOMAIN modules' = DOMAIN modules
       /\ \A k \in DOMAIN modules : k # Top.id =>
            /\ modules'[k].path = modules[k].path
            /\ ~modules[k].ready => ~modules'[k].ready
  BY <1>3, <1>5, <1>6, <1>7
<1>12. /\ stack \in Seq(Frame) /\ Depth = Len(stack) /\ Depth \in Nat /\ Len(stack) >= 2
       /\ Depth - 1 \in 0 .. Len(stack) /\ DOMAIN stack = 1 .. Depth /\ Depth \in DOMAIN stack
  BY <1>1, <1>2, CallerFacts, TopFacts
<1>13. SameParses(stack', stack, Depth - 1)
  BY <1>1, <1>12, Popped
<1>14. \A k \in 1 .. Depth - 1 :
         /\ modules'[stack[k].id].path = modules[stack[k].id].path
         /\ ~modules'[stack[k].id].ready
  BY <1>1, <1>2, <1>11, CallerFacts
<1>15. ImportsOK(stack', cache', pending')
  <2> DEFINE P(t) == {t[i].path : i \in {j \in 1 .. Len(t) : t[j].how = "import"}}
  <2>1. ImportsOK(stack', cache, P(stack'))
    BY <1>12, <1>13, ImportsKept DEF IInv
  <2>2. Len(stack') = Depth - 1 /\ DOMAIN stack' = 1 .. Depth - 1
    BY <1>13, <1>12 DEF SameParses
  <2>3. \A k \in 1 .. Depth : k = Depth \/ k \in 1 .. Depth - 1
    BY <1>12
  <2>4. \A k \in 1 .. Depth - 1 : k \in 1 .. Depth /\ k # Depth
    BY <1>12
  <2>5. \A k \in 1 .. Depth - 1 : stack'[k].how = "import" => stack'[k].path # Top.path
    BY <1>1, <1>12, <1>13, <2>4 DEF IInv, ImportsOK, SameParses, Top
  <2>6. pending = P(stack)
    BY DEF IInv, ImportsOK
  <2>7. P(stack) = P(stack') \cup {Top.path}
    <3>1. \A k \in 1 .. Depth - 1 : stack'[k].how = stack[k].how /\ stack'[k].path = stack[k].path
      BY <1>13 DEF SameParses
    <3>2. P(stack') = {stack[i].path : i \in {j \in 1 .. Depth - 1 : stack[j].how = "import"}}
      BY <2>2, <3>1
    <3>3. P(stack) = {stack[i].path : i \in {j \in 1 .. Depth : stack[j].how = "import"}}
      BY <1>12
    <3>4. stack[Depth].how = "import" /\ stack[Depth].path = Top.path /\ Depth \in 1 .. Depth
      BY <1>1, <1>12 DEF Top
    <3> HIDE DEF P
    <3>5. {j \in 1 .. Depth : stack[j].how = "import"}
            = {j \in 1 .. Depth - 1 : stack[j].how = "import"} \cup {Depth}
      BY <2>3, <2>4, <3>4
    <3> QED
      BY <3>2, <3>3, <3>4, <3>5
  <2>8. Top.path \notin P(stack')
    BY <2>2, <2>5
  <2>9. pending' = P(stack')
    BY <1>1, <2>6, <2>7, <2>8
  <2>10. \A k \in DOMAIN stack' : stack'[k].how = "import" => cache'[stack'[k].path] = 0
    <3>1. \A k \in DOMAIN stack' : stack'[k].path \in Path
      <4>1. \A k \in DOMAIN stack' : stack'[k] \in Frame
        BY <1>13 DEF SameParses
      <4> QED
        BY <4>1 DEF Frame
    <3>2. \A p \in Path : p # Top.path => cache'[p] = cache[p]
      BY <1>1 DEF IInv, CacheOK
    <3> QED
      BY <2>1, <2>2, <2>5, <3>1, <3>2 DEF ImportsOK
  <2> QED
    BY <2>1, <2>9, <2>10 DEF ImportsOK
<1>16. Heap(modules')
  BY <1>9 DEF Grown
<1> QED
  BY <1>1, <1>2, <1>10, <1>11, <1>13, <1>14, <1>15, <1>16, PopStep
-----------------------------------------------------------------------------
(* The theorems.                                                           *)

LEMMA Initially == Init => IInv
<1> SUFFICES ASSUME Init PROVE IInv
  OBVIOUS
<1>1. CallsOK
  BY DEF Init, CallsOK
<1>2. Heap(<<>>) /\ Len(<<>>) = 0
  BY DEF Heap, Elements
<1>3. StackOK(<<>>, <<>>)
  BY DEF StackOK
<1>4. ImportsOK(<<>>, [p \in Path |-> 0], {})
  BY DEF ImportsOK
<1>5. CacheOK([p \in Path |-> 0], <<>>)
  BY <1>2 DEF CacheOK
<1>6. SharedOK([p \in Path |-> 0], <<>>)
  BY DEF SharedOK, Acyclic
<1> QED
  BY <1>1, <1>2, <1>3, <1>4, <1>5, <1>6 DEF Init, IInv

LEMMA Inductive == IInv /\ [Next]_vars => IInv'
<1> SUFFICES ASSUME IInv, [Next]_vars PROVE IInv'
  OBVIOUS
<1>1. CASE ReadStep
  <2>1. CASE SyntaxError \/ RefuseImport \/ RefuseInclude \/ RefuseSubmodule
    <3>1. stack # <<>> /\ Abort
      BY <2>1 DEF SyntaxError, RefuseImport, RefuseInclude, RefuseSubmodule, At, AtEnd, Reading
    <3> QED
      BY <3>1, AbortStep
  <2> QED
    BY <1>1, <2>1, ReadStatementStep, BindCachedStep, LoadImportStep, LoadIncludeStep,
       MergeSubmoduleStep DEF ReadStep
<1>2. CASE FinalizeStep
  <2>1. CASE RefuseUses \/ RefuseAugment \/ RefuseSemantics
    <3>1. stack # <<>> /\ Abort
      BY <2>1 DEF RefuseUses, RefuseAugment, RefuseSemantics, AtEnd, Reading, Merged, Finalizing
    <3> QED
      BY <3>1, AbortStep
  <2> QED
    BY <1>2, <2>1, ExpandUsesStep, MergeAugmentStep, ReturnStep, ReturnImportStep,
       RefuseImportedStep DEF FinalizeStep
<1>3. CASE \E p \in Path : ParseFile(p) \/ ParseString(p)
  BY <1>3, CallStep
<1>4. CASE UNCHANGED vars
  BY <1>4 DEF vars, IInv, CallsOK
<1> QED
  BY <1>1, <1>2, <1>3, <1>4 DEF Next, Step

(* The parts of the invariant, in the words of the specification.          *)
LEMMA Consequences ==
  IInv => TypeOK /\ PendingExact /\ CacheComplete /\ OneObjectPerFile /\ ImportsAcyclic
<1> SUFFICES ASSUME IInv
             PROVE  TypeOK /\ PendingExact /\ CacheComplete /\ OneObjectPerFile /\ ImportsAcyclic
  OBVIOUS
<1>1. /\ stack \in Seq(Frame) /\ DOMAIN stack = 1 .. Len(stack)
      /\ \A i \in DOMAIN modules : IsObject(modules[i])
  BY DEF IInv, StackOK, Heap
<1>2. TypeOK
  <2>1. \A k \in DOMAIN stack : stack[k].path \in Path
    <3>1. \A k \in DOMAIN stack : stack[k] \in Frame
      BY <1>1
    <3> QED
      BY <3>1 DEF Frame
  <2>2. pending \subseteq Path
    BY <1>1, <2>1 DEF IInv, ImportsOK
  <2>3. \A i \in Objects : modules[i].path \in Path
    BY <1>1, ObjectFields DEF Objects
  <2>4. \A k \in DOMAIN stack :
          /\ stack[k].id \in Objects /\ stack[k].path = modules[stack[k].id].path
          /\ stack[k].how \in IF k = 1 THEN {"file", "string"} ELSE {"import", "include"}
    BY DEF IInv, StackOK, Objects
  <2> QED
    BY <2>2, <2>3, <2>4 DEF TypeOK, IInv, CallsOK, CacheOK
<1>3. PendingExact
  BY DEF PendingExact, IInv, ImportsOK, Importing, Depth
<1>4. CacheComplete
  BY DEF CacheComplete, IInv, CacheOK
<1>5. OneObjectPerFile
  BY DEF OneObjectPerFile, IInv, SharedOK, Objects
<1>6. ImportsAcyclic
  BY DEF ImportsAcyclic, IInv, SharedOK, Acyclic, Objects
<1> QED
  BY <1>2, <1>3, <1>4, <1>5, <1>6

LEMMA Invariance == Spec => []IInv
<1>1. Init => IInv
  BY Initially
<1>2. IInv /\ [Next]_vars => IInv'
  BY Inductive
<1> QED
  BY <1>1, <1>2, PTL DEF Spec

(* The variables keep their types, the outermost parse is the call's, and  *)
(* there is one exactly while a call runs: no exception path of the loader *)
(* leaves a parse behind.                                                  *)
THEOREM TypeCorrect == Spec => []TypeOK
<1>1. IInv => TypeOK
  BY Consequences
<1> QED
  BY <1>1, Invariance, PTL

(* _import_pending holds the files whose import is in progress, for every  *)
(* directory and every sequence of successful and failing calls.           *)
THEOREM PendingIsExact == Spec => []PendingExact
<1>1. IInv => PendingExact
  BY Consequences
<1> QED
  BY <1>1, Invariance, PTL

(* _module_cache leads to expanded, augmented and checked modules of the   *)
(* file asked for.                                                         *)
THEOREM CacheIsComplete == Spec => []CacheComplete
<1>1. IInv => CacheComplete
  BY Consequences
<1> QED
  BY <1>1, Invariance, PTL

(* The recursion over import_prefixes of register_module_closure, which    *)
(* marks nothing as visited, ends: the bindings of objects form no cycle,  *)
(* however the files import each other.                                    *)
THEOREM NoImportCycle == Spec => []ImportsAcyclic
<1>1. IInv => ImportsAcyclic
  BY Consequences
<1> QED
  BY <1>1, Invariance, PTL

(* Every import, own or taken over from a submodule, leads to the one      *)
(* object the cache has for its file.                                      *)
THEOREM ImportsAreShared == Spec => []OneObjectPerFile
<1>1. IInv => OneObjectPerFile
  BY Consequences
<1> QED
  BY <1>1, Invariance, PTL

-----------------------------------------------------------------------------
(* What a module holds, compared with what its files state.                *)

(* Source and Files, for the files d.                                      *)
IncludedIn(d, p) ==
  {Locate[s.name] : s \in {t \in Elements(d[p].body) : t.op = "include"}} \ {NoPath}
FilesIn(d, p) ==
  {q \in Path : \A F \in SUBSET Path :
                  p \in F /\ (\A f \in F : IncludedIn(d, f) \subseteq F) => q \in F}
SourceIn(d, p, op) ==
  {s \in UNION {Elements(d[q].body) : q \in FilesIn(d, p)} : s.op = op}

(* What statement k of the file p comes to, an include being all it leads  *)
(* to; and what the statements before the n-th come to.                    *)
Stated(d, p, k, op) ==
  LET s == d[p].body[k]
  IN  IF s.op = op THEN {s} ELSE IF s.op = "include" THEN SourceIn(d, Locate[s.name], op) ELSE {}

Done(d, p, n, op) == UNION {Stated(d, p, k, op) : k \in 1 .. n - 1}

(* The object o of the heap m has the nodes of the statements N, and has   *)
(* bound the prefixes of the imports I, each once.                         *)
Holds(d, o, m, N, I) ==
  /\ \A s \in N : s.node \in Elements(o.nodes)
  /\ \A s \in I : s.prefix # d[o.path].prefix =>
       \E b \in o.imports : b[1] = s.prefix /\ d[m[b[2]].path].name = s.name
  /\ \A b \in o.imports :
       \E s \in I : /\ s.prefix # d[o.path].prefix
                    /\ b[1] = s.prefix /\ d[m[b[2]].path].name = s.name
  /\ \A b, c \in o.imports : b[1] = c[1] => b = c

(* A parse has done what it has read.                                      *)
FrameOK(d, f, m) ==
  /\ f.next \in 1 .. Len(d[f.path].body) + 1
  /\ \A j \in 1 .. f.next - 1 :
       d[f.path].body[j].op = "include" => Locate[d[f.path].body[j].name] \in Path
  /\ Holds(d, m[f.id], m, Done(d, f.path, f.next, "node"), Done(d, f.path, f.next, "import"))
  /\ f.finalizing => f.next = Len(d[f.path].body) + 1

(* A parse waits at the statement for which the next one, g, was begun.    *)
LinkOK(d, f, g, m) ==
  LET s == d[f.path].body[f.next]
  IN  /\ ~f.finalizing /\ f.next <= Len(d[f.path].body)
      /\ s.op = g.how /\ Locate[s.name] = g.path
      /\ s.op = "import" => /\ s.prefix # d[f.path].prefix
                            /\ \A b \in m[f.id].imports : b[1] # s.prefix

IsSeq(q) == q \in Seq(Elements(q))
NodesOK(m) == \A i \in DOMAIN m : IsSeq(m[i].nodes)

ReadyOK(d, m) ==
  \A i \in DOMAIN m : m[i].ready =>
    Holds(d, m[i], m, SourceIn(d, m[i].path, "node"), SourceIn(d, m[i].path, "import"))

ParsesOK(d, t, m) ==
  /\ \A k \in DOMAIN t : FrameOK(d, t[k], m)
  /\ \A k \in DOMAIN t : k + 1 \in DOMAIN t => LinkOK(d, t[k], t[k + 1], m)

SubmodulesIn(d) == \A p \in Path : \A q \in IncludedIn(d, p) : d[q].prefix = NoPrefix

ContentInv ==
  SubmodulesIn(disk) => NodesOK(modules) /\ ReadyOK(disk, modules) /\ ParsesOK(disk, stack, modules)

-----------------------------------------------------------------------------
(* The source of a file.                                                   *)

(* The statements of a file, and the files it includes.                    *)
LEMMA FileFields ==
  ASSUME NEW d \in [Path -> File], NEW p \in Path
  PROVE  /\ IncludedIn(d, p) \subseteq Path
         /\ d[p].body \in Seq(Statement) /\ Len(d[p].body) \in Nat
         /\ DOMAIN d[p].body = 1 .. Len(d[p].body)
         /\ \A k \in 1 .. Len(d[p].body) : d[p].body[k] \in Statement
<1>1. d[p].body \in Seq(Statement)
  BY DEF File
<1>2. /\ Len(d[p].body) \in Nat /\ DOMAIN d[p].body = 1 .. Len(d[p].body)
      /\ \A k \in 1 .. Len(d[p].body) : d[p].body[k] \in Statement
  BY <1>1
<1>3. \A s \in Elements(d[p].body) : s.name \in Name
  BY <1>2 DEF Elements, Statement
<1>4. IncludedIn(d, p) \subseteq Path
  BY <1>3, DiskAssumption DEF IncludedIn
<1> QED
  BY <1>1, <1>2, <1>4

(* The files of p are p and those of the files it includes.                *)
LEMMA FilesStep ==
  ASSUME NEW d \in [Path -> File], NEW p \in Path
  PROVE  FilesIn(d, p) = {p} \cup UNION {FilesIn(d, q) : q \in IncludedIn(d, p)}
<1> DEFINE Closed(F) == \A f \in F : IncludedIn(d, f) \subseteq F
           U == {p} \cup UNION {FilesIn(d, q) : q \in IncludedIn(d, p)}
<1>1. \A q, x \in Path : x \in FilesIn(d, q) <=> \A F \in SUBSET Path : q \in F /\ Closed(F) => x \in F
  BY DEF FilesIn
<1>2. \A q \in Path : q \in FilesIn(d, q)
  BY <1>1
<1>3. IncludedIn(d, p) \subseteq Path
  BY FileFields
<1>4. U \subseteq FilesIn(d, p)
  <2>1. ASSUME NEW q \in IncludedIn(d, p), NEW x \in FilesIn(d, q)
        PROVE  x \in FilesIn(d, p)
    <3>1. q \in Path /\ x \in Path
      BY <1>3 DEF FilesIn
    <3>2. \A F \in SUBSET Path : p \in F /\ Closed(F) => q \in F
      OBVIOUS
    <3> QED
      BY <1>1, <3>1, <3>2
  <2> QED
    BY <1>2, <2>1
<1>5. U \in SUBSET Path
  BY <1>3 DEF FilesIn
<1>6. Closed(U)
  <2>1. SUFFICES ASSUME NEW f \in U, NEW g \in IncludedIn(d, f)
                 PROVE  g \in U
    OBVIOUS
  <2>2. f \in Path /\ g \in Path
    BY <1>5, FileFields
  <2>3. CASE f = p
    BY <1>2, <2>1, <2>2, <2>3
  <2>4. CASE f # p
    <3>1. PICK q \in IncludedIn(d, p) : f \in FilesIn(d, q)
      BY <2>4
    <3>2. q \in Path
      BY <1>3
    <3>3. g \in FilesIn(d, q)
      BY <1>1, <2>2, <3>1, <3>2
    <3> QED
      BY <3>3
  <2> QED
    BY <2>3, <2>4
<1>7. p \in U
  OBVIOUS
<1>8. FilesIn(d, p) \subseteq U
  <2>1. SUFFICES ASSUME NEW x \in FilesIn(d, p) PROVE x \in U
    OBVIOUS
  <2>2. x \in Path
    BY DEF FilesIn
  <2> HIDE DEF U
  <2> QED
    BY <1>1, <1>5, <1>6, <1>7, <2>2
<1> QED
  BY <1>4, <1>8

(* A statement more.                                                       *)
LEMMA DoneStep ==
  ASSUME NEW d, NEW p, NEW n \in Nat \ {0}, NEW op
  PROVE  /\ Done(d, p, n + 1, op) = Done(d, p, n, op) \cup Stated(d, p, n, op)
         /\ Done(d, p, 1, op) = {}
<1>1. 1 .. (n + 1) - 1 = (1 .. n - 1) \cup {n} /\ 1 .. 1 - 1 = {}
  OBVIOUS
<1> QED
  BY <1>1 DEF Done

(* A file that has been read to its end.                                   *)
LEMMA SourceDone ==
  ASSUME NEW d \in [Path -> File], NEW p \in Path, NEW op, op # "include",
         \A j \in 1 .. Len(d[p].body) :
           d[p].body[j].op = "include" => Locate[d[p].body[j].name] \in Path
  PROVE  SourceIn(d, p, op) = Done(d, p, Len(d[p].body) + 1, op)
<1> DEFINE b == d[p].body
<1>1. Len(b) \in Nat /\ DOMAIN b = 1 .. Len(b) /\ 1 .. (Len(b) + 1) - 1 = 1 .. Len(b)
  BY FileFields
<1>2. Elements(b) = {b[k] : k \in 1 .. Len(b)}
  BY <1>1 DEF Elements
<1> HIDE DEF b
<1>3. IncludedIn(d, p) = {Locate[b[k].name] : k \in {j \in 1 .. Len(b) : b[j].op = "include"}}
  <2>1. \A x : x \in IncludedIn(d, p) <=>
               x # NoPath /\ \E k \in 1 .. Len(b) : b[k].op = "include" /\ x = Locate[b[k].name]
    BY <1>2 DEF IncludedIn, b
  <2>2. NoPath \notin Path
    BY DiskAssumption
  <2> QED
    BY <2>1, <2>2 DEF b
<1>4. \A s : s \in SourceIn(d, p, op) <=>
             \/ s \in Elements(b) /\ s.op = op
             \/ \E q \in IncludedIn(d, p) : s \in SourceIn(d, q, op)
  BY FilesStep DEF SourceIn, b
<1>5. \A s : s \in Done(d, p, Len(b) + 1, op) <=> \E k \in 1 .. Len(b) : s \in Stated(d, p, k, op)
  BY <1>1 DEF Done
<1>6. \A s : \A k \in 1 .. Len(b) : s \in Stated(d, p, k, op) <=>
             \/ s = b[k] /\ s.op = op
             \/ b[k].op = "include" /\ s \in SourceIn(d, Locate[b[k].name], op)
  BY DEF Stated, b
<1>7. \A s : s \in SourceIn(d, p, op) <=> s \in Done(d, p, Len(b) + 1, op)
  BY <1>2, <1>3, <1>4, <1>5, <1>6
<1> QED
  BY <1>7 DEF b

-----------------------------------------------------------------------------
(* What a step may leave as it was.                                        *)

(* The object o is still as it was, but for nodes it was given.            *)
Same(o, o2) ==
  /\ o2.path = o.path /\ o2.imports = o.imports
  /\ Elements(o.nodes) \subseteq Elements(o2.nodes)

(* The heap m2 has the objects of m, each of the file it was of.           *)
PathsKept(m, m2) == \A j \in DOMAIN m : j \in DOMAIN m2 /\ m2[j].path = m[j].path

(* An object that is as it was, but for new nodes, holds what it held.     *)
LEMMA HoldsKept ==
  ASSUME NEW d, NEW m, NEW m2, NEW c, SharedOK(c, m), PathsKept(m, m2),
         NEW i \in DOMAIN m, Same(m[i], m2[i]), NEW N, NEW I, Holds(d, m[i], m, N, I)
  PROVE  Holds(d, m2[i], m2, N, I)
<1>1. \A b \in m[i].imports : m2[b[2]].path = m[b[2]].path
  BY DEF SharedOK, PathsKept
<1>2. \A s \in N : s.node \in Elements(m2[i].nodes)
  BY DEF Same, Holds
<1>3. \A s \in I : s.prefix # d[m2[i].path].prefix =>
        \E b \in m2[i].imports : b[1] = s.prefix /\ d[m2[b[2]].path].name = s.name
  BY <1>1 DEF Same, Holds
<1>4. \A b \in m2[i].imports :
        \E s \in I : /\ s.prefix # d[m2[i].path].prefix
                     /\ b[1] = s.prefix /\ d[m2[b[2]].path].name = s.name
  BY <1>1 DEF Same, Holds
<1>5. \A b, e \in m2[i].imports : b[1] = e[1] => b = e
  BY DEF Same, Holds
<1> QED
  BY <1>2, <1>3, <1>4, <1>5 DEF Holds

(* A parse of such an object has done what it had done.                    *)
LEMMA FrameKept ==
  ASSUME NEW d, NEW m, NEW m2, NEW c, SharedOK(c, m), PathsKept(m, m2),
         NEW f, f.id \in DOMAIN m, Same(m[f.id], m2[f.id]), FrameOK(d, f, m)
  PROVE  FrameOK(d, f, m2)
  BY HoldsKept DEF FrameOK

(* It waits at the same statement, for a parse of the same file.           *)
LEMMA LinkKept ==
  ASSUME NEW d, NEW m, NEW m2, NEW f, Same(m[f.id], m2[f.id]), NEW g, LinkOK(d, f, g, m),
         NEW h, h.how = g.how, h.path = g.path
  PROVE  LinkOK(d, f, h, m2)
  BY DEF LinkOK, Same

(* After a step in which the first n parses go on, the last of them with   *)
(* what it should have done, and what becomes finished is complete.        *)
LEMMA ContentKept ==
  ASSUME NEW d, NEW m, NEW m2, NEW c, SharedOK(c, m), PathsKept(m, m2),
         NEW s, NEW t, StackOK(s, m), NEW n \in 0 .. Len(s), SameParses(t, s, n),
         ParsesOK(d, s, m), ReadyOK(d, m), NodesOK(m2),
         \A k \in 1 .. n - 1 : t[k] = s[k] /\ Same(m[s[k].id], m2[s[k].id]),
         n > 0 => FrameOK(d, t[n], m2),
         \A i \in DOMAIN m2 : m2[i].ready =>
           \/ i \in DOMAIN m /\ m[i].ready /\ Same(m[i], m2[i])
           \/ Holds(d, m2[i], m2, SourceIn(d, m2[i].path, "node"),
                                  SourceIn(d, m2[i].path, "import"))
  PROVE  NodesOK(m2) /\ ReadyOK(d, m2) /\ ParsesOK(d, t, m2)
<1>1. Len(s) \in Nat /\ DOMAIN s = 1 .. Len(s) /\ DOMAIN t = 1 .. n /\ n \in Nat
  BY DEF StackOK, SameParses
<1>2. ReadyOK(d, m2)
  <2>1. ASSUME NEW i \in DOMAIN m2, i \in DOMAIN m, m[i].ready, Same(m[i], m2[i])
        PROVE  Holds(d, m2[i], m2, SourceIn(d, m2[i].path, "node"), SourceIn(d, m2[i].path, "import"))
    <3>1. Holds(d, m[i], m, SourceIn(d, m[i].path, "node"), SourceIn(d, m[i].path, "import"))
      BY <2>1 DEF ReadyOK
    <3>2. m2[i].path = m[i].path
      BY <2>1 DEF Same
    <3> QED
      BY <2>1, <3>1, <3>2, HoldsKept
  <2> QED
    BY <2>1 DEF ReadyOK
<1>3. \A k \in 1 .. n - 1 : k \in DOMAIN s /\ k + 1 \in DOMAIN s /\ k + 1 \in 1 .. n
  BY <1>1
<1>4. \A k \in 1 .. n - 1 : FrameOK(d, t[k], m2)
  <2>1. SUFFICES ASSUME NEW k \in 1 .. n - 1 PROVE FrameOK(d, s[k], m2)
    OBVIOUS
  <2>2. s[k].id \in DOMAIN m /\ FrameOK(d, s[k], m)
    BY <1>3 DEF StackOK, ParsesOK
  <2> QED
    BY <2>2, FrameKept
<1>5. \A k \in 1 .. n : FrameOK(d, t[k], m2)
  <2>1. \A k \in 1 .. n : k \in 1 .. n - 1 \/ (k = n /\ n > 0)
    BY <1>1
  <2> QED
    BY <1>4, <2>1
<1>6. \A k \in 1 .. n - 1 : LinkOK(d, t[k], t[k + 1], m2)
  <2>1. SUFFICES ASSUME NEW k \in 1 .. n - 1 PROVE LinkOK(d, s[k], t[k + 1], m2)
    OBVIOUS
  <2>2. LinkOK(d, s[k], s[k + 1], m)
    BY <1>3 DEF ParsesOK
  <2>3. t[k + 1].how = s[k + 1].how /\ t[k + 1].path = s[k + 1].path
    BY <1>3 DEF SameParses
  <2> QED
    BY <2>2, <2>3, LinkKept
<1>7. \A k \in DOMAIN t : k + 1 \in DOMAIN t => k \in 1 .. n - 1
  BY <1>1
<1>8. ParsesOK(d, t, m2)
  BY <1>1, <1>5, <1>6, <1>7 DEF ParsesOK
<1> QED
  BY <1>2, <1>8

(* Appending to the nodes of an object.                                    *)
LEMMA AppendElements ==
  ASSUME NEW q, IsSeq(q), NEW x
  PROVE  IsSeq(Append(q, x)) /\ Elements(Append(q, x)) = Elements(q) \cup {x}
<1> DEFINE S == Elements(q) \cup {x}
           r == Append(q, x)
<1>1. q \in Seq(S) /\ Len(q) \in Nat /\ DOMAIN q = 1 .. Len(q)
  BY DEF IsSeq, Elements
<1>2. /\ r \in Seq(S) /\ DOMAIN r = 1 .. Len(q) + 1
      /\ r[Len(q) + 1] = x /\ \A k \in 1 .. Len(q) : r[k] = q[k]
  BY <1>1
<1>3. IsSeq(r)
  BY <1>2, SeqOfElements DEF IsSeq
<1> HIDE DEF r
<1>4. \A k \in 1 .. Len(q) + 1 : k \in 1 .. Len(q) \/ k = Len(q) + 1
  BY <1>1
<1>5. Elements(r) = Elements(q) \cup {x}
  <2>1. Elements(r) \subseteq Elements(q) \cup {x}
    BY <1>1, <1>2, <1>4 DEF Elements
  <2>2. \A k \in 1 .. Len(q) : k \in 1 .. Len(q) + 1
    BY <1>1
  <2>3. Len(q) + 1 \in 1 .. Len(q) + 1
    BY <1>1
  <2> QED
    BY <1>1, <1>2, <2>1, <2>2, <2>3 DEF Elements
<1> QED
  BY <1>3, <1>5 DEF r

(* Appending the nodes of another object.                                  *)
LEMMA ConcatElements ==
  ASSUME NEW q, IsSeq(q), NEW r, IsSeq(r)
  PROVE  IsSeq(q \o r) /\ Elements(q \o r) = Elements(q) \cup Elements(r)
<1> DEFINE S == Elements(q) \cup Elements(r)
<1>1. PICK t : t = q \o r
  OBVIOUS
<1>2. /\ q \in Seq(S) /\ Len(q) \in Nat /\ DOMAIN q = 1 .. Len(q)
      /\ r \in Seq(S) /\ Len(r) \in Nat /\ DOMAIN r = 1 .. Len(r)
  BY DEF IsSeq, Elements
<1>3. /\ t \in Seq(S) /\ DOMAIN t = 1 .. Len(q) + Len(r)
      /\ \A k \in 1 .. Len(q) + Len(r) :
           t[k] = IF k <= Len(q) THEN q[k] ELSE r[k - Len(q)]
  BY <1>1, <1>2
<1>4. IsSeq(t)
  BY <1>3, SeqOfElements DEF IsSeq
<1>5. \A k \in 1 .. Len(q) + Len(r) :
        (k <= Len(q) => k \in 1 .. Len(q)) /\ (~(k <= Len(q)) => k - Len(q) \in 1 .. Len(r))
  BY <1>2
<1>6. Elements(t) \subseteq S
  BY <1>2, <1>3, <1>5 DEF Elements
<1>7. Elements(q) \subseteq Elements(t)
  <2>1. \A k \in 1 .. Len(q) : k \in 1 .. Len(q) + Len(r) /\ t[k] = q[k]
    BY <1>2, <1>3
  <2> QED
    BY <1>2, <1>3, <2>1 DEF Elements
<1>8. Elements(r) \subseteq Elements(t)
  <2>1. \A k \in 1 .. Len(r) : /\ k + Len(q) \in 1 .. Len(q) + Len(r)
                               /\ ~(k + Len(q) <= Len(q)) /\ (k + Len(q)) - Len(q) = k
    BY <1>2
  <2>2. \A k \in 1 .. Len(r) : k + Len(q) \in DOMAIN t /\ t[k + Len(q)] = r[k]
    BY <1>3, <2>1
  <2> QED
    BY <1>2, <2>2 DEF Elements
<1> QED
  BY <1>1, <1>4, <1>6, <1>7, <1>8

-----------------------------------------------------------------------------
(* The steps.                                                              *)

ContentOK == NodesOK(modules) /\ ReadyOK(disk, modules) /\ ParsesOK(disk, stack, modules)

(* Calls leave a file at every path.                                       *)
LEMMA DiskFile ==
  ASSUME IInv
  PROVE  disk \in [Path -> File]
  BY DiskAssumption DEF IInv, CallsOK

(* An object that is not edited is as it was.                              *)
LEMMA SameObject == \A o : Same(o, o)
  BY DEF Same

(* The heap is as it was, and every parse has been left.                   *)
LEMMA AbortContent ==
  ASSUME IInv, ContentOK, Abort
  PROVE  ContentOK'
<1>1. stack' = <<>> /\ UNCHANGED <<disk, modules, cache>>
  BY DEF Abort
<1>2. ParsesOK(disk, <<>>, modules)
  BY DEF ParsesOK
<1> QED
  BY <1>1, <1>2 DEF ContentOK

(* The innermost parse, when it has come to its end, has done it all.      *)
LEMMA TopDone ==
  ASSUME IInv, ContentOK, stack # <<>>, Top.finalizing \/ Top.next \notin DOMAIN Body
  PROVE  Holds(disk, modules[Top.id], modules, SourceIn(disk, Top.path, "node"),
                                               SourceIn(disk, Top.path, "import"))
<1>1. disk \in [Path -> File] /\ Top.path \in Path
  BY DiskFile, TopFacts
<1>2. Len(Body) \in Nat /\ DOMAIN Body = 1 .. Len(Body) /\ Body = disk[Top.path].body
  BY <1>1, FileFields DEF Body
<1>3. FrameOK(disk, Top, modules)
  BY TopFacts DEF ContentOK, ParsesOK, Top
<1>4. Top.next = Len(Body) + 1
  <2>1. Top.next \in 1 .. Len(Body) + 1
    BY <1>2, <1>3 DEF FrameOK
  <2>2. Top.finalizing => Top.next = Len(Body) + 1
    BY <1>2, <1>3 DEF FrameOK
  <2> QED
    BY <1>2, <2>1, <2>2
<1>5. 1 .. Top.next - 1 = 1 .. Len(Body)
  BY <1>2, <1>4
<1>6. \A j \in 1 .. Len(Body) : Body[j].op = "include" => Locate[Body[j].name] \in Path
  BY <1>2, <1>3, <1>5 DEF FrameOK
<1>7. /\ SourceIn(disk, Top.path, "node") = Done(disk, Top.path, Top.next, "node")
      /\ SourceIn(disk, Top.path, "import") = Done(disk, Top.path, Top.next, "import")
  BY <1>1, <1>2, <1>4, <1>6, SourceDone
<1> QED
  BY <1>3, <1>7 DEF FrameOK

(* To finish a module changes nothing of what it holds.                    *)
LEMMA ReadySame ==
  ASSUME IInv, ContentOK, Merged
  PROVE  /\ NodesOK(Ready) /\ PathsKept(modules, Ready) /\ DOMAIN Ready = DOMAIN modules
         /\ \A i \in DOMAIN modules : Same(modules[i], Ready[i])
         /\ \A i \in DOMAIN modules : i # Top.id => Ready[i] = modules[i]
<1>1. stack # <<>>
  BY DEF Merged, Finalizing
<1>2. Top.id \in DOMAIN modules /\ IsObject(modules[Top.id])
  BY <1>1, TopFacts
<1> DEFINE r == [modules[Top.id] EXCEPT !.ready = TRUE]
<1>3. r.nodes = modules[Top.id].nodes /\ r.path = modules[Top.id].path /\ r.imports = modules[Top.id].imports
  BY <1>2 DEF IsObject
<1>4. Ready = [modules EXCEPT ![Top.id] = r]
  BY DEF Ready
<1> HIDE DEF r
<1>5. /\ DOMAIN Ready = DOMAIN modules /\ Ready[Top.id] = r
      /\ \A i \in DOMAIN modules : i # Top.id => Ready[i] = modules[i]
  BY <1>2, <1>4
<1>6. \A i \in DOMAIN modules : Same(modules[i], Ready[i])
  BY <1>3, <1>5 DEF Same
<1>7. NodesOK(Ready)
  BY <1>3, <1>5 DEF NodesOK, ContentOK
<1>8. PathsKept(modules, Ready)
  BY <1>5, <1>6 DEF PathsKept, Same
<1> QED
  BY <1>5, <1>6, <1>7, <1>8

(* The innermost module is finished, perhaps after that of no call.        *)
LEMMA EndContent ==
  ASSUME IInv, ContentOK, Merged, modules' = Ready, stack' = <<>>, disk' = disk
  PROVE  ContentOK'
<1>1. stack # <<>> /\ Top.finalizing
  BY DEF Merged, Finalizing
<1>2. Top.id \in DOMAIN modules /\ Top.path = modules[Top.id].path
  BY <1>1, TopFacts
<1>3. /\ NodesOK(Ready) /\ PathsKept(modules, Ready) /\ DOMAIN Ready = DOMAIN modules
      /\ \A i \in DOMAIN modules : Same(modules[i], Ready[i])
      /\ \A i \in DOMAIN modules : i # Top.id => Ready[i] = modules[i]
  BY ReadySame
<1>4. SharedOK(cache, modules)
  BY DEF IInv
<1>5. Holds(disk, Ready[Top.id], Ready, SourceIn(disk, Top.path, "node"),
                                        SourceIn(disk, Top.path, "import"))
  BY <1>1, <1>2, <1>3, <1>4, TopDone, HoldsKept
<1>6. Ready[Top.id].path = Top.path
  BY <1>2, <1>3 DEF Same
<1>7. \A i \in DOMAIN Ready : Ready[i].ready =>
        \/ i \in DOMAIN modules /\ modules[i].ready /\ Same(modules[i], Ready[i])
        \/ Holds(disk, Ready[i], Ready, SourceIn(disk, Ready[i].path, "node"),
                                        SourceIn(disk, Ready[i].path, "import"))
  BY <1>3, <1>5, <1>6
<1>8. 0 \in 0 .. Len(stack) /\ SameParses(<<>>, stack, 0) /\ 1 .. 0 - 1 = {} /\ ~(0 > 0)
  BY DEF IInv, StackOK, SameParses
<1>9. NodesOK(Ready) /\ ReadyOK(disk, Ready) /\ ParsesOK(disk, <<>>, Ready)
  BY <1>3, <1>4, <1>7, <1>8, ContentKept DEF ContentOK, IInv
<1> QED
  BY <1>9 DEF ContentOK

(* A new parse, at the beginning of its file.                              *)
LEMMA PushContent ==
  ASSUME IInv, ContentOK, NEW how, NEW p \in Path, disk' = disk,
         modules' = Append(modules, NewModule(p)),
         stack' = Append(stack, Activation(how, p, Fresh)),
         stack # <<>> => LinkOK(disk, Top, Activation(how, p, Fresh), modules)
  PROVE  ContentOK'
<1> DEFINE f == Activation(how, p, Fresh)
<1>1. /\ Len(stack) \in Nat /\ DOMAIN stack = 1 .. Len(stack) /\ stack \in Seq(Frame)
      /\ Len(modules) \in Nat /\ DOMAIN modules = 1 .. Len(modules)
      /\ Fresh = Len(modules) + 1 /\ Depth = Len(stack)
  BY TopFacts DEF Depth, Fresh
<1>2. /\ f.path = p /\ f.id = Fresh /\ f.next = 1 /\ ~f.finalizing
  BY DEF Activation
<1>3. /\ DOMAIN modules' = 1 .. Len(modules) + 1
      /\ modules'[Fresh] = NewModule(p) /\ \A i \in DOMAIN modules : modules'[i] = modules[i]
  BY <1>1, HeapAppend, HeapDomain DEF IInv
<1>4. /\ NewModule(p).nodes = <<>> /\ NewModule(p).imports = {} /\ NewModule(p).path = p
      /\ ~NewModule(p).ready
  BY DEF NewModule
<1>5. \A i \in DOMAIN modules' : i \in DOMAIN modules \/ i = Fresh
  BY <1>1, <1>3
<1>6. IsSeq(<<>>)
  BY DEF IsSeq, Elements
<1>7. NodesOK(modules')
  BY <1>3, <1>4, <1>5, <1>6 DEF NodesOK, ContentOK
<1>8. DOMAIN modules \subseteq DOMAIN modules'
  BY <1>1, <1>3
<1>9. PathsKept(modules, modules') /\ \A i \in DOMAIN modules : Same(modules[i], modules'[i])
  BY <1>3, <1>8 DEF PathsKept, Same
<1>10. FrameOK(disk, f, modules')
  <2>1. disk[p].body \in Seq(Statement) /\ Len(disk[p].body) \in Nat
    BY DiskFile, FileFields
  <2>2. 1 \in 1 .. Len(disk[p].body) + 1 /\ 1 .. 1 - 1 = {}
    BY <2>1
  <2>3. Done(disk, p, 1, "node") = {} /\ Done(disk, p, 1, "import") = {}
    BY ONLY <2>2 DEF Done
  <2>4. Holds(disk, NewModule(p), modules', {}, {})
    BY <1>4 DEF Holds
  <2> HIDE DEF f
  <2> QED
    BY <1>2, <1>3, <2>2, <2>3, <2>4 DEF FrameOK
<1> HIDE DEF f
<1>11. /\ Len(stack') = Len(stack) + 1 /\ DOMAIN stack' = 1 .. Len(stack) + 1
       /\ stack'[Len(stack) + 1] = f /\ \A k \in DOMAIN stack : stack'[k] = stack[k]
  <2> DEFINE S == Frame \cup {f}
  <2>1. stack \in Seq(S) /\ f \in S
    BY <1>1
  <2>2. stack' = Append(stack, f)
    BY DEF f
  <2> QED
    BY <1>1, <2>1, <2>2
<1>12. SharedOK(cache, modules) /\ StackOK(stack, modules) /\ ParsesOK(disk, stack, modules)
  BY DEF IInv, ContentOK
<1>13. ReadyOK(disk, modules') /\ ParsesOK(disk, stack, modules')
  <2>1. Len(stack) \in 0 .. Len(stack) /\ SameParses(stack, stack, Len(stack))
    BY <1>1 DEF SameParses
  <2>2. \A k \in DOMAIN stack : /\ stack[k].id \in DOMAIN modules
                                /\ Same(modules[stack[k].id], modules'[stack[k].id])
    BY <1>9, <1>12 DEF StackOK
  <2>3. \A k \in 1 .. Len(stack) - 1 : k \in DOMAIN stack
    BY <1>1
  <2>4. ASSUME Len(stack) > 0
        PROVE  FrameOK(disk, stack[Len(stack)], modules')
    <3>1. Len(stack) \in DOMAIN stack
      BY <1>1, <2>4
    <3> QED
      BY <1>9, <1>12, <2>2, <3>1, FrameKept DEF ParsesOK
  <2>5. \A i \in DOMAIN modules' : modules'[i].ready =>
          i \in DOMAIN modules /\ modules[i].ready /\ Same(modules[i], modules'[i])
    BY <1>3, <1>4, <1>5, <1>9
  <2> QED
    BY <1>7, <1>9, <1>12, <2>1, <2>2, <2>3, <2>4, <2>5, ContentKept DEF ContentOK
<1>14. ParsesOK(disk, stack', modules')
  <2>1. \A k \in DOMAIN stack' : k \in DOMAIN stack \/ k = Len(stack) + 1
    BY <1>1, <1>11
  <2>2. \A k \in DOMAIN stack' : FrameOK(disk, stack'[k], modules')
    BY <1>10, <1>11, <1>13, <2>1 DEF ParsesOK
  <2>3. ASSUME NEW k \in DOMAIN stack', k + 1 \in DOMAIN stack'
        PROVE  LinkOK(disk, stack'[k], stack'[k + 1], modules')
    <3>1. k \in DOMAIN stack
      BY <1>1, <1>11, <2>3
    <3>2. CASE k + 1 \in DOMAIN stack
      BY <1>11, <1>13, <3>1, <3>2 DEF ParsesOK
    <3>3. CASE k + 1 = Len(stack) + 1
      <4>1. k = Depth /\ stack # <<>>
        BY <1>1, <3>1, <3>3
      <4>2. stack'[k] = Top /\ stack'[k + 1] = f
        BY <1>11, <3>1, <3>3, <4>1 DEF Top
      <4>3. Same(modules[Top.id], modules'[Top.id])
        BY <1>9, <4>1, TopFacts
      <4>4. LinkOK(disk, Top, f, modules)
        BY <4>1 DEF f
      <4>5. LinkOK(disk, Top, f, modules')
        BY <4>3, <4>4, LinkKept
      <4> QED
        BY <4>2, <4>5
    <3> QED
      BY <2>1, <2>3, <3>2, <3>3
  <2> QED
    BY <2>2, <2>3 DEF ParsesOK
<1> QED
  BY <1>7, <1>13, <1>14 DEF ContentOK

(* A parse that has dealt with a statement.                                *)
LEMMA FrameAdvances ==
  ASSUME NEW d \in [Path -> File], NEW m, NEW m2, NEW f \in Frame, FrameOK(d, f, m), ~f.finalizing,
         f.next <= Len(d[f.path].body),
         d[f.path].body[f.next].op = "include" => Locate[d[f.path].body[f.next].name] \in Path,
         Holds(d, m2[f.id], m2,
               Done(d, f.path, f.next, "node") \cup Stated(d, f.path, f.next, "node"),
               Done(d, f.path, f.next, "import") \cup Stated(d, f.path, f.next, "import"))
  PROVE  FrameOK(d, [f EXCEPT !.next = @ + 1], m2)
<1> DEFINE g == [f EXCEPT !.next = @ + 1]
           b == d[f.path].body
<1>1. /\ f.path \in Path /\ f.next \in Nat
      /\ g.path = f.path /\ g.id = f.id /\ g.next = f.next + 1 /\ ~g.finalizing
  BY DEF Frame
<1>2. b \in Seq(Statement) /\ Len(b) \in Nat
  BY <1>1, FileFields
<1>3. f.next \in 1 .. Len(b) + 1
  BY DEF FrameOK
<1> HIDE DEF g
<1>4. f.next \in Nat \ {0} /\ g.next \in 1 .. Len(b) + 1
  BY <1>1, <1>2, <1>3
<1>5. ASSUME NEW op
      PROVE  Done(d, g.path, g.next, op) = Done(d, f.path, f.next, op) \cup Stated(d, f.path, f.next, op)
  <2>1. Done(d, f.path, f.next + 1, op) = Done(d, f.path, f.next, op) \cup Stated(d, f.path, f.next, op)
    BY <1>4, DoneStep
  <2> QED
    BY <1>1, <2>1
<1>6. \A j \in 1 .. g.next - 1 : j \in 1 .. f.next - 1 \/ j = f.next
  BY <1>1, <1>4
<1>7. \A j \in 1 .. g.next - 1 : b[j].op = "include" => Locate[b[j].name] \in Path
  BY <1>6 DEF FrameOK
<1>8. FrameOK(d, g, m2)
  BY <1>1, <1>4, <1>5, <1>7 DEF FrameOK
<1> QED
  BY <1>8 DEF g

(* The innermost parse goes on, and perhaps edits its object.              *)
LEMMA MoveContent ==
  ASSUME IInv, ContentOK, stack # <<>>, disk' = disk, SameParses(stack', stack, Depth),
         \A k \in 1 .. Depth - 1 : stack'[k] = stack[k],
         FrameOK(disk, stack'[Depth], modules'),
         DOMAIN modules' = DOMAIN modules, PathsKept(modules, modules'), NodesOK(modules'),
         \A i \in DOMAIN modules : /\ modules'[i].ready = modules[i].ready
                                   /\ i # Top.id => Same(modules[i], modules'[i])
  PROVE  ContentOK'
<1>1. /\ Depth \in Nat /\ Depth \in 0 .. Len(stack) /\ DOMAIN stack = 1 .. Depth
      /\ Top.id \in DOMAIN modules /\ ~modules[Top.id].ready /\ Depth \in DOMAIN stack
  BY TopFacts DEF Depth
<1>2. \A k \in 1 .. Depth - 1 : k \in DOMAIN stack /\ k # Depth
  BY <1>1
<1>3. \A k \in 1 .. Depth - 1 : stack[k].id \in DOMAIN modules /\ stack[k].id # Top.id
  BY <1>1, <1>2 DEF IInv, StackOK, Top
<1>4. \A k \in 1 .. Depth - 1 : stack'[k] = stack[k] /\ Same(modules[stack[k].id], modules'[stack[k].id])
  BY <1>3
<1>5. \A i \in DOMAIN modules' : modules'[i].ready =>
        i \in DOMAIN modules /\ modules[i].ready /\ Same(modules[i], modules'[i])
  BY <1>1
<1>6. SharedOK(cache, modules) /\ StackOK(stack, modules)
      /\ ParsesOK(disk, stack, modules) /\ ReadyOK(disk, modules)
  BY DEF IInv, ContentOK
<1>7. NodesOK(modules') /\ ReadyOK(disk, modules') /\ ParsesOK(disk, stack', modules')
  BY <1>1, <1>4, <1>5, <1>6, ContentKept
<1> QED
  BY <1>7 DEF ContentOK

(* What the innermost parse has, and that it has read no further.          *)
LEMMA TopContent ==
  ASSUME IInv, ContentOK, stack # <<>>
  PROVE  /\ disk \in [Path -> File] /\ Top \in Frame /\ FrameOK(disk, Top, modules)
         /\ Body = disk[Top.path].body /\ DOMAIN Body = 1 .. Len(Body) /\ Len(Body) \in Nat
         /\ Top.id \in DOMAIN modules /\ IsObject(modules[Top.id]) /\ IsSeq(modules[Top.id].nodes)
         /\ SharedOK(cache, modules)
         /\ Holds(disk, modules[Top.id], modules, Done(disk, Top.path, Top.next, "node"),
                                                  Done(disk, Top.path, Top.next, "import"))
<1>1. Top \in Frame
  <2>1. stack \in Seq(Frame) /\ Depth \in DOMAIN stack
    BY TopFacts
  <2> QED
    BY <2>1 DEF Top
<1>2. FrameOK(disk, Top, modules)
  BY TopFacts DEF ContentOK, ParsesOK, Top
<1>3. Body = disk[Top.path].body /\ DOMAIN Body = 1 .. Len(Body) /\ Len(Body) \in Nat
  BY DiskFile, TopFacts, FileFields DEF Body
<1>4. Top.id \in DOMAIN modules /\ IsObject(modules[Top.id]) /\ IsSeq(modules[Top.id].nodes)
  BY TopFacts DEF ContentOK, NodesOK
<1> QED
  BY <1>1, <1>2, <1>3, <1>4, DiskFile DEF FrameOK, IInv

(* The statement at hand has been dealt with, in the object r.             *)
LEMMA AdvanceContent ==
  ASSUME IInv, ContentOK, Reading, Top.next \in DOMAIN Body, disk' = disk, stack' = Advanced,
         Current.op # "include",
         NEW r, IsObject(r), modules' = [modules EXCEPT ![Top.id] = r],
         r.path = modules[Top.id].path, r.ready = modules[Top.id].ready, IsSeq(r.nodes),
         Holds(disk, r, modules',
               Done(disk, Top.path, Top.next, "node") \cup Stated(disk, Top.path, Top.next, "node"),
               Done(disk, Top.path, Top.next, "import") \cup Stated(disk, Top.path, Top.next, "import"))
  PROVE  ContentOK'
<1>1. stack # <<>> /\ ~Top.finalizing
  BY DEF Reading
<1>2. /\ disk \in [Path -> File] /\ Top \in Frame /\ FrameOK(disk, Top, modules)
      /\ Body = disk[Top.path].body /\ DOMAIN Body = 1 .. Len(Body) /\ Len(Body) \in Nat
      /\ Top.id \in DOMAIN modules
  BY <1>1, TopContent
<1>3. /\ DOMAIN modules' = DOMAIN modules /\ modules'[Top.id] = r
      /\ \A i \in DOMAIN modules : i # Top.id => modules'[i] = modules[i]
  BY <1>2
<1>4. /\ PathsKept(modules, modules') /\ NodesOK(modules')
      /\ \A i \in DOMAIN modules : /\ modules'[i].ready = modules[i].ready
                                   /\ i # Top.id => Same(modules[i], modules'[i])
  BY <1>3 DEF PathsKept, NodesOK, Same, ContentOK
<1>5. Top.next <= Len(Body)
  BY <1>2
<1>6. FrameOK(disk, [Top EXCEPT !.next = @ + 1], modules')
  BY <1>1, <1>2, <1>3, <1>5, FrameAdvances DEF Current
<1>7. SameParses(stack', stack, Depth)
  BY <1>1, SameStack
<1>8. /\ stack'[Depth] = [Top EXCEPT !.next = @ + 1]
      /\ \A k \in 1 .. Depth - 1 : stack'[k] = stack[k]
  <2>1. Depth \in DOMAIN stack /\ \A k \in 1 .. Depth - 1 : k \in DOMAIN stack /\ k # Depth
    BY <1>1, TopFacts
  <2> QED
    BY <2>1 DEF Advanced, Top
<1> QED
  BY <1>1, <1>3, <1>4, <1>6, <1>7, <1>8, MoveContent

(* A statement without a call: a node is appended, a merged augment kept.  *)
LEMMA ReadStatementContent ==
  ASSUME IInv, ContentOK, ReadStatement
  PROVE  ContentOK'
<1>1. /\ Reading /\ stack # <<>> /\ Top.next \in DOMAIN Body /\ disk' = disk /\ stack' = Advanced
      /\ Current.op \in {"node", "define", "augment"}
  BY DEF ReadStatement, At, Reading
<1>2. /\ Top.id \in DOMAIN modules /\ IsObject(modules[Top.id]) /\ IsSeq(modules[Top.id].nodes)
      /\ Holds(disk, modules[Top.id], modules, Done(disk, Top.path, Top.next, "node"),
                                               Done(disk, Top.path, Top.next, "import"))
      /\ SharedOK(cache, modules)
  BY <1>1, TopContent
<1>3. Current = disk[Top.path].body[Top.next]
  BY DEF Current, Body
<1>4. /\ Stated(disk, Top.path, Top.next, "import") = {}
      /\ Stated(disk, Top.path, Top.next, "node") = IF Current.op = "node" THEN {Current} ELSE {}
  BY <1>1, <1>3 DEF Stated
<1>5. \E r : /\ modules' = [modules EXCEPT ![Top.id] = r]
             /\ IsObject(r) /\ r.path = modules[Top.id].path /\ r.ready = modules[Top.id].ready
             /\ r.imports = modules[Top.id].imports
             /\ IsSeq(r.nodes) /\ Elements(modules[Top.id].nodes) \subseteq Elements(r.nodes)
             /\ Current.op = "node" => Current.node \in Elements(r.nodes)
  <2>1. CASE Current.op = "node"
    <3> DEFINE r == [modules[Top.id] EXCEPT !.nodes = Append(@, Current.node)]
    <3>1. modules' = [modules EXCEPT ![Top.id] = r]
      BY <2>1 DEF ReadStatement
    <3>2. /\ IsObject(r) /\ r.path = modules[Top.id].path /\ r.ready = modules[Top.id].ready
          /\ r.imports = modules[Top.id].imports
          /\ r.nodes = Append(modules[Top.id].nodes, Current.node)
      BY <1>2 DEF IsObject
    <3> HIDE DEF r
    <3>3. /\ IsSeq(r.nodes) /\ Elements(modules[Top.id].nodes) \subseteq Elements(r.nodes)
          /\ Current.node \in Elements(r.nodes)
      BY <1>2, <3>2, AppendElements
    <3> QED
      BY <3>1, <3>2, <3>3
  <2>2. CASE Current.op = "define"
    <3> DEFINE r == [modules[Top.id] EXCEPT !.defines = @ \cup {Current.node}]
    <3>1. modules' = [modules EXCEPT ![Top.id] = r]
      BY <2>2 DEF ReadStatement
    <3>2. /\ IsObject(r) /\ r.path = modules[Top.id].path /\ r.ready = modules[Top.id].ready
          /\ r.imports = modules[Top.id].imports /\ r.nodes = modules[Top.id].nodes
      BY <1>2 DEF IsObject
    <3> HIDE DEF r
    <3> QED
      BY <1>2, <2>2, <3>1, <3>2
  <2>3. CASE Current.op = "augment"
    <3> DEFINE r == [modules[Top.id] EXCEPT !.augments = Append(@, Current)]
    <3>1. modules' = [modules EXCEPT ![Top.id] = r]
      BY <2>3 DEF ReadStatement
    <3>2. /\ IsObject(r) /\ r.path = modules[Top.id].path /\ r.ready = modules[Top.id].ready
          /\ r.imports = modules[Top.id].imports /\ r.nodes = modules[Top.id].nodes
      BY <1>2 DEF IsObject
    <3> HIDE DEF r
    <3> QED
      BY <1>2, <2>3, <3>1, <3>2
  <2> QED
    BY <1>1, <2>1, <2>2, <2>3
<1>6. PICK r : /\ modules' = [modules EXCEPT ![Top.id] = r]
               /\ IsObject(r) /\ r.path = modules[Top.id].path /\ r.ready = modules[Top.id].ready
               /\ r.imports = modules[Top.id].imports
               /\ IsSeq(r.nodes) /\ Elements(modules[Top.id].nodes) \subseteq Elements(r.nodes)
               /\ Current.op = "node" => Current.node \in Elements(r.nodes)
  BY <1>5
<1>7. /\ PathsKept(modules, modules') /\ modules'[Top.id] = r /\ Same(modules[Top.id], modules'[Top.id])
  BY <1>2, <1>6 DEF PathsKept, Same
<1>8. Holds(disk, r, modules', Done(disk, Top.path, Top.next, "node"),
                               Done(disk, Top.path, Top.next, "import"))
  BY <1>2, <1>7, HoldsKept
<1>9. Holds(disk, r, modules',
            Done(disk, Top.path, Top.next, "node") \cup Stated(disk, Top.path, Top.next, "node"),
            Done(disk, Top.path, Top.next, "import") \cup Stated(disk, Top.path, Top.next, "import"))
  BY <1>4, <1>6, <1>8 DEF Holds
<1> QED
  BY <1>1, <1>6, <1>9, AdvanceContent

(* A prefix that was free is bound to an object of the name that the       *)
(* import s states.                                                        *)
LEMMA HoldsImport ==
  ASSUME NEW d, NEW m, NEW m2, NEW c, SharedOK(c, m), PathsKept(m, m2), NEW i \in DOMAIN m,
         NEW N, NEW I, Holds(d, m[i], m, N, I), NEW s, s.prefix # d[m[i].path].prefix,
         \A b \in m[i].imports : b[1] # s.prefix,
         NEW j, d[m2[j].path].name = s.name,
         NEW r, r.path = m[i].path, r.imports = m[i].imports \cup {<<s.prefix, j>>},
         Elements(m[i].nodes) \subseteq Elements(r.nodes)
  PROVE  Holds(d, r, m2, N, I \cup {s})
<1> DEFINE x == <<s.prefix, j>>
<1>1. x[1] = s.prefix /\ x[2] = j
  OBVIOUS
<1> HIDE DEF x
<1>2. r.imports = m[i].imports \cup {x}
  BY DEF x
<1>3. \A b \in m[i].imports : m2[b[2]].path = m[b[2]].path
  BY DEF SharedOK, PathsKept
<1>4. \A t \in N : t.node \in Elements(r.nodes)
  BY DEF Holds
<1>5. \A t \in I \cup {s} : t.prefix # d[r.path].prefix =>
        \E b \in r.imports : b[1] = t.prefix /\ d[m2[b[2]].path].name = t.name
  <2>1. \A t \in I : t.prefix # d[r.path].prefix =>
          \E b \in m[i].imports : b[1] = t.prefix /\ d[m2[b[2]].path].name = t.name
    BY <1>3 DEF Holds
  <2> QED
    BY <1>1, <1>2, <2>1
<1>6. \A b \in r.imports :
        \E t \in I \cup {s} : /\ t.prefix # d[r.path].prefix
                              /\ b[1] = t.prefix /\ d[m2[b[2]].path].name = t.name
  <2>1. \A b \in m[i].imports :
          \E t \in I : /\ t.prefix # d[r.path].prefix
                       /\ b[1] = t.prefix /\ d[m2[b[2]].path].name = t.name
    BY <1>3 DEF Holds
  <2> QED
    BY <1>1, <1>2, <2>1
<1>7. \A b, e \in r.imports : b[1] = e[1] => b = e
  BY <1>1, <1>2 DEF Holds
<1> QED
  BY <1>4, <1>5, <1>6, <1>7 DEF Holds

(* The import of a cached file binds the prefix.                           *)
LEMMA BindCachedContent ==
  ASSUME IInv, ContentOK, BindCached
  PROVE  ContentOK'
<1> DEFINE j == cache[Target]
           r == [modules[Top.id] EXCEPT !.imports = @ \cup {<<Current.prefix, j>>}]
<1>1. /\ Reading /\ stack # <<>> /\ Top.next \in DOMAIN Body /\ disk' = disk /\ stack' = Advanced
      /\ Current.op = "import" /\ ~ImportRefused /\ j # 0 /\ Target # NoPath
      /\ modules' = [modules EXCEPT ![Top.id] = r]
  BY DEF BindCached, At, Reading, Bind, ImportRefused
<1>2. /\ Top.id \in DOMAIN modules /\ IsObject(modules[Top.id]) /\ IsSeq(modules[Top.id].nodes)
      /\ Holds(disk, modules[Top.id], modules, Done(disk, Top.path, Top.next, "node"),
                                               Done(disk, Top.path, Top.next, "import"))
      /\ SharedOK(cache, modules)
  BY <1>1, TopContent
<1>3. Current = disk[Top.path].body[Top.next]
  BY DEF Current, Body
<1>4. /\ Stated(disk, Top.path, Top.next, "import") = {Current}
      /\ Stated(disk, Top.path, Top.next, "node") = {}
  BY <1>1, <1>3 DEF Stated
<1>5. /\ IsObject(r) /\ r.path = modules[Top.id].path /\ r.ready = modules[Top.id].ready
      /\ r.imports = modules[Top.id].imports \cup {<<Current.prefix, j>>}
      /\ r.nodes = modules[Top.id].nodes
  BY <1>2 DEF IsObject
<1> HIDE DEF r, j
<1>6. /\ PathsKept(modules, modules') /\ modules'[Top.id] = r
  BY <1>1, <1>2, <1>5 DEF PathsKept
<1>7. Target \in Path
  BY <1>1, TargetPath DEF At
<1>8. j \in DOMAIN modules /\ NameOf(j) = Current.name
  <2>1. DOMAIN modules = 1 .. Len(modules) /\ Len(modules) \in Nat
    BY TopFacts
  <2> QED
    BY <1>1, <1>7, <2>1 DEF IInv, CacheOK, ImportRefused, j
<1>9. disk[modules'[j].path].name = Current.name
  BY <1>6, <1>8 DEF PathsKept, NameOf
<1>10. Current.prefix # disk[modules[Top.id].path].prefix
       /\ \A b \in modules[Top.id].imports : b[1] # Current.prefix
  BY <1>1 DEF ImportRefused, Own, Bound
<1>11. Holds(disk, r, modules', Done(disk, Top.path, Top.next, "node"),
                                Done(disk, Top.path, Top.next, "import") \cup {Current})
  BY <1>2, <1>5, <1>6, <1>9, <1>10, HoldsImport
<1>12. Holds(disk, r, modules',
             Done(disk, Top.path, Top.next, "node") \cup Stated(disk, Top.path, Top.next, "node"),
             Done(disk, Top.path, Top.next, "import") \cup Stated(disk, Top.path, Top.next, "import"))
  BY <1>4, <1>11
<1> QED
  BY <1>1, <1>2, <1>5, <1>12, AdvanceContent

(* Expansion begins when the file has been read to its end.                *)
LEMMA ExpandUsesContent ==
  ASSUME IInv, ContentOK, ExpandUses
  PROVE  ContentOK'
<1>1. /\ stack # <<>> /\ Top.next \notin DOMAIN Body /\ UNCHANGED <<disk, modules>>
      /\ stack' = [stack EXCEPT ![Depth].finalizing = TRUE]
  BY DEF ExpandUses, AtEnd, Reading
<1>2. /\ disk \in [Path -> File] /\ Top \in Frame /\ FrameOK(disk, Top, modules)
      /\ Body = disk[Top.path].body /\ DOMAIN Body = 1 .. Len(Body) /\ Len(Body) \in Nat
      /\ Top.id \in DOMAIN modules
  BY <1>1, TopContent
<1> DEFINE g == [Top EXCEPT !.finalizing = TRUE]
<1>3. g.path = Top.path /\ g.id = Top.id /\ g.next = Top.next
  BY <1>2 DEF Frame
<1>4. Depth \in DOMAIN stack /\ Depth = Len(stack) /\ stack \in Seq(Frame)
      /\ \A k \in 1 .. Depth - 1 : k \in DOMAIN stack /\ k # Depth
  BY <1>1, TopFacts DEF Depth
<1>5. stack' = [stack EXCEPT ![Depth] = g]
  BY <1>1, <1>4 DEF Top
<1> HIDE DEF g
<1>6. Top.next = Len(Body) + 1
  BY <1>1, <1>2 DEF FrameOK
<1>7. FrameOK(disk, g, modules)
  BY <1>2, <1>3, <1>6 DEF FrameOK
<1>8. SameParses(stack', stack, Depth)
  BY <1>1, <1>4, Moved
<1>9. stack'[Depth] = g /\ \A k \in 1 .. Depth - 1 : stack'[k] = stack[k]
  BY <1>4, <1>5
<1>10. PathsKept(modules, modules) /\ \A i \in DOMAIN modules : Same(modules[i], modules[i])
  BY DEF PathsKept, Same
<1> QED
  BY <1>1, <1>7, <1>8, <1>9, <1>10, MoveContent DEF ContentOK

(* The target is edited first, then the module that states the augment.    *)
LEMMA MergeAugmentContent ==
  ASSUME IInv, ContentOK, MergeAugment
  PROVE  ContentOK'
<1>1. stack # <<>> /\ stack' = stack /\ disk' = disk
  BY DEF MergeAugment, Finalizing
<1>2. PICK i \in AugmentTargets :
        modules' = [modules EXCEPT ![i].nodes = Append(@, Augment.node),
                                   ![Top.id].augments = Tail(@)]
  BY DEF MergeAugment
<1>3. Top.id \in DOMAIN modules /\ Heap(modules)
  BY <1>1, TopFacts DEF IInv
<1>4. i \in DOMAIN modules
  BY <1>3 DEF AugmentTargets, Resolved, Bound, IInv, SharedOK
<1> DEFINE r == [modules[i] EXCEPT !.nodes = Append(@, Augment.node)]
<1>5. PICK n : n = [modules EXCEPT ![i] = r]
  OBVIOUS
<1>6. IsObject(modules[i]) /\ IsSeq(modules[i].nodes)
  BY <1>3, <1>4 DEF Heap, ContentOK, NodesOK
<1>7. /\ IsObject(r) /\ r.path = modules[i].path /\ r.imports = modules[i].imports
      /\ r.ready = modules[i].ready /\ r.nodes = Append(modules[i].nodes, Augment.node)
  BY <1>6 DEF IsObject
<1> DEFINE u == [n[Top.id] EXCEPT !.augments = Tail(@)]
<1>8. modules' = [n EXCEPT ![Top.id] = u]
  BY <1>2, <1>3, <1>4, <1>5
<1> HIDE DEF r
<1>9. IsSeq(r.nodes) /\ Same(modules[i], r)
  BY <1>6, <1>7, AppendElements DEF Same
<1>10. /\ DOMAIN n = DOMAIN modules /\ n[i] = r
       /\ \A k \in DOMAIN modules : k # i => n[k] = modules[k]
  BY <1>4, <1>5
<1>11. \A k \in DOMAIN modules : /\ n[k].ready = modules[k].ready /\ Same(modules[k], n[k])
                                 /\ IsSeq(n[k].nodes) /\ IsObject(n[k])
  BY <1>3, <1>7, <1>9, <1>10, SameObject DEF ContentOK, NodesOK, Heap
<1>12. /\ u.path = n[Top.id].path /\ u.imports = n[Top.id].imports
       /\ u.ready = n[Top.id].ready /\ u.nodes = n[Top.id].nodes
  BY <1>3, <1>11 DEF IsObject
<1> HIDE DEF u
<1>13. /\ DOMAIN modules' = DOMAIN modules /\ modules'[Top.id] = u
       /\ \A k \in DOMAIN modules : k # Top.id => modules'[k] = n[k]
  BY <1>3, <1>8, <1>10
<1>14. \A k \in DOMAIN modules : /\ modules'[k].ready = modules[k].ready
                                 /\ Same(modules[k], modules'[k]) /\ IsSeq(modules'[k].nodes)
  BY <1>11, <1>12, <1>13 DEF Same
<1>15. PathsKept(modules, modules') /\ NodesOK(modules')
  BY <1>13, <1>14 DEF PathsKept, NodesOK, Same
<1>16. /\ Depth \in DOMAIN stack /\ SameParses(stack', stack, Depth)
       /\ \A k \in 1 .. Depth - 1 : stack'[k] = stack[k]
  BY <1>1, TopFacts, SameStack
<1>17. FrameOK(disk, stack'[Depth], modules')
  <2>1. FrameOK(disk, Top, modules) /\ SharedOK(cache, modules)
    BY <1>1, TopContent
  <2>2. FrameOK(disk, Top, modules')
    BY <1>3, <1>14, <1>15, <2>1, FrameKept
  <2> QED
    BY <1>1, <2>2 DEF Top
<1> QED
  BY <1>1, <1>13, <1>14, <1>15, <1>16, <1>17, MoveContent

(* The import of a file that is not cached begins a parse.                 *)
LEMMA LoadImportContent ==
  ASSUME IInv, ContentOK, LoadImport
  PROVE  ContentOK'
<1>1. /\ stack # <<>> /\ ~Top.finalizing /\ Top.next \in DOMAIN Body /\ At("import")
      /\ Current.op = "import" /\ ~ImportRefused /\ Target # NoPath /\ disk' = disk
      /\ modules' = Append(modules, NewModule(Target))
      /\ stack' = Append(stack, Activation("import", Target, Fresh))
  BY DEF LoadImport, ImportRefused, At, Reading
<1>2. Target \in Path
  BY <1>1, TargetPath
<1>3. /\ Body = disk[Top.path].body /\ DOMAIN Body = 1 .. Len(Body) /\ Len(Body) \in Nat
      /\ Top.path = modules[Top.id].path
  BY <1>1, TopContent, TopFacts
<1>4. Top.next <= Len(Body)
  BY <1>1, <1>3
<1>5. LinkOK(disk, Top, Activation("import", Target, Fresh), modules)
  BY <1>1, <1>3, <1>4 DEF LinkOK, Activation, Target, Current, ImportRefused, Own, Bound
<1> QED
  BY <1>1, <1>2, <1>5, PushContent

(* So does an include.                                                     *)
LEMMA LoadIncludeContent ==
  ASSUME IInv, ContentOK, LoadInclude
  PROVE  ContentOK'
<1>1. /\ stack # <<>> /\ ~Top.finalizing /\ Top.next \in DOMAIN Body /\ At("include")
      /\ Current.op = "include" /\ Target # NoPath /\ disk' = disk
      /\ modules' = Append(modules, NewModule(Target))
      /\ stack' = Append(stack, Activation("include", Target, Fresh))
  BY DEF LoadInclude, At, Reading
<1>2. Target \in Path
  BY <1>1, TargetPath
<1>3. Body = disk[Top.path].body /\ DOMAIN Body = 1 .. Len(Body) /\ Len(Body) \in Nat
  BY <1>1, TopContent
<1>4. Top.next <= Len(Body)
  BY <1>1, <1>3
<1>5. LinkOK(disk, Top, Activation("include", Target, Fresh), modules)
  BY <1>1, <1>3, <1>4 DEF LinkOK, Activation, Target, Current
<1> QED
  BY <1>1, <1>2, <1>5, PushContent

(* And a call of parse_file or parse_string.                               *)
LEMMA CallContent ==
  ASSUME IInv, ContentOK, NEW p \in Path, ParseFile(p) \/ ParseString(p)
  PROVE  ContentOK'
<1>1. PICK how \in {"file", "string"} : Call(how, p)
  BY DEF ParseFile, ParseString
<1>2. stack = <<>>
  BY <1>1 DEF Call, IInv, CallsOK
<1>3. stack' = Append(stack, Activation(how, p, Fresh)) /\ disk' = disk
      /\ modules' = Append(modules, NewModule(p))
  BY <1>1, <1>2 DEF Call
<1> QED
  BY <1>2, <1>3, PushContent

(* The parse below the innermost one waits at what began that.             *)
LEMMA CallerContent ==
  ASSUME IInv, ContentOK, stack # <<>>, Top.how \in {"import", "include"}
  PROVE  /\ Caller \in Frame /\ FrameOK(disk, Caller, modules) /\ LinkOK(disk, Caller, Top, modules)
         /\ Caller.path = modules[Caller.id].path
         /\ Holds(disk, modules[Caller.id], modules, Done(disk, Caller.path, Caller.next, "node"),
                                                     Done(disk, Caller.path, Caller.next, "import"))
<1>1. /\ Depth \in Nat /\ Depth - 1 \in DOMAIN stack /\ Depth \in DOMAIN stack
      /\ (Depth - 1) + 1 = Depth /\ stack \in Seq(Frame)
  BY CallerFacts, TopFacts
<1>2. Caller \in Frame
  BY <1>1 DEF Caller
<1>3. FrameOK(disk, Caller, modules) /\ LinkOK(disk, Caller, Top, modules)
  <2>1. ParsesOK(disk, stack, modules)
    BY DEF ContentOK
  <2>2. \A k \in DOMAIN stack : k + 1 \in DOMAIN stack => LinkOK(disk, stack[k], stack[k + 1], modules)
    BY <2>1 DEF ParsesOK
  <2>3. LinkOK(disk, stack[Depth - 1], stack[(Depth - 1) + 1], modules)
    BY <1>1, <2>2
  <2>4. LinkOK(disk, stack[Depth - 1], stack[Depth], modules)
    BY <1>1, <2>3
  <2> QED
    BY <1>1, <2>1, <2>4 DEF ParsesOK, Caller, Top
<1>4. Caller.path = modules[Caller.id].path
  BY <1>1 DEF IInv, StackOK, Caller
<1> QED
  BY <1>2, <1>3, <1>4 DEF FrameOK

(* A parse ends, and the one below has dealt with its statement.           *)
LEMMA PopContent ==
  ASSUME IInv, ContentOK, stack # <<>>, Top.how \in {"import", "include"}, disk' = disk,
         stack' = [SubSeq(stack, 1, Depth - 1) EXCEPT ![Depth - 1].next = @ + 1],
         DOMAIN modules' = DOMAIN modules, PathsKept(modules, modules'), NodesOK(modules'),
         Holds(disk, modules'[Caller.id], modules',
               Done(disk, Caller.path, Caller.next, "node")
                 \cup Stated(disk, Caller.path, Caller.next, "node"),
               Done(disk, Caller.path, Caller.next, "import")
                 \cup Stated(disk, Caller.path, Caller.next, "import")),
         \A i \in DOMAIN modules : i # Top.id /\ i # Caller.id => Same(modules[i], modules'[i]),
         \A i \in DOMAIN modules : modules'[i].ready =>
           \/ modules[i].ready /\ Same(modules[i], modules'[i])
           \/ Holds(disk, modules'[i], modules', SourceIn(disk, modules'[i].path, "node"),
                                                 SourceIn(disk, modules'[i].path, "import"))
  PROVE  ContentOK'
<1>1. /\ Depth \in Nat /\ Depth = Len(stack) /\ Depth >= 2 /\ stack \in Seq(Frame)
      /\ Depth - 1 \in 0 .. Len(stack) /\ Depth - 1 \in DOMAIN stack /\ DOMAIN stack = 1 .. Depth
  BY CallerFacts, TopFacts
<1>2. /\ disk \in [Path -> File] /\ Caller \in Frame /\ FrameOK(disk, Caller, modules)
      /\ LinkOK(disk, Caller, Top, modules)
  BY CallerContent, DiskFile
<1>3. Top.path \in Path
  BY TopFacts
<1>4. FrameOK(disk, [Caller EXCEPT !.next = @ + 1], modules')
  BY <1>2, <1>3, FrameAdvances DEF LinkOK
<1>5. SameParses(stack', stack, Depth - 1)
  BY <1>1, Popped
<1>6. /\ stack'[Depth - 1] = [Caller EXCEPT !.next = @ + 1]
      /\ \A k \in 1 .. (Depth - 1) - 1 : stack'[k] = stack[k]
  <2>1. PICK u : u = SubSeq(stack, 1, Depth - 1)
    OBVIOUS
  <2>2. Depth - 1 \in Nat /\ Len(stack) = (Depth - 1) + 1
    BY <1>1
  <2>3. u \in Seq(Frame) /\ Len(u) = Depth - 1 /\ \A k \in 1 .. Depth - 1 : u[k] = stack[k]
    BY <1>1, <2>1, <2>2, DropLast
  <2>4. Depth - 1 \in 1 .. Depth - 1 /\ DOMAIN u = 1 .. Depth - 1
    BY <1>1, <2>3
  <2>5. stack' = [u EXCEPT ![Depth - 1].next = @ + 1]
    BY <2>1
  <2>6. \A k \in 1 .. (Depth - 1) - 1 : k \in 1 .. Depth - 1 /\ k # Depth - 1
    BY <1>1
  <2> QED
    BY <2>3, <2>4, <2>5, <2>6 DEF Caller
<1>7. \A k \in 1 .. (Depth - 1) - 1 : Same(modules[stack[k].id], modules'[stack[k].id])
  <2>1. \A k \in 1 .. (Depth - 1) - 1 :
          k \in DOMAIN stack /\ k # Depth /\ k # Depth - 1 /\ Depth \in DOMAIN stack
    BY <1>1
  <2>2. \A k \in 1 .. (Depth - 1) - 1 :
          stack[k].id \in DOMAIN modules /\ stack[k].id # Top.id /\ stack[k].id # Caller.id
    BY <1>1, <2>1 DEF IInv, StackOK, Top, Caller
  <2> QED
    BY <2>2
<1>8. SharedOK(cache, modules) /\ StackOK(stack, modules)
      /\ ParsesOK(disk, stack, modules) /\ ReadyOK(disk, modules)
  BY DEF IInv, ContentOK
<1>9. PICK n : n = Depth - 1
  OBVIOUS
<1>10. /\ \A k \in 1 .. n - 1 : stack'[k] = stack[k] /\ Same(modules[stack[k].id], modules'[stack[k].id])
       /\ FrameOK(disk, stack'[n], modules') /\ n \in 0 .. Len(stack) /\ SameParses(stack', stack, n)
  BY <1>1, <1>4, <1>5, <1>6, <1>7, <1>9
<1>11. \A i \in DOMAIN modules' : modules'[i].ready =>
         \/ i \in DOMAIN modules /\ modules[i].ready /\ Same(modules[i], modules'[i])
         \/ Holds(disk, modules'[i], modules', SourceIn(disk, modules'[i].path, "node"),
                                               SourceIn(disk, modules'[i].path, "import"))
  OBVIOUS
<1>12. NodesOK(modules') /\ PathsKept(modules, modules')
  OBVIOUS
<1>13. NodesOK(modules') /\ ReadyOK(disk, modules') /\ ParsesOK(disk, stack', modules')
  BY ONLY <1>8, <1>10, <1>11, <1>12, ContentKept
<1> QED
  BY <1>13 DEF ContentOK

(* The imported module is finished, and its importer binds it.             *)
LEMMA ReturnImportContent ==
  ASSUME IInv, ContentOK, ReturnImport
  PROVE  ContentOK'
<1>1. /\ Merged /\ Top.how = "import" /\ NameOf(Top.id) = Expected.name /\ disk' = disk
      /\ modules' = [Ready EXCEPT ![Caller.id].imports = @ \cup {<<Expected.prefix, Top.id>>}]
      /\ stack' = [SubSeq(stack, 1, Depth - 1) EXCEPT ![Depth - 1].next = @ + 1]
  BY DEF ReturnImport
<1>2. stack # <<>> /\ Top.finalizing
  BY <1>1 DEF Merged, Finalizing
<1>3. /\ Caller.id \in DOMAIN modules /\ Top.id \in DOMAIN modules /\ Caller.id # Top.id
      /\ ~modules[Caller.id].ready /\ IsObject(modules[Caller.id]) /\ Top.path = modules[Top.id].path
  BY <1>1, <1>2, CallerFacts, TopFacts
<1>4. /\ NodesOK(Ready) /\ PathsKept(modules, Ready) /\ DOMAIN Ready = DOMAIN modules
      /\ \A i \in DOMAIN modules : Same(modules[i], Ready[i])
      /\ \A i \in DOMAIN modules : i # Top.id => Ready[i] = modules[i]
  BY <1>1, ReadySame
<1> DEFINE r == [modules[Caller.id] EXCEPT !.imports = @ \cup {<<Expected.prefix, Top.id>>}]
<1>5. modules' = [Ready EXCEPT ![Caller.id] = r]
  BY <1>1, <1>3, <1>4
<1>6. /\ r.path = modules[Caller.id].path /\ ~r.ready /\ r.nodes = modules[Caller.id].nodes
      /\ r.imports = modules[Caller.id].imports \cup {<<Expected.prefix, Top.id>>}
  BY <1>3 DEF IsObject
<1> HIDE DEF r
<1>7. /\ DOMAIN modules' = DOMAIN modules /\ modules'[Caller.id] = r
      /\ \A i \in DOMAIN modules : i # Caller.id => modules'[i] = Ready[i]
  BY <1>3, <1>4, <1>5
<1>8. \A i \in DOMAIN modules : i # Caller.id => Same(modules[i], modules'[i])
  BY <1>4, <1>7
<1>9. PathsKept(modules, modules')
  BY <1>6, <1>7, <1>8 DEF PathsKept, Same
<1>10. NodesOK(modules')
  BY <1>3, <1>4, <1>6, <1>7 DEF NodesOK, ContentOK
<1>11. SharedOK(cache, modules)
  BY DEF IInv
<1>12. /\ LinkOK(disk, Caller, Top, modules) /\ Caller.path = modules[Caller.id].path
       /\ Holds(disk, modules[Caller.id], modules, Done(disk, Caller.path, Caller.next, "node"),
                                                   Done(disk, Caller.path, Caller.next, "import"))
  BY <1>1, <1>2, CallerContent
<1>13. Expected = disk[Caller.path].body[Caller.next]
  BY DEF Expected
<1>14. /\ Expected.op = "import" /\ Expected.prefix # disk[modules[Caller.id].path].prefix
       /\ \A b \in modules[Caller.id].imports : b[1] # Expected.prefix
  BY <1>1, <1>12, <1>13 DEF LinkOK
<1>15. /\ Stated(disk, Caller.path, Caller.next, "import") = {Expected}
       /\ Stated(disk, Caller.path, Caller.next, "node") = {}
  BY <1>13, <1>14 DEF Stated
<1>16. disk[modules'[Top.id].path].name = Expected.name
  BY <1>1, <1>3, <1>9 DEF PathsKept, NameOf
<1>17. Elements(modules[Caller.id].nodes) \subseteq Elements(r.nodes)
  BY <1>6
<1>18. Holds(disk, r, modules', Done(disk, Caller.path, Caller.next, "node"),
                                Done(disk, Caller.path, Caller.next, "import") \cup {Expected})
  BY <1>3, <1>6, <1>9, <1>11, <1>12, <1>14, <1>16, <1>17, HoldsImport
<1>19. Holds(disk, modules'[Caller.id], modules',
             Done(disk, Caller.path, Caller.next, "node")
               \cup Stated(disk, Caller.path, Caller.next, "node"),
             Done(disk, Caller.path, Caller.next, "import")
               \cup Stated(disk, Caller.path, Caller.next, "import"))
  BY <1>7, <1>15, <1>18
<1>20. Holds(disk, modules'[Top.id], modules', SourceIn(disk, Top.path, "node"),
                                               SourceIn(disk, Top.path, "import"))
  <2>1. Holds(disk, modules[Top.id], modules, SourceIn(disk, Top.path, "node"),
                                              SourceIn(disk, Top.path, "import"))
    BY <1>2, TopDone
  <2>2. Same(modules[Top.id], modules'[Top.id])
    BY <1>3, <1>8
  <2> QED
    BY <1>3, <1>9, <1>11, <2>1, <2>2, HoldsKept
<1>21. \A i \in DOMAIN modules : modules'[i].ready =>
         \/ modules[i].ready /\ Same(modules[i], modules'[i])
         \/ Holds(disk, modules'[i], modules', SourceIn(disk, modules'[i].path, "node"),
                                               SourceIn(disk, modules'[i].path, "import"))
  <2>1. \A i \in DOMAIN modules : i # Top.id /\ i # Caller.id => modules'[i] = modules[i]
    BY <1>4, <1>7
  <2>2. modules'[Top.id].path = Top.path
    BY <1>3, <1>9 DEF PathsKept
  <2> QED
    BY <1>6, <1>7, <1>8, <1>20, <2>1, <2>2
<1>22. Top.how \in {"import", "include"}
  BY <1>1
<1> QED
  BY ONLY IInv, ContentOK, <1>1, <1>2, <1>7, <1>8, <1>9, <1>10, <1>19, <1>21, <1>22, PopContent

(* The imports of a submodule are taken over, but for prefixes in use.     *)
LEMMA HoldsMerge ==
  ASSUME NEW d, NEW m, NEW m2, NEW c, SharedOK(c, m), PathsKept(m, m2),
         NEW i \in DOMAIN m, NEW N, NEW I, Holds(d, m[i], m, N, I),
         NEW j \in DOMAIN m, NEW N2, NEW I2, Holds(d, m[j], m, N2, I2),
         \A t \in I2 : t.prefix # d[m[j].path].prefix,
         NEW own, own = d[m[i].path].prefix,
         \A b \in m[j].imports, e \in m[i].imports :
           b[1] # own /\ e[1] = b[1] => d[m[e[2]].path].name = d[m[b[2]].path].name,
         NEW r, r.path = m[i].path,
         r.imports = m[i].imports \cup
                       {b \in m[j].imports : b[1] # own /\ ~\E e \in m[i].imports : e[1] = b[1]},
         Elements(m[i].nodes) \subseteq Elements(r.nodes),
         Elements(m[j].nodes) \subseteq Elements(r.nodes)
  PROVE  Holds(d, r, m2, N \cup N2, I \cup I2)
<1> DEFINE T == {b \in m[j].imports : b[1] # own /\ ~\E e \in m[i].imports : e[1] = b[1]}
<1>1. /\ \A b \in m[i].imports : m2[b[2]].path = m[b[2]].path
      /\ \A b \in m[j].imports : m2[b[2]].path = m[b[2]].path
  BY DEF SharedOK, PathsKept
<1>2. \A s \in N \cup N2 : s.node \in Elements(r.nodes)
  BY DEF Holds
<1>3. \A t \in I : t.prefix # own =>
        \E b \in r.imports : b[1] = t.prefix /\ d[m2[b[2]].path].name = t.name
  BY <1>1 DEF Holds
<1>4. ASSUME NEW t \in I2, t.prefix # own
      PROVE  \E b \in r.imports : b[1] = t.prefix /\ d[m2[b[2]].path].name = t.name
  <2>1. PICK b \in m[j].imports : b[1] = t.prefix /\ d[m[b[2]].path].name = t.name
    BY DEF Holds
  <2>2. CASE \E e \in m[i].imports : e[1] = b[1]
    BY <1>1, <1>4, <2>1, <2>2
  <2>3. CASE ~\E e \in m[i].imports : e[1] = b[1]
    BY <1>1, <1>4, <2>1, <2>3
  <2> QED
    BY <2>2, <2>3
<1>5. \A b \in m[i].imports :
        \E t \in I : t.prefix # own /\ b[1] = t.prefix /\ d[m2[b[2]].path].name = t.name
  BY <1>1 DEF Holds
<1>6. \A b \in T : \E t \in I2 : t.prefix # own /\ b[1] = t.prefix /\ d[m2[b[2]].path].name = t.name
  BY <1>1 DEF Holds
<1>7. \A b, e \in r.imports : b[1] = e[1] => b = e
  BY DEF Holds
<1> HIDE DEF T
<1>8. r.imports = m[i].imports \cup T
  BY DEF T
<1>9. \A b \in r.imports :
        \E t \in I \cup I2 : t.prefix # own /\ b[1] = t.prefix /\ d[m2[b[2]].path].name = t.name
  BY ONLY <1>5, <1>6, <1>8
<1>10. d[r.path].prefix = own
  OBVIOUS
<1> QED
  BY ONLY <1>2, <1>3, <1>4, <1>7, <1>9, <1>10 DEF Holds

(* A submodule's nodes and imports go to the module that includes it.      *)
LEMMA MergeSubmoduleContent ==
  ASSUME IInv, ContentOK, SubmodulesIn(disk), MergeSubmodule
  PROVE  ContentOK'
<1>1. /\ stack # <<>> /\ Top.next \notin DOMAIN Body /\ Top.how = "include" /\ ~SubmoduleRefused
      /\ stack' = [SubSeq(stack, 1, Depth - 1) EXCEPT ![Depth - 1].next = @ + 1]
      /\ disk' = disk
  BY DEF MergeSubmodule, AtEnd, Reading
<1>2. /\ Caller.id \in DOMAIN modules /\ Top.id \in DOMAIN modules /\ Caller.id # Top.id
      /\ ~modules[Caller.id].ready /\ IsObject(modules[Caller.id])
      /\ Top.path = modules[Top.id].path /\ Top.path \in Path
  BY <1>1, CallerFacts, TopFacts
<1> DEFINE r == [modules[Caller.id] EXCEPT
                   !.nodes = @ \o Sub.nodes,
                   !.defines = @ \cup Sub.defines,
                   !.augments = @ \o Sub.augments,
                   !.imports = @ \cup {b \in Sub.imports : b[1] # Own(Caller.id) /\ ~Taken(b[1])}]
           new == NewModule(Top.path)
<1>3. modules' = [[modules EXCEPT ![Caller.id] = r] EXCEPT ![Top.id] = new]
  BY <1>2 DEF MergeSubmodule
<1>4. /\ r.path = modules[Caller.id].path /\ ~r.ready
      /\ r.nodes = modules[Caller.id].nodes \o modules[Top.id].nodes
      /\ r.imports = modules[Caller.id].imports \cup
           {b \in modules[Top.id].imports : b[1] # Own(Caller.id)
                                            /\ ~\E e \in modules[Caller.id].imports : e[1] = b[1]}
  BY <1>2 DEF IsObject, Sub, Taken, Parent
<1>5. new.path = Top.path /\ new.nodes = <<>> /\ ~new.ready
  BY DEF NewModule
<1> HIDE DEF r, new
<1>6. /\ DOMAIN modules' = DOMAIN modules /\ modules'[Caller.id] = r /\ modules'[Top.id] = new
      /\ \A i \in DOMAIN modules : i # Top.id /\ i # Caller.id => modules'[i] = modules[i]
  BY <1>2, <1>3
<1>7. PathsKept(modules, modules')
  BY <1>2, <1>4, <1>5, <1>6 DEF PathsKept
<1>8. /\ IsSeq(r.nodes) /\ Elements(modules[Caller.id].nodes) \subseteq Elements(r.nodes)
      /\ Elements(modules[Top.id].nodes) \subseteq Elements(r.nodes)
  BY <1>2, <1>4, ConcatElements DEF ContentOK, NodesOK
<1>9. IsSeq(<<>>)
  BY DEF IsSeq, Elements
<1>10. NodesOK(modules')
  BY <1>5, <1>6, <1>8, <1>9 DEF NodesOK, ContentOK
<1>11. SharedOK(cache, modules)
  BY DEF IInv
<1> DEFINE s == disk[Caller.path].body[Caller.next]
<1>12. /\ Caller \in Frame /\ Caller.path = modules[Caller.id].path
       /\ s.op = "include" /\ Locate[s.name] = Top.path
       /\ Caller.next <= Len(disk[Caller.path].body) /\ Caller.next \in 1 .. Len(disk[Caller.path].body) + 1
       /\ Holds(disk, modules[Caller.id], modules, Done(disk, Caller.path, Caller.next, "node"),
                                                   Done(disk, Caller.path, Caller.next, "import"))
  BY <1>1, CallerContent DEF LinkOK, FrameOK
<1>13. \A op \in {"node", "import"} :
         Stated(disk, Caller.path, Caller.next, op) = SourceIn(disk, Top.path, op)
  BY <1>12 DEF Stated
<1>14. disk[Top.path].prefix = NoPrefix
  <2>1. Caller.path \in Path
    BY <1>12 DEF Frame
  <2>2. /\ DOMAIN disk[Caller.path].body = 1 .. Len(disk[Caller.path].body)
        /\ Len(disk[Caller.path].body) \in Nat
    BY <2>1, DiskFile, FileFields
  <2>3. s \in Elements(disk[Caller.path].body)
    <3>1. Caller.next \in 1 .. Len(disk[Caller.path].body)
      BY <1>12, <2>2
    <3> QED
      BY <2>2, <3>1 DEF Elements
  <2>4. Top.path \in IncludedIn(disk, Caller.path)
    BY <1>2, <1>12, <2>3, DiskAssumption DEF IncludedIn
  <2> QED
    BY <2>1, <2>4 DEF SubmodulesIn
<1>15. \A t \in SourceIn(disk, Top.path, "import") : t.prefix # disk[modules[Top.id].path].prefix
  <2>1. SUFFICES ASSUME NEW t \in SourceIn(disk, Top.path, "import")
                 PROVE  t.prefix # NoPrefix
    BY <1>2, <1>14
  <2>2. PICK q \in Path : t \in Elements(disk[q].body) /\ t.op = "import"
    BY DEF SourceIn, FilesIn
  <2>3. t \in Statement
    BY <2>2, DiskFile, FileFields DEF Elements
  <2> QED
    BY <2>2, <2>3 DEF Statement
<1>16. Holds(disk, modules[Top.id], modules, SourceIn(disk, Top.path, "node"),
                                             SourceIn(disk, Top.path, "import"))
  BY <1>1, TopDone
<1>17. \A b \in modules[Top.id].imports, e \in modules[Caller.id].imports :
         b[1] # Own(Caller.id) /\ e[1] = b[1] =>
           disk[modules[e[2]].path].name = disk[modules[b[2]].path].name
  BY <1>1 DEF SubmoduleRefused, Sub, Parent, NameOf
<1>18. Own(Caller.id) = disk[modules[Caller.id].path].prefix
  BY DEF Own
<1> HIDE DEF s
<1>19. Holds(disk, r, modules',
             Done(disk, Caller.path, Caller.next, "node") \cup SourceIn(disk, Top.path, "node"),
             Done(disk, Caller.path, Caller.next, "import") \cup SourceIn(disk, Top.path, "import"))
  <2>1. PICK own : own = Own(Caller.id)
    OBVIOUS
  <2>2. PICK d : d = disk
    OBVIOUS
  <2>3. PICK m : m = modules
    OBVIOUS
  <2>4. PICK m2 : m2 = modules'
    OBVIOUS
  <2>5. PICK i : i = Caller.id
    OBVIOUS
  <2>6. PICK j : j = Top.id
    OBVIOUS
  <2>7. PICK N : N = Done(disk, Caller.path, Caller.next, "node")
    OBVIOUS
  <2>8. PICK I : I = Done(disk, Caller.path, Caller.next, "import")
    OBVIOUS
  <2>9. PICK N2 : N2 = SourceIn(disk, Top.path, "node")
    OBVIOUS
  <2>10. PICK I2 : I2 = SourceIn(disk, Top.path, "import")
    OBVIOUS
  <2> DEFINE T == {b \in m[j].imports : b[1] # own /\ ~\E e \in m[i].imports : e[1] = b[1]}
  <2>11. PICK c : c = cache
    OBVIOUS
  <2>12. SharedOK(c, m)
    BY <1>11, <2>3, <2>11
  <2>13. PathsKept(m, m2) /\ i \in DOMAIN m /\ j \in DOMAIN m
    BY <1>2, <1>7, <2>3, <2>4, <2>5, <2>6
  <2>14. own = d[m[i].path].prefix
    BY <1>18, <2>1, <2>2, <2>3, <2>5
  <2>15. Holds(d, m[i], m, N, I)
    BY ONLY <1>12, <2>2, <2>3, <2>5, <2>7, <2>8
  <2>16. Holds(d, m[j], m, N2, I2)
    BY ONLY <1>16, <2>2, <2>3, <2>6, <2>9, <2>10
  <2>17. \A t \in I2 : t.prefix # d[m[j].path].prefix
    BY ONLY <1>15, <2>2, <2>3, <2>6, <2>10
  <2>18. \A b \in m[j].imports, e \in m[i].imports :
           b[1] # own /\ e[1] = b[1] => d[m[e[2]].path].name = d[m[b[2]].path].name
    BY ONLY <1>17, <2>1, <2>2, <2>3, <2>5, <2>6
  <2>19. r.path = m[i].path /\ r.imports = m[i].imports \cup T
    BY ONLY <1>4, <2>1, <2>3, <2>5, <2>6
  <2>20. Elements(m[i].nodes) \subseteq Elements(r.nodes) /\ Elements(m[j].nodes) \subseteq Elements(r.nodes)
    BY ONLY <1>8, <2>3, <2>5, <2>6
  <2>21. Holds(d, r, m2, N \cup N2, I \cup I2)
    BY ONLY <2>12, <2>13, <2>14, <2>15, <2>16, <2>17, <2>18, <2>19, <2>20, HoldsMerge
  <2> QED
    BY ONLY <2>2, <2>4, <2>7, <2>8, <2>9, <2>10, <2>21
<1>20. Holds(disk, modules'[Caller.id], modules',
             Done(disk, Caller.path, Caller.next, "node")
               \cup Stated(disk, Caller.path, Caller.next, "node"),
             Done(disk, Caller.path, Caller.next, "import")
               \cup Stated(disk, Caller.path, Caller.next, "import"))
  BY <1>6, <1>13, <1>19
<1>21. \A i \in DOMAIN modules : i # Top.id /\ i # Caller.id => Same(modules[i], modules'[i])
  BY <1>6, SameObject
<1>22. \A i \in DOMAIN modules : modules'[i].ready =>
         \/ modules[i].ready /\ Same(modules[i], modules'[i])
         \/ Holds(disk, modules'[i], modules', SourceIn(disk, modules'[i].path, "node"),
                                               SourceIn(disk, modules'[i].path, "import"))
  BY <1>4, <1>5, <1>6, <1>21
<1>23. Top.how \in {"import", "include"}
  BY <1>1
<1> QED
  BY ONLY IInv, ContentOK, <1>1, <1>6, <1>7, <1>10, <1>20, <1>21, <1>22, <1>23, PopContent

-----------------------------------------------------------------------------
(* Nothing has been parsed.                                                *)
LEMMA SourcesInitially == Init => ContentInv
  BY DEF Init, ContentInv, NodesOK, ReadyOK, ParsesOK

(* Every step keeps what is held equal to what has been read.              *)
LEMMA SourcesInductive == IInv /\ ContentInv /\ [Next]_vars => ContentInv'
<1> SUFFICES ASSUME IInv, ContentInv, [Next]_vars PROVE ContentInv'
  OBVIOUS
<1>1. disk' = disk
  BY DEF Next, Step, ReadStep, FinalizeStep, vars, ReadStatement, SyntaxError, RefuseImport,
     BindCached, LoadImport, RefuseInclude, LoadInclude, RefuseSubmodule, MergeSubmodule, ExpandUses,
     RefuseUses, MergeAugment, RefuseAugment, RefuseSemantics, Return, ReturnImport, RefuseImported,
     Abort, ParseFile, ParseString, Call
<1> SUFFICES ASSUME SubmodulesIn(disk) PROVE ContentOK'
  BY <1>1 DEF ContentInv, ContentOK
<1>2. ContentOK
  BY DEF ContentInv, ContentOK
<1>3. CASE ReadStep
  <2>1. CASE SyntaxError \/ RefuseImport \/ RefuseInclude \/ RefuseSubmodule
    <3>1. Abort
      BY <2>1 DEF SyntaxError, RefuseImport, RefuseInclude, RefuseSubmodule
    <3> QED
      BY <1>2, <3>1, AbortContent
  <2> QED
    BY <1>2, <1>3, <2>1, ReadStatementContent, BindCachedContent, LoadImportContent,
       LoadIncludeContent, MergeSubmoduleContent DEF ReadStep
<1>4. CASE FinalizeStep
  <2>1. CASE RefuseUses \/ RefuseAugment \/ RefuseSemantics
    <3>1. Abort
      BY <2>1 DEF RefuseUses, RefuseAugment, RefuseSemantics
    <3> QED
      BY <1>2, <3>1, AbortContent
  <2>2. CASE Return \/ RefuseImported
    <3>1. Merged /\ modules' = Ready /\ stack' = <<>>
      BY <2>2 DEF Return, RefuseImported
    <3> QED
      BY <1>1, <1>2, <3>1, EndContent
  <2> QED
    BY <1>2, <1>4, <2>1, <2>2, ExpandUsesContent, MergeAugmentContent, ReturnImportContent
       DEF FinalizeStep
<1>5. CASE \E p \in Path : ParseFile(p) \/ ParseString(p)
  BY <1>2, <1>5, CallContent
<1>6. CASE UNCHANGED vars
  BY <1>2, <1>6 DEF vars, ContentOK
<1> QED
  BY <1>3, <1>4, <1>5, <1>6 DEF Next, Step

(* In the words of the specification.                                      *)
LEMMA SourcesMatch == ContentInv => ReadyMatchesSource
<1> SUFFICES ASSUME ContentInv, IncludesSubmodules, NEW i \in DOMAIN modules, modules[i].ready
             PROVE  LET p == modules[i].path
                        imports == {s \in Source(p, "import") : s.prefix # Own(i)}
                    IN  /\ {s.node : s \in Source(p, "node")} \subseteq Elements(modules[i].nodes)
                        /\ {<<s.prefix, s.name>> : s \in imports}
                             = {<<b[1], NameOf(b[2])>> : b \in modules[i].imports}
                        /\ \A b, c \in modules[i].imports : b[1] = c[1] => b = c
  BY DEF ReadyMatchesSource, Objects
<1>1. \A p : Includes(p) = IncludedIn(disk, p)
  BY DEF Includes, IncludedIn, Statements
<1>2. \A p, op : Source(p, op) = SourceIn(disk, p, op)
  BY <1>1 DEF Source, SourceIn, Files, FilesIn, Statements
<1>3. SubmodulesIn(disk)
  BY <1>1 DEF IncludesSubmodules, SubmodulesIn
<1>4. Holds(disk, modules[i], modules, Source(modules[i].path, "node"),
                                       Source(modules[i].path, "import"))
  BY <1>2, <1>3 DEF ContentInv, ReadyOK
<1> QED
  BY <1>4 DEF Holds, NameOf, Own

(* A module that any load has finished holds all that its file and the     *)
(* submodules it includes, at any depth, state, and exactly the bindings   *)
(* of their imports.                                                       *)
THEOREM ModulesHoldTheirSource == Spec => []ReadyMatchesSource
<1>1. Init => ContentInv
  BY SourcesInitially
<1>2. IInv /\ ContentInv /\ [Next]_vars => ContentInv'
  BY SourcesInductive
<1>3. ContentInv => ReadyMatchesSource
  BY SourcesMatch
<1> QED
  BY <1>1, <1>2, <1>3, Invariance, PTL DEF Spec
-----------------------------------------------------------------------------
(* What is merged once. Every file is of one object at most.               *)
OneEach(m) == \A i, j \in DOMAIN m : m[i].path = m[j].path => i = j

(* Nodes and augments are sequences.                                       *)
ListsOK(m) == \A i \in DOMAIN m : IsSeq(m[i].nodes) /\ IsSeq(m[i].augments)

(* Node n stands at place k of the nodes, or of the augments, of object i. *)
NodeAt(m, i, k, n) == i \in DOMAIN m /\ k \in DOMAIN m[i].nodes /\ m[i].nodes[k] = n
AugmentAt(m, i, k, n) ==
  i \in DOMAIN m /\ k \in DOMAIN m[i].augments /\ m[i].augments[k].node = n

(* It stands at one place at most; at none.                                *)
Single(m, n) ==
  /\ \A i, k, j, l : NodeAt(m, i, k, n) /\ NodeAt(m, j, l, n) => i = j /\ k = l
  /\ \A i, k, j, l : AugmentAt(m, i, k, n) /\ AugmentAt(m, j, l, n) => i = j /\ k = l
  /\ \A i, k, j, l : ~(NodeAt(m, i, k, n) /\ AugmentAt(m, j, l, n))
Absent(m, n) == \A i, k : ~NodeAt(m, i, k, n) /\ ~AugmentAt(m, i, k, n)

(* Statement k of file p states node n; it has still to be read.           *)
States(d, p, k, n) == d[p].body[k].op \in {"node", "augment"} /\ d[p].body[k].node = n
Unread(t, m, p, k) ==
  \/ \A i \in DOMAIN m : m[i].path # p
  \/ \E x \in DOMAIN t : t[x].path = p /\ t[x].next <= k

(* Every node stands at one place of the heap at most, and at none while a *)
(* statement of it has still to be read.                                   *)
OnceOK(d, t, m) ==
  /\ ListsOK(m)
  /\ \A n \in Node : Single(m, n)
  /\ \A n \in Node, p \in Path : \A k \in DOMAIN d[p].body :
       States(d, p, k, n) /\ Unread(t, m, p, k) => Absent(m, n)

(* As long as every file has been parsed at most once.                     *)
OnceInv == OneEach(modules) /\ StatedOnce => OnceOK(disk, stack, modules)

(* The parses of t2 are parses of t, as far or further on.                 *)
Onward(t2, t) ==
  \A x \in DOMAIN t2 : /\ x \in DOMAIN t /\ t2[x].path = t[x].path
                       /\ t[x].next \in Nat /\ t2[x].next \in Nat /\ t[x].next <= t2[x].next

(* Files of which there is one object had one at most before.              *)
LEMMA OneEachBefore ==
  ASSUME NEW m, NEW m2, PathsKept(m, m2), OneEach(m2) PROVE OneEach(m)
BY DEF PathsKept, OneEach

(* It stays so when no place is added for a node and no parse goes back.   *)
LEMMA OnceKept ==
  ASSUME NEW d \in [Path -> File], NEW t, NEW m, OnceOK(d, t, m),
         NEW t2, Onward(t2, t), NEW m2, PathsKept(m, m2), ListsOK(m2),
         \A n \in Node : (Single(m, n) => Single(m2, n)) /\ (Absent(m, n) => Absent(m2, n))
  PROVE  OnceOK(d, t2, m2)
<1>1. ASSUME NEW p \in Path, NEW k \in DOMAIN d[p].body, Unread(t2, m2, p, k) PROVE Unread(t, m, p, k)
  <2>1. k \in Nat
    BY FileFields
  <2> QED
    BY <1>1, <2>1 DEF Unread, Onward, PathsKept
<1> QED
  BY <1>1 DEF OnceOK

(* The objects have the nodes and augments they had.                       *)
SameLists(m, m2) ==
  /\ DOMAIN m2 = DOMAIN m
  /\ \A i \in DOMAIN m : /\ m2[i].path = m[i].path
                         /\ m2[i].nodes = m[i].nodes /\ m2[i].augments = m[i].augments

(* Then nothing is added.                                                  *)
LEMMA SameListsOnce ==
  ASSUME NEW d \in [Path -> File], NEW t, NEW m, OnceOK(d, t, m),
         NEW t2, Onward(t2, t), NEW m2, SameLists(m, m2)
  PROVE  OnceOK(d, t2, m2)
<1>1. PathsKept(m, m2) /\ ListsOK(m2)
  BY DEF SameLists, PathsKept, ListsOK, OnceOK
<1>2. ASSUME NEW i, NEW k, NEW n
      PROVE  /\ NodeAt(m2, i, k, n) <=> NodeAt(m, i, k, n)
             /\ AugmentAt(m2, i, k, n) <=> AugmentAt(m, i, k, n)
  BY DEF SameLists, NodeAt, AugmentAt
<1>3. ASSUME NEW n PROVE (Single(m, n) => Single(m2, n)) /\ (Absent(m, n) => Absent(m2, n))
  BY <1>2 DEF Single, Absent
<1> QED
  BY <1>1, <1>3, OnceKept

(* The stack when a parse moves on, finalizes or returns.                  *)
LEMMA StackOnward ==
  ASSUME IInv, stack # <<>>
  PROVE  /\ Onward(stack, stack) /\ Onward(<<>>, stack)
         /\ Onward(Advanced, stack) /\ Advanced[Depth].next = Top.next + 1
         /\ Onward([stack EXCEPT ![Depth].finalizing = TRUE], stack)
<1>1. /\ stack \in Seq(Frame) /\ Depth \in DOMAIN stack /\ DOMAIN stack = 1 .. Depth
      /\ \A x \in DOMAIN stack : stack[x] \in Frame
  BY TopFacts
<1>2. \A x \in DOMAIN stack : stack[x].next \in Nat /\ stack[x].next + 1 \in Nat
        /\ stack[x].next <= stack[x].next + 1 /\ stack[x].next <= stack[x].next
  BY <1>1 DEF Frame
<1>3. PICK f : f = [Top EXCEPT !.next = @ + 1]
  OBVIOUS
<1>4. f.path = Top.path /\ f.next = Top.next + 1
  BY <1>1, <1>3 DEF Frame, Top
<1>5. Advanced = [stack EXCEPT ![Depth] = f]
  BY <1>3 DEF Advanced, Top
<1>6. Onward(Advanced, stack) /\ Advanced[Depth].next = Top.next + 1
  BY <1>1, <1>2, <1>4, <1>5 DEF Onward, Top
<1>7. PICK g : g = [Top EXCEPT !.finalizing = TRUE]
  OBVIOUS
<1>8. g.path = Top.path /\ g.next = Top.next
  BY <1>1, <1>7 DEF Frame, Top
<1>9. [stack EXCEPT ![Depth].finalizing = TRUE] = [stack EXCEPT ![Depth] = g]
  BY <1>7 DEF Top
<1>10. Onward([stack EXCEPT ![Depth].finalizing = TRUE], stack)
  BY <1>1, <1>2, <1>8, <1>9 DEF Onward, Top
<1>11. Onward(stack, stack) /\ Onward(<<>>, stack)
  BY <1>2 DEF Onward
<1> QED
  BY <1>6, <1>10, <1>11

(* The stack when an import or an include returns.                         *)
LEMMA StackReturned ==
  ASSUME IInv, stack # <<>>, Top.how \in {"import", "include"}
  PROVE  Onward([SubSeq(stack, 1, Depth - 1) EXCEPT ![Depth - 1].next = @ + 1], stack)
<1>1. /\ stack \in Seq(Frame) /\ DOMAIN stack = 1 .. Depth
      /\ \A x \in DOMAIN stack : stack[x] \in Frame
  BY TopFacts
<1>2. /\ Depth \in Nat /\ Depth = Len(stack) /\ Depth - 1 \in DOMAIN stack /\ Depth >= 2
  BY CallerFacts
<1>3. \A x \in DOMAIN stack : stack[x].next \in Nat /\ stack[x].next + 1 \in Nat
        /\ stack[x].next <= stack[x].next + 1 /\ stack[x].next <= stack[x].next
  BY <1>1 DEF Frame
<1>4. PICK u : u = SubSeq(stack, 1, Depth - 1)
  OBVIOUS
<1>5. Depth - 1 \in Nat /\ Len(stack) = (Depth - 1) + 1
  BY <1>2
<1>6. u \in Seq(Frame) /\ Len(u) = Depth - 1 /\ \A x \in 1 .. Depth - 1 : u[x] = stack[x]
  BY <1>1, <1>4, <1>5, DropLast
<1>7. DOMAIN u = 1 .. Depth - 1 /\ Depth - 1 \in 1 .. Depth - 1
      /\ \A x \in 1 .. Depth - 1 : x \in DOMAIN stack
  BY <1>1, <1>2, <1>6
<1>8. PICK f : f = [u[Depth - 1] EXCEPT !.next = @ + 1]
  OBVIOUS
<1>9. u[Depth - 1] = stack[Depth - 1] /\ stack[Depth - 1] \in Frame
  BY <1>1, <1>2, <1>6, <1>7
<1>10. f.path = stack[Depth - 1].path /\ f.next = stack[Depth - 1].next + 1
  BY <1>8, <1>9 DEF Frame
<1>11. [u EXCEPT ![Depth - 1].next = @ + 1] = [u EXCEPT ![Depth - 1] = f]
  BY <1>8
<1>12. Onward([u EXCEPT ![Depth - 1] = f], stack)
  BY <1>3, <1>6, <1>7, <1>10 DEF Onward
<1> QED
  BY <1>4, <1>11, <1>12

(* An exception: the statements that were not read never will be, by these *)
(* parses.                                                                 *)
LEMMA AbortOnce ==
  ASSUME IInv, stack # <<>>, OnceOK(disk, stack, modules), Abort
  PROVE  OnceOK(disk, stack, modules)'
<1>1. SameLists(modules, modules') /\ disk' = disk /\ stack' = <<>>
  BY DEF Abort, SameLists
<1> QED
  BY <1>1, StackOnward, DiskFile, SameListsOnce

(* An object that becomes ready.                                           *)
LEMMA ReadySameLists ==
  ASSUME IInv, stack # <<>> PROVE SameLists(modules, Ready)
<1>1. Top.id \in DOMAIN modules /\ IsObject(modules[Top.id])
  BY TopFacts
<1>2. PICK r : r = [modules[Top.id] EXCEPT !.ready = TRUE]
  OBVIOUS
<1>3. r.path = modules[Top.id].path /\ r.nodes = modules[Top.id].nodes
      /\ r.augments = modules[Top.id].augments
  BY <1>1, <1>2 DEF IsObject
<1>4. Ready = [modules EXCEPT ![Top.id] = r]
  BY <1>2 DEF Ready
<1> QED
  BY <1>1, <1>3, <1>4 DEF SameLists

(* An object that gets further imports.                                    *)
LEMMA ImportsSameLists ==
  ASSUME NEW m, NEW i \in DOMAIN m, IsObject(m[i]), NEW B
  PROVE  SameLists(m, [m EXCEPT ![i].imports = @ \cup B])
<1>1. PICK r : r = [m[i] EXCEPT !.imports = @ \cup B]
  OBVIOUS
<1>2. r.path = m[i].path /\ r.nodes = m[i].nodes /\ r.augments = m[i].augments
  BY <1>1 DEF IsObject
<1>3. [m EXCEPT ![i].imports = @ \cup B] = [m EXCEPT ![i] = r]
  BY <1>1
<1> QED
  BY <1>2, <1>3 DEF SameLists

(* An import from the cache.                                               *)
LEMMA BindCachedOnce ==
  ASSUME IInv, OnceOK(disk, stack, modules), BindCached
  PROVE  OnceOK(disk, stack, modules)'
<1>1. /\ stack # <<>> /\ stack' = Advanced /\ disk' = disk
      /\ modules' = [modules EXCEPT ![Top.id].imports = @ \cup {<<Current.prefix, cache[Target]>>}]
  BY DEF BindCached, At, Reading, Bind
<1>2. SameLists(modules, modules')
  BY <1>1, TopFacts, ImportsSameLists
<1> QED
  BY <1>1, <1>2, StackOnward, DiskFile, SameListsOnce

(* The file is read.                                                       *)
LEMMA ExpandUsesOnce ==
  ASSUME IInv, OnceOK(disk, stack, modules), ExpandUses
  PROVE  OnceOK(disk, stack, modules)'
<1>1. /\ stack # <<>> /\ stack' = [stack EXCEPT ![Depth].finalizing = TRUE] /\ disk' = disk
      /\ SameLists(modules, modules')
  BY DEF ExpandUses, AtEnd, Reading, SameLists
<1> QED
  BY <1>1, StackOnward, DiskFile, SameListsOnce

(* The call ends.                                                          *)
LEMMA ReturnOnce ==
  ASSUME IInv, OnceOK(disk, stack, modules), Return \/ RefuseImported
  PROVE  OnceOK(disk, stack, modules)'
<1>1. stack # <<>> /\ stack' = <<>> /\ disk' = disk /\ modules' = Ready
  BY DEF Return, RefuseImported, Merged, Finalizing
<1> QED
  BY <1>1, ReadySameLists, StackOnward, DiskFile, SameListsOnce

(* An import ends.                                                         *)
LEMMA ReturnImportOnce ==
  ASSUME IInv, OnceOK(disk, stack, modules), ReturnImport
  PROVE  OnceOK(disk, stack, modules)'
<1>1. /\ stack # <<>> /\ Top.how = "import" /\ disk' = disk /\ Merged
      /\ stack' = [SubSeq(stack, 1, Depth - 1) EXCEPT ![Depth - 1].next = @ + 1]
      /\ modules' = [Ready EXCEPT ![Caller.id].imports = @ \cup {<<Expected.prefix, Top.id>>}]
  BY DEF ReturnImport, Merged, Finalizing
<1>2. /\ SameLists(modules, Ready) /\ Caller.id \in DOMAIN Ready /\ Ready[Caller.id] = modules[Caller.id]
      /\ IsObject(modules[Caller.id])
  BY <1>1, ReadySameLists, ReadyFacts, CallerFacts
<1>3. SameLists(Ready, modules')
  BY <1>1, <1>2, ImportsSameLists
<1>4. SameLists(modules, modules')
  BY <1>2, <1>3 DEF SameLists
<1> QED
  BY <1>1, <1>4, StackReturned, DiskFile, SameListsOnce

(* A parse that begins: its object is empty, and of a file of which there  *)
(* was none.                                                               *)
LEMMA PushOnce ==
  ASSUME IInv, OnceOK(disk, stack, modules), NEW p \in Path,
         modules' = Append(modules, NewModule(p)), OneEach(modules'), disk' = disk,
         \A x \in DOMAIN stack' : \/ x \in DOMAIN stack /\ stack'[x] = stack[x]
                                  \/ stack'[x].path = p
  PROVE  OnceOK(disk, stack, modules)'
<1>1. Heap(modules) /\ Len(modules) \in Nat /\ DOMAIN modules = 1 .. Len(modules)
  BY TopFacts DEF IInv
<1>2. /\ Heap(modules') /\ Len(modules') = Len(modules) + 1 /\ modules'[Len(modules) + 1] = NewModule(p)
      /\ \A i \in DOMAIN modules : modules'[i] = modules[i]
  BY <1>1, HeapAppend
<1>3. DOMAIN modules' = 1 .. Len(modules) + 1
  BY <1>2, HeapDomain
<1>4. /\ Len(modules) + 1 \in DOMAIN modules' /\ Len(modules) + 1 \notin DOMAIN modules
      /\ \A i \in DOMAIN modules' : i \in DOMAIN modules \/ i = Len(modules) + 1
      /\ \A i \in DOMAIN modules : i \in DOMAIN modules'
  BY <1>1, <1>3
<1>5. NewModule(p).path = p /\ NewModule(p).nodes = <<>> /\ NewModule(p).augments = <<>>
  BY DEF NewModule
<1>6. \A i \in DOMAIN modules : modules[i].path # p
  BY <1>2, <1>4, <1>5 DEF OneEach
<1>7. IsSeq(<<>>) /\ DOMAIN <<>> = {}
  BY DEF IsSeq, Elements
<1>8. ListsOK(modules')
  BY <1>2, <1>4, <1>5, <1>7 DEF ListsOK, OnceOK
<1>9. ASSUME NEW i, NEW k, NEW n
      PROVE  /\ NodeAt(modules', i, k, n) => NodeAt(modules, i, k, n)
             /\ AugmentAt(modules', i, k, n) => AugmentAt(modules, i, k, n)
  BY <1>2, <1>4, <1>5, <1>7 DEF NodeAt, AugmentAt
<1>10. ASSUME NEW n
       PROVE (Single(modules, n) => Single(modules', n)) /\ (Absent(modules, n) => Absent(modules', n))
  BY <1>9 DEF Single, Absent
<1>11. ASSUME NEW q, NEW k, Unread(stack', modules', q, k) PROVE Unread(stack, modules, q, k)
  <2>1. CASE q = p
    BY <1>6, <2>1 DEF Unread
  <2>2. CASE q # p
    <3>1. (\A i \in DOMAIN modules' : modules'[i].path # q) => (\A i \in DOMAIN modules : modules[i].path # q)
      BY <1>2, <1>4
    <3> QED
      BY <1>11, <2>2, <3>1 DEF Unread
  <2> QED
    BY <2>1, <2>2
<1> QED
  BY <1>8, <1>10, <1>11 DEF OnceOK

(* An import or an include begins.                                         *)
LEMMA LoadOnce ==
  ASSUME IInv, OnceOK(disk, stack, modules), OneEach(modules'), LoadImport \/ LoadInclude
  PROVE  OnceOK(disk, stack, modules)'
<1>1. PICK how : stack' = Append(stack, Activation(how, Target, Fresh))
  BY DEF LoadImport, LoadInclude
<1>2. modules' = Append(modules, NewModule(Target)) /\ disk' = disk /\ stack # <<>> /\ Target # NoPath
  BY DEF LoadImport, LoadInclude, At, Reading, ImportRefused
<1>3. Target \in Path
  BY <1>2, TargetPath DEF LoadImport, LoadInclude
<1>4. stack \in Seq(Frame)
  BY TopFacts
<1>5. \A x \in DOMAIN stack' : (x \in DOMAIN stack /\ stack'[x] = stack[x]) \/ stack'[x].path = Target
  <2>1. Activation(how, Target, Fresh).path = Target
    BY DEF Activation
  <2> DEFINE f == Activation(how, Target, Fresh)
             S == Frame \cup {f}
  <2>2. stack \in Seq(S) /\ f \in S
    BY <1>4
  <2> HIDE DEF f, S
  <2>3. \A x \in DOMAIN Append(stack, f) :
          (x \in DOMAIN stack /\ Append(stack, f)[x] = stack[x]) \/ Append(stack, f)[x] = f
    BY <2>2
  <2> QED
    BY <1>1, <2>1, <2>3 DEF f
<1> QED
  BY <1>2, <1>3, <1>5, PushOnce

(* A call begins.                                                          *)
LEMMA CallOnce ==
  ASSUME IInv, OnceOK(disk, stack, modules), OneEach(modules'), NEW p \in Path,
         ParseFile(p) \/ ParseString(p)
  PROVE  OnceOK(disk, stack, modules)'
<1>1. PICK how : stack' = <<Activation(how, p, Fresh)>>
  BY DEF ParseFile, ParseString, Call
<1>2. modules' = Append(modules, NewModule(p)) /\ disk' = disk
  BY DEF ParseFile, ParseString, Call
<1>3. \A x \in DOMAIN stack' : stack'[x].path = p
  BY <1>1 DEF Activation
<1> QED
  BY <1>2, <1>3, PushOnce

(* The places of a sequence with an element appended.                      *)
LEMMA AppendPlaces ==
  ASSUME NEW q, IsSeq(q), NEW x
  PROVE  /\ IsSeq(Append(q, x)) /\ Len(q) \in Nat /\ DOMAIN q = 1 .. Len(q)
         /\ DOMAIN Append(q, x) = 1 .. Len(q) + 1
         /\ Append(q, x)[Len(q) + 1] = x
         /\ \A k \in 1 .. Len(q) : Append(q, x)[k] = q[k]
<1> DEFINE S == Elements(q) \cup {x}
<1>1. q \in Seq(S)
  BY DEF IsSeq, Elements
<1> QED
  BY <1>1, AppendElements

(* Those of a sequence without its first element.                          *)
LEMMA TailPlaces ==
  ASSUME NEW q, IsSeq(q), q # <<>>
  PROVE  /\ IsSeq(Tail(q)) /\ Head(q) = q[1] /\ 1 \in DOMAIN q
         /\ \A k \in DOMAIN Tail(q) : /\ k \in Nat \ {0} /\ k + 1 \in DOMAIN q /\ Tail(q)[k] = q[k + 1]
<1> DEFINE S == Elements(q)
<1>1. q \in Seq(S)
  BY DEF IsSeq
<1> HIDE DEF S
<1>2. Tail(q) \in Seq(S)
  BY <1>1
<1>3. IsSeq(Tail(q))
  BY <1>2, SeqOfElements DEF IsSeq
<1>4. Len(q) \in Nat /\ DOMAIN q = 1 .. Len(q) /\ 1 \in DOMAIN q
  BY <1>1
<1>5. DOMAIN Tail(q) = 1 .. Len(q) - 1 /\ \A k \in 1 .. Len(q) - 1 : Tail(q)[k] = q[k + 1]
  BY <1>1, <1>4
<1> QED
  BY <1>1, <1>3, <1>4, <1>5

(* Those of two sequences joined.                                          *)
LEMMA ConcatPlaces ==
  ASSUME NEW q, IsSeq(q), NEW r, IsSeq(r)
  PROVE  /\ IsSeq(q \o r)
         /\ \A k \in DOMAIN (q \o r) :
              \/ k \in DOMAIN q /\ (q \o r)[k] = q[k]
              \/ k \in Int /\ Len(q) \in Int /\ k - Len(q) \in DOMAIN r /\ (q \o r)[k] = r[k - Len(q)]
<1> DEFINE S == Elements(q) \cup Elements(r)
<1>1. PICK t : t = q \o r
  OBVIOUS
<1>2. /\ q \in Seq(S) /\ Len(q) \in Nat /\ DOMAIN q = 1 .. Len(q)
      /\ r \in Seq(S) /\ Len(r) \in Nat /\ DOMAIN r = 1 .. Len(r)
  BY DEF IsSeq, Elements
<1>3. /\ DOMAIN t = 1 .. Len(q) + Len(r)
      /\ \A k \in 1 .. Len(q) + Len(r) :
           t[k] = IF k <= Len(q) THEN q[k] ELSE r[k - Len(q)]
  BY <1>1, <1>2
<1>4. \A k \in 1 .. Len(q) + Len(r) :
        (k <= Len(q) => k \in 1 .. Len(q)) /\ (~(k <= Len(q)) => k - Len(q) \in 1 .. Len(r))
  BY <1>2
<1> QED
  BY <1>1, <1>2, <1>3, <1>4, ConcatElements

(* A statement is read: its node stood nowhere, as it was unread, and it   *)
(* is the only one that states it.                                         *)
LEMMA ReadStatementOnce ==
  ASSUME IInv, OneEach(modules), StatedOnce, OnceOK(disk, stack, modules), ReadStatement
  PROVE  OnceOK(disk, stack, modules)'
<1>1. /\ stack # <<>> /\ stack' = Advanced /\ disk' = disk /\ Top.next \in DOMAIN disk[Top.path].body
      /\ Current = disk[Top.path].body[Top.next] /\ Current.op \in {"node", "define", "augment"}
  BY DEF ReadStatement, At, Reading, Current, Body
<1>2. /\ Top.id \in DOMAIN modules /\ IsObject(modules[Top.id]) /\ Heap(modules) /\ Top.path \in Path
      /\ Top.path = modules[Top.id].path /\ Depth \in DOMAIN stack
      /\ IsSeq(modules[Top.id].nodes) /\ IsSeq(modules[Top.id].augments)
  BY <1>1, TopFacts DEF IInv, OnceOK, ListsOK
<1>3. /\ disk \in [Path -> File] /\ Onward(stack', stack) /\ stack'[Depth].next = Top.next + 1
      /\ Top.next \in Nat
  BY <1>1, <1>2, DiskFile, StackOnward DEF Onward, Top
<1>4. CASE Current.op = "define"
  <2>1. PICK r : r = [modules[Top.id] EXCEPT !.defines = @ \cup {Current.node}]
    OBVIOUS
  <2>2. r.path = modules[Top.id].path /\ r.nodes = modules[Top.id].nodes
        /\ r.augments = modules[Top.id].augments
    BY <1>2, <2>1 DEF IsObject
  <2>3. modules' = [modules EXCEPT ![Top.id] = r]
    BY <1>4, <2>1 DEF ReadStatement
  <2>4. SameLists(modules, modules')
    BY <1>2, <2>2, <2>3 DEF SameLists
  <2> QED
    BY <1>1, <1>3, <2>4, SameListsOnce
<1>5. CASE Current.op \in {"node", "augment"}
  <2> DEFINE o == modules[Top.id]
             n0 == Current.node
  <2>1. PICK r : /\ modules' = [modules EXCEPT ![Top.id] = r] /\ r.path = o.path
                 /\ \/ r.nodes = Append(o.nodes, n0) /\ r.augments = o.augments
                    \/ r.nodes = o.nodes /\ r.augments = Append(o.augments, Current)
    <3>1. CASE Current.op = "node"
      <4>1. PICK r : r = [modules[Top.id] EXCEPT !.nodes = Append(@, Current.node)]
        OBVIOUS
      <4>2. modules' = [modules EXCEPT ![Top.id] = r]
        BY <3>1, <4>1 DEF ReadStatement
      <4>3. r.path = o.path /\ r.nodes = Append(o.nodes, n0) /\ r.augments = o.augments
        BY <1>2, <4>1 DEF IsObject
      <4> QED
        BY <4>2, <4>3
    <3>2. CASE Current.op = "augment"
      <4>1. PICK r : r = [modules[Top.id] EXCEPT !.augments = Append(@, Current)]
        OBVIOUS
      <4>2. modules' = [modules EXCEPT ![Top.id] = r]
        BY <3>2, <4>1 DEF ReadStatement
      <4>3. r.path = o.path /\ r.nodes = o.nodes /\ r.augments = Append(o.augments, Current)
        BY <1>2, <4>1 DEF IsObject
      <4> QED
        BY <4>2, <4>3
    <3> QED
      BY <1>5, <3>1, <3>2
  <2>2. /\ DOMAIN modules' = DOMAIN modules /\ modules'[Top.id] = r
        /\ \A i \in DOMAIN modules : i # Top.id => modules'[i] = modules[i]
    BY <1>2, <2>1
  <2>3. PathsKept(modules, modules')
    BY <2>1, <2>2 DEF PathsKept
  <2>4. /\ IsSeq(r.nodes) /\ IsSeq(r.augments)
    <3>1. IsSeq(Append(o.nodes, n0)) /\ IsSeq(Append(o.augments, Current))
      BY <1>2, AppendPlaces
    <3> HIDE DEF n0
    <3> QED
      BY <1>2, <2>1, <3>1
  <2>5. ListsOK(modules')
    BY <2>2, <2>4 DEF ListsOK, OnceOK
  <2>6. ASSUME NEW i, NEW k, NEW n
        PROVE  /\ NodeAt(modules', i, k, n) =>
                    NodeAt(modules, i, k, n)
                    \/ (n = n0 /\ i = Top.id /\ k = Len(o.nodes) + 1 /\ r.augments = o.augments)
               /\ AugmentAt(modules', i, k, n) =>
                    AugmentAt(modules, i, k, n)
                    \/ (n = n0 /\ i = Top.id /\ k = Len(o.augments) + 1 /\ r.nodes = o.nodes
                         /\ r.augments = Append(o.augments, Current))
    <3>1. CASE i # Top.id
      BY <2>2, <3>1 DEF NodeAt, AugmentAt
    <3>2. CASE i = Top.id
      <4>1. CASE r.nodes = Append(o.nodes, n0) /\ r.augments = o.augments
        <5>1. \A x \in DOMAIN r.nodes : x \in DOMAIN o.nodes \/ x = Len(o.nodes) + 1
          BY <1>2, <4>1, AppendPlaces
        <5> QED
          BY <1>2, <2>2, <3>2, <4>1, <5>1, AppendPlaces DEF NodeAt, AugmentAt
      <4>2. CASE r.nodes = o.nodes /\ r.augments = Append(o.augments, Current)
        <5>1. \A x \in DOMAIN r.augments : x \in DOMAIN o.augments \/ x = Len(o.augments) + 1
          BY <1>2, <4>2, AppendPlaces
        <5> QED
          BY <1>2, <2>2, <3>2, <4>2, <5>1, AppendPlaces DEF NodeAt, AugmentAt
      <4> QED
        BY <2>1, <4>1, <4>2
    <3> QED
      BY <3>1, <3>2
  <2>7. n0 \in Node => Absent(modules, n0)
    <3>1. States(disk, Top.path, Top.next, n0)
      BY <1>1, <1>5 DEF States
    <3>2. Unread(stack, modules, Top.path, Top.next)
      BY <1>2, <1>3 DEF Unread, Top
    <3> QED
      BY <1>1, <1>2, <3>1, <3>2 DEF OnceOK
  <2>8. ~(r.nodes = o.nodes /\ r.augments = o.augments)
    <3>1. \A q : IsSeq(q) => \A x : Append(q, x) # q
      <4> TAKE q
      <4> HAVE IsSeq(q)
      <4> TAKE x
      <4>1. DOMAIN q = 1 .. Len(q) /\ DOMAIN Append(q, x) = 1 .. Len(q) + 1 /\ Len(q) \in Nat
        BY AppendPlaces
      <4>2. Len(q) + 1 \in 1 .. Len(q) + 1 /\ Len(q) + 1 \notin 1 .. Len(q)
        BY <4>1
      <4> QED
        BY <4>1, <4>2
    <3> QED
      BY <1>2, <2>1, <3>1
  <2>9. ASSUME NEW n \in Node PROVE Single(modules', n)
    <3>1. CASE n = n0
      BY <2>6, <2>7, <2>8, <3>1 DEF Single, Absent
    <3>2. CASE n # n0
      <4>1. Single(modules, n)
        BY DEF OnceOK
      <4> QED
        BY <2>6, <3>2, <4>1 DEF Single
    <3> QED
      BY <3>1, <3>2
  <2>10. ASSUME NEW n \in Node, NEW p \in Path, NEW k \in DOMAIN disk[p].body, States(disk, p, k, n),
                Unread(stack', modules', p, k)
         PROVE  Absent(modules', n)
    <3>1. k \in Nat
      BY <1>3, FileFields
    <3>2. Unread(stack, modules, p, k)
      BY <1>3, <2>3, <2>10, <3>1 DEF Unread, Onward, PathsKept
    <3>3. Absent(modules, n)
      BY <2>10, <3>2 DEF OnceOK
    <3>4. n # n0
      <4> SUFFICES ASSUME n = n0 PROVE FALSE
        OBVIOUS
      <4>1. p = Top.path /\ k = Top.next
        BY <1>1, <1>2, <1>5, <2>10 DEF StatedOnce, States
      <4>2. PICK x \in DOMAIN stack' : stack'[x].path = Top.path /\ stack'[x].next <= Top.next
        BY <1>2, <2>1, <2>2, <2>10, <4>1 DEF Unread
      <4>3. x \in DOMAIN stack /\ stack[x].path = Top.path
        BY <1>3, <4>2 DEF Onward
      <4>4. stack[x].id \in DOMAIN modules /\ modules[stack[x].id].path = Top.path
        BY <4>3 DEF IInv, StackOK
      <4>5. stack[x].id = Top.id
        BY <1>2, <4>4 DEF OneEach
      <4>6. x = Depth
        BY <1>2, <4>3, <4>5 DEF IInv, StackOK, Top
      <4> QED
        BY <1>3, <4>2, <4>6
    <3> QED
      BY <2>6, <3>3, <3>4 DEF Absent
  <2> QED
    BY <1>1, <2>5, <2>9, <2>10 DEF OnceOK
<1> QED
  BY <1>1, <1>4, <1>5

(* An augment is merged: its node goes from the statement to the target.   *)
LEMMA MergeAugmentOnce ==
  ASSUME IInv, OnceOK(disk, stack, modules), MergeAugment
  PROVE  OnceOK(disk, stack, modules)'
<1> DEFINE q == modules[Top.id].augments
<1>1. /\ stack # <<>> /\ stack' = stack /\ disk' = disk /\ q # <<>>
  BY DEF MergeAugment, Finalizing
<1>2. PICK i \in AugmentTargets :
        modules' = [modules EXCEPT ![i].nodes = Append(@, Augment.node),
                                   ![Top.id].augments = Tail(@)]
  BY DEF MergeAugment
<1>3. /\ Top.id \in DOMAIN modules /\ \A j \in DOMAIN modules : IsObject(modules[j])
      /\ ListsOK(modules)
  BY <1>1, TopFacts DEF IInv, Heap, OnceOK
<1>4. i \in DOMAIN modules
  BY <1>3 DEF AugmentTargets, Resolved, Bound, IInv, SharedOK
<1>5. PICK r : r = [modules[i] EXCEPT !.nodes = Append(@, Augment.node)]
  OBVIOUS
<1>6. /\ IsObject(r) /\ r.path = modules[i].path
      /\ r.nodes = Append(modules[i].nodes, Augment.node) /\ r.augments = modules[i].augments
  BY <1>3, <1>4, <1>5 DEF IsObject
<1>7. PICK m : m = [modules EXCEPT ![i] = r]
  OBVIOUS
<1>8. /\ DOMAIN m = DOMAIN modules /\ m[i] = r /\ \A j \in DOMAIN modules : j # i => m[j] = modules[j]
  BY <1>4, <1>7
<1>9. PICK u : u = [m[Top.id] EXCEPT !.augments = Tail(@)]
  OBVIOUS
<1>10. IsObject(m[Top.id]) /\ m[Top.id].augments = q
  BY <1>3, <1>6, <1>8
<1>11. u.path = m[Top.id].path /\ u.nodes = m[Top.id].nodes /\ u.augments = Tail(q)
  BY <1>9, <1>10 DEF IsObject
<1>12. modules' = [m EXCEPT ![Top.id] = u]
  BY <1>2, <1>3, <1>4, <1>5, <1>7, <1>9
<1>13. /\ DOMAIN modules' = DOMAIN modules
       /\ \A j \in DOMAIN modules :
            /\ modules'[j].path = modules[j].path
            /\ j # i => modules'[j].nodes = modules[j].nodes
            /\ j # Top.id => modules'[j].augments = modules[j].augments
       /\ modules'[i].nodes = Append(modules[i].nodes, Augment.node)
       /\ modules'[Top.id].augments = Tail(q)
  BY <1>3, <1>4, <1>6, <1>8, <1>11, <1>12
<1>14. PathsKept(modules, modules')
  BY <1>13 DEF PathsKept
<1>15. IsSeq(q) /\ IsSeq(modules[i].nodes)
  BY <1>3, <1>4 DEF ListsOK
<1> HIDE DEF q
<1>16. ListsOK(modules')
  <2>1. IsSeq(Append(modules[i].nodes, Augment.node)) /\ IsSeq(Tail(q))
    BY <1>1, <1>15, AppendPlaces, TailPlaces
  <2> QED
    BY <1>3, <1>13, <2>1 DEF ListsOK
<1>17. Augment.node = q[1].node /\ 1 \in DOMAIN q
  BY <1>1, <1>15, TailPlaces DEF Augment, q
<1>18. ASSUME NEW n
       PROVE  /\ \A j, k : NodeAt(modules', j, k, n) =>
                   NodeAt(modules, j, k, n)
                   \/ (j = i /\ k = Len(modules[i].nodes) + 1 /\ AugmentAt(modules, Top.id, 1, n))
              /\ \A j, k : AugmentAt(modules', j, k, n) =>
                   \/ j # Top.id /\ AugmentAt(modules, j, k, n)
                   \/ j = Top.id /\ k \in Nat \ {0} /\ AugmentAt(modules, j, k + 1, n)
  <2>1. \A x \in DOMAIN Append(modules[i].nodes, Augment.node) :
          x \in DOMAIN modules[i].nodes \/ x = Len(modules[i].nodes) + 1
    BY <1>15, AppendPlaces
  <2>2. Augment.node = n => AugmentAt(modules, Top.id, 1, n)
    BY <1>3, <1>17 DEF AugmentAt, q
  <2>3. ASSUME NEW j, NEW k, NodeAt(modules', j, k, n)
        PROVE  NodeAt(modules, j, k, n)
               \/ (j = i /\ k = Len(modules[i].nodes) + 1 /\ AugmentAt(modules, Top.id, 1, n))
    <3>1. CASE j # i
      BY <1>13, <2>3, <3>1 DEF NodeAt
    <3>2. CASE j = i
      BY <1>4, <1>13, <1>15, <2>1, <2>2, <2>3, <3>2, AppendPlaces DEF NodeAt
    <3> QED
      BY <3>1, <3>2
  <2>4. ASSUME NEW j, NEW k, AugmentAt(modules', j, k, n)
        PROVE  \/ j # Top.id /\ AugmentAt(modules, j, k, n)
               \/ j = Top.id /\ k \in Nat \ {0} /\ AugmentAt(modules, j, k + 1, n)
    <3>1. CASE j # Top.id
      BY <1>13, <2>4, <3>1 DEF AugmentAt
    <3>2. CASE j = Top.id
      <4>1. k \in DOMAIN Tail(q) /\ Tail(q)[k].node = n
        BY <1>13, <2>4, <3>2 DEF AugmentAt
      <4>2. k \in Nat \ {0} /\ k + 1 \in DOMAIN q /\ q[k + 1].node = n
        BY <1>1, <1>15, <4>1, TailPlaces
      <4> QED
        BY <1>3, <3>2, <4>2 DEF AugmentAt, q
    <3> QED
      BY <3>1, <3>2
  <2> QED
    BY <2>3, <2>4
<1>19. ASSUME NEW n, Single(modules, n) PROVE Single(modules', n)
  <2>1. ASSUME NEW j, NEW k, NEW x, NEW y, NodeAt(modules', j, k, n), NodeAt(modules', x, y, n)
        PROVE  j = x /\ k = y
    <3>1. /\ \/ NodeAt(modules, j, k, n)
             \/ j = i /\ k = Len(modules[i].nodes) + 1 /\ AugmentAt(modules, Top.id, 1, n)
          /\ \/ NodeAt(modules, x, y, n)
             \/ x = i /\ y = Len(modules[i].nodes) + 1 /\ AugmentAt(modules, Top.id, 1, n)
      BY <1>18, <2>1
    <3> QED
      BY <1>19, <3>1 DEF Single
  <2>2. ASSUME NEW j, NEW k, NEW x, NEW y, AugmentAt(modules', j, k, n), AugmentAt(modules', x, y, n)
        PROVE  j = x /\ k = y
    <3>1. CASE j = Top.id /\ x = Top.id
      <4>1. k \in Nat /\ y \in Nat /\ k + 1 = y + 1
        BY <1>18, <1>19, <2>2, <3>1 DEF Single
      <4> QED
        BY <3>1, <4>1
    <3>2. CASE ~(j = Top.id /\ x = Top.id)
      BY <1>18, <1>19, <2>2, <3>2 DEF Single
    <3> QED
      BY <3>1, <3>2
  <2>3. ASSUME NEW j, NEW k, NEW x, NEW y, NodeAt(modules', j, k, n), AugmentAt(modules', x, y, n)
        PROVE  FALSE
    <3>1. CASE NodeAt(modules, j, k, n)
      <4>1. AugmentAt(modules, x, y, n) \/ AugmentAt(modules, x, y + 1, n)
        BY <1>18, <2>3
      <4> QED
        BY <1>19, <3>1, <4>1 DEF Single
    <3>2. CASE AugmentAt(modules, Top.id, 1, n)
      <4>1. CASE x # Top.id
        BY <1>18, <1>19, <2>3, <3>2, <4>1 DEF Single
      <4>2. CASE x = Top.id
        <5>1. y \in Nat \ {0} /\ y + 1 = 1
          BY <1>18, <1>19, <2>3, <3>2, <4>2 DEF Single
        <5> QED
          BY <5>1
      <4> QED
        BY <4>1, <4>2
    <3> QED
      BY <1>18, <2>3, <3>1, <3>2
  <2> QED
    BY <2>1, <2>2, <2>3 DEF Single
<1>20. ASSUME NEW n, Absent(modules, n) PROVE Absent(modules', n)
  BY <1>18, <1>20 DEF Absent
<1>21. disk \in [Path -> File] /\ Onward(stack', stack)
  BY <1>1, DiskFile, StackOnward
<1> QED
  BY <1>1, <1>14, <1>16, <1>19, <1>20, <1>21, OnceKept

(* A submodule is merged: what it has goes to the object that includes it. *)
LEMMA MergeSubmoduleOnce ==
  ASSUME IInv, OnceOK(disk, stack, modules), MergeSubmodule
  PROVE  OnceOK(disk, stack, modules)'
<1>1. /\ stack # <<>> /\ Top.how = "include" /\ disk' = disk
      /\ stack' = [SubSeq(stack, 1, Depth - 1) EXCEPT ![Depth - 1].next = @ + 1]
  BY DEF MergeSubmodule, AtEnd, Reading
<1>2. /\ Caller.id \in DOMAIN modules /\ IsObject(modules[Caller.id]) /\ Caller.id # Top.id
  BY <1>1, CallerFacts
<1>3. Top.id \in DOMAIN modules /\ Top.path = modules[Top.id].path
  BY <1>1, TopFacts
<1> DEFINE c == modules[Caller.id]
<1>4. PICK r : r = [modules[Caller.id] EXCEPT
                   !.nodes = @ \o Sub.nodes,
                   !.defines = @ \cup Sub.defines,
                   !.augments = @ \o Sub.augments,
                   !.imports = @ \cup {b \in Sub.imports : b[1] # Own(Caller.id) /\ ~Taken(b[1])}]
  OBVIOUS
<1>5. r.path = c.path /\ r.nodes = c.nodes \o Sub.nodes /\ r.augments = c.augments \o Sub.augments
  BY <1>2, <1>4 DEF IsObject
<1>6. modules' = [[modules EXCEPT ![Caller.id] = r] EXCEPT ![Top.id] = NewModule(Top.path)]
  BY <1>2, <1>3, <1>4 DEF MergeSubmodule
<1>7. /\ NewModule(Top.path).path = Top.path
      /\ NewModule(Top.path).nodes = <<>> /\ NewModule(Top.path).augments = <<>>
  BY DEF NewModule
<1>8. /\ DOMAIN modules' = DOMAIN modules
      /\ modules'[Caller.id] = r /\ modules'[Top.id] = NewModule(Top.path)
      /\ \A j \in DOMAIN modules : j \notin {Caller.id, Top.id} => modules'[j] = modules[j]
  BY <1>2, <1>3, <1>6
<1>9. PathsKept(modules, modules')
  BY <1>3, <1>5, <1>7, <1>8 DEF PathsKept
<1>10. /\ IsSeq(c.nodes) /\ IsSeq(c.augments) /\ IsSeq(Sub.nodes) /\ IsSeq(Sub.augments)
       /\ Sub = modules[Top.id]
  BY <1>2, <1>3 DEF OnceOK, ListsOK, Sub
<1>11. IsSeq(<<>>) /\ DOMAIN <<>> = {}
  BY DEF IsSeq, Elements
<1>12. ListsOK(modules')
  <2>1. IsSeq(r.nodes) /\ IsSeq(r.augments)
    BY <1>5, <1>10, ConcatPlaces
  <2> QED
    BY <1>7, <1>8, <1>11, <2>1 DEF ListsOK, OnceOK
<1>13. ASSUME NEW n
       PROVE  /\ \A j, k : NodeAt(modules', j, k, n) =>
                   /\ j # Top.id
                   /\ \/ NodeAt(modules, j, k, n)
                      \/ /\ j = Caller.id /\ k \in Int /\ Len(c.nodes) \in Int
                         /\ NodeAt(modules, Top.id, k - Len(c.nodes), n)
              /\ \A j, k : AugmentAt(modules', j, k, n) =>
                   /\ j # Top.id
                   /\ \/ AugmentAt(modules, j, k, n)
                      \/ /\ j = Caller.id /\ k \in Int /\ Len(c.augments) \in Int
                         /\ AugmentAt(modules, Top.id, k - Len(c.augments), n)
  <2>1. ASSUME NEW j, NEW k, NodeAt(modules', j, k, n)
        PROVE  /\ j # Top.id
               /\ \/ NodeAt(modules, j, k, n)
                  \/ /\ j = Caller.id /\ k \in Int /\ Len(c.nodes) \in Int
                     /\ NodeAt(modules, Top.id, k - Len(c.nodes), n)
    <3>1. j # Top.id
      BY <1>7, <1>8, <1>11, <2>1 DEF NodeAt
    <3>2. CASE j = Caller.id
      <4>1. k \in DOMAIN (c.nodes \o Sub.nodes) /\ (c.nodes \o Sub.nodes)[k] = n
        BY <1>5, <1>8, <2>1, <3>2 DEF NodeAt
      <4>2. \/ k \in DOMAIN c.nodes /\ c.nodes[k] = n
            \/ /\ k \in Int /\ Len(c.nodes) \in Int /\ k - Len(c.nodes) \in DOMAIN Sub.nodes
               /\ Sub.nodes[k - Len(c.nodes)] = n
        BY <1>10, <4>1, ConcatPlaces
      <4> QED
        BY <1>2, <1>3, <1>10, <3>1, <3>2, <4>2 DEF NodeAt
    <3>3. CASE j # Caller.id
      BY <1>8, <2>1, <3>1, <3>3 DEF NodeAt
    <3> QED
      BY <3>2, <3>3
  <2>2. ASSUME NEW j, NEW k, AugmentAt(modules', j, k, n)
        PROVE  /\ j # Top.id
               /\ \/ AugmentAt(modules, j, k, n)
                  \/ /\ j = Caller.id /\ k \in Int /\ Len(c.augments) \in Int
                     /\ AugmentAt(modules, Top.id, k - Len(c.augments), n)
    <3>1. j # Top.id
      BY <1>7, <1>8, <1>11, <2>2 DEF AugmentAt
    <3>2. CASE j = Caller.id
      <4>1. k \in DOMAIN (c.augments \o Sub.augments) /\ (c.augments \o Sub.augments)[k].node = n
        BY <1>5, <1>8, <2>2, <3>2 DEF AugmentAt
      <4>2. \/ k \in DOMAIN c.augments /\ c.augments[k].node = n
            \/ /\ k \in Int /\ Len(c.augments) \in Int /\ k - Len(c.augments) \in DOMAIN Sub.augments
               /\ Sub.augments[k - Len(c.augments)].node = n
        BY <1>10, <4>1, ConcatPlaces
      <4> QED
        BY <1>2, <1>3, <1>10, <3>1, <3>2, <4>2 DEF AugmentAt
    <3>3. CASE j # Caller.id
      BY <1>8, <2>2, <3>1, <3>3 DEF AugmentAt
    <3> QED
      BY <3>2, <3>3
  <2> QED
    BY <2>1, <2>2
<1> HIDE DEF c
<1>14. \A k, y : k \in Int /\ y \in Int /\ Len(c.nodes) \in Int /\ k - Len(c.nodes) = y - Len(c.nodes) => k = y
  OBVIOUS
<1>15. \A k, y : k \in Int /\ y \in Int /\ Len(c.augments) \in Int /\ k - Len(c.augments) = y - Len(c.augments) => k = y
  OBVIOUS
<1>16. ASSUME NEW n, Single(modules, n) PROVE Single(modules', n)
  <2>1. \A j, k, x, y : NodeAt(modules', j, k, n) /\ NodeAt(modules', x, y, n) => j = x /\ k = y
    BY <1>13, <1>14, <1>16 DEF Single
  <2>2. \A j, k, x, y : AugmentAt(modules', j, k, n) /\ AugmentAt(modules', x, y, n) => j = x /\ k = y
    BY <1>13, <1>15, <1>16 DEF Single
  <2>3. \A j, k, x, y : ~(NodeAt(modules', j, k, n) /\ AugmentAt(modules', x, y, n))
    BY <1>13, <1>16 DEF Single
  <2> QED
    BY <2>1, <2>2, <2>3 DEF Single
<1>17. ASSUME NEW n, Absent(modules, n) PROVE Absent(modules', n)
  BY <1>13, <1>17 DEF Absent
<1>18. disk \in [Path -> File] /\ Onward(stack', stack)
  BY <1>1, DiskFile, StackReturned
<1> QED
  BY <1>1, <1>9, <1>12, <1>16, <1>17, <1>18, OnceKept

-----------------------------------------------------------------------------
(* An object is replaced by one of the same file.                          *)
LEMMA PathsEdit ==
  ASSUME NEW m, NEW i \in DOMAIN m, NEW r, r.path = m[i].path
  PROVE  PathsKept(m, [m EXCEPT ![i] = r])
BY DEF PathsKept

(* A new object.                                                           *)
LEMMA PathsPush ==
  ASSUME NEW m, Heap(m), NEW p \in Path
  PROVE  PathsKept(m, Append(m, NewModule(p)))
<1> DEFINE n == Append(m, NewModule(p))
<1>1. Heap(n) /\ Len(n) = Len(m) + 1 /\ Len(m) \in Nat /\ \A i \in DOMAIN m : n[i] = m[i]
  BY HeapAppend, HeapDomain
<1>2. DOMAIN m = 1 .. Len(m) /\ DOMAIN n = 1 .. Len(m) + 1
  BY <1>1, HeapDomain
<1> QED
  BY <1>1, <1>2 DEF PathsKept

(* No step changes the file of an object.                                  *)
LEMMA PathsStep ==
  ASSUME IInv, [Next]_vars PROVE PathsKept(modules, modules')
<1>1. modules' = modules => PathsKept(modules, modules')
  BY DEF PathsKept
<1>2. ASSUME NEW m, NEW m2, SameLists(m, m2) PROVE PathsKept(m, m2)
  BY <1>2 DEF SameLists, PathsKept
<1>3. ASSUME NEW m, NEW n, NEW o, PathsKept(m, n), PathsKept(n, o) PROVE PathsKept(m, o)
  BY <1>3 DEF PathsKept
<1>4. CASE ReadStatement
  <2>1. stack # <<>>
    BY <1>4 DEF ReadStatement, At, Reading
  <2>2. \E r : modules' = [modules EXCEPT ![Top.id] = r] /\ r.path = modules[Top.id].path
    <3>1. PICK r1, r2, r3 :
            /\ r1 = [modules[Top.id] EXCEPT !.nodes = Append(@, Current.node)]
            /\ r2 = [modules[Top.id] EXCEPT !.defines = @ \cup {Current.node}]
            /\ r3 = [modules[Top.id] EXCEPT !.augments = Append(@, Current)]
      OBVIOUS
    <3>2. /\ r1.path = modules[Top.id].path /\ r2.path = modules[Top.id].path
          /\ r3.path = modules[Top.id].path
      BY <2>1, <3>1, TopFacts DEF IsObject
    <3>3. \/ modules' = [modules EXCEPT ![Top.id] = r1]
          \/ modules' = [modules EXCEPT ![Top.id] = r2]
          \/ modules' = [modules EXCEPT ![Top.id] = r3]
      BY <1>4, <3>1 DEF ReadStatement
    <3> QED
      BY <3>2, <3>3
  <2>3. PICK r : modules' = [modules EXCEPT ![Top.id] = r] /\ r.path = modules[Top.id].path
    BY <2>2
  <2>4. Top.id \in DOMAIN modules
    BY <2>1, TopFacts
  <2> QED
    BY <2>3, <2>4, PathsEdit
<1>5. CASE BindCached
  <2>1. /\ stack # <<>>
        /\ modules' = [modules EXCEPT ![Top.id].imports = @ \cup {<<Current.prefix, cache[Target]>>}]
    BY <1>5 DEF BindCached, At, Reading, Bind
  <2> QED
    BY <1>2, <2>1, TopFacts, ImportsSameLists
<1>6. CASE LoadImport \/ LoadInclude
  <2>1. modules' = Append(modules, NewModule(Target)) /\ Target # NoPath
    BY <1>6 DEF LoadImport, LoadInclude, ImportRefused
  <2>2. Target \in Path
    BY <1>6, <2>1, TargetPath DEF LoadImport, LoadInclude
  <2> QED
    BY <2>1, <2>2, PathsPush DEF IInv
<1>7. CASE MergeSubmodule
  <2>1. stack # <<>> /\ Top.how = "include"
    BY <1>7 DEF MergeSubmodule, AtEnd, Reading
  <2>2. Caller.id \in DOMAIN modules /\ IsObject(modules[Caller.id]) /\ Caller.id # Top.id
        /\ Top.id \in DOMAIN modules /\ Top.path = modules[Top.id].path
    BY <2>1, CallerFacts, TopFacts
  <2>3. PICK r : r = [modules[Caller.id] EXCEPT
                        !.nodes = @ \o Sub.nodes,
                        !.defines = @ \cup Sub.defines,
                        !.augments = @ \o Sub.augments,
                        !.imports = @ \cup {b \in Sub.imports : b[1] # Own(Caller.id) /\ ~Taken(b[1])}]
    OBVIOUS
  <2>4. r.path = modules[Caller.id].path
    BY <2>2, <2>3 DEF IsObject
  <2>5. PICK n : n = [modules EXCEPT ![Caller.id] = r]
    OBVIOUS
  <2>6. modules' = [n EXCEPT ![Top.id] = NewModule(Top.path)]
    BY <1>7, <2>2, <2>3, <2>5 DEF MergeSubmodule
  <2>7. PathsKept(modules, n) /\ Top.id \in DOMAIN n /\ n[Top.id].path = Top.path
    BY <2>2, <2>4, <2>5, PathsEdit
  <2>8. NewModule(Top.path).path = Top.path
    BY DEF NewModule
  <2>9. PathsKept(n, modules')
    BY <2>6, <2>7, <2>8, PathsEdit
  <2> QED
    BY <1>3, <2>7, <2>9
<1>8. CASE MergeAugment
  <2>1. PICK i \in AugmentTargets :
          modules' = [modules EXCEPT ![i].nodes = Append(@, Augment.node),
                                     ![Top.id].augments = Tail(@)]
    BY <1>8 DEF MergeAugment
  <2>2. Top.id \in DOMAIN modules /\ \A j \in DOMAIN modules : IsObject(modules[j])
    BY <1>8, TopFacts DEF MergeAugment, Finalizing, IInv, Heap
  <2>3. i \in DOMAIN modules
    BY <2>2 DEF AugmentTargets, Resolved, Bound, IInv, SharedOK
  <2>4. PICK r : r = [modules[i] EXCEPT !.nodes = Append(@, Augment.node)]
    OBVIOUS
  <2>5. IsObject(r) /\ r.path = modules[i].path
    BY <2>2, <2>3, <2>4 DEF IsObject
  <2>6. PICK m : m = [modules EXCEPT ![i] = r]
    OBVIOUS
  <2>7. PICK u : u = [m[Top.id] EXCEPT !.augments = Tail(@)]
    OBVIOUS
  <2>8. Top.id \in DOMAIN m /\ IsObject(m[Top.id])
    BY <2>2, <2>3, <2>5, <2>6
  <2>9. u.path = m[Top.id].path
    BY <2>7, <2>8 DEF IsObject
  <2>10. modules' = [m EXCEPT ![Top.id] = u]
    BY <2>1, <2>2, <2>3, <2>4, <2>6, <2>7
  <2>11. PathsKept(modules, m) /\ PathsKept(m, modules')
    BY <2>3, <2>5, <2>6, <2>8, <2>9, <2>10, PathsEdit
  <2> QED
    BY <1>3, <2>11
<1>9. CASE Return \/ RefuseImported
  <2>1. stack # <<>> /\ modules' = Ready
    BY <1>9 DEF Return, RefuseImported, Merged, Finalizing
  <2> QED
    BY <1>2, <2>1, ReadySameLists
<1>10. CASE ReturnImport
  <2>1. /\ stack # <<>> /\ Top.how = "import" /\ Merged
        /\ modules' = [Ready EXCEPT ![Caller.id].imports = @ \cup {<<Expected.prefix, Top.id>>}]
    BY <1>10 DEF ReturnImport, Merged, Finalizing
  <2>2. /\ SameLists(modules, Ready) /\ Caller.id \in DOMAIN Ready /\ Ready[Caller.id] = modules[Caller.id]
        /\ IsObject(modules[Caller.id])
    BY <2>1, ReadySameLists, ReadyFacts, CallerFacts
  <2>3. SameLists(Ready, modules')
    BY <2>1, <2>2, ImportsSameLists
  <2> QED
    BY <1>2, <1>3, <2>2, <2>3
<1>11. CASE \E p \in Path : ParseFile(p) \/ ParseString(p)
  BY <1>11, PathsPush DEF ParseFile, ParseString, Call, IInv
<1>12. CASE SyntaxError \/ RefuseImport \/ RefuseInclude \/ RefuseSubmodule \/ RefuseUses
            \/ RefuseAugment \/ RefuseSemantics \/ ExpandUses \/ UNCHANGED vars
  BY <1>1, <1>12 DEF SyntaxError, RefuseImport, RefuseInclude, RefuseSubmodule, RefuseUses,
     RefuseAugment, RefuseSemantics, ExpandUses, Abort, vars
<1> QED
  BY <1>4, <1>5, <1>6, <1>7, <1>8, <1>9, <1>10, <1>11, <1>12 DEF Next, Step, ReadStep, FinalizeStep

(* Every step keeps nodes at one place.                                    *)
LEMMA OnceInductive == IInv /\ OnceInv /\ [Next]_vars => OnceInv'
<1> SUFFICES ASSUME IInv, OnceInv, [Next]_vars, OneEach(modules)', StatedOnce'
             PROVE  OnceOK(disk, stack, modules)'
  BY DEF OnceInv
<1>1. disk' = disk
  BY DEF Next, Step, ReadStep, FinalizeStep, vars, ReadStatement, SyntaxError, RefuseImport,
     BindCached, LoadImport, RefuseInclude, LoadInclude, RefuseSubmodule, MergeSubmodule, ExpandUses,
     RefuseUses, MergeAugment, RefuseAugment, RefuseSemantics, Return, ReturnImport, RefuseImported,
     Abort, ParseFile, ParseString, Call
<1>2. OneEach(modules')
  OBVIOUS
<1>3. OneEach(modules) /\ StatedOnce
  BY <1>1, <1>2, PathsStep, OneEachBefore DEF StatedOnce
<1>4. OnceOK(disk, stack, modules)
  BY <1>3 DEF OnceInv
<1>5. CASE SyntaxError \/ RefuseImport \/ RefuseInclude \/ RefuseSubmodule \/ RefuseUses
            \/ RefuseAugment \/ RefuseSemantics
  <2>1. Abort /\ stack # <<>>
    BY <1>5 DEF SyntaxError, RefuseImport, RefuseInclude, RefuseSubmodule, RefuseUses, RefuseAugment,
       RefuseSemantics, At, AtEnd, Reading, Merged, Finalizing
  <2> QED
    BY <1>4, <2>1, AbortOnce
<1>6. CASE UNCHANGED vars
  BY <1>4, <1>6 DEF vars
<1>7. CASE ReadStep
  BY <1>2, <1>3, <1>4, <1>5, <1>7, ReadStatementOnce, BindCachedOnce, LoadOnce, MergeSubmoduleOnce
     DEF ReadStep
<1>8. CASE FinalizeStep
  BY <1>4, <1>5, <1>8, ExpandUsesOnce, MergeAugmentOnce, ReturnOnce, ReturnImportOnce DEF FinalizeStep
<1>9. CASE \E p \in Path : ParseFile(p) \/ ParseString(p)
  BY <1>2, <1>4, <1>9, CallOnce
<1> QED
  BY <1>6, <1>7, <1>8, <1>9 DEF Next, Step

(* A set no two elements of which differ.                                  *)
LEMMA AtMostOne ==
  ASSUME NEW S, \A x, y \in S : x = y
  PROVE  Cardinality(S) <= 1
<1>1. CASE S = {}
  BY <1>1, FS_EmptySet
<1>2. CASE S # {}
  <2>1. PICK x : S = {x}
    BY <1>2
  <2>2. Cardinality({x}) = 1
    BY FS_Singleton
  <2> QED
    BY <2>1, <2>2
<1> QED
  BY <1>1, <1>2

(* However modules import and include each other, and whatever loads end   *)
(* in exceptions, no object holds a node twice when one statement states   *)
(* it and every file was parsed at most once: what an augment adds, and    *)
(* what a submodule brings, arrives once.                                  *)
THEOREM NodesAreMergedOnce == Spec => []MergedOnce
<1>1. Init => OnceInv
  <2> SUFFICES ASSUME Init PROVE OnceOK(disk, stack, modules)
    BY DEF OnceInv
  <2>1. modules = <<>> /\ DOMAIN modules = {}
    BY DEF Init
  <2> QED
    BY <2>1 DEF OnceOK, ListsOK, Single, Absent, NodeAt, AugmentAt
<1>2. IInv /\ OnceInv /\ [Next]_vars => OnceInv'
  BY OnceInductive
<1>3. OnceInv => MergedOnce
  <2> SUFFICES ASSUME OnceInv, StatedOnce, OneEach(modules), NEW i \in DOMAIN modules, NEW n \in Node
               PROVE  Occurrences(i, n) <= 1
    BY DEF MergedOnce, Objects, OneEach
  <2> DEFINE S == {k \in DOMAIN modules[i].nodes : modules[i].nodes[k] = n}
  <2>1. Single(modules, n)
    BY DEF OnceInv, OnceOK
  <2>2. \A x, y \in S : x = y
    BY <2>1 DEF Single, NodeAt
  <2>3. Cardinality(S) <= 1
    <3> HIDE DEF S
    <3> QED
      BY <2>2, AtMostOne
  <2> QED
    BY <2>3 DEF Occurrences
<1> QED
  BY <1>1, <1>2, <1>3, Invariance, PTL DEF Spec
-----------------------------------------------------------------------------
(* What a load leaves alone.                                               *)

(* The finished objects of m are in m2 as they were.                       *)
Untouched(m, m2) == \A j \in DOMAIN m : m[j].ready => j \in DOMAIN m2 /\ m2[j] = m[j]

(* An object that is not finished is replaced.                             *)
LEMMA UntouchedEdit ==
  ASSUME NEW m, NEW i \in DOMAIN m, ~m[i].ready, NEW r
  PROVE  Untouched(m, [m EXCEPT ![i] = r])
BY DEF Untouched

(* A new object is added.                                                  *)
LEMMA UntouchedPush ==
  ASSUME NEW m, Heap(m), NEW p \in Path
  PROVE  Untouched(m, Append(m, NewModule(p)))
<1> DEFINE n == Append(m, NewModule(p))
<1>1. Heap(n) /\ Len(n) = Len(m) + 1 /\ Len(m) \in Nat /\ \A i \in DOMAIN m : n[i] = m[i]
  BY HeapAppend, HeapDomain
<1>2. DOMAIN m = 1 .. Len(m) /\ DOMAIN n = 1 .. Len(m) + 1
  BY <1>1, HeapDomain
<1> QED
  BY <1>1, <1>2 DEF Untouched

(* Two edits, the first of the importer or includer, the other of what it  *)
(* imports or includes.                                                    *)
LEMMA UntouchedEdits ==
  ASSUME NEW m, NEW i \in DOMAIN m, NEW j \in DOMAIN m, ~m[i].ready, ~m[j].ready, i # j,
         NEW r, NEW u
  PROVE  Untouched(m, [[m EXCEPT ![i] = r] EXCEPT ![j] = u])
BY DEF Untouched

(* Every step but the merge of an augment leaves finished objects alone.   *)
LEMMA OthersUntouched ==
  ASSUME IInv, [Next]_vars, ~MergeAugment PROVE Untouched(modules, modules')
<1>1. modules' = modules => Untouched(modules, modules')
  BY DEF Untouched
<1>2. stack # <<>> => Top.id \in DOMAIN modules /\ ~modules[Top.id].ready
  BY TopFacts
<1>3. CASE ReadStatement \/ BindCached \/ Return \/ RefuseImported
  <2>1. stack # <<>>
    BY <1>3 DEF ReadStatement, BindCached, Return, RefuseImported, At, Reading, Merged, Finalizing
  <2>2. PICK r : modules' = [modules EXCEPT ![Top.id] = r]
    BY <1>3 DEF ReadStatement, BindCached, Return, RefuseImported, Bind, Ready
  <2> QED
    BY <1>2, <2>1, <2>2, UntouchedEdit
<1>4. CASE LoadImport \/ LoadInclude
  <2>1. modules' = Append(modules, NewModule(Target)) /\ Target # NoPath
    BY <1>4 DEF LoadImport, LoadInclude, ImportRefused
  <2>2. Target \in Path
    BY <1>4, <2>1, TargetPath DEF LoadImport, LoadInclude
  <2> QED
    BY <2>1, <2>2, UntouchedPush DEF IInv
<1>5. CASE MergeSubmodule \/ ReturnImport
  <2>1. stack # <<>> /\ Top.how \in {"import", "include"}
    BY <1>5 DEF MergeSubmodule, ReturnImport, AtEnd, Reading, Merged, Finalizing
  <2>2. /\ Top.id \in DOMAIN modules /\ ~modules[Top.id].ready
        /\ Caller.id \in DOMAIN modules /\ ~modules[Caller.id].ready /\ Caller.id # Top.id
    BY <2>1, TopFacts, CallerFacts
  <2>3. CASE MergeSubmodule
    <3>1. PICK r : r = [modules[Caller.id] EXCEPT
                          !.nodes = @ \o Sub.nodes,
                          !.defines = @ \cup Sub.defines,
                          !.augments = @ \o Sub.augments,
                          !.imports = @ \cup {b \in Sub.imports : b[1] # Own(Caller.id) /\ ~Taken(b[1])}]
      OBVIOUS
    <3>2. modules' = [[modules EXCEPT ![Caller.id] = r] EXCEPT ![Top.id] = NewModule(Top.path)]
      BY <2>2, <2>3, <3>1 DEF MergeSubmodule
    <3> QED
      BY <2>2, <3>2, UntouchedEdits
  <2>4. CASE ReturnImport
    <3>1. PICK u : u = [modules[Top.id] EXCEPT !.ready = TRUE]
      OBVIOUS
    <3>2. PICK r : r = [Ready[Caller.id] EXCEPT !.imports = @ \cup {<<Expected.prefix, Top.id>>}]
      OBVIOUS
    <3>3. modules' = [[modules EXCEPT ![Top.id] = u] EXCEPT ![Caller.id] = r]
      BY <2>4, <3>1, <3>2 DEF ReturnImport, Ready
    <3> QED
      BY <2>2, <3>3, UntouchedEdits
  <2> QED
    BY <1>5, <2>3, <2>4
<1>6. CASE \E p \in Path : ParseFile(p) \/ ParseString(p)
  BY <1>6, UntouchedPush DEF ParseFile, ParseString, Call, IInv
<1>7. CASE SyntaxError \/ RefuseImport \/ RefuseInclude \/ RefuseSubmodule \/ RefuseUses
            \/ RefuseAugment \/ RefuseSemantics \/ ExpandUses \/ UNCHANGED vars
  BY <1>1, <1>7 DEF SyntaxError, RefuseImport, RefuseInclude, RefuseSubmodule, RefuseUses,
     RefuseAugment, RefuseSemantics, ExpandUses, Abort, vars
<1> QED
  BY <1>3, <1>4, <1>5, <1>6, <1>7 DEF Next, Step, ReadStep, FinalizeStep

(* An augment goes to the module that states it, which is not finished, or *)
(* to one it imports.                                                      *)
LEMMA AugmentStays ==
  ASSUME IInv, MergeAugment, NEW j \in DOMAIN modules, modules[j].ready
  PROVE  /\ j \in DOMAIN modules'
         /\ \/ modules'[j] = modules[j]
            \/ /\ Finalizing /\ j \in Bound(Top.id, Augment.prefix)
               /\ modules'[j] = [modules[j] EXCEPT !.nodes = Append(@, Augment.node)]
<1>1. Finalizing /\ stack # <<>>
  BY DEF MergeAugment, Finalizing
<1>2. PICK i \in AugmentTargets :
        modules' = [modules EXCEPT ![i].nodes = Append(@, Augment.node),
                                   ![Top.id].augments = Tail(@)]
  BY DEF MergeAugment
<1>3. Top.id \in DOMAIN modules /\ ~modules[Top.id].ready
  BY <1>1, TopFacts
<1>4. i = Top.id \/ i \in Bound(Top.id, Augment.prefix)
  BY DEF AugmentTargets, Resolved
<1>5. i \in DOMAIN modules
  BY <1>3, <1>4 DEF Bound, IInv, SharedOK
<1>6. PICK r : r = [modules[i] EXCEPT !.nodes = Append(@, Augment.node)]
  OBVIOUS
<1>7. PICK m : m = [modules EXCEPT ![i] = r]
  OBVIOUS
<1>8. PICK u : u = [m[Top.id] EXCEPT !.augments = Tail(@)]
  OBVIOUS
<1>9. modules' = [m EXCEPT ![Top.id] = u]
  BY <1>2, <1>3, <1>5, <1>6, <1>7, <1>8
<1>10. j # Top.id
  BY <1>3
<1>11. j \in DOMAIN modules' /\ modules'[j] = IF j = i THEN r ELSE modules[j]
  BY <1>5, <1>7, <1>9, <1>10
<1> QED
  BY <1>1, <1>4, <1>6, <1>10, <1>11

(* The cache gets an entry when an import ends, for a file without one.    *)
LEMMA CacheStays ==
  ASSUME IInv, [Next]_vars, NEW p \in Path, cache[p] # 0 PROVE cache'[p] = cache[p]
<1>1. CASE ReturnImport \/ RefuseImported
  <2>1. /\ stack # <<>> /\ Top.how = "import"
        /\ cache' = [cache EXCEPT ![Top.path] = Top.id]
    BY <1>1 DEF ReturnImport, RefuseImported, Merged, Finalizing
  <2>2. Depth \in DOMAIN stack
    BY <2>1, TopFacts
  <2>3. cache[Top.path] = 0
    BY <2>1, <2>2 DEF IInv, ImportsOK, Top
  <2> QED
    BY <2>1, <2>3
<1>2. CASE ~(ReturnImport \/ RefuseImported)
  <2>1. cache' = cache
    BY <1>2 DEF Next, Step, ReadStep, FinalizeStep, vars, ReadStatement, SyntaxError, RefuseImport,
       BindCached, LoadImport, RefuseInclude, LoadInclude, RefuseSubmodule, MergeSubmodule, ExpandUses,
       RefuseUses, MergeAugment, RefuseAugment, RefuseSemantics, Return, Abort, ParseFile, ParseString,
       Call
  <2> QED
    BY <2>1
<1> QED
  BY <1>1, <1>2

(* However many loads begin, end and fail: a finished module stays as it   *)
(* is, but for nodes that the augments of its importers add at the end,    *)
(* and a file that is cached stays cached as the same object.              *)
THEOREM FinishedModulesStay == Spec => [][FinishedStays]_vars
<1>1. IInv /\ [Next]_vars => FinishedStays
  <2> SUFFICES ASSUME IInv, [Next]_vars PROVE FinishedStays
    OBVIOUS
  <2>1. ASSUME NEW i \in Objects, modules[i].ready
        PROVE  /\ i \in DOMAIN modules'
               /\ \/ modules'[i] = modules[i]
                  \/ /\ Finalizing /\ i \in Bound(Top.id, Augment.prefix)
                     /\ modules'[i] = [modules[i] EXCEPT !.nodes = Append(@, Augment.node)]
    <3>1. i \in DOMAIN modules
      BY DEF Objects
    <3>2. CASE MergeAugment
      BY <2>1, <3>1, <3>2, AugmentStays
    <3>3. CASE ~MergeAugment
      BY <2>1, <3>1, <3>3, OthersUntouched DEF Untouched
    <3> QED
      BY <3>2, <3>3
  <2> QED
    BY <2>1, CacheStays DEF FinishedStays
<1> QED
  BY <1>1, Invariance, PTL DEF Spec
-----------------------------------------------------------------------------
(* How deep parses nest.                                                   *)

Numbers == INSTANCE CommonLemmas

(* Parse k is below parse j, and all after k up to j are of includes: they *)
(* are of one parser.                                                      *)
OneParser(t, k, j) == k <= j /\ \A x \in k + 1 .. j : t[x].how = "include"

(* No file is included again while its include is in progress.             *)
IncludesOnce(t) ==
  \A k, j \in DOMAIN t : k < j /\ t[k].how = "include" /\ OneParser(t, k, j) => t[k].path # t[j].path

(* The parse that began the parser of parse k.                             *)
Begun(t, k) == CHOOSE b \in 1 .. k : t[b].how # "include" /\ OneParser(t, b, k)

(* There is one.                                                           *)
LEMMA BegunExists ==
  ASSUME NEW t \in Seq(Frame), t # <<>>, t[1].how # "include", NEW k \in DOMAIN t
  PROVE  Begun(t, k) \in 1 .. k /\ t[Begun(t, k)].how # "include" /\ OneParser(t, Begun(t, k), k)
<1> DEFINE S == {d \in Nat : k - d \in 1 .. k /\ t[k - d].how # "include"}
<1>1. k \in Nat /\ k >= 1
  OBVIOUS
<1>2. k - 1 \in S
  <2>1. k - 1 \in Nat /\ k - (k - 1) = 1 /\ 1 \in 1 .. k
    BY <1>1
  <2> QED
    BY <2>1
<1>3. PICK d \in S : \A e \in S : d <= e
  <2> HIDE DEF S
  <2>1. S \subseteq Nat
    BY DEF S
  <2> QED
    BY <1>2, <2>1, Numbers!LeastNumber
<1>4. OneParser(t, k - d, k)
  <2>1. k - d <= k
    BY <1>1
  <2>2. ASSUME NEW x \in (k - d) + 1 .. k, t[x].how # "include" PROVE FALSE
    <3>1. k - x \in Nat /\ k - (k - x) = x /\ x \in 1 .. k /\ k - x < d
      BY <1>1, <1>3
    <3>2. k - x \in S
      BY <2>2, <3>1
    <3> QED
      BY <1>3, <3>1, <3>2
  <2> QED
    BY <2>1, <2>2 DEF OneParser
<1>5. k - d \in 1 .. k /\ t[k - d].how # "include"
  OBVIOUS
<1> QED
  BY <1>4, <1>5 DEF Begun

(* The import a parser is of, if it is of one, and the file it includes.   *)
Key(t, k) ==
  <<IF t[Begun(t, k)].how = "import" THEN t[Begun(t, k)].path ELSE NoPath,
    IF t[k].how = "include" THEN t[k].path ELSE NoPath>>

(* These tell the parses in progress apart.                                *)
LEMMA KeysDiffer ==
  ASSUME IInv, IncludesOnce(stack), NEW j \in DOMAIN stack, NEW k \in DOMAIN stack,
         Key(stack, j) = Key(stack, k)
  PROVE  j = k
<1>1. /\ stack \in Seq(Frame) /\ stack # <<>> /\ DOMAIN stack = 1 .. Depth /\ Depth \in Nat
      /\ stack[1].how \in {"file", "string"}
      /\ \A x \in DOMAIN stack : stack[x].path \in Path
      /\ \A x \in DOMAIN stack : x # 1 => stack[x].how \in {"import", "include"}
  <2>1. stack \in Seq(Frame) /\ DOMAIN stack = 1 .. Depth /\ Depth \in Nat
    BY TopFacts
  <2>2. stack # <<>> /\ 1 \in DOMAIN stack
    BY <2>1
  <2>3. \A x \in DOMAIN stack : stack[x] \in Frame
    BY <2>1
  <2> QED
    BY <2>1, <2>2, <2>3 DEF IInv, StackOK, Frame
<1> DEFINE a == Begun(stack, j)
           b == Begun(stack, k)
<1>2. /\ a \in 1 .. j /\ stack[a].how # "include" /\ OneParser(stack, a, j)
      /\ b \in 1 .. k /\ stack[b].how # "include" /\ OneParser(stack, b, k)
  BY <1>1, BegunExists
<1>3. /\ (IF stack[a].how = "import" THEN stack[a].path ELSE NoPath)
           = (IF stack[b].how = "import" THEN stack[b].path ELSE NoPath)
      /\ (IF stack[j].how = "include" THEN stack[j].path ELSE NoPath)
           = (IF stack[k].how = "include" THEN stack[k].path ELSE NoPath)
  BY DEF Key
<1> HIDE DEF a, b
<1>4. a \in DOMAIN stack /\ b \in DOMAIN stack
  BY <1>1, <1>2
<1>5. a = b
  <2>1. CASE stack[a].how = "import" /\ stack[b].how = "import"
    BY <1>3, <1>4, <2>1 DEF IInv, ImportsOK
  <2>2. CASE stack[a].how # "import" /\ stack[b].how # "import"
    BY <1>1, <1>2, <1>4, <2>2
  <2> QED
    BY <1>1, <1>3, <1>4, <2>1, <2>2, DiskAssumption
<1>6. CASE stack[j].how # "include" /\ stack[k].how # "include"
  <2>1. j = a /\ k = b
    BY <1>1, <1>2, <1>6 DEF OneParser
  <2> QED
    BY <1>5, <2>1
<1>7. CASE stack[j].how = "include" /\ stack[k].how = "include" /\ stack[j].path = stack[k].path
  <2>1. j < k => OneParser(stack, j, k)
    BY <1>1, <1>2, <1>5 DEF OneParser
  <2>2. k < j => OneParser(stack, k, j)
    BY <1>1, <1>2, <1>5 DEF OneParser
  <2> QED
    BY <1>1, <1>7, <2>1, <2>2 DEF IncludesOnce
<1> QED
  BY <1>1, <1>3, <1>6, <1>7, DiskAssumption

(* Hence there are no more than pairs of files and NoPath.                 *)
LEMMA FewParses ==
  ASSUME IInv, IncludesOnce(stack), IsFiniteSet(Path)
  PROVE  Depth <= (Cardinality(Path) + 1) * (Cardinality(Path) + 1)
<1> DEFINE P == Path \cup {NoPath}
           f == [k \in DOMAIN stack |-> Key(stack, k)]
<1>1. DOMAIN stack = 1 .. Depth /\ Depth \in Nat /\ stack \in Seq(Frame)
  BY TopFacts
<1>2. IsFiniteSet(P) /\ Cardinality(P) = Cardinality(Path) + 1
  BY FS_AddElement, DiskAssumption
<1>3. IsFiniteSet(P \X P) /\ Cardinality(P \X P) = Cardinality(P) * Cardinality(P)
  BY <1>2, FS_Product
<1>4. ASSUME NEW k \in DOMAIN stack PROVE Key(stack, k) \in P \X P
  <2>1. \A x \in DOMAIN stack : stack[x].path \in Path
    <3>1. \A x \in DOMAIN stack : stack[x] \in Frame
      BY <1>1
    <3> QED
      BY <3>1 DEF Frame
  <2>2. stack # <<>> /\ 1 \in DOMAIN stack
    BY <1>1
  <2>3. stack[1].how # "include"
    BY <2>2 DEF IInv, StackOK
  <2>4. Begun(stack, k) \in DOMAIN stack
    BY <1>1, <2>2, <2>3, BegunExists
  <2> QED
    BY <2>1, <2>4 DEF Key
<1>5. f \in Injection(DOMAIN stack, P \X P)
  <2>1. \A j, k \in DOMAIN stack : Key(stack, j) = Key(stack, k) => j = k
    BY KeysDiffer
  <2> QED
    BY <1>4, <2>1 DEF Injection, IsInjective
<1>6. Cardinality(DOMAIN stack) <= Cardinality(P \X P)
  BY <1>3, <1>5, FS_Injection
<1>7. Cardinality(1 .. Depth) = Depth
  BY <1>1, FS_Interval
<1> QED
  BY <1>1, <1>2, <1>3, <1>6, <1>7

(* A stack of the first parses of another.                                 *)
LEMMA OnceBelow ==
  ASSUME NEW s \in Seq(Frame), IncludesOnce(s), NEW n \in 0 .. Len(s), NEW t, SameParses(t, s, n)
  PROVE  IncludesOnce(t)
<1>1. DOMAIN t = 1 .. n /\ DOMAIN s = 1 .. Len(s) /\ Len(s) \in Nat
  BY DEF SameParses
<1>2. ASSUME NEW k \in DOMAIN t, NEW j \in DOMAIN t, OneParser(t, k, j) PROVE OneParser(s, k, j)
  <2>1. \A x \in k + 1 .. j : x \in 1 .. n /\ t[x].how = s[x].how
    BY <1>1 DEF SameParses
  <2> QED
    BY <1>2, <2>1 DEF OneParser
<1>3. \A k \in DOMAIN t : k \in DOMAIN s /\ t[k].how = s[k].how /\ t[k].path = s[k].path
  BY <1>1 DEF SameParses
<1> QED
  BY <1>2, <1>3 DEF IncludesOnce

(* A parse on top that is of an import, or of a file that is not being     *)
(* included.                                                               *)
LEMMA OncePushed ==
  ASSUME IInv, IncludesOnce(stack), NEW how, NEW p, NEW id,
         how = "include" => p \notin IncludeStack
  PROVE  IncludesOnce(Append(stack, Activation(how, p, id)))
<1> DEFINE f == Activation(how, p, id)
           t == Append(stack, f)
           S == Frame \cup {f}
<1>1. f.how = how /\ f.path = p
  BY DEF Activation
<1>2. stack \in Seq(S) /\ f \in S /\ Depth \in Nat /\ DOMAIN stack = 1 .. Depth /\ Len(stack) = Depth
  BY TopFacts DEF Depth
<1> HIDE DEF f, S
<1>3. DOMAIN t = 1 .. Depth + 1 /\ t[Depth + 1] = f /\ \A x \in 1 .. Depth : t[x] = stack[x]
  BY <1>2
<1> HIDE DEF t
<1>4. ASSUME NEW k \in DOMAIN t, NEW j \in DOMAIN t, k < j, t[k].how = "include", OneParser(t, k, j)
      PROVE  t[k].path # t[j].path
  <2>1. k \in 1 .. Depth
    BY <1>2, <1>3, <1>4
  <2>2. CASE j = Depth + 1
    <3>1. how = "include" /\ t[j].path = p
      BY <1>1, <1>2, <1>3, <1>4, <2>2 DEF OneParser
    <3>2. \A x \in k + 1 .. Depth : stack[x].how = "include"
      BY <1>2, <1>3, <1>4, <2>1, <2>2 DEF OneParser
    <3>3. stack[k].path \in IncludeStack
      BY <1>3, <1>4, <2>1, <3>2 DEF IncludeStack
    <3> QED
      BY <1>3, <2>1, <3>1, <3>3
  <2>3. CASE j \in 1 .. Depth
    <3>1. OneParser(stack, k, j)
      BY <1>2, <1>3, <1>4, <2>1, <2>3 DEF OneParser
    <3> QED
      BY <1>2, <1>3, <1>4, <2>1, <2>3, <3>1 DEF IncludesOnce
  <2> QED
    BY <1>2, <1>3, <2>2, <2>3
<1>5. IncludesOnce(t)
  BY <1>4 DEF IncludesOnce
<1> QED
  BY <1>5 DEF t, f

(* No step lets a file be included again.                                  *)
LEMMA IncludesStep == IInv /\ IncludesOnce(stack) /\ [Next]_vars => IncludesOnce(stack')
<1> SUFFICES ASSUME IInv, IncludesOnce(stack), [Next]_vars PROVE IncludesOnce(stack')
  OBVIOUS
<1>1. stack \in Seq(Frame) /\ Depth = Len(stack) /\ Depth \in Nat
  BY TopFacts DEF Depth
<1>2. stack' = <<>> => IncludesOnce(stack')
  BY DEF IncludesOnce
<1>3. CASE ReadStatement \/ BindCached \/ ExpandUses \/ MergeAugment
  <2>1. stack # <<>>
    BY <1>3 DEF ReadStatement, BindCached, ExpandUses, MergeAugment, At, AtEnd, Reading, Finalizing
  <2>2. SameParses(stack', stack, Depth)
    <3>1. CASE ExpandUses
      BY <1>1, <2>1, <3>1, Moved DEF ExpandUses
    <3>2. CASE ~ExpandUses
      BY <1>3, <2>1, <3>2, SameStack DEF ReadStatement, BindCached, MergeAugment
    <3> QED
      BY <3>1, <3>2
  <2>3. Depth \in 0 .. Len(stack)
    BY <1>1
  <2> QED
    BY <1>1, <2>2, <2>3, OnceBelow
<1>4. CASE LoadImport
  BY <1>4, OncePushed DEF LoadImport
<1>5. CASE LoadInclude
  BY <1>5, OncePushed DEF LoadInclude
<1>6. CASE MergeSubmodule \/ ReturnImport
  <2>1. /\ stack # <<>> /\ Top.how \in {"import", "include"}
        /\ stack' = [SubSeq(stack, 1, Depth - 1) EXCEPT ![Depth - 1].next = @ + 1]
    BY <1>6 DEF MergeSubmodule, ReturnImport, AtEnd, Reading, Merged, Finalizing
  <2>2. Depth >= 2 /\ Depth - 1 \in 0 .. Len(stack)
    BY <2>1, CallerFacts
  <2>3. SameParses(stack', stack, Depth - 1)
    BY <1>1, <2>1, <2>2, Popped
  <2> QED
    BY <1>1, <2>2, <2>3, OnceBelow
<1>7. CASE \E p \in Path : ParseFile(p) \/ ParseString(p)
  <2>1. PICK f : stack' = <<f>>
    BY <1>7 DEF ParseFile, ParseString, Call
  <2> QED
    BY <2>1 DEF IncludesOnce
<1>8. CASE SyntaxError \/ RefuseImport \/ RefuseInclude \/ RefuseSubmodule \/ RefuseUses
            \/ RefuseAugment \/ RefuseSemantics \/ Return \/ RefuseImported
  BY <1>2, <1>8 DEF SyntaxError, RefuseImport, RefuseInclude, RefuseSubmodule, RefuseUses,
     RefuseAugment, RefuseSemantics, Return, RefuseImported, Abort
<1>9. CASE UNCHANGED vars
  BY <1>9 DEF vars
<1> QED
  BY <1>3, <1>4, <1>5, <1>6, <1>7, <1>8, <1>9 DEF Next, Step, ReadStep, FinalizeStep

(* The recursion of parse_string is bounded, however files import and      *)
(* include each other: a file that is pending is not imported, and one     *)
(* that a parser is including is not included by it.                       *)
THEOREM NestingIsBounded == Spec => []NestingBounded
<1>1. Init => IncludesOnce(stack)
  BY DEF Init, IncludesOnce
<1>2. IInv /\ IncludesOnce(stack) => NestingBounded
  BY FewParses DEF NestingBounded
<1>3. IInv /\ IncludesOnce(stack) /\ [Next]_vars => IncludesOnce(stack)'
  BY IncludesStep
<1> QED
  BY <1>1, <1>2, <1>3, Invariance, PTL DEF Spec
=============================================================================
