------------------------- MODULE UsesExpansionProofs -------------------------
(***************************************************************************)
(* The chain of groupings of an activation never names one twice, and the  *)
(* lists of refines and typedefs keep their types, whatever the modules    *)
(* are and whichever statements can be copied.                             *)
(***************************************************************************)
EXTENDS UsesExpansion, CommonLemmas

Fields == {"how", "stmt", "case", "todo", "out", "module", "chain", "prefix", "target"}

Chain(c) == IsSeq(c) /\ IsInjective(c)
Framed(f) == f = [x \in Fields |-> f[x]] /\ Chain(f.chain) /\ f.module \in Module

(* Only the outermost activation walks the module or a whole grouping, so  *)
(* every other one has a caller to return to.                              *)
Stacked(s) ==
  IsSeq(s) /\ \A i \in DOMAIN s : Framed(s[i]) /\ (s[i].how = "root" <=> i = 1)

(* The inductive invariant.                                                *)
IInv == Stacked(stack)
-----------------------------------------------------------------------------
(* The chain of the module's own statements.                               *)
LEMMA EmptyChain == Chain(<<>>)
  BY DEF Chain, IsSeq, Elements, IsInjective

(* _expand_one_uses_stmt adds a grouping that is not in the chain.         *)
LEMMA LongerChain ==
  ASSUME NEW c, Chain(c), NEW q, q \notin ToSet(c)
  PROVE  Chain(Append(c, q))
<1> DEFINE d == Append(c, q)
<1>1. IsSeq(c)
  BY DEF Chain
<1>2. /\ IsSeq(d) /\ Len(d) = Len(c) + 1 /\ Len(c) \in Nat
      /\ \A i \in 1 .. Len(c) : d[i] = c[i]
      /\ d[Len(c) + 1] = q
  BY <1>1, AppendSeq
<1>3. DOMAIN c = 1 .. Len(c) /\ DOMAIN d = 1 .. Len(c) + 1
  BY <1>1, <1>2, SeqOfElements DEF IsSeq
<1>4. \A i \in 1 .. Len(c) : c[i] # q
  BY <1>3 DEF ToSet
<1>5. \A a, b \in 1 .. Len(c) : c[a] = c[b] => a = b
  BY <1>3 DEF Chain, IsInjective
<1>6. ASSUME NEW a \in 1 .. Len(c) + 1, NEW b \in 1 .. Len(c) + 1, d[a] = d[b]
      PROVE  a = b
  <2>1. CASE a \in 1 .. Len(c) /\ b \in 1 .. Len(c)
    BY <1>2, <1>5, <1>6, <2>1
  <2>2. CASE a = Len(c) + 1 /\ b \in 1 .. Len(c)
    BY <1>2, <1>4, <1>6, <2>2
  <2>3. CASE a \in 1 .. Len(c) /\ b = Len(c) + 1
    BY <1>2, <1>4, <1>6, <2>3
  <2> QED
    BY <1>2, <2>1, <2>2, <2>3
<1>7. IsInjective(d)
  BY <1>3, <1>6 DEF IsInjective
<1> QED
  BY <1>2, <1>7 DEF Chain
-----------------------------------------------------------------------------
(* The innermost activation.                                               *)
LEMMA LastFramed ==
  ASSUME NEW s, Stacked(s), s # <<>>
  PROVE  /\ IsSeq(s) /\ Len(s) \in DOMAIN s /\ DOMAIN s = 1 .. Len(s)
         /\ Framed(Last(s)) /\ Chain(Last(s).chain)
         /\ (Last(s).how = "root" <=> Len(s) = 1)
<1>1. IsSeq(s) /\ DOMAIN s = 1 .. Len(s) /\ Len(s) \in DOMAIN s
  BY SeqOfElements DEF Stacked, IsSeq
<1> QED
  BY <1>1 DEF Stacked, Last, Framed

(* A nested call.                                                          *)
LEMMA PushFramed ==
  ASSUME NEW s, Stacked(s), s # <<>>, NEW f, Framed(f), f.how # "root"
  PROVE  Stacked(Append(s, f))
<1>1. IsSeq(s) /\ DOMAIN s = 1 .. Len(s) /\ Len(s) \in DOMAIN s
  BY LastFramed
<1>2. /\ IsSeq(Append(s, f)) /\ Len(Append(s, f)) = Len(s) + 1 /\ Len(s) \in Nat
      /\ \A i \in 1 .. Len(s) : Append(s, f)[i] = s[i]
      /\ Append(s, f)[Len(s) + 1] = f
  BY <1>1, AppendSeq
<1>3. DOMAIN Append(s, f) = 1 .. Len(s) + 1
  BY <1>2, SeqOfElements DEF IsSeq
<1>4. Len(s) + 1 # 1
  BY <1>1, <1>2
<1> QED
  BY <1>1, <1>2, <1>3, <1>4 DEF Stacked

(* A return, to a caller unless the outermost activation ends.             *)
LEMMA PopFramed ==
  ASSUME NEW s, Stacked(s), s # <<>>
  PROVE  Stacked(Front(s)) /\ (Last(s).how # "root" => Front(s) # <<>>)
<1>1. IsSeq(s) /\ DOMAIN s = 1 .. Len(s) /\ Len(s) \in DOMAIN s
      /\ (Last(s).how = "root" <=> Len(s) = 1)
  BY LastFramed
<1>2. /\ IsSeq(Front(s)) /\ Len(Front(s)) = Len(s) - 1 /\ Len(s) \in Nat \ {0}
      /\ \A i \in 1 .. Len(s) - 1 : Front(s)[i] = s[i]
  BY <1>1, FrontSeq
<1>3. DOMAIN Front(s) = 1 .. Len(s) - 1
  BY <1>2, SeqOfElements DEF IsSeq
<1>4. Stacked(Front(s))
  BY <1>1, <1>2, <1>3 DEF Stacked
<1>5. Front(s) = <<>> => Len(s) = 1
  BY <1>2
<1> QED
  BY <1>1, <1>4, <1>5

(* The loop of an activation moves on: its chain and kind stay.            *)
LEMMA AdvancedFramed ==
  ASSUME NEW s, Stacked(s), s # <<>>, NEW stmts
  PROVE  /\ Stacked(Advanced(s, stmts)) /\ Advanced(s, stmts) # <<>>
         /\ UsesOf(Advanced(s, stmts)) = UsesOf(s)
<1> DEFINE f == Last(s)
           g == [f EXCEPT !.todo = Tail(@), !.out = @ \o stmts]
           t == [s EXCEPT ![Len(s)] = g]
<1>1. IsSeq(s) /\ DOMAIN s = 1 .. Len(s) /\ Len(s) \in DOMAIN s /\ Framed(f)
      /\ (f.how = "root" <=> Len(s) = 1)
  BY LastFramed
<1>2. /\ g.chain = f.chain /\ g.how = f.how /\ g.module = f.module
      /\ g = [x \in Fields |-> g[x]]
  BY <1>1 DEF Framed, Fields
<1>3. Framed(g)
  BY <1>1, <1>2 DEF Framed
<1>4. s \in Seq(Elements(s)) /\ s = [i \in DOMAIN s |-> s[i]]
  BY <1>1 DEF IsSeq
<1>5. Advanced(s, stmts) = t
  BY <1>1, <1>4 DEF Advanced, Last
<1>6. /\ IsSeq(t) /\ Len(t) = Len(s) /\ Len(s) \in Nat \ {0}
      /\ \A i \in 1 .. Len(s) - 1 : t[i] = s[i]
      /\ t[Len(s)] = g
  BY <1>1, ReplaceLastSeq
<1>7. DOMAIN t = 1 .. Len(s)
  BY <1>6, SeqOfElements DEF IsSeq
<1>8. \A i \in 1 .. Len(s) :
        Framed(t[i]) /\ (t[i].how = "root" <=> i = 1) /\ t[i].how = s[i].how
  <2> TAKE i \in 1 .. Len(s)
  <2>1. CASE i = Len(s)
    BY <1>1, <1>2, <1>3, <1>6, <2>1 DEF Last
  <2>2. CASE i # Len(s)
    <3>1. i \in 1 .. Len(s) - 1
      BY <1>6, <2>2
    <3> QED
      BY <1>1, <1>6, <3>1 DEF Stacked
  <2> QED
    BY <2>1, <2>2
<1>9. Stacked(t)
  BY <1>6, <1>7, <1>8 DEF Stacked
<1>10. t # <<>>
  BY <1>6
<1>11. UsesOf(t) = UsesOf(s)
  BY <1>1, <1>7, <1>8 DEF UsesOf
<1> QED
  BY <1>5, <1>9, <1>10, <1>11
-----------------------------------------------------------------------------
(* The steps.                                                              *)

(* The two ways the loop of an activation goes on.                         *)
LEMMA AdvanceStep ==
  ASSUME IInv, Running, NEW stmts, stack' = Advanced(stack, stmts)
  PROVE  IInv'
<1>1. Stacked(Advanced(stack, stmts))
  BY AdvancedFramed DEF IInv, Running
<1> QED
  BY <1>1 DEF IInv, Stacked, IsSeq, Elements

(* A nested call with the chain of its caller, or a longer one.            *)
LEMMA CallStep ==
  ASSUME IInv, Running, NEW f, Framed(f), f.how # "root", stack' = Append(stack, f)
  PROVE  IInv'
<1>1. Stacked(Append(stack, f))
  BY PushFramed DEF IInv, Running
<1> QED
  BY <1>1 DEF IInv, Stacked, IsSeq, Elements

(* A return to the caller.                                                 *)
LEMMA ReturnStep ==
  ASSUME IInv, Running, Top.how # "root", NEW stmts,
         stack' = Advanced(Front(stack), stmts)
  PROVE  IInv'
<1>1. Stacked(Front(stack)) /\ Front(stack) # <<>>
  BY PopFramed DEF IInv, Running, Top
<1>2. Stacked(Advanced(Front(stack), stmts))
  BY <1>1, AdvancedFramed
<1> QED
  BY <1>2 DEF IInv, Stacked, IsSeq, Elements

(* An exception ends all activations.                                      *)
LEMMA FailStep == ASSUME NEW error, Fail(error) PROVE IInv'
<1>1. stack' = <<>>
  BY DEF Fail
<1> QED
  BY <1>1 DEF IInv, Stacked, IsSeq, Elements

(* A walk of the module, or of one of its groupings, begins.               *)
LEMMA RootStacked == ASSUME NEW todo PROVE Stacked(<<Root(todo)>>)
<1> DEFINE f == Root(todo)
<1>1. Framed(f) /\ f.how = "root"
  BY EmptyChain DEF Root, Frame, Framed, Fields, Module
<1>2. <<f>> \in Seq({f}) /\ DOMAIN <<f>> = {1} /\ <<f>>[1] = f
  OBVIOUS
<1>3. IsSeq(<<f>>)
  BY <1>2, SeqOfElements
<1> QED
  BY <1>1, <1>2, <1>3 DEF Stacked

(* The statements of case k of a choice are walked with the chain given.   *)
LEMMA EnterCaseStep ==
  ASSUME NEW st, Stacked(st), st # <<>>, NEW c, Chain(c),
         NEW s, NEW k, NEW prefix, NEW lists, NEW mod \in Module, NEW target,
         EnterCase(st, s, k, prefix, lists, mod, c, target)
  PROVE  IInv'
<1> DEFINE here == Append(prefix, s.cases[k].name)
           case == Refined(s.cases[k], here, Last(lists))
           f == Frame("case", [s EXCEPT !.cases[k] = case], k, case.subs, mod, c, here, target)
<1>1. stack' = Append(st, f)
  BY DEF EnterCase
<1>2. Framed(f) /\ f.how = "case"
  BY DEF Frame, Framed, Fields
<1>3. Stacked(Append(st, f))
  BY <1>2, PushFramed
<1> QED
  BY <1>1, <1>3 DEF IInv, Stacked, IsSeq, Elements

(* A grouping that is found is one of a module.                            *)
LEMMA HomeModule == ASSUME IInv, Running, Resolved PROVE Home \in Module
<1>1. Top.module \in Module
  BY LastFramed DEF IInv, Running, Top, Framed
<1>2. Home # None
  BY DEF Resolved
<1> QED
  BY <1>1, <1>2 DEF Home, ModuleOf, Module

(* uses: the chain grows by the grouping, which is not in it.              *)
LEMMA EnterUsesStep == ASSUME IInv, EnterUses PROVE IInv'
<1>1. Running /\ QName \notin ToSet(Top.chain)
  BY DEF EnterUses, At, Reading
<1>2. Chain(Append(Top.chain, QName))
  BY <1>1, LastFramed, LongerChain DEF IInv, Running, Top
<1> DEFINE f == Frame("uses", Current, 0, Gated(Untyped(Definition), Current),
                      Home, Append(Top.chain, QName),
                      IF RefinesLeft # <<>> THEN Top.prefix ELSE <<>>, Top.module)
<1>3. Home \in Module
  BY <1>1, HomeModule DEF EnterUses
<1>4. Framed(f) /\ f.how = "uses"
  BY <1>2, <1>3 DEF Frame, Framed, Fields
<1>5. stack' = Append(stack, f)
  BY DEF EnterUses
<1> QED
  BY <1>1, <1>4, <1>5, CallStep

(* The walk of a spliced result has the chain of the activation the uses   *)
(* is in.                                                                  *)
LEMMA LeaveUsesStep == ASSUME IInv, LeaveUses PROVE IInv'
<1> DEFINE user == stack[Len(stack) - 1]
           f == Frame("splice", Top.stmt, 0, Augmented, user.module, user.chain,
                      user.prefix, IF user.target = None THEN user.module ELSE user.target)
<1>1. stack # <<>> /\ Last(stack).how # "root" /\ Stacked(stack)
  BY DEF LeaveUses, AtEnd, Running, Top, IInv
<1>2. Stacked(Front(stack)) /\ Front(stack) # <<>>
  BY <1>1, PopFramed
<1>3. Len(stack) - 1 \in DOMAIN stack
  <2>1. /\ IsSeq(stack) /\ DOMAIN stack = 1 .. Len(stack) /\ Len(stack) \in DOMAIN stack
        /\ Len(stack) # 1
    BY <1>1, LastFramed
  <2> QED
    BY <2>1
<1>4. Chain(user.chain) /\ user.module \in Module
  BY <1>1, <1>3 DEF Stacked, Framed
<1>5. Framed(f) /\ f.how = "splice"
  BY <1>4 DEF Frame, Framed, Fields
<1>6. Stacked(Append(Front(stack), f))
  BY <1>2, <1>5, PushFramed
<1>7. stack' = Append(Front(stack), f)
  BY DEF LeaveUses
<1> QED
  BY <1>6, <1>7 DEF IInv, Stacked, IsSeq, Elements
-----------------------------------------------------------------------------
(* Every step keeps the invariant.                                         *)
LEMMA StepStacked == ASSUME IInv, [Next]_vars PROVE IInv'
<1>1. CASE VisitTypedef
  <2>1. Running /\ \E stmts : stack' = Advanced(stack, stmts)
    BY <1>1 DEF VisitTypedef, At, Reading
  <2> QED
    BY <2>1, AdvanceStep
<1>2. CASE Descend
  <2>1. Running /\ stack' = Append(stack, Child("body", Current, 0, Current.subs, Here))
    BY <1>2 DEF Descend, Reading
  <2>2. Chain(Top.chain) /\ Top.module \in Module
    BY <2>1, LastFramed DEF IInv, Running, Top, Framed
  <2>3. /\ Framed(Child("body", Current, 0, Current.subs, Here))
        /\ Child("body", Current, 0, Current.subs, Here).how = "body"
    BY <2>2 DEF Child, Frame, Framed, Fields
  <2> QED
    BY <2>1, <2>3, CallStep
<1>3. CASE VisitChoice
  <2>1. Running
    BY <1>3 DEF VisitChoice, At, Reading
  <2>2. CASE Current.cases = <<>>
    BY <1>3, <2>1, <2>2, AdvanceStep DEF VisitChoice
  <2>3. CASE Current.cases # <<>>
    <3>1. EnterCase(stack, Current, 1, Here, PendingLeft, Top.module, Top.chain, Registry)
      BY <1>3, <2>3 DEF VisitChoice
    <3>2. stack # <<>> /\ Stacked(stack) /\ Chain(Top.chain) /\ Top.module \in Module
      BY <2>1, LastFramed DEF IInv, Running, Top, Framed
    <3> QED
      BY <3>1, <3>2, EnterCaseStep
  <2> QED
    BY <2>2, <2>3
<1>4. CASE UnknownGrouping
  BY <1>4, AdvanceStep DEF UnknownGrouping, At, Reading
<1>5. CASE CircularUses \/ CannotCopy \/ RefineTargetNotFound \/ AugmentTargetNotFound
  BY <1>5, FailStep
     DEF CircularUses, CannotCopy, RefineTargetNotFound, AugmentTargetNotFound
<1>6. CASE EnterUses
  BY <1>6, EnterUsesStep
<1>7. CASE LeaveUses
  BY <1>7, LeaveUsesStep
<1>8. CASE LeaveBody
  <2>1. Running /\ Top.how # "root"
        /\ stack' = Advanced(Front(stack), <<[Top.stmt EXCEPT !.subs = Top.out]>>)
    BY <1>8 DEF LeaveBody, AtEnd
  <2> QED
    BY <2>1, ReturnStep
<1>9. CASE LeaveCase
  <2> DEFINE s == [Top.stmt EXCEPT !.cases[Top.case].subs = Top.out]
  <2>1. Running /\ Top.how # "root"
    BY <1>9 DEF LeaveCase, AtEnd
  <2>2. CASE Top.case = Len(s.cases)
    <3>1. stack' = Advanced(Front(stack), <<s>>)
      BY <1>9, <2>2 DEF LeaveCase
    <3> QED
      BY <2>1, <3>1, ReturnStep
  <2>3. CASE Top.case # Len(s.cases)
    <3>1. EnterCase(Front(stack), s, Top.case + 1, Front(Top.prefix), pending,
                    Top.module, Top.chain, Top.target)
      BY <1>9, <2>3 DEF LeaveCase
    <3>2. /\ Stacked(Front(stack)) /\ Front(stack) # <<>>
          /\ Chain(Top.chain) /\ Top.module \in Module
      BY <2>1, LastFramed, PopFramed DEF IInv, Running, Top, Framed
    <3> QED
      BY <3>1, <3>2, EnterCaseStep
  <2> QED
    BY <2>2, <2>3
<1>10. CASE LeaveSplice
  <2>1. Running /\ Top.how # "root" /\ stack' = Advanced(Front(stack), Top.out)
    BY <1>10 DEF LeaveSplice, AtEnd
  <2> QED
    BY <2>1, ReturnStep
<1>11. CASE LeaveRoot
  <2>1. stack' = <<>> \/ \E todo : stack' = <<Root(todo)>>
    BY <1>11 DEF LeaveRoot
  <2>2. Stacked(<<>>)
    BY DEF Stacked, IsSeq, Elements
  <2>3. Stacked(stack')
    BY <2>1, <2>2, RootStacked
  <2> QED
    BY <2>3 DEF IInv, Stacked, IsSeq, Elements
<1>12. CASE UNCHANGED vars
  BY <1>12 DEF vars, IInv, Stacked, IsSeq, Elements
<1> QED
  BY <1>1, <1>2, <1>3, <1>4, <1>5, <1>6, <1>7, <1>8, <1>9, <1>10, <1>11, <1>12 DEF Next

(* No chain of groupings holds one twice: _expand_one_uses_stmt recurses   *)
(* no deeper than there are names of groupings.                            *)
THEOREM ChainsAreDistinct == Spec => []ChainDistinct
<1>1. Init => IInv
  BY RootStacked DEF Init, IInv
<1>2. IInv /\ [Next]_vars => IInv'
  BY StepStacked
<1>3. IInv => ChainDistinct
  BY DEF IInv, Stacked, Framed, Chain, ChainDistinct
<1> QED
  BY <1>1, <1>2, <1>3, PTL DEF Spec
-----------------------------------------------------------------------------
(* Lists of refines and typedefs.                                          *)

(* A list of refines for each uses on the stack s, and one below them.     *)
Listed(s, p) == IsSeq(p) /\ (s # <<>> => Len(p) = 1 + Cardinality(UsesOf(s)))

Typedefs(td, src) ==
  /\ DOMAIN td = Module
  /\ \A mod \in Module, t \in Type :
       td[mod][t] \in {None} \cup {src.typedefs[n][t] : n \in Module}

GroupingsKept ==
  /\ DOMAIN groupings = Module
  /\ \A mod \in Module : DOMAIN groupings[mod] = DOMAIN source.groupings[mod]

Statuses == {"running", "ok", "circular", "copy", "refine", "augment"}

TInv ==
  /\ IInv /\ Listed(stack, pending)
  /\ source \in Sources /\ Typedefs(typedefs, source) /\ GroupingsKept
  /\ status \in Statuses /\ next \in 1 .. (1 + Len(source.order))

(* The uses among the activations, when one is pushed or popped.           *)
LEMMA UsesCounted ==
  ASSUME NEW s, NEW t, NEW f, OneMore(t, s, f)
  PROVE  /\ Cardinality(UsesOf(s)) \in Nat
         /\ Cardinality(UsesOf(t)) = Cardinality(UsesOf(s)) + (IF f.how = "uses" THEN 1 ELSE 0)
<1>1. Len(s) \in Nat /\ DOMAIN s = 1 .. Len(s) /\ DOMAIN t = 1 .. Len(s) + 1
  BY SeqOfElements DEF OneMore, IsSeq
<1>2. 1 .. Len(s) + 1 = (1 .. Len(s)) \cup {Len(s) + 1} /\ Len(s) + 1 \notin 1 .. Len(s)
  BY <1>1
<1>3. IsFiniteSet(1 .. Len(s))
  BY <1>1, FS_Interval
<1>4. UsesOf(s) \in SUBSET (1 .. Len(s))
  BY <1>1 DEF UsesOf
<1>5. IsFiniteSet(UsesOf(s)) /\ Cardinality(UsesOf(s)) \in Nat
  BY <1>3, <1>4, FS_Subset, FS_CardinalityType
<1>6. UsesOf(t) = UsesOf(s) \cup (IF f.how = "uses" THEN {Len(s) + 1} ELSE {})
  BY <1>1, <1>2 DEF UsesOf, OneMore
<1>7. Len(s) + 1 \notin UsesOf(s)
  BY <1>2, <1>4
<1>8. CASE f.how = "uses"
  <2>1. UsesOf(t) = UsesOf(s) \cup {Len(s) + 1}
    BY <1>6, <1>8
  <2> QED
    BY <1>5, <1>7, <1>8, <2>1, FS_AddElement
<1>9. CASE f.how # "uses"
  <2>1. UsesOf(t) = UsesOf(s)
    BY <1>6, <1>9
  <2> QED
    BY <1>5, <1>9, <2>1
<1> QED
  BY <1>8, <1>9

(* The last list of refines is replaced by what is left of it.             *)
LEMMA ListReplaced ==
  ASSUME NEW p, IsSeq(p), Len(p) # 0, NEW x
  PROVE  IsSeq(Append(Front(p), x)) /\ Len(Append(Front(p), x)) = Len(p)
<1>1. p # <<>>
  BY EmptySeq
<1>2. IsSeq(Front(p)) /\ Len(Front(p)) = Len(p) - 1 /\ Len(p) \in Nat
  BY <1>1, FrontSeq
<1> QED
  BY <1>2, AppendSeq

(* The lists of a running expansion.                                       *)
LEMMA RunningLists ==
  ASSUME TInv, Running
  PROVE  /\ stack # <<>> /\ Stacked(stack) /\ IsSeq(stack)
         /\ IsSeq(pending) /\ Len(pending) = 1 + Cardinality(UsesOf(stack))
         /\ Cardinality(UsesOf(stack)) \in Nat
         /\ IsSeq(PendingLeft) /\ Len(PendingLeft) = Len(pending)
<1>1. /\ stack # <<>> /\ Stacked(stack) /\ IsSeq(stack)
      /\ IsSeq(pending) /\ Len(pending) = 1 + Cardinality(UsesOf(stack))
  BY DEF TInv, IInv, Running, Listed, Stacked
<1>2. OneMore(stack, Front(stack), stack[Len(stack)])
  BY <1>1, PopIsOneMore
<1>3. Cardinality(UsesOf(stack)) \in Nat
  BY <1>2, UsesCounted
<1>4. Len(pending) # 0
  BY <1>1, <1>3
<1> QED
  BY <1>1, <1>3, <1>4, ListReplaced DEF PendingLeft

(* The innermost activation moves on.                                      *)
LEMMA AdvanceListed ==
  ASSUME TInv, Running, NEW stmts, stack' = Advanced(stack, stmts), pending' = PendingLeft
  PROVE  Listed(stack', pending')
<1>1. UsesOf(stack') = UsesOf(stack)
  BY RunningLists, AdvancedFramed
<1> QED
  BY <1>1, RunningLists DEF Listed

(* A nested activation: a uses with a list of its own, any other with the  *)
(* list of its caller.                                                     *)
LEMMA CallListed ==
  ASSUME NEW s, IsSeq(s), s # <<>>, NEW p, Listed(s, p), NEW f, f.how # "uses", NEW x
  PROVE  Listed(Append(s, f), Append(Front(p), x)) /\ Listed(Append(s, f), p)
<1>1. OneMore(Append(s, f), s, f)
  BY PushIsOneMore
<1>2. Cardinality(UsesOf(Append(s, f))) = Cardinality(UsesOf(s)) + 0 /\ Cardinality(UsesOf(s)) \in Nat
  BY <1>1, UsesCounted
<1>3. IsSeq(p) /\ Len(p) = 1 + Cardinality(UsesOf(s)) /\ Len(p) # 0
  BY <1>2 DEF Listed
<1> QED
  BY <1>2, <1>3, ListReplaced DEF Listed

(* A return from anything but a uses.                                      *)
LEMMA PopListed ==
  ASSUME TInv, Running, Top.how \notin {"root", "uses"}
  PROVE  /\ Stacked(Front(stack)) /\ Front(stack) # <<>> /\ IsSeq(Front(stack))
         /\ Listed(Front(stack), pending)
         /\ \A stmts : Listed(Advanced(Front(stack), stmts), pending)
<1>1. Stacked(Front(stack)) /\ Front(stack) # <<>> /\ IsSeq(Front(stack))
  BY RunningLists, PopFramed DEF Top, Stacked
<1>2. OneMore(stack, Front(stack), Top)
  BY RunningLists, PopIsOneMore DEF Top, Last
<1>3. Cardinality(UsesOf(stack)) = Cardinality(UsesOf(Front(stack))) + 0
      /\ Cardinality(UsesOf(Front(stack))) \in Nat
  BY <1>2, UsesCounted
<1>4. Listed(Front(stack), pending)
  BY <1>3, RunningLists DEF Listed
<1>5. \A stmts : UsesOf(Advanced(Front(stack), stmts)) = UsesOf(Front(stack))
  BY <1>1, AdvancedFramed
<1> QED
  BY <1>1, <1>4, <1>5 DEF Listed

(* Case k of a choice is entered from the stack st.                        *)
LEMMA EnterCaseListed ==
  ASSUME NEW st, IsSeq(st), st # <<>>, NEW lists, Listed(st, lists),
         NEW s, NEW k, NEW prefix, NEW mod, NEW c, NEW target,
         EnterCase(st, s, k, prefix, lists, mod, c, target)
  PROVE  Listed(stack', pending')
<1> DEFINE here == Append(prefix, s.cases[k].name)
           case == Refined(s.cases[k], here, Last(lists))
           f == Frame("case", [s EXCEPT !.cases[k] = case], k, case.subs, mod, c, here, target)
<1>1. /\ stack' = Append(st, f)
      /\ pending' = Append(Front(lists), Unapplied(here, Last(lists)))
  BY DEF EnterCase
<1>2. f.how # "uses"
  BY DEF Frame
<1> HIDE DEF f, here
<1> QED
  BY <1>1, <1>2, CallListed

(* Every step keeps the lists in number.                                   *)
LEMMA StepListed == ASSUME TInv, Next PROVE Listed(stack', pending')
<1>1. CASE VisitTypedef \/ UnknownGrouping
  <2>1. Running /\ pending' = PendingLeft /\ \E stmts : stack' = Advanced(stack, stmts)
    BY <1>1 DEF VisitTypedef, UnknownGrouping, At, Reading
  <2> QED
    BY <2>1, AdvanceListed
<1>2. CASE Descend
  <2> DEFINE f == Child("body", Current, 0, Current.subs, Here)
  <2>1. Running /\ stack' = Append(stack, f) /\ pending' = Append(Front(pending), RefinesLeft)
    BY <1>2 DEF Descend, Reading, PendingLeft
  <2>2. f.how # "uses"
    BY DEF Child, Frame
  <2> HIDE DEF f
  <2> QED
    BY <2>1, <2>2, RunningLists, CallListed DEF TInv
<1>3. CASE VisitChoice
  <2>1. Running
    BY <1>3 DEF VisitChoice, At, Reading
  <2>2. CASE Current.cases = <<>>
    BY <1>3, <2>1, <2>2, AdvanceListed DEF VisitChoice
  <2>3. CASE Current.cases # <<>>
    <3>1. EnterCase(stack, Current, 1, Here, PendingLeft, Top.module, Top.chain, Registry)
      BY <1>3, <2>3 DEF VisitChoice
    <3>2. Listed(stack, PendingLeft)
      BY <2>1, RunningLists DEF Listed
    <3> QED
      BY <2>1, <3>1, <3>2, RunningLists, EnterCaseListed
  <2> QED
    BY <2>2, <2>3
<1>4. CASE CircularUses \/ CannotCopy \/ RefineTargetNotFound \/ AugmentTargetNotFound
  <2>1. stack' = <<>> /\ pending' = pending
    BY <1>4 DEF CircularUses, CannotCopy, RefineTargetNotFound, AugmentTargetNotFound, Fail
  <2> QED
    BY <2>1 DEF TInv, Listed
<1>5. CASE EnterUses
  <2> DEFINE f == Frame("uses", Current, 0, Gated(Untyped(Definition), Current),
                        Home, Append(Top.chain, QName),
                        IF RefinesLeft # <<>> THEN Top.prefix ELSE <<>>, Top.module)
  <2>1. Running /\ stack' = Append(stack, f) /\ pending' = Append(PendingLeft, Current.refines)
    BY <1>5 DEF EnterUses, At, Reading
  <2>2. f.how = "uses"
    BY DEF Frame
  <2> HIDE DEF f
  <2>3. OneMore(stack', stack, f)
    BY <2>1, RunningLists, PushIsOneMore
  <2>4. Cardinality(UsesOf(stack')) = Cardinality(UsesOf(stack)) + 1
    BY <2>2, <2>3, UsesCounted
  <2>5. IsSeq(pending') /\ Len(pending') = Len(PendingLeft) + 1
    BY <2>1, RunningLists, AppendSeq
  <2> QED
    BY <2>1, <2>4, <2>5, RunningLists DEF Listed
<1>6. CASE LeaveUses
  <2> DEFINE user == stack[Len(stack) - 1]
             f == Frame("splice", Top.stmt, 0, Augmented, user.module, user.chain,
                        user.prefix, IF user.target = None THEN user.module ELSE user.target)
  <2>1. /\ Running /\ Top.how = "uses"
        /\ stack' = Append(Front(stack), f) /\ pending' = Front(pending)
    BY <1>6 DEF LeaveUses, AtEnd
  <2>2. f.how # "uses"
    BY DEF Frame
  <2> HIDE DEF f
  <2>3. OneMore(stack, Front(stack), Top)
    BY <2>1, RunningLists, PopIsOneMore DEF Top, Last
  <2>4. OneMore(stack', Front(stack), f)
    BY <2>1, <2>3, PushIsOneMore DEF OneMore
  <2>5. /\ Cardinality(UsesOf(Front(stack))) \in Nat
        /\ Cardinality(UsesOf(stack)) = Cardinality(UsesOf(Front(stack))) + 1
        /\ Cardinality(UsesOf(stack')) = Cardinality(UsesOf(Front(stack))) + 0
    BY <2>1, <2>2, <2>3, <2>4, UsesCounted
  <2>6. pending # <<>>
    BY <2>1, RunningLists, EmptySeq
  <2>7. IsSeq(pending') /\ Len(pending') = Len(pending) - 1
    BY <2>1, <2>6, RunningLists, FrontSeq
  <2> QED
    BY <2>1, <2>5, <2>7, RunningLists DEF Listed
<1>7. CASE LeaveBody \/ LeaveSplice
  <2>1. /\ Running /\ Top.how \notin {"root", "uses"} /\ pending' = pending
        /\ \E stmts : stack' = Advanced(Front(stack), stmts)
    BY <1>7 DEF LeaveBody, LeaveSplice, AtEnd
  <2> QED
    BY <2>1, PopListed
<1>8. CASE LeaveCase
  <2> DEFINE s == [Top.stmt EXCEPT !.cases[Top.case].subs = Top.out]
  <2>1. Running /\ Top.how \notin {"root", "uses"}
    BY <1>8 DEF LeaveCase, AtEnd
  <2>2. CASE Top.case = Len(s.cases)
    <3>1. stack' = Advanced(Front(stack), <<s>>) /\ pending' = pending
      BY <1>8, <2>2 DEF LeaveCase
    <3> QED
      BY <2>1, <3>1, PopListed
  <2>3. CASE Top.case # Len(s.cases)
    <3>1. EnterCase(Front(stack), s, Top.case + 1, Front(Top.prefix), pending,
                    Top.module, Top.chain, Top.target)
      BY <1>8, <2>3 DEF LeaveCase
    <3> HIDE DEF s
    <3> QED
      BY <2>1, <3>1, PopListed, EnterCaseListed
  <2> QED
    BY <2>2, <2>3
<1>9. CASE LeaveRoot
  <2>1. /\ Running /\ Top.how = "root" /\ pending' = pending
        /\ stack' = <<>> \/ \E todo : stack' = <<Root(todo)>>
    BY <1>9 DEF LeaveRoot, AtEnd
  <2>2. Len(stack) = 1 /\ stack[1].how = "root"
    BY <2>1, RunningLists, LastFramed DEF Top, Last
  <2>3. UsesOf(stack) = {}
    BY <2>2, RunningLists, SeqOfElements DEF UsesOf, IsSeq
  <2>4. ASSUME NEW todo PROVE UsesOf(<<Root(todo)>>) = {}
    <3>1. Root(todo).how = "root"
      BY DEF Root, Frame
    <3>2. DOMAIN <<Root(todo)>> = {1} /\ <<Root(todo)>>[1] = Root(todo)
      OBVIOUS
    <3> QED
      BY <3>1, <3>2 DEF UsesOf
  <2> QED
    BY <2>1, <2>3, <2>4, RunningLists DEF Listed
<1> QED
  BY <1>1, <1>2, <1>3, <1>4, <1>5, <1>6, <1>7, <1>8, <1>9 DEF Next

(* _register_typedef_for_uses takes typedefs from modules only.            *)
LEMMA RegisteredTyped ==
  ASSUME Typedefs(typedefs, source), NEW target, NEW from \in Module, NEW names,
         typedefs' = Registered(target, from, names), source' = source
  PROVE  Typedefs(typedefs', source')
<1>1. DOMAIN typedefs' = Module
  BY DEF Registered, Typedefs
<1>2. ASSUME NEW mod \in Module, NEW t \in Type
      PROVE  typedefs'[mod][t] \in {None} \cup {source.typedefs[n][t] : n \in Module}
  <2>1. typedefs'[mod][t] = typedefs[mod][t] \/ typedefs'[mod][t] = typedefs[from][t]
    BY DEF Registered, Typedefs
  <2> QED
    BY <2>1 DEF Typedefs
<1>3. PICK td : td = typedefs'
  OBVIOUS
<1>4. Typedefs(td, source)
  BY ONLY <1>1, <1>2, <1>3 DEF Typedefs
<1> QED
  BY <1>3, <1>4

(* A step keeps the typedefs of the modules, and the text it works on.      *)
LEMMA StepTypedefs == ASSUME TInv, Next PROVE Typedefs(typedefs', source') /\ source' \in Sources
<1>1. source' = source
  BY DEF Next, VisitTypedef, Descend, VisitChoice, UnknownGrouping, CircularUses, CannotCopy,
     EnterUses, RefineTargetNotFound, AugmentTargetNotFound, LeaveUses, LeaveBody, LeaveCase,
     LeaveSplice, LeaveRoot, Fail
<1>2. Typedefs(typedefs, source) /\ source \in Sources
  BY DEF TInv
<1>3. CASE VisitTypedef
  <2>1. Running /\ (typedefs' = typedefs \/ typedefs' = Registered(Registry, Top.module, {Current.name}))
    BY <1>3 DEF VisitTypedef, At, Reading
  <2>2. Top.module \in Module
    BY <2>1, LastFramed DEF TInv, IInv, Running, Top, Framed
  <2> QED
    BY <1>1, <1>2, <2>1, <2>2, RegisteredTyped
<1>4. CASE EnterUses
  <2>1. Running /\ Resolved /\ typedefs' = Registered(Top.module, Home, TypedefsIn(Definition))
    BY <1>4 DEF EnterUses, At, Reading
  <2>2. Home \in Module
    BY <2>1, HomeModule DEF TInv
  <2> QED
    BY <1>1, <1>2, <2>1, <2>2, RegisteredTyped
<1>5. CASE ~VisitTypedef /\ ~EnterUses
  <2>1. typedefs' = typedefs
    BY <1>5 DEF Next, Descend, VisitChoice, UnknownGrouping, CircularUses, CannotCopy,
       RefineTargetNotFound, AugmentTargetNotFound, LeaveUses, LeaveBody, LeaveCase,
       LeaveSplice, LeaveRoot, Fail
  <2> QED
    BY <1>1, <1>2, <2>1
<1> QED
  BY <1>1, <1>2, <1>3, <1>4, <1>5

(* The walks of the groupings come one after the other.                    *)
LEMMA StepGroupings ==
  ASSUME TInv, Next
  PROVE  GroupingsKept' /\ status' \in Statuses /\ next' \in 1 .. (1 + Len(source'.order))
<1>1. /\ GroupingsKept /\ status \in Statuses /\ next \in 1 .. (1 + Len(source.order))
      /\ Len(source.order) \in Nat
  BY SourceAssumption DEF TInv
<1>2. CASE LeaveRoot
  <2> DEFINE n == source.order[next - 1]
             b == Top.out
  <2>1. /\ source' = source
        /\ groupings' = groupings \/ groupings' = [groupings EXCEPT !["m"][n] = b]
    BY <1>2 DEF LeaveRoot
  <2> HIDE DEF n, b
  <2>2. \/ status' = "ok" /\ next' = next
        \/ next <= Len(source.order) /\ next' = next + 1 /\ status' = status
    BY <1>1, <1>2 DEF LeaveRoot
  <2>3. GroupingsKept'
    BY <1>1, <2>1 DEF GroupingsKept
  <2> QED
    BY <1>1, <2>1, <2>2, <2>3 DEF Statuses
<1>3. CASE ~LeaveRoot
  <2>1. UNCHANGED <<source, groupings, next>> /\ (status' = status \/ status' \in Statuses)
    BY <1>3 DEF Next, VisitTypedef, Descend, VisitChoice, UnknownGrouping, CircularUses,
       CannotCopy, EnterUses, RefineTargetNotFound, AugmentTargetNotFound, LeaveUses, LeaveBody,
       LeaveCase, LeaveSplice, Fail, Statuses
  <2> QED
    BY <1>1, <2>1 DEF GroupingsKept
<1> QED
  BY <1>2, <1>3

(* TInv is inductive.                                                      *)
LEMMA TypeStep == ASSUME TInv, [Next]_vars PROVE TInv'
<1>1. CASE Next
  <2>1. IInv'
    BY <1>1, StepStacked DEF TInv
  <2>2. Listed(stack', pending') /\ Typedefs(typedefs', source') /\ source' \in Sources
    BY <1>1, StepListed, StepTypedefs
  <2>3. GroupingsKept' /\ status' \in Statuses /\ next' \in 1 .. (1 + Len(source'.order))
    BY <1>1, StepGroupings
  <2> QED
    BY <2>1, <2>2, <2>3 DEF TInv
<1>2. CASE UNCHANGED vars
  <2>1. IInv'
    BY <1>2, StepStacked DEF TInv
  <2> QED
    BY <1>2, <2>1 DEF vars, TInv, GroupingsKept
<1> QED
  BY <1>1, <1>2

(* Before the first step there is the one list of the root.                *)
LEMMA TypeInitially == Init => TInv
<1> SUFFICES ASSUME Init PROVE TInv
  OBVIOUS
<1>1. stack = <<Root(source.body)>> /\ pending = << <<>> >>
  BY DEF Init
<1>2. IInv
  BY <1>1, RootStacked DEF IInv
<1>3. UsesOf(stack) = {}
  <2>1. DOMAIN stack = {1} /\ stack[1].how = "root"
    BY <1>1 DEF Root, Frame
  <2> QED
    BY <2>1 DEF UsesOf
<1>4. IsSeq(pending) /\ Len(pending) = 1
  BY <1>1 DEF IsSeq, Elements
<1>5. Listed(stack, pending)
  BY <1>3, <1>4, FS_EmptySet DEF Listed
<1>6. Len(source.order) \in Nat /\ source \in Sources
  BY SourceAssumption DEF Init
<1>7. Typedefs(typedefs, source) /\ GroupingsKept
  BY <1>6, SourceAssumption DEF Init, Typedefs, GroupingsKept
<1> QED
  BY <1>2, <1>5, <1>6, <1>7 DEF Init, TInv, Statuses

(* Every list of refines belongs to a uses that is being expanded, however *)
(* these nest and whichever exception ends the expansion; no grouping gets *)
(* lost, and a typedef is one of the source's.                             *)
THEOREM TypeCorrect == Spec => []TypeOK
<1>1. Init => TInv
  BY TypeInitially
<1>2. TInv /\ [Next]_vars => TInv'
  BY TypeStep
<1>3. TInv => TypeOK
  BY DEF TInv, TypeOK, Listed, Running, Typedefs, GroupingsKept, Statuses
<1> QED
  BY <1>1, <1>2, <1>3, PTL DEF Spec
-----------------------------------------------------------------------------
(* How deep groupings nest.                                                *)

(* What a grouping may be called in a uses.                                *)
QNames == ({None} \cup Module) \X UNION {DOMAIN source.groupings[mod] : mod \in Module}

(* Going inwards chains only gain names, and each uses brings a name that  *)
(* no chain outside has.                                                   *)
Nested(s) ==
  \A j \in DOMAIN s :
    /\ ToSet(s[j].chain) \subseteq QNames
    /\ \A i \in 1 .. j - 1 : ToSet(s[i].chain) \subseteq ToSet(s[j].chain)
    /\ s[j].how = "uses" =>
         \E q \in ToSet(s[j].chain) : \A i \in 1 .. j - 1 : q \notin ToSet(s[i].chain)

NInv == TInv /\ Nested(stack)

(* A place is the last or one before it.                                   *)
LEMMA LastOrBefore == \A n \in Nat : \A i \in 1 .. n : i = n \/ i \in 1 .. n - 1
OBVIOUS

(* The innermost activations are left, the others have the chains they had.*)
LEMMA NestedKept ==
  ASSUME NEW s, IsSeq(s), Nested(s), NEW t, IsSeq(t), Len(t) <= Len(s),
         \A i \in 1 .. Len(t) : t[i].how = s[i].how /\ t[i].chain = s[i].chain
  PROVE  Nested(t)
<1>1. /\ DOMAIN s = 1 .. Len(s) /\ Len(s) \in Nat
      /\ DOMAIN t = 1 .. Len(t) /\ Len(t) \in Nat
  BY SeqOfElements DEF IsSeq
<1>2. \A j \in 1 .. Len(t) : j \in 1 .. Len(s) /\ \A i \in 1 .. j - 1 : i \in 1 .. Len(t)
  BY <1>1
<1>3. ASSUME NEW j \in 1 .. Len(t)
      PROVE  /\ ToSet(t[j].chain) \subseteq QNames
             /\ \A i \in 1 .. j - 1 : ToSet(t[i].chain) \subseteq ToSet(t[j].chain)
             /\ t[j].how = "uses" =>
                  \E q \in ToSet(t[j].chain) : \A i \in 1 .. j - 1 : q \notin ToSet(t[i].chain)
  <2>1. j \in DOMAIN s /\ \A i \in 1 .. j - 1 : i \in 1 .. Len(t)
    BY <1>1, <1>2
  <2>2. t[j].chain = s[j].chain /\ t[j].how = s[j].how
    OBVIOUS
  <2>3. \A i \in 1 .. j - 1 : t[i].chain = s[i].chain
    BY <2>1
  <2>4. /\ ToSet(s[j].chain) \subseteq QNames
        /\ \A i \in 1 .. j - 1 : ToSet(s[i].chain) \subseteq ToSet(s[j].chain)
        /\ s[j].how = "uses" =>
             \E q \in ToSet(s[j].chain) : \A i \in 1 .. j - 1 : q \notin ToSet(s[i].chain)
    BY <2>1 DEF Nested
  <2> QED
    BY <2>2, <2>3, <2>4
<1> QED
  BY <1>1, <1>3 DEF Nested

(* A nested activation.                                                    *)
LEMMA NestedPush ==
  ASSUME NEW s, IsSeq(s), Nested(s), NEW f, ToSet(f.chain) \subseteq QNames,
         \A i \in 1 .. Len(s) : ToSet(s[i].chain) \subseteq ToSet(f.chain),
         f.how = "uses" => \E q \in ToSet(f.chain) : \A i \in 1 .. Len(s) : q \notin ToSet(s[i].chain)
  PROVE  Nested(Append(s, f))
<1> DEFINE t == Append(s, f)
<1>1. /\ IsSeq(t) /\ Len(t) = Len(s) + 1 /\ Len(s) \in Nat
      /\ (\A i \in 1 .. Len(s) : t[i] = s[i]) /\ t[Len(s) + 1] = f
  BY AppendSeq
<1>2. DOMAIN s = 1 .. Len(s) /\ DOMAIN t = 1 .. Len(s) + 1
  BY <1>1, SeqOfElements DEF IsSeq
<1> HIDE DEF t
<1>3. ASSUME NEW j \in DOMAIN t
      PROVE  /\ ToSet(t[j].chain) \subseteq QNames
             /\ \A i \in 1 .. j - 1 : ToSet(t[i].chain) \subseteq ToSet(t[j].chain)
             /\ t[j].how = "uses" =>
                  \E q \in ToSet(t[j].chain) : \A i \in 1 .. j - 1 : q \notin ToSet(t[i].chain)
  <2>1. CASE j = Len(s) + 1
    <3>1. j - 1 = Len(s) /\ t[j] = f /\ \A i \in 1 .. Len(s) : t[i] = s[i]
      BY <1>1, <2>1
    <3> QED
      BY <3>1
  <2>2. CASE j \in 1 .. Len(s)
    <3>1. t[j] = s[j] /\ j \in DOMAIN s /\ \A i \in 1 .. j - 1 : t[i] = s[i]
      BY <1>1, <1>2, <2>2
    <3> QED
      BY <3>1 DEF Nested
  <2> QED
    BY <1>1, <1>2, <2>1, <2>2
<1> QED
  BY <1>3 DEF Nested, t

(* One with the chain of the activation below it, or of the one it takes   *)
(* the place of.                                                           *)
LEMMA NestedSame ==
  ASSUME NEW s, IsSeq(s), Nested(s), s # <<>>, NEW f, f.how # "uses", f.chain = Last(s).chain
  PROVE  /\ Nested(Append(s, f)) /\ Nested(Front(s)) /\ Nested(Append(Front(s), f))
<1>1. DOMAIN s = 1 .. Len(s) /\ Len(s) \in Nat /\ Len(s) \in DOMAIN s /\ Last(s) = s[Len(s)]
  <2>1. DOMAIN s = 1 .. Len(s) /\ Len(s) \in Nat /\ Len(s) # 0
    BY EmptySeq, SeqOfElements DEF IsSeq
  <2> QED
    BY <2>1 DEF Last
<1>2. /\ IsSeq(Front(s)) /\ Len(Front(s)) = Len(s) - 1
      /\ \A i \in 1 .. Len(s) - 1 : Front(s)[i] = s[i]
  BY FrontSeq
<1>3. /\ ToSet(f.chain) \subseteq QNames
      /\ \A i \in 1 .. Len(s) - 1 : ToSet(s[i].chain) \subseteq ToSet(f.chain)
  BY <1>1 DEF Nested
<1>4. \A i \in 1 .. Len(s) : i = Len(s) \/ i \in 1 .. Len(s) - 1
  BY <1>1, LastOrBefore
<1>5. \A i \in 1 .. Len(s) : ToSet(s[i].chain) \subseteq ToSet(f.chain)
  BY <1>1, <1>3, <1>4
<1>6. Nested(Front(s))
  <2>1. Len(Front(s)) <= Len(s)
    BY <1>1, <1>2
  <2> QED
    BY <1>2, <2>1, NestedKept
<1> QED
  BY <1>2, <1>3, <1>5, <1>6, NestedPush

(* The loop of an activation moves on.                                     *)
LEMMA NestedAdvanced ==
  ASSUME NEW s, Stacked(s), s # <<>>, Nested(s), NEW stmts
  PROVE  Nested(Advanced(s, stmts))
<1> DEFINE g == [s[Len(s)] EXCEPT !.todo = Tail(@), !.out = @ \o stmts]
           t == [s EXCEPT ![Len(s)] = g]
<1>1. /\ IsSeq(s) /\ DOMAIN s = 1 .. Len(s) /\ Len(s) \in Nat /\ Len(s) \in DOMAIN s
      /\ Framed(s[Len(s)])
  BY LastFramed, SeqOfElements DEF Last, IsSeq
<1>2. g.chain = s[Len(s)].chain /\ g.how = s[Len(s)].how
  BY <1>1 DEF Framed, Fields
<1>3. s \in Seq(Elements(s)) /\ s = [i \in DOMAIN s |-> s[i]]
  BY <1>1 DEF IsSeq
<1>4. Advanced(s, stmts) = t
  BY <1>1, <1>3 DEF Advanced
<1> HIDE DEF g
<1>5. /\ IsSeq(t) /\ Len(t) = Len(s) /\ Len(s) \in Nat \ {0}
      /\ \A i \in 1 .. Len(s) - 1 : t[i] = s[i]
      /\ t[Len(s)] = g
  BY <1>1, ReplaceLastSeq
<1>6. \A i \in 1 .. Len(t) : t[i].how = s[i].how /\ t[i].chain = s[i].chain
  <2> TAKE i \in 1 .. Len(t)
  <2>1. i = Len(s) \/ i \in 1 .. Len(s) - 1
    BY <1>1, <1>5, LastOrBefore
  <2> QED
    BY <1>2, <1>5, <2>1
<1> HIDE DEF t
<1> QED
  BY <1>1, <1>4, <1>5, <1>6, NestedKept

(* The outermost activation has an empty chain.                            *)
LEMMA RootNested == ASSUME NEW todo PROVE Nested(<<Root(todo)>>)
<1>1. Root(todo).chain = <<>> /\ Root(todo).how = "root"
  BY DEF Root, Frame
<1>2. DOMAIN <<Root(todo)>> = {1} /\ <<Root(todo)>>[1] = Root(todo) /\ 1 .. 1 - 1 = {}
  OBVIOUS
<1>3. ToSet(<<>>) = {}
  BY DEF ToSet
<1> QED
  BY <1>1, <1>2, <1>3 DEF Nested

(* A uses that is expanded: its grouping has a name, and it is new.        *)
LEMMA NestedUses == ASSUME NInv, EnterUses PROVE Nested(stack')
<1> DEFINE c == Append(Top.chain, QName)
           f == Frame("uses", Current, 0, Gated(Untyped(Definition), Current), Home, c,
                      IF RefinesLeft # <<>> THEN Top.prefix ELSE <<>>, Top.module)
<1>1. /\ Running /\ Resolved /\ QName \notin ToSet(Top.chain) /\ stack' = Append(stack, f)
  BY DEF EnterUses, At, Reading
<1>2. f.chain = c
  BY DEF Frame
<1> HIDE DEF f
<1>3. /\ IsSeq(stack) /\ Stacked(stack) /\ Len(stack) \in DOMAIN stack /\ DOMAIN stack = 1 .. Len(stack)
      /\ Top = stack[Len(stack)] /\ Top.module \in Module /\ IsSeq(Top.chain) /\ Nested(stack)
  BY <1>1, LastFramed DEF NInv, TInv, IInv, Running, Top, Last, Framed, Chain
<1>4. ToSet(c) = ToSet(Top.chain) \cup {QName}
  <2>1. /\ IsSeq(c) /\ Len(c) = Len(Top.chain) + 1 /\ Len(Top.chain) \in Nat
        /\ (\A i \in 1 .. Len(Top.chain) : c[i] = Top.chain[i]) /\ c[Len(Top.chain) + 1] = QName
    BY <1>3, AppendSeq
  <2>2. DOMAIN c = 1 .. Len(Top.chain) + 1 /\ DOMAIN Top.chain = 1 .. Len(Top.chain)
    BY <1>3, <2>1, SeqOfElements DEF IsSeq
  <2> HIDE DEF c
  <2> QED
    BY <2>1, <2>2 DEF ToSet
<1>5. QName \in QNames
  <2>1. Home \in Module /\ Home # None
    BY <1>1, HomeModule DEF NInv, TInv, Resolved
  <2>2. Current.grouping \in DOMAIN source.groupings[Home]
    BY <1>1, <2>1 DEF Resolved, NInv, TInv, GroupingsKept
  <2>3. Current.prefix \in {None} \cup Module
    BY <1>3, <2>1 DEF Home, ModuleOf, Module
  <2> QED
    BY <2>1, <2>2, <2>3 DEF QName, QNames
<1>6. \A i \in 1 .. Len(stack) : ToSet(stack[i].chain) \subseteq ToSet(Top.chain)
  <2>1. \A i \in 1 .. Len(stack) : i = Len(stack) \/ i \in 1 .. Len(stack) - 1
    BY <1>3, SeqOfElements, LastOrBefore DEF IsSeq
  <2> QED
    BY <1>3, <2>1 DEF Nested
<1>7. ToSet(Top.chain) \subseteq QNames
  BY <1>3 DEF Nested
<1>8. /\ ToSet(f.chain) \subseteq QNames /\ QName \in ToSet(f.chain)
      /\ \A i \in 1 .. Len(stack) : /\ ToSet(stack[i].chain) \subseteq ToSet(f.chain)
                                    /\ QName \notin ToSet(stack[i].chain)
  BY <1>1, <1>2, <1>4, <1>5, <1>6, <1>7
<1> QED
  BY <1>1, <1>3, <1>8, NestedPush

(* Every step keeps the nesting.                                           *)
LEMMA NestedStep == ASSUME NInv, Next PROVE Nested(stack')
<1>1. stack # <<>> => /\ IsSeq(stack) /\ Stacked(stack) /\ Nested(stack) /\ Top = Last(stack)
                      /\ Stacked(Front(stack)) /\ (Top.how # "root" => Front(stack) # <<>>)
                      /\ IsSeq(Front(stack))
  BY LastFramed, PopFramed DEF NInv, TInv, IInv, Top, Stacked
<1>2. ASSUME NEW stmts, Running, stack' = Advanced(stack, stmts) PROVE Nested(stack')
  BY <1>1, <1>2, NestedAdvanced DEF Running
<1>3. ASSUME NEW f, Running, f.how # "uses", f.chain = Top.chain,
             stack' = Append(stack, f) \/ stack' = Append(Front(stack), f)
      PROVE  Nested(stack')
  BY <1>1, <1>3, NestedSame DEF Running
<1>4. Running => Nested(Front(stack))
  <2>1. PICK f : f = Frame("case", None, 0, <<>>, "m", Top.chain, <<>>, None)
    OBVIOUS
  <2>2. f.how # "uses" /\ f.chain = Top.chain
    BY <2>1 DEF Frame
  <2> QED
    BY <1>1, <2>2, NestedSame DEF Running
<1>5. ASSUME NEW stmts, Running, Top.how # "root", stack' = Advanced(Front(stack), stmts)
      PROVE  Nested(stack')
  BY <1>1, <1>4, <1>5, NestedAdvanced DEF Running
<1>6. CASE VisitTypedef \/ UnknownGrouping
  <2>1. Running /\ \E stmts : stack' = Advanced(stack, stmts)
    BY <1>6 DEF VisitTypedef, UnknownGrouping, At, Reading
  <2> QED
    BY <1>2, <2>1
<1>7. CASE Descend
  <2> DEFINE f == Child("body", Current, 0, Current.subs, Here)
  <2>1. Running /\ stack' = Append(stack, f)
    BY <1>7 DEF Descend, Reading
  <2>2. f.how # "uses" /\ f.chain = Top.chain
    BY DEF Child, Frame
  <2> HIDE DEF f
  <2> QED
    BY <1>3, <2>1, <2>2
<1>8. ASSUME NEW st, NEW s, NEW k, NEW prefix, NEW lists, NEW mod, NEW target, Running,
             EnterCase(st, s, k, prefix, lists, mod, Top.chain, target),
             st = stack \/ st = Front(stack)
      PROVE  Nested(stack')
  <2> DEFINE here == Append(prefix, s.cases[k].name)
             case == Refined(s.cases[k], here, Last(lists))
             f == Frame("case", [s EXCEPT !.cases[k] = case], k, case.subs, mod, Top.chain, here, target)
  <2>1. stack' = Append(st, f)
    BY <1>8 DEF EnterCase
  <2>2. f.how # "uses" /\ f.chain = Top.chain
    BY DEF Frame
  <2> HIDE DEF f
  <2> QED
    BY <1>3, <1>8, <2>1, <2>2
<1>9. CASE VisitChoice
  <2>1. Running
    BY <1>9 DEF VisitChoice, At, Reading
  <2>2. CASE Current.cases = <<>>
    BY <1>2, <1>9, <2>1, <2>2 DEF VisitChoice
  <2>3. CASE Current.cases # <<>>
    <3>1. EnterCase(stack, Current, 1, Here, PendingLeft, Top.module, Top.chain, Registry)
      BY <1>9, <2>3 DEF VisitChoice
    <3> QED
      BY <1>8, <2>1, <3>1
  <2> QED
    BY <2>2, <2>3
<1>10. CASE EnterUses
  BY <1>10, NestedUses
<1>11. CASE LeaveUses
  <2> DEFINE user == stack[Len(stack) - 1]
             f == Frame("splice", Top.stmt, 0, Augmented, user.module, user.chain,
                        user.prefix, IF user.target = None THEN user.module ELSE user.target)
  <2>1. Running /\ Top.how # "root" /\ stack' = Append(Front(stack), f)
    BY <1>11 DEF LeaveUses, AtEnd
  <2>2. Last(Front(stack)) = user
    <3>1. /\ Len(Front(stack)) = Len(stack) - 1 /\ Len(stack) \in Nat \ {0}
          /\ \A i \in 1 .. Len(stack) - 1 : Front(stack)[i] = stack[i]
      BY <1>1, <2>1, FrontSeq DEF Running
    <3>2. Len(Front(stack)) # 0 /\ Len(Front(stack)) \in Nat
      BY <1>1, <2>1, <3>1, EmptySeq DEF Running
    <3> QED
      BY <3>1, <3>2 DEF Last
  <2>3. f.how # "uses" /\ f.chain = user.chain
    BY DEF Frame
  <2> HIDE DEF f, user
  <2> QED
    BY <1>1, <1>4, <2>1, <2>2, <2>3, NestedSame DEF Running
<1>12. CASE LeaveBody \/ LeaveSplice
  <2>1. Running /\ Top.how # "root" /\ \E stmts : stack' = Advanced(Front(stack), stmts)
    BY <1>12 DEF LeaveBody, LeaveSplice, AtEnd
  <2> QED
    BY <1>5, <2>1
<1>13. CASE LeaveCase
  <2> DEFINE s == [Top.stmt EXCEPT !.cases[Top.case].subs = Top.out]
  <2>1. Running /\ Top.how # "root"
    BY <1>13 DEF LeaveCase, AtEnd
  <2>2. CASE Top.case = Len(s.cases)
    BY <1>5, <1>13, <2>1, <2>2 DEF LeaveCase
  <2>3. CASE Top.case # Len(s.cases)
    <3>1. EnterCase(Front(stack), s, Top.case + 1, Front(Top.prefix), pending,
                    Top.module, Top.chain, Top.target)
      BY <1>13, <2>3 DEF LeaveCase
    <3> HIDE DEF s
    <3> QED
      BY <1>8, <2>1, <3>1
  <2> QED
    BY <2>2, <2>3
<1>14. CASE CircularUses \/ CannotCopy \/ RefineTargetNotFound \/ AugmentTargetNotFound
  <2>1. stack' = <<>>
    BY <1>14 DEF CircularUses, CannotCopy, RefineTargetNotFound, AugmentTargetNotFound, Fail
  <2> QED
    BY <2>1 DEF Nested
<1>15. CASE LeaveRoot
  <2>1. stack' = <<>> \/ \E todo : stack' = <<Root(todo)>>
    BY <1>15 DEF LeaveRoot
  <2>2. ASSUME NEW todo PROVE Nested(<<Root(todo)>>)
    BY RootNested
  <2> QED
    BY <2>1, <2>2 DEF Nested
<1> QED
  BY <1>6, <1>7, <1>9, <1>10, <1>11, <1>12, <1>13, <1>14, <1>15 DEF Next

(* The uses in progress have different names.                              *)
LEMMA FewUses == ASSUME NInv PROVE UsesBounded
<1> DEFINE names == UNION {DOMAIN source.groupings[mod] : mod \in Module}
           U == UsesOf(stack)
           P == {None} \cup Module
<1> SUFFICES ASSUME IsFiniteSet(names) PROVE Cardinality(U) <= 3 * Cardinality(names)
  BY DEF UsesBounded
<1>1. IsFiniteSet(P) /\ Cardinality(P) <= 3 /\ Cardinality(P) \in Nat
  <2>1. IsFiniteSet({"l"}) /\ Cardinality({"l"}) = 1
    BY FS_Singleton
  <2>2. ASSUME NEW S, IsFiniteSet(S), NEW x
        PROVE  IsFiniteSet(S \cup {x}) /\ Cardinality(S \cup {x}) <= Cardinality(S) + 1
    <3>1. Cardinality(S) \in Nat
      BY <2>2, FS_CardinalityType
    <3>2. /\ IsFiniteSet(S \cup {x})
          /\ Cardinality(S \cup {x}) \in {Cardinality(S), Cardinality(S) + 1}
      BY <2>2, FS_AddElement, Zenon
    <3> QED
      BY <3>1, <3>2
  <2>3. IsFiniteSet({"l"} \cup {"m"}) /\ Cardinality({"l"} \cup {"m"}) <= 2
    BY <2>1, <2>2
  <2>4. P = ({"l"} \cup {"m"}) \cup {None}
    BY DEF Module
  <2>5. /\ IsFiniteSet(P) /\ Cardinality(P) \in Nat /\ Cardinality({"l"} \cup {"m"}) \in Nat
        /\ Cardinality(P) <= Cardinality({"l"} \cup {"m"}) + 1
    BY <2>2, <2>3, <2>4, FS_CardinalityType
  <2> QED
    BY <2>3, <2>5
<1>2. Cardinality(names) \in Nat
  BY FS_CardinalityType
<1>3. IsFiniteSet(QNames) /\ Cardinality(QNames) = Cardinality(P) * Cardinality(names)
  BY <1>1, FS_Product DEF QNames
<1> DEFINE New(j, q) == q \in ToSet(stack[j].chain) /\ \A i \in 1 .. j - 1 : q \notin ToSet(stack[i].chain)
           f == [j \in U |-> CHOOSE q : New(j, q)]
<1>4. \A j \in U : New(j, f[j]) /\ f[j] \in QNames
  <2> TAKE j \in U
  <2>1. j \in DOMAIN stack /\ stack[j].how = "uses"
    BY DEF UsesOf
  <2>2. (\E q : New(j, q)) /\ ToSet(stack[j].chain) \subseteq QNames
    BY <2>1 DEF NInv, Nested
  <2>3. New(j, f[j])
    BY <2>2
  <2> QED
    BY <2>2, <2>3
<1> HIDE DEF f
<1>5. \A i, j \in U : f[i] = f[j] => i = j
  <2> TAKE i, j \in U
  <2>1. i \in Nat /\ j \in Nat /\ i \in DOMAIN stack /\ j \in DOMAIN stack /\ i >= 1 /\ j >= 1
    BY SeqOfElements DEF UsesOf, NInv, TInv, IInv, Stacked, IsSeq
  <2>2. i < j => f[i] # f[j]
    BY <1>4, <2>1
  <2>3. j < i => f[i] # f[j]
    BY <1>4, <2>1
  <2> QED
    BY <2>1, <2>2, <2>3
<1>6. f \in Injection(U, QNames)
  <2>1. f \in [U -> QNames]
    BY <1>4 DEF f
  <2> QED
    BY <1>5, <2>1 DEF Injection, IsInjective
<1>7. Cardinality(U) <= Cardinality(QNames) /\ Cardinality(U) \in Nat
  BY <1>3, <1>6, FS_Injection, FS_CardinalityType
<1>8. \A a, b \in Nat : a <= 3 => a * b <= 3 * b
  OBVIOUS
<1> QED
  BY <1>1, <1>2, <1>3, <1>7, <1>8

(* The recursion of _expand_one_uses_stmt is bounded by the groupings      *)
(* there are, however they use each other and wherever in their bodies.    *)
THEOREM UsesAreBounded == Spec => []UsesBounded
<1>1. Init => NInv
  <2> SUFFICES ASSUME Init PROVE NInv
    OBVIOUS
  <2>1. TInv
    BY TypeInitially
  <2>2. stack = <<Root(source.body)>>
    BY DEF Init
  <2> QED
    BY <2>1, <2>2, RootNested DEF NInv
<1>2. NInv /\ [Next]_vars => NInv'
  <2> SUFFICES ASSUME NInv, [Next]_vars PROVE NInv'
    OBVIOUS
  <2>1. TInv'
    BY TypeStep DEF NInv
  <2>2. source' = source
    BY DEF Next, VisitTypedef, Descend, VisitChoice, UnknownGrouping, CircularUses, CannotCopy,
       EnterUses, RefineTargetNotFound, AugmentTargetNotFound, LeaveUses, LeaveBody, LeaveCase,
       LeaveSplice, LeaveRoot, Fail, vars
  <2>3. Nested(stack')
    <3>1. CASE Next
      BY <3>1, NestedStep
    <3>2. CASE UNCHANGED vars
      BY <3>2 DEF vars, NInv, Nested, QNames
    <3> QED
      BY <3>1, <3>2
  <2>4. Nested(stack)'
    BY <2>2, <2>3 DEF Nested, QNames
  <2> QED
    BY <2>1, <2>4 DEF NInv
<1>3. NInv => UsesBounded
  BY FewUses
<1> QED
  BY <1>1, <1>2, <1>3, PTL DEF Spec
=============================================================================
