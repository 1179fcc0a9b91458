--------------------------- MODULE LeafTypeProofs ---------------------------
(***************************************************************************)
(* Proofs about the values of identityref and integer leaves: identity     *)
(* derivation, for all modules, identities, base graphs (cyclic ones too)  *)
(* and calls; and integer types, which keep their values through the JSON  *)
(* Schema, for every table of distinct bounds in which the unsigned types  *)
(* start at 0.                                                             *)
(***************************************************************************)
EXTENDS IdentityClosure, IntegerBounds, TLAPS

(* The walks stay among the defined identities.                            *)
LEMMA StartDefined == TypeOK /\ ~Descending => Start \subseteq DOMAIN identities
  BY DEF Start, Value, ResolveQName, Resolve

(* A base that resolves is defined.                                        *)
LEMMA BasesDefined == \A p : Bases(p) \subseteq DOMAIN identities
  BY DEF Bases, Resolve

(* So is a child.                                                          *)
LEMMA ChildrenDefined == \A p : Children(p) \subseteq DOMAIN identities
  BY DEF Children

(* Defined identities are pairs of a module and a name.                    *)
LEMMA DefinedArePairs == TypeOK => DOMAIN identities \subseteq Pair
  BY DEF TypeOK

(* The start of a descendant_closure is a defined identity of the module.  *)
DescendingStart ==
  Descending => <<query.importer, query.value[2]>> \in DOMAIN identities

(* Types hold in every reachable state of a call.                          *)
LEMMA TypeStep == TypeOK /\ DescendingStart /\ [Next]_vars => (TypeOK /\ DescendingStart)'
<1> SUFFICES ASSUME TypeOK, DescendingStart, [Next]_vars PROVE (TypeOK /\ DescendingStart)'
  OBVIOUS
<1>1. identities' = identities /\ query' = query
  BY DEF Next, Refuse, Begin, SkipSeen, Visit, VisitChildren, Answer, vars
<1>2. DescendingStart'
  BY <1>1 DEF DescendingStart, Descending
<1> SUFFICES TypeOK'
  BY <1>2
<1>3. CASE Refuse
  BY <1>1, <1>3 DEF Refuse, TypeOK
<1>4. CASE Begin
  <2>1. Start \subseteq DOMAIN identities
    BY StartDefined DEF Start, DescendingStart
  <2> QED
    BY <1>1, <1>4, <2>1 DEF Begin, TypeOK
<1>5. ASSUME NEW p \in Pair, SkipSeen(p) PROVE TypeOK'
  BY <1>1, <1>5 DEF SkipSeen, TypeOK
<1>6. ASSUME NEW p \in Pair, Visit(p) PROVE TypeOK'
  BY <1>1, <1>6, BasesDefined DEF Visit, TypeOK
<1>7. ASSUME NEW p \in Pair, VisitChildren(p) PROVE TypeOK'
  BY <1>1, <1>7, ChildrenDefined DEF VisitChildren, TypeOK
<1>8. CASE Answer
  <2>1. Holds(seen) \in BOOLEAN
    BY DEF Holds
  <2> QED
    BY <1>1, <1>8, <2>1 DEF Answer, TypeOK
<1>9. CASE UNCHANGED vars
  BY <1>9 DEF vars, TypeOK
<1> QED
  BY <1>3, <1>4, <1>5, <1>6, <1>7, <1>8, <1>9 DEF Next

(* A call begins with types in order.                                      *)
LEMMA InitTyped == Init => TypeOK /\ DescendingStart
  BY DEF Init, TypeOK, DescendingStart

(* seen and stack hold defined identities only, whatever is looked up.     *)
THEOREM TypeCorrect == Spec => []TypeOK
  BY InitTyped, TypeStep, PTL DEF Spec
-----------------------------------------------------------------------------
(* What a walk keeps up: nothing of the closure is lost between seen and   *)
(* stack, and nothing else gets in.  descendant_closure marks an identity  *)
(* as seen before it has looked at its children.                           *)
Succ(p) == IF Descending THEN Children(p) ELSE Bases(p)

Expanded == IF Descending THEN seen \ stack ELSE seen

NothingLost ==
  /\ pc = "call" => seen = {} /\ stack = {}
  /\ pc # "call" => Start \subseteq seen \cup stack
  /\ \A p \in Expanded : Succ(p) \subseteq seen \cup stack
  /\ Descending => stack \subseteq seen

NothingElse ==
  \A T \in SUBSET Pair :
    Start \subseteq T /\ (\A p \in T : Succ(p) \subseteq T) => seen \cup stack \subseteq T

Answered ==
  /\ pc = "walk" => ~Refused
  /\ pc = "done" => stack = {} /\ (answer <=> ~Refused /\ Holds(seen))

Justified ==
  \A p \in stack : p \in Start \/ \E q \in seen : p \in Succ(q)

WalkInv == NothingLost /\ NothingElse /\ Justified /\ Answered

(* The graph and the call are fixed, and so is all that is read off them.  *)
LEMMA CallFixed ==
  [Next]_vars =>
    /\ identities' = identities /\ query' = query
    /\ Descending' = Descending /\ Refused' = Refused /\ Start' = Start /\ Value' = Value
    /\ \A p : Bases(p)' = Bases(p) /\ Children(p)' = Children(p) /\ Succ(p)' = Succ(p)
    /\ \A S : Holds(S)' = Holds(S)
<1> SUFFICES ASSUME [Next]_vars
             PROVE  /\ identities' = identities /\ query' = query
                    /\ Descending' = Descending /\ Refused' = Refused
                    /\ Start' = Start /\ Value' = Value
                    /\ \A p : /\ Bases(p)' = Bases(p) /\ Children(p)' = Children(p)
                             /\ Succ(p)' = Succ(p)
                    /\ \A S : Holds(S)' = Holds(S)
  OBVIOUS
<1>1. identities' = identities /\ query' = query
  BY DEF Next, Refuse, Begin, SkipSeen, Visit, VisitChildren, Answer, vars
<1>2. \A m, r : Resolve(m, r)' = Resolve(m, r) /\ ResolveQName(m, r)' = ResolveQName(m, r)
  BY <1>1 DEF Resolve, ResolveQName
<1>3. Descending' = Descending /\ Value' = Value
  BY <1>1, <1>2 DEF Descending, Value
<1>4. Refused' = Refused
  BY <1>1, <1>2, <1>3 DEF Refused
<1>5. Start' = Start
  BY <1>1, <1>3, <1>4 DEF Start
<1>6. \A p : Bases(p)' = Bases(p)
  BY <1>1, <1>2 DEF Bases
<1>7. \A p : Children(p)' = Children(p)
  BY <1>1 DEF Children
<1>8. \A p : Succ(p)' = Succ(p)
  BY <1>3, <1>6, <1>7 DEF Succ
<1>9. \A S : Holds(S)' = Holds(S)
  BY <1>1, <1>2, <1>3 DEF Holds
<1> QED
  BY <1>1, <1>3, <1>4, <1>5, <1>6, <1>7, <1>8, <1>9

(* Each step of a walk keeps it up.                                        *)
LEMMA JustifiedStep == TypeOK /\ WalkInv /\ [Next]_vars => Justified'
<1> SUFFICES ASSUME TypeOK, WalkInv, [Next]_vars PROVE Justified'
  OBVIOUS
<1> USE CallFixed DEF WalkInv, Justified
<1>1. ASSUME NEW p \in Pair, Visit(p) PROVE Justified'
  <2>1. Succ(p) = Bases(p) /\ p \in seen'
    BY <1>1 DEF Visit, Succ
  <2> QED
    BY <1>1, <2>1 DEF Visit
<1>2. ASSUME NEW p \in Pair, VisitChildren(p) PROVE Justified'
  <2>1. Succ(p) = Children(p) /\ p \in seen'
    BY <1>2 DEF VisitChildren, Succ, NothingLost
  <2>2. ASSUME NEW r \in stack' PROVE r \in Start \/ \E q \in seen' : r \in Succ(q)
    <3>1. r \in stack \/ r \in Children(p)
      BY <1>2 DEF VisitChildren
    <3>2. seen \subseteq seen'
      BY <1>2 DEF VisitChildren
    <3> QED
      BY <2>1, <3>1, <3>2
  <2> QED
    BY <2>2
<1>3. CASE Begin
  BY <1>3 DEF Begin
<1>4. CASE Refuse \/ Answer \/ UNCHANGED vars
  BY <1>4 DEF Refuse, Answer, vars
<1>5. ASSUME NEW p \in Pair, SkipSeen(p) PROVE Justified'
  BY <1>5 DEF SkipSeen
<1> QED
  BY <1>1, <1>2, <1>3, <1>4, <1>5 DEF Next

(* Every step keeps the whole of WalkInv.                                  *)
LEMMA WalkStep == TypeOK /\ WalkInv /\ [Next]_vars => WalkInv'
<1> SUFFICES ASSUME TypeOK, WalkInv, [Next]_vars PROVE WalkInv'
  OBVIOUS
<1> USE CallFixed
<1>1. CASE Refuse
  <2>1. NothingLost'
    BY <1>1 DEF Refuse, WalkInv, NothingLost, Expanded, Start
  <2>2. NothingElse' /\ Answered'
    BY <1>1 DEF Refuse, WalkInv, NothingLost, NothingElse, Answered
  <2> QED
    BY <2>1, <2>2, JustifiedStep DEF WalkInv
<1>2. CASE Begin
  <2>1. NothingLost'
    BY <1>2 DEF Begin, WalkInv, NothingLost, Expanded
  <2>2. NothingElse' /\ Answered'
    BY <1>2 DEF Begin, NothingElse, Answered
  <2> QED
    BY <2>1, <2>2, JustifiedStep DEF WalkInv
<1>3. ASSUME NEW p \in Pair, SkipSeen(p) PROVE WalkInv'
  BY <1>3, JustifiedStep DEF SkipSeen, WalkInv, NothingLost, NothingElse, Answered, Expanded
<1>4. ASSUME NEW p \in Pair, Visit(p) PROVE WalkInv'
  <2>1. Succ(p) = Bases(p)
    BY <1>4 DEF Visit, Succ
  <2>2. NothingLost' /\ Answered'
    BY <1>4, <2>1 DEF Visit, WalkInv, NothingLost, Answered, Expanded
  <2>3. NothingElse'
    BY <1>4, <2>1 DEF Visit, WalkInv, NothingElse
  <2> QED
    BY <2>2, <2>3, JustifiedStep DEF WalkInv
<1>5. ASSUME NEW p \in Pair, VisitChildren(p) PROVE WalkInv'
  <2>1. Succ(p) = Children(p)
    BY <1>5 DEF VisitChildren, Succ
  <2>2. ASSUME NEW q \in Expanded' PROVE Succ(q) \subseteq seen' \cup stack'
    <3>1. CASE q = p
      BY <1>5, <2>1, <3>1 DEF VisitChildren
    <3>2. CASE q # p
      <4>1. q \in Expanded
        BY <1>5, <3>2 DEF VisitChildren, Expanded
      <4> QED
        BY <1>5, <4>1 DEF VisitChildren, WalkInv, NothingLost
    <3> QED
      BY <3>1, <3>2
  <2>3. NothingLost' /\ Answered'
    <3>1. pc = "walk" /\ pc' = pc /\ Descending /\ Descending' /\ p \in stack
      BY <1>5 DEF VisitChildren
    <3>2. Start' \subseteq seen' \cup stack'
      BY <1>5, <3>1 DEF VisitChildren, WalkInv, NothingLost
    <3>3. stack' \subseteq seen'
      BY <1>5, <3>1 DEF VisitChildren, WalkInv, NothingLost
    <3>4. Answered'
      BY <3>1 DEF WalkInv, Answered
    <3> QED
      BY <2>2, <3>1, <3>2, <3>3, <3>4 DEF NothingLost
  <2>4. NothingElse'
    <3>1. ASSUME NEW T \in SUBSET Pair, Start \subseteq T, \A q \in T : Succ(q) \subseteq T
          PROVE  seen' \cup stack' \subseteq T
      <4>1. seen \cup stack \subseteq T /\ p \in T
        BY <1>5, <3>1 DEF VisitChildren, WalkInv, NothingElse
      <4>2. Children(p) \subseteq T
        BY <2>1, <3>1, <4>1
      <4> QED
        BY <1>5, <4>1, <4>2 DEF VisitChildren
    <3> QED
      BY <3>1 DEF NothingElse
  <2> QED
    BY <2>3, <2>4, JustifiedStep DEF WalkInv
<1>6. CASE Answer
  <2>1. NothingLost' /\ NothingElse'
    BY <1>6 DEF Answer, WalkInv, NothingLost, NothingElse, Expanded
  <2>2. Holds(seen)' = Holds(seen)
    BY <1>6 DEF Answer
  <2>3. Answered'
    BY <1>6, <2>2 DEF Answer, WalkInv, Answered
  <2> QED
    BY <2>1, <2>3, JustifiedStep DEF WalkInv
<1>7. CASE UNCHANGED vars
  BY <1>7, JustifiedStep DEF vars, WalkInv, NothingLost, NothingElse, Answered, Expanded
<1> QED
  BY <1>1, <1>2, <1>3, <1>4, <1>5, <1>6, <1>7 DEF Next

(* WalkInv holds before the walk.                                          *)
LEMMA WalkInitial == Init => WalkInv
  BY DEF Init, WalkInv, NothingLost, NothingElse, Justified, Answered, Expanded

(* Hence both hold throughout a call.                                      *)
LEMMA WalkInvariant == Spec => [](TypeOK /\ WalkInv)
  BY WalkInitial, WalkStep, TypeCorrect, PTL DEF Spec
-----------------------------------------------------------------------------
(* A prefixed name denotes at most one identity.                           *)
LEMMA ValueUnique == TypeOK => \A v, w \in Value : v = w
<1> SUFFICES ASSUME TypeOK, NEW v \in Value, NEW w \in Value PROVE v = w
  OBVIOUS
<1>1. query \in Query
  BY QueryAssumption DEF TypeOK
<1>2. query.importer \in Module /\ query.value \in Ref
  BY <1>1 DEF Query
<1>3. query.value[1] \in Prefix
  BY <1>2 DEF Ref, Value, ResolveQName
<1>4. /\ v \in Pair /\ w \in Pair /\ v[2] = w[2]
      /\ v[1] \in PrefixTarget[query.importer][query.value[1]]
      /\ w[1] \in PrefixTarget[query.importer][query.value[1]]
  BY <1>3, DefinedArePairs, ScopeAssumption DEF Value, ResolveQName, Resolve
<1>5. v[1] = w[1]
  BY <1>2, <1>3, <1>4, ScopeAssumption
<1> QED
  BY <1>4, <1>5 DEF Pair

(* What the walk hands out is the derivation from the value.               *)
LEMMA ClosureIsDerivation ==
  ASSUME TypeOK, WalkInv, pc = "done", ~Descending, ~Refused, NEW v \in Value, NEW t \in Pair
  PROVE  t \in seen <=> DerivedOrSelf(v, t)
<1>1. Start = {v}
  BY ValueUnique DEF Start
<1>2. stack = {} /\ v \in seen /\ (\A p \in seen : Bases(p) \subseteq seen)
  BY <1>1 DEF WalkInv, NothingLost, Answered, Expanded, Succ
<1>3. ASSUME t \in seen, NEW T \in SUBSET Pair, v \in T, \A p \in T : Bases(p) \subseteq T
      PROVE  t \in T
  BY <1>1, <1>3 DEF WalkInv, NothingElse, Succ
<1>4. seen \in SUBSET Pair
  BY DefinedArePairs DEF TypeOK
<1> QED
  BY <1>2, <1>3, <1>4 DEF DerivedOrSelf

(* The answer read off a finished closure is the right one.                *)
LEMMA AnswerExactStep == TypeOK /\ WalkInv => AnswerExact
<1> SUFFICES ASSUME TypeOK, WalkInv, pc = "done", ~Descending PROVE AnswerExact
  BY DEF AnswerExact
<1>1. CASE Refused
  BY <1>1 DEF Refused, WalkInv, Answered, AnswerExact
<1>2. CASE ~Refused
  <2>1. PICK v \in Value : TRUE
    BY <1>2 DEF Refused
  <2>2. Value = {v}
    BY ValueUnique
  <2>3. \A p \in Pair : p \in seen <=> DerivedOrSelf(v, p)
    BY <1>2, ClosureIsDerivation
  <2>4. \A m, r : Resolve(m, r) \subseteq Pair /\ ResolveQName(m, r) \subseteq Pair
    BY DefinedArePairs DEF Resolve, ResolveQName
  <2>5. query.op \in {"identityref", "derived-from", "derived-from-or-self"}
    BY QueryAssumption DEF TypeOK, Query, Descending
  <2>6. answer <=> Holds(seen)
    BY <1>2 DEF WalkInv, Answered
  <2>7. CASE query.op = "identityref"
    <3>1. query.targets # {}
      BY <1>2, <2>7 DEF Refused
    <3>2. Holds(seen) <=>
            \A t \in query.targets : \E p \in Resolve(query.importer, t) : p \in seen
      BY <2>7 DEF Holds
    <3>3. \A p : Derives(v, p) <=> DerivedOrSelf(v, p)
      BY <2>7 DEF Derives
    <3> QED
      BY <2>2, <2>3, <2>4, <2>6, <2>7, <3>1, <3>2, <3>3 DEF AnswerExact
  <2>8. CASE query.op = "derived-from"
    <3>1. Holds(seen) <=>
            \A t \in query.targets : \E p \in ResolveQName(query.importer, t) :
              p \in seen /\ p \notin Value
      BY <2>8 DEF Holds
    <3>2. \A p : Derives(v, p) <=> DerivedOrSelf(v, p) /\ v # p
      BY <2>8 DEF Derives
    <3> QED
      BY <2>2, <2>3, <2>4, <2>6, <2>8, <3>1, <3>2 DEF AnswerExact
  <2>9. CASE query.op = "derived-from-or-self"
    <3>1. Holds(seen) <=>
            \A t \in query.targets : \E p \in ResolveQName(query.importer, t) : p \in seen
      BY <2>9 DEF Holds
    <3>2. \A p : Derives(v, p) <=> DerivedOrSelf(v, p)
      BY <2>9 DEF Derives
    <3> QED
      BY <2>2, <2>3, <2>4, <2>6, <2>9, <3>1, <3>2 DEF AnswerExact
  <2> QED
    BY <2>5, <2>7, <2>8, <2>9
<1> QED
  BY <1>1, <1>2

(* The validator and the XPath functions answer by the derivation relation *)
(* over all modules, however the bases are connected.                      *)
THEOREM AnswersAreExact == Spec => []AnswerExact
  BY WalkInvariant, AnswerExactStep, PTL
-----------------------------------------------------------------------------
(* An identity is a child of the identities it names without a prefix.     *)
LEMMA ChildrenInvertBases ==
  ASSUME TypeOK, NEW p \in Pair, NEW q \in Pair
  PROVE  q \in Children(p) <=> p \in LocalBases(q)
  BY DefinedArePairs DEF Children, LocalBases

(* The finished descendants are those that derive; the complement of seen  *)
(* is closed upwards.                                                      *)
LEMMA EnumExactStep == TypeOK /\ DescendingStart /\ WalkInv => EnumExact
<1> SUFFICES ASSUME TypeOK, DescendingStart, WalkInv, pc = "done", Descending,
                    NEW v \in Pair
             PROVE  v \in seen <=> LocallyDerived(v, <<query.importer, query.value[2]>>)
  BY DEF EnumExact
<1> DEFINE base == <<query.importer, query.value[2]>>
<1>1. base \in Pair /\ seen \in SUBSET Pair
  BY DefinedArePairs DEF TypeOK, DescendingStart
<1>2. Start = {base}
  BY DEF Start, Refused
<1>3. stack = {} /\ base \in seen /\ (\A p \in seen : Children(p) \subseteq seen)
  BY <1>2 DEF WalkInv, NothingLost, Answered, Expanded, Succ
<1>4. ASSUME v \in seen PROVE LocallyDerived(v, base)
  <2> SUFFICES ASSUME NEW T \in SUBSET Pair, v \in T, \A p \in T : LocalBases(p) \subseteq T,
                      base \notin T
               PROVE  FALSE
    BY DEF LocallyDerived
  <2> DEFINE rest == Pair \ T
  <2>1. \A p \in rest : Children(p) \subseteq rest
    BY ChildrenInvertBases, ChildrenDefined, DefinedArePairs
  <2>2. seen \subseteq rest
    BY <1>1, <1>2, <2>1 DEF WalkInv, NothingElse, Succ
  <2> QED
    BY <1>4, <2>2
<1>5. ASSUME v \notin seen PROVE ~LocallyDerived(v, base)
  <2> DEFINE rest == Pair \ seen
  <2>1. \A p \in rest : LocalBases(p) \subseteq rest
    BY <1>1, <1>3, ChildrenInvertBases DEF LocalBases
  <2> QED
    BY <1>3, <1>5, <2>1 DEF LocallyDerived
<1> QED
  BY <1>4, <1>5

(* descendant_closure lists exactly the identities from which unprefixed   *)
(* bases lead up to the given one.                                         *)
THEOREM EnumsAreExact == Spec => []EnumExact
<1>1. Spec => []DescendingStart
  BY InitTyped, TypeStep, PTL DEF Spec
<1> QED
  BY <1>1, WalkInvariant, EnumExactStep, PTL
-----------------------------------------------------------------------------
(* A call maps to an initial state of Reachability.                        *)
LEMMA AbstractInitial == Init => Abstract!Init
<1> SUFFICES ASSUME Init PROVE Abstract!Init
  OBVIOUS
<1>1. TypeOK /\ DescendingStart
  BY InitTyped
<1>2. Edges \in [Pair -> SUBSET Pair]
  BY <1>1, BasesDefined, ChildrenDefined, DefinedArePairs DEF Edges
<1>3. Start \subseteq Pair
  BY <1>1, DefinedArePairs DEF Start, Value, ResolveQName, Resolve, DescendingStart
<1> QED
  BY <1>2, <1>3 DEF Init, Abstract!Init

(* A step maps to Extend, to Finish or to a stutter.                       *)
LEMMA AbstractStep ==
  TypeOK /\ WalkInv /\ [Next]_vars => [Abstract!Next]_(Abstract!vars)
<1> SUFFICES ASSUME TypeOK, WalkInv, [Next]_vars
             PROVE  Abstract!Next \/ UNCHANGED Abstract!vars
  OBVIOUS
<1>1. Edges' = Edges /\ Start' = Start
  BY CallFixed DEF Edges
<1>2. \A p \in Pair : Edges[p] = Succ(p)
  BY DEF Edges, Succ
<1>3. seen \subseteq Pair /\ stack \subseteq Pair
  BY DefinedArePairs DEF TypeOK
<1>4. ASSUME NEW X \in SUBSET Abstract!Next1(seen), seen' = seen \cup X,
             pc # "done", pc' # "done"
      PROVE  Abstract!Next
  BY <1>1, <1>4 DEF Abstract!Next, Abstract!Extend
<1>5. CASE Refuse
  <2>1. Abstract!Closed(seen)
    BY <1>5 DEF Refuse, Abstract!Closed, Abstract!Next1, WalkInv, NothingLost, Start
  <2> QED
    BY <1>1, <1>5, <2>1 DEF Refuse, Abstract!Next, Abstract!Finish
<1>6. CASE Begin
  <2>1. seen = {} /\ Start \subseteq Abstract!Next1(seen)
    BY <1>6 DEF Begin, WalkInv, NothingLost, Abstract!Next1
  <2> QED
    BY <1>4, <1>6, <2>1 DEF Begin
<1>7. ASSUME NEW p \in Pair, SkipSeen(p) PROVE UNCHANGED Abstract!vars
  BY <1>1, <1>7 DEF SkipSeen, Abstract!vars
<1>8. ASSUME NEW p \in Pair, Visit(p) PROVE Abstract!Next
  <2>1. p \in Abstract!Next1(seen)
    BY <1>2, <1>3, <1>8 DEF Visit, Abstract!Next1, WalkInv, Justified
  <2> QED
    BY <1>4, <1>8, <2>1 DEF Visit
<1>9. ASSUME NEW p \in Pair, VisitChildren(p) PROVE Abstract!Next
  <2>1. p \in seen /\ Succ(p) = Children(p)
    BY <1>9 DEF VisitChildren, WalkInv, NothingLost, Succ
  <2>2. Children(p) \subseteq Abstract!Next1(seen)
    BY <1>2, <2>1 DEF Abstract!Next1
  <2> QED
    BY <1>4, <1>9, <2>2 DEF VisitChildren
<1>10. CASE Answer
  <2>1. \A p \in seen : Edges[p] \subseteq seen
    BY <1>2, <1>3, <1>10 DEF Answer, WalkInv, NothingLost, Expanded
  <2>2. Start \subseteq seen
    BY <1>10 DEF Answer, WalkInv, NothingLost
  <2>3. Abstract!Closed(seen)
    BY <2>1, <2>2 DEF Abstract!Closed, Abstract!Next1
  <2> QED
    BY <1>1, <1>10, <2>3 DEF Answer, Abstract!Next, Abstract!Finish
<1>11. CASE UNCHANGED vars
  BY <1>1, <1>11 DEF vars, Abstract!vars
<1> QED
  BY <1>5, <1>6, <1>7, <1>8, <1>9, <1>10, <1>11 DEF Next

(* Every call of identity_graph.py's walks is, step by step, a walk of     *)
(* Reachability: what it hands out is complete, whatever the graph.        *)
THEOREM WalksImplementReachability ==
  Spec => Abstract!Init /\ [][Abstract!Next]_(Abstract!vars)
  BY AbstractInitial, AbstractStep, WalkInvariant, PTL DEF Spec
-----------------------------------------------------------------------------
(* Integers.                                                               *)

(* t can hold every value from lo to hi.                                   *)
InRange(t, lo, hi) == Bounds[t].lo <= lo /\ lo <= hi /\ hi <= Bounds[t].hi
Back(t, range) == IntegerType(SchemaBounds(t, range).lo, SchemaBounds(t, range).hi)
------------------------------------------------------------------------------
LEMMA BuiltinsListed ==
  /\ Builtins = {"int8", "int16", "int32", "int64", "uint8", "uint16", "uint32", "uint64"}
  /\ DOMAIN Signed = 1 .. 4 /\ \A i \in 1 .. 4 : Signed[i] \in Builtins
  /\ DOMAIN Either = 1 .. 8 /\ \A i \in 1 .. 8 : Either[i] \in Builtins
  /\ \A t \in Builtins : \E i \in 1 .. 8 : Either[i] = t
<1>1. Builtins = {"int8", "int16", "int32", "int64", "uint8", "uint16", "uint32", "uint64"}
  <2>1. 1 .. 4 = {1, 2, 3, 4}
    OBVIOUS
  <2>2. {Signed[i] : i \in {1, 2, 3, 4}} = {"int8", "int16", "int32", "int64"}
    BY DEF Signed
  <2>3. {Unsigned[i] : i \in {1, 2, 3, 4}} = {"uint8", "uint16", "uint32", "uint64"}
    BY DEF Unsigned
  <2> QED
    BY <2>1, <2>2, <2>3 DEF Builtins
<1>2. DOMAIN Signed = 1 .. 4 /\ \A i \in 1 .. 4 : Signed[i] \in Builtins
  BY DEF Signed, Builtins
<1>3. DOMAIN Either = 1 .. 8 /\ \A i \in 1 .. 8 : Either[i] \in Builtins
  BY <1>1 DEF Either
<1>4. ASSUME NEW t \in Builtins PROVE \E i \in 1 .. 8 : Either[i] = t
  <2>1. /\ Either[1] = "uint8" /\ Either[2] = "uint16" /\ Either[3] = "uint32"
        /\ Either[4] = "uint64" /\ Either[5] = "int8" /\ Either[6] = "int16"
        /\ Either[7] = "int32" /\ Either[8] = "int64"
    BY DEF Either
  <2> QED
    BY <1>1, <2>1
<1> QED
  BY <1>1, <1>2, <1>3, <1>4

(* The values of one interval within a type.                               *)
LEMMA IntervalValues ==
  ASSUME NEW t \in Builtins, NEW lo \in Int, NEW hi \in Int, InRange(t, lo, hi), NEW from, NEW to,
         ReadBound(from, Bounds[t].lo) = lo, ReadBound(to, Bounds[t].hi) = hi
  PROVE  Values(t, << <<from, to>> >>) = lo .. hi
<1> DEFINE range == << <<from, to>> >>
<1>1. Values(t, range) = PartValues(t, range[1])
  BY DEF Values
<1>2. PartValues(t, range[1]) = {v \in Bounds[t].lo .. Bounds[t].hi : lo <= v /\ v <= hi}
  BY DEF PartValues
<1>3. {v \in Bounds[t].lo .. Bounds[t].hi : lo <= v /\ v <= hi} = lo .. hi
  <2>1. Bounds[t].lo \in Int /\ Bounds[t].hi \in Int
    BY BoundsAssumption
  <2> QED
    BY <2>1 DEF InRange
<1> QED
  BY <1>1, <1>2, <1>3

(* What a schema states of an interval, and the values the interval has.   *)
LEMMA IntervalBounds ==
  ASSUME NEW t \in Builtins, NEW range, range = <<>> \/ IsInterval(t, range)
  PROVE  LET b == SchemaBounds(t, range)
         IN  /\ b.lo \in Int /\ b.hi \in Int /\ InRange(t, b.lo, b.hi)
             /\ Values(t, range) = b.lo .. b.hi
<1>0. Bounds[t].lo \in Int /\ Bounds[t].hi \in Int /\ Bounds[t].lo <= Bounds[t].hi
  BY BoundsAssumption DEF Builtins
<1>1. CASE range = <<>>
  BY <1>0, <1>1 DEF SchemaBounds, InRange, Values
<1>2. CASE range # <<>>
  <2> DEFINE low == ReadBound(range[1][1], Bounds[t].lo)
             high == ReadBound(range[1][2], Bounds[t].hi)
  <2>1. /\ range = <<range[1]>> /\ range[1] = <<range[1][1], range[1][2]>>
        /\ low \in Int /\ high \in Int
        /\ Bounds[t].lo <= low /\ low <= high /\ high <= Bounds[t].hi
    BY <1>2 DEF IsInterval
  <2>2. Len(range) = 1 /\ DOMAIN range = {1} /\ Len(range[1]) = 2
    <3> DEFINE part == range[1]
    <3>1. range = <<part>>
      BY <2>1
    <3>2. part = <<part[1], part[2]>>
      BY <2>1
    <3> HIDE DEF part
    <3>3. Len(range) = 1 /\ DOMAIN range = {1}
      BY <3>1
    <3>4. \A a, b : Len(<<a, b>>) = 2
      OBVIOUS
    <3>5. Len(part) = 2
      BY <3>2, <3>4
    <3> QED
      BY <3>3, <3>5 DEF part
  <2>3. LowText(range) = range[1][1] /\ HighText(range) = range[1][2]
    BY <2>2 DEF LowText, HighText
  <2>4. SchemaBounds(t, range) = [lo |-> low, hi |-> high]
    BY <1>2, <2>3 DEF SchemaBounds
  <2>5. Values(t, range) = low .. high
    <3>1. InRange(t, low, high)
      BY <2>1 DEF InRange
    <3>2. Values(t, << <<range[1][1], range[1][2]>> >>) = low .. high
      BY <2>1, <3>1, IntervalValues
    <3> QED
      BY <2>1, <3>2
  <2> HIDE DEF low, high
  <2> QED
    BY <2>1, <2>4, <2>5 DEF InRange
<1> QED
  BY <1>1, <1>2

(* A set of positions in a sequence has a first.                           *)
LEMMA FirstFitting ==
  ASSUME NEW S, S # {}, S \subseteq 1 .. 8
  PROVE  \E i \in S : \A j \in S : i <= j
<1>1. PICK m \in 1 .. 8 : m \in S
  OBVIOUS
<1> QED
  BY <1>1

LEMMA NarrowestHolds ==
  ASSUME NEW t \in Builtins, NEW lo \in Int, NEW hi \in Int, InRange(t, lo, hi)
  PROVE  Narrowest(lo, hi) \in Builtins /\ InRange(Narrowest(lo, hi), lo, hi)
<1> DEFINE order == IF lo < 0 THEN Signed ELSE Either
           Fits(i) == lo >= Bounds[order[i]].lo /\ hi <= Bounds[order[i]].hi
           fitting == {i \in DOMAIN order : Fits(i)}
           first == CHOOSE i \in fitting : \A j \in fitting : i <= j
<1>1. lo # None /\ hi # None
  BY BoundsAssumption
<1>2. DOMAIN order \subseteq 1 .. 8 /\ \A i \in DOMAIN order : order[i] \in Builtins
  BY BuiltinsListed
<1>3. \E i \in DOMAIN order : order[i] = t
  <2>1. CASE lo < 0
    <3>1. \E i \in 1 .. 4 : t = Signed[i]
      BY <2>1, BoundsAssumption DEF InRange, Builtins
    <3> QED
      BY <2>1, <3>1, BuiltinsListed
  <2>2. CASE ~(lo < 0)
    BY <2>2, BuiltinsListed
  <2> QED
    BY <2>1, <2>2
<1>4. fitting # {} /\ fitting \subseteq 1 .. 8
  <2>1. PICK i \in DOMAIN order : order[i] = t
    BY <1>3
  <2>2. lo >= Bounds[t].lo
    BY BoundsAssumption DEF InRange
  <2>3. i \in fitting
    BY <2>1, <2>2 DEF InRange
  <2> QED
    BY <1>2, <2>3
<1>5. first \in fitting
  <2>1. \E i \in fitting : \A j \in fitting : i <= j
    BY <1>4, FirstFitting
  <2> QED
    BY <2>1
<1>6. Narrowest(lo, hi) = order[first]
  BY <1>1, <1>4 DEF Narrowest
<1>7. order[first] \in Builtins /\ Fits(first)
  BY <1>2, <1>5
<1>8. Bounds[order[first]].lo \in Int /\ Bounds[order[first]].hi \in Int
  BY <1>7, BoundsAssumption
<1>9. Bounds[order[first]].lo <= lo /\ lo <= hi /\ hi <= Bounds[order[first]].hi
  BY <1>7, <1>8 DEF InRange
<1> HIDE DEF first, order
<1> QED
  BY <1>6, <1>7, <1>9 DEF InRange

(* Whatever type is inferred from two bounds that a type can hold has      *)
(* exactly the values between them.                                        *)
LEMMA InferredValues ==
  ASSUME NEW t \in Builtins, NEW lo \in Int, NEW hi \in Int, InRange(t, lo, hi)
  PROVE  LET back == IntegerType(lo, hi)
         IN  back.name \in Builtins /\ Values(back.name, back.range) = lo .. hi
<1> DEFINE back == IntegerType(lo, hi)
<1>0. lo # None /\ hi # None /\ lo <= hi
  BY BoundsAssumption DEF InRange
<1>1. CASE Whole(lo, hi) # {}
  <2> DEFINE n == CHOOSE s \in Whole(lo, hi) : TRUE
  <2>1. n \in Whole(lo, hi)
    BY <1>1
  <2>2. back = [name |-> n, range |-> <<>>]
    BY <1>0, <1>1 DEF IntegerType
  <2>3. n \in Builtins /\ Bounds[n].lo = lo /\ Bounds[n].hi = hi
    BY <2>1 DEF Whole
  <2> HIDE DEF n
  <2> QED
    BY <2>2, <2>3 DEF Values
<1>2. CASE Whole(lo, hi) = {} /\ HalfSigned(lo, hi) # {}
  <2> DEFINE i == CHOOSE k \in HalfSigned(lo, hi) : \A j \in HalfSigned(lo, hi) : k <= j
  <2>1. i \in HalfSigned(lo, hi)
    <3>1. HalfSigned(lo, hi) \subseteq 1 .. 8
      BY DEF HalfSigned
    <3>2. \E k \in HalfSigned(lo, hi) : \A j \in HalfSigned(lo, hi) : k <= j
      BY <1>2, <3>1, FirstFitting
    <3> QED
      BY <3>2
  <2>2. back = [name |-> Signed[i], range |-> << << <<0>>, <<>> >> >>]
    BY <1>0, <1>2 DEF IntegerType
  <2> HIDE DEF i
  <2>3. i \in 1 .. 4 /\ lo = 0 /\ hi = Bounds[Signed[i]].hi
    BY <2>1 DEF HalfSigned
  <2>4. Signed[i] \in Builtins /\ Bounds[Signed[i]].lo < 0
    BY <2>3, BoundsAssumption DEF Builtins
  <2> DEFINE range == << << <<0>>, <<>> >> >>
             s == Signed[i]
  <2>5. ReadBound(<<0>>, Bounds[s].lo) = lo /\ ReadBound(<<>>, Bounds[s].hi) = hi
    BY <2>3 DEF ReadBound
  <2>6. InRange(s, lo, hi)
    BY <1>0, <2>3, <2>4, BoundsAssumption DEF InRange
  <2>7. Values(s, range) = lo .. hi
    BY <2>4, <2>5, <2>6, IntervalValues
  <2>8. back = [name |-> s, range |-> range] /\ s \in Builtins
    BY <2>2, <2>4
  <2> HIDE DEF s, range
  <2> QED
    BY <2>7, <2>8
<1>3. CASE Whole(lo, hi) = {} /\ HalfSigned(lo, hi) = {}
  <2> DEFINE n == Narrowest(lo, hi)
             range == << << <<lo>>, <<hi>> >> >>
  <2>1. n \in Builtins /\ InRange(n, lo, hi)
    BY NarrowestHolds
  <2>2. back = [name |-> n, range |-> range]
    BY <1>0, <1>3 DEF IntegerType
  <2>3. ReadBound(<<lo>>, Bounds[n].lo) = lo /\ ReadBound(<<hi>>, Bounds[n].hi) = hi
    BY DEF ReadBound
  <2>4. Values(n, range) = lo .. hi
    BY <2>1, <2>3, IntervalValues
  <2> HIDE DEF n, range
  <2> QED
    BY <2>1, <2>2, <2>4
<1> QED
  BY <1>1, <1>2, <1>3

(* An integer type comes back with exactly the values it had, under the    *)
(* bounds a schema states of it, whatever type is chosen for them (code:   *)
(* json_integer_bounds_for_builtin, yang_integer_from_json_bounds). Of a   *)
(* range of several parts, or of a single value, this is not so.           *)
THEOREM RangesKept ==
  ASSUME NEW t \in Builtins, NEW range, range = <<>> \/ IsInterval(t, range)
  PROVE  /\ Back(t, range).name \in Builtins
         /\ Values(Back(t, range).name, Back(t, range).range) = Values(t, range)
<1> DEFINE b == SchemaBounds(t, range)
<1>1. /\ b.lo \in Int /\ b.hi \in Int /\ InRange(t, b.lo, b.hi)
      /\ Values(t, range) = b.lo .. b.hi
  BY IntervalBounds
<1> QED
  BY <1>1, InferredValues DEF Back

(* An integer type without a range comes back as itself (CHANGELOG.md:89).  *)
THEOREM BuiltinsKept ==
  ASSUME NEW t \in Builtins
  PROVE  Back(t, <<>>) = [name |-> t, range |-> <<>>]
<1> DEFINE lo == Bounds[t].lo
           hi == Bounds[t].hi
<1>1. SchemaBounds(t, <<>>) = [lo |-> lo, hi |-> hi]
  BY DEF SchemaBounds
<1>2. lo # None
  BY BoundsAssumption
<1>3. Whole(lo, hi) = {t}
  BY BoundsAssumption DEF Whole
<1>4. IntegerType(lo, hi) = [name |-> CHOOSE s \in {t} : TRUE, range |-> <<>>]
  BY <1>2, <1>3 DEF IntegerType
<1> QED
  BY <1>1, <1>4 DEF Back
=============================================================================
