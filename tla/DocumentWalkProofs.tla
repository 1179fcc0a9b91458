------------------------- MODULE DocumentWalkProofs -------------------------
(***************************************************************************)
(* Proofs about DocumentWalk, for every schema, feature choice, document   *)
(* and every outcome of the XPath and type checks.                         *)
(***************************************************************************)
EXTENDS SchemaScope, CommonLemmas
-----------------------------------------------------------------------------
(* The parts of TypeOK an action can disturb.                              *)
Activations(s) == IsSeq(s) /\ \A i \in DOMAIN s : Activation(s[i])

(* TypeOK, with control and levelStack in the terms of the lemmas.         *)
LEMMA TypeParts ==
  TypeOK <=>
    /\ root \in Roots /\ inactive \subseteq Node /\ constraintChecks \in BOOLEAN
    /\ status \in {"idle", "running", "done", "raised"}
    /\ document = Null \/ IsDict(document)
    /\ Activations(control)
    /\ caseStack \in Seq(Node)
    /\ IsSeq(levelStack) /\ \A i \in DOMAIN levelStack : IsDict(levelStack[i])
  BY DEF TypeOK, Activations, IsSeq, Elements

(* Pushing an activation, as a call does.                                  *)
LEMMA PushActivation ==
  ASSUME NEW s, Activations(s), NEW f, Activation(f)
  PROVE  Activations(Append(s, f))
<1>1. IsSeq(s)
  BY DEF Activations
<1>2. DOMAIN Append(s, f) = 1 .. Len(s) + 1 /\ DOMAIN s = 1 .. Len(s)
  BY <1>1, AppendSeq, SeqOfElements DEF IsSeq
<1> QED
  BY <1>1, <1>2, AppendSeq DEF Activations

(* Popping one, as a return does.                                          *)
LEMMA PopActivation ==
  ASSUME NEW s, Activations(s), s # <<>>
  PROVE  Activations(Front(s))
<1>1. IsSeq(s)
  BY DEF Activations
<1>2. DOMAIN Front(s) = 1 .. Len(s) - 1 /\ DOMAIN s = 1 .. Len(s) /\ Len(s) \in Nat
  BY <1>1, FrontSeq, SeqOfElements DEF IsSeq
<1>3. IsSeq(Front(s)) /\ \A i \in DOMAIN Front(s) : Front(s)[i] = s[i]
  BY <1>1, <1>2, FrontSeq
<1>4. DOMAIN Front(s) \subseteq DOMAIN s
  BY <1>2
<1> QED
  BY <1>3, <1>4 DEF Activations

(* Moving the innermost one on, as its loop does.                          *)
LEMMA ReplaceActivation ==
  ASSUME NEW s, Activations(s), s # <<>>, NEW f, Activation(f)
  PROVE  Activations([s EXCEPT ![Len(s)] = f])
<1> DEFINE t == [s EXCEPT ![Len(s)] = f]
<1>1. IsSeq(s)
  BY DEF Activations
<1>2. DOMAIN t = 1 .. Len(s) /\ DOMAIN s = 1 .. Len(s) /\ Len(s) \in Nat
  BY <1>1, ReplaceLastSeq, SeqOfElements DEF IsSeq
<1>3. \A i \in 1 .. Len(s) : t[i] = s[i] \/ t[i] = f
  BY <1>2
<1> QED
  BY <1>1, <1>2, <1>3, ReplaceLastSeq DEF Activations

(* The innermost activation, and the statement it is about to visit.       *)
LEMMA TopActivation ==
  ASSUME Activations(control), control # <<>>
  PROVE  Activation(Top) /\ Len(control) \in DOMAIN control
<1>1. IsSeq(control)
  BY DEF Activations
<1>2. Len(control) \in DOMAIN control
  BY <1>1 DEF IsSeq
<1> QED
  BY <1>2 DEF Activations, Top

(* The loop visits a statement of the schema over a dict, and claims       *)
(* members by their names.                                                 *)
LEMMA CurrentStmt ==
  ASSUME NEW kinds, Activations(control), Visiting(kinds)
  PROVE  /\ control # <<>> /\ Activation(Top) /\ IsDict(Top.data)
         /\ Top.op \in {"children", "case"}
         /\ Current \in Node /\ Stmt[Current] \in StmtRecord
         /\ Claimed \subseteq Name \cup DOMAIN Top.data.m
<1>1. control # <<>> /\ Top.op \in {"children", "case"} /\ Top.next \in DOMAIN Stmt[Top.stmt].stmts
  BY DEF Visiting
<1>2. Activation(Top)
  BY <1>1, TopActivation
<1>3. IsDict(Top.data) /\ Top.stmt \in Node
  BY <1>1, <1>2 DEF Activation
<1>4. Stmt[Top.stmt].stmts \in Seq(Node)
  BY <1>3, SchemaAssumption DEF StmtRecord
<1>5. Current \in Node
  BY <1>1, <1>4 DEF Current
<1>6. Stmt[Current] \in StmtRecord
  BY <1>5, SchemaAssumption
<1>7. Stmt[Current].name \in Name
  BY <1>6 DEF StmtRecord
<1>8. Claimed \subseteq Name \cup DOMAIN Top.data.m
  BY <1>7 DEF Claimed, ChoiceInstanceKeys
<1> QED
  BY <1>1, <1>2, <1>3, <1>5, <1>6, <1>8

(* The loops of _visit_children and _visit_choice move on.                 *)
LEMMA AdvancedActivations ==
  ASSUME NEW kinds, Activations(control), Visiting(kinds)
  PROVE  Activations(Advanced)
<1>1. Activation(AdvancedTop)
  <2> DEFINE V == IF Top.op = "children" THEN Top.visited \cup Claimed ELSE Top.visited
             r == [op |-> Top.op, stmt |-> Top.stmt, data |-> Top.data,
                   enforce |-> Top.enforce, next |-> Top.next, visited |-> Top.visited]
  <2>1. /\ Activation(Top) /\ IsDict(Top.data) /\ Top.op \in {"children", "case"}
        /\ Claimed \subseteq Name \cup DOMAIN Top.data.m
    BY CurrentStmt
  <2>2. Top = r
    BY <2>1 DEF Activation
  <2>3. AdvancedTop = [r EXCEPT !.next = Top.next + 1, !.visited = V]
    BY <2>2 DEF AdvancedTop
  <2>4. AdvancedTop = [op |-> Top.op, stmt |-> Top.stmt, data |-> Top.data,
                       enforce |-> Top.enforce, next |-> Top.next + 1, visited |-> V]
    BY <2>3
  <2>5. V \subseteq Name \cup DOMAIN Top.data.m
    BY <2>1 DEF Activation
  <2> QED
    BY <2>1, <2>4, <2>5 DEF Activation
<1>2. control # <<>>
  BY DEF Visiting
<1> QED
  BY <1>1, <1>2, ReplaceActivation DEF Advanced
-----------------------------------------------------------------------------
(* What every action keeps: the parts of TypeOK other than control.        *)
LEMMA FrameActivation ==
  ASSUME NEW op \in {"children", "case"}, NEW n \in Node, NEW v, IsDict(v), NEW e \in BOOLEAN
  PROVE  Activation(Frame(op, n, v, e))
  BY DEF Frame, Activation

(* The activation of the loop over entries.                                *)
LEMMA EntriesActivation ==
  ASSUME NEW n \in Node, NEW v, IsList(v), NEW e \in BOOLEAN
  PROVE  Activation(Frame("entries", n, v, e))
  BY DEF Frame, Activation

(* The flag of _child_enforce_mandatory_choice.                            *)
LEMMA EnforceBoolean ==
  ASSUME NEW n \in Node, NEW e \in BOOLEAN
  PROVE  ChildEnforce(n, e) \in BOOLEAN
  BY DEF ChildEnforce

(* A step that leaves the configuration alone is typed if its walk is.     *)
LEMMA StepTyped ==
  ASSUME TypeOK, UNCHANGED config, Activations(control)',
         status' \in {"idle", "running", "done", "raised"},
         document' = Null \/ IsDict(document'),
         caseStack' \in Seq(Node), IsSeq(levelStack)',
         \A i \in DOMAIN levelStack' : IsDict(levelStack'[i])
  PROVE  TypeOK'
<1>1. root' = root /\ inactive' = inactive /\ constraintChecks' = constraintChecks
  BY DEF config
<1> QED
  BY <1>1 DEF TypeOK, Activations, IsSeq, Elements

(* The same for a step that leaves document and case stacks alone.         *)
LEMMA WalkTyped ==
  ASSUME TypeOK, UNCHANGED <<config, document, caseStack, levelStack>>,
         status' \in {"idle", "running", "done", "raised"}, Activations(control)'
  PROVE  TypeOK'
<1>1. IsSeq(levelStack)' /\ \A i \in DOMAIN levelStack' : IsDict(levelStack'[i])
  BY TypeParts DEF IsSeq, Elements
<1> QED
  BY <1>1, TypeParts, StepTyped

(* The two ways a visit goes on, to the next statement ...                 *)
LEMMA ContinueTyped ==
  ASSUME TypeOK, NEW kinds, Visiting(kinds), NEW found, Continue(found)
  PROVE  TypeOK'
<1>1. Activations(Advanced)
  BY AdvancedActivations, TypeParts
<1>2. Activations(control)'
  BY <1>1 DEF Continue, Activations, IsSeq, Elements
<1> QED
  BY <1>2, TypeParts, WalkTyped DEF Continue

(* ... or into a nested activation.                                        *)
LEMMA CallTyped ==
  ASSUME TypeOK, NEW kinds, Visiting(kinds), NEW found, NEW f, Activation(f), Call(f, found)
  PROVE  TypeOK'
<1>1. Activations(Append(Advanced, f))
  BY AdvancedActivations, PushActivation, TypeParts
<1>2. Activations(control)'
  BY <1>1 DEF Call, Activations, IsSeq, Elements
<1> QED
  BY <1>2, TypeParts, WalkTyped DEF Call

(* A loop that ends and returns.                                           *)
LEMMA PopTyped ==
  ASSUME TypeOK, control # <<>>, control' = Front(control),
         UNCHANGED <<config, status, document, caseStack, levelStack>>
  PROVE  TypeOK'
<1>1. Activations(Front(control))
  BY PopActivation, TypeParts
<1>2. Activations(control)'
  BY <1>1 DEF Activations, IsSeq, Elements
<1> QED
  BY <1>2, TypeParts, WalkTyped

(* The stacks of a call that is over.                                      *)
LEMMA EmptyTyped == Activations(<<>>) /\ IsSeq(<<>>)
  BY DEF Activations, IsSeq, Elements

(* The stack of a call that begins.                                        *)
LEMMA SingletonTyped == ASSUME NEW f, Activation(f) PROVE Activations(<<f>>)
<1>1. <<f>> \in Seq({f}) /\ DOMAIN <<f>> = {1} /\ <<f>>[1] = f
  OBVIOUS
<1>2. IsSeq(<<f>>)
  BY <1>1, SeqOfElements
<1> QED
  BY <1>1, <1>2 DEF Activations

(* A pop keeps the type of a stack.                                        *)
LEMMA FrontIn == ASSUME NEW S, NEW s \in Seq(S) PROVE Front(s) \in Seq(S)
  BY DEF Front
-----------------------------------------------------------------------------
(* Every branch of _visit_stmt on a data node keeps TypeOK.                *)
LEMMA VisitDataNodeTyped == ASSUME TypeOK, VisitDataNode PROVE TypeOK'
<1>1. CASE SkipInactive
  BY <1>1, ContinueTyped DEF SkipInactive
<1>2. CASE SkipWhenFalse
  BY <1>2, ContinueTyped DEF SkipWhenFalse
<1>3. CASE SkipAbsent
  BY <1>3, ContinueTyped DEF SkipAbsent, Applicable
<1>4. CASE VisitValue
  BY <1>4, ContinueTyped DEF VisitValue, Applicable
<1>5. CASE RejectDuplicateKey
  BY <1>5, ContinueTyped DEF RejectDuplicateKey, Applicable
<1>6. CASE EnterContainer
  <2> DEFINE v == EffectiveValue(Current, Top.data)
             e == ChildEnforce(Current, ChildEnforce(Current, Top.enforce))
  <2>1. /\ Visiting(DataKinds) /\ IsDict(v)
        /\ Call(Frame("children", Current, v, e), Found)
    BY <1>6 DEF EnterContainer, Applicable
  <2>2. Current \in Node /\ Activation(Top)
    BY <2>1, CurrentStmt, TypeParts
  <2>3. e \in BOOLEAN
    BY <2>2, EnforceBoolean DEF Activation
  <2>4. Activation(Frame("children", Current, v, e))
    BY <2>1, <2>2, <2>3, FrameActivation
  <2> QED
    BY <2>1, <2>4, CallTyped
<1>7. CASE EnterList
  <2> DEFINE v == EffectiveValue(Current, Top.data)
  <2>1. /\ Visiting(DataKinds) /\ IsList(v)
        /\ Call(Frame("entries", Current, v, Top.enforce), Found)
    BY <1>7 DEF EnterList, Applicable
  <2>2. Current \in Node /\ Activation(Top)
    BY <2>1, CurrentStmt, TypeParts
  <2>3. Activation(Frame("entries", Current, v, Top.enforce))
    BY <2>1, <2>2, EntriesActivation DEF Activation
  <2> QED
    BY <2>1, <2>3, CallTyped
<1>8. CASE RaiseTypeError
  <2>1. /\ control' = <<>> /\ caseStack' = <<>> /\ levelStack' = <<>>
        /\ status' = "raised" /\ UNCHANGED config /\ document' = document
    BY <1>8 DEF RaiseTypeError
  <2>2. Activations(control)' /\ IsSeq(levelStack)'
    BY <2>1, EmptyTyped DEF Activations, IsSeq, Elements
  <2> QED
    BY <2>1, <2>2, TypeParts, StepTyped
<1> QED
  BY <1>1, <1>2, <1>3, <1>4, <1>5, <1>6, <1>7, <1>8 DEF VisitDataNode

(* Every branch of _visit_choice keeps TypeOK.                             *)
LEMMA VisitChoiceTyped == ASSUME TypeOK, VisitChoice PROVE TypeOK'
<1>1. CASE SkipInactiveChoice
  BY <1>1, ContinueTyped DEF SkipInactiveChoice
<1>2. CASE SkipChoiceWhenFalse
  BY <1>2, ContinueTyped DEF SkipChoiceWhenFalse
<1>3. CASE RejectCase
  BY <1>3, ContinueTyped DEF RejectCase, ApplicableChoice
<1>4. CASE RejectSeveralCases
  BY <1>4, ContinueTyped DEF RejectSeveralCases, ChoiceSettled, ApplicableChoice
<1>5. CASE SkipEmptyChoice
  BY <1>5, ContinueTyped DEF SkipEmptyChoice, ChoiceSettled, ApplicableChoice
<1>6. CASE EnterCase
  <2>1. Visiting({"choice"}) /\ UNCHANGED <<config, status, document>>
    BY <1>6 DEF EnterCase, ChoiceSettled, ApplicableChoice
  <2>2. PICK a \in StmtsOf(Current) :
          /\ control' = Append(Advanced, Frame("case", a, Top.data, ChildEnforce(a, Top.enforce)))
          /\ caseStack' = Append(caseStack, a)
          /\ levelStack' = Append(levelStack, Top.data)
    BY <1>6 DEF EnterCase, ActiveCases
  <2>3. Current \in Node /\ Activation(Top) /\ IsDict(Top.data) /\ Stmt[Current] \in StmtRecord
    BY <2>1, CurrentStmt, TypeParts
  <2>4. a \in Node
    BY <2>3 DEF StmtRecord, StmtsOf
  <2>5. Activation(Frame("case", a, Top.data, ChildEnforce(a, Top.enforce)))
    <3>1. ChildEnforce(a, Top.enforce) \in BOOLEAN
      BY <2>3, <2>4, EnforceBoolean DEF Activation
    <3> QED
      BY <2>3, <2>4, <3>1, FrameActivation
  <2>6. Activations(control')
    BY <2>1, <2>2, <2>5, AdvancedActivations, PushActivation, TypeParts
  <2>7. Activations(control)'
    BY <2>6 DEF Activations, IsSeq, Elements
  <2>8. caseStack' \in Seq(Node)
    BY <2>2, <2>4, TypeParts
  <2>9. IsSeq(levelStack') /\ \A i \in DOMAIN levelStack' : IsDict(levelStack'[i])
    <3>1. IsSeq(levelStack)
      BY TypeParts
    <3>2. DOMAIN levelStack' = 1 .. Len(levelStack) + 1 /\ DOMAIN levelStack = 1 .. Len(levelStack)
      BY <2>2, <3>1, AppendSeq, SeqOfElements DEF IsSeq
    <3> QED
      BY <2>2, <2>3, <3>1, <3>2, AppendSeq, TypeParts
  <2>10. IsSeq(levelStack)'
    BY <2>9 DEF IsSeq, Elements
  <2> QED
    BY <2>1, <2>7, <2>8, <2>9, <2>10, TypeParts, StepTyped
<1> QED
  BY <1>1, <1>2, <1>3, <1>4, <1>5, <1>6 DEF VisitChoice

(* An iteration over the entries of a list keeps TypeOK.                   *)
LEMMA VisitEntryTyped == ASSUME TypeOK, VisitEntry PROVE TypeOK'
<1> DEFINE n == Top.stmt
           e == ChildEnforce(n, ChildEnforce(n, Top.enforce))
           r == [Top EXCEPT !.next = Top.next + 1]
           more == [control EXCEPT ![Len(control)].next = @ + 1]
<1>1. /\ control # <<>> /\ Top.op = "entries"
      /\ UNCHANGED <<config, status, document, caseStack, levelStack>>
      /\ \/ IsDict(Entry) /\ control' = Append(more, Frame("children", n, Entry, e))
         \/ control' = more
  BY DEF VisitEntry, InEntries
<1>2. Activation(Top) /\ Len(control) \in DOMAIN control
  BY <1>1, TopActivation, TypeParts
<1>3. Activation(r)
  <2> DEFINE t == [op |-> Top.op, stmt |-> Top.stmt, data |-> Top.data,
                   enforce |-> Top.enforce, next |-> Top.next, visited |-> Top.visited]
  <2>1. Top = t
    BY <1>2 DEF Activation
  <2>2. r = [t EXCEPT !.next = Top.next + 1]
    BY <2>1
  <2>3. r = [op |-> Top.op, stmt |-> Top.stmt, data |-> Top.data,
             enforce |-> Top.enforce, next |-> Top.next + 1, visited |-> Top.visited]
    BY <2>2
  <2> QED
    BY <1>1, <1>2, <2>3 DEF Activation
<1>4. more = [control EXCEPT ![Len(control)] = r]
  BY <1>2 DEF Top
<1>5. Activations(more)
  BY <1>1, <1>3, <1>4, ReplaceActivation, TypeParts
<1>6. ASSUME IsDict(Entry) PROVE Activations(Append(more, Frame("children", n, Entry, e)))
  <2>1. n \in Node /\ e \in BOOLEAN
    BY <1>2, EnforceBoolean DEF Activation
  <2> QED
    BY <1>5, <1>6, <2>1, FrameActivation, PushActivation
<1>7. Activations(control')
  BY <1>1, <1>5, <1>6
<1>8. Activations(control)'
  BY <1>7 DEF Activations, IsSeq, Elements
<1> QED
  BY <1>1, <1>8, TypeParts, WalkTyped

(* The finally clauses of _visit_choice keep TypeOK.                       *)
LEMMA FinishCaseTyped == ASSUME TypeOK, FinishCase PROVE TypeOK'
<1>1. /\ control # <<>> /\ UNCHANGED <<config, status, document>>
      /\ control' = Front(control)
      /\ caseStack' = Front(caseStack) /\ levelStack' = Front(levelStack)
  BY DEF FinishCase, LoopDone
<1>2. Activations(control')
  BY <1>1, PopActivation, TypeParts
<1>3. Activations(control)'
  BY <1>2 DEF Activations, IsSeq, Elements
<1>4. caseStack' \in Seq(Node)
  BY <1>1, FrontIn, TypeParts
<1>5. levelStack' \in Seq(Elements(levelStack))
  BY <1>1, FrontIn, TypeParts DEF IsSeq
<1>6. IsSeq(levelStack')
  BY <1>5, SeqOfElements
<1>7. IsSeq(levelStack)'
  BY <1>6 DEF IsSeq, Elements
<1>8. \A i \in DOMAIN levelStack' : levelStack'[i] \in Elements(levelStack)
  BY <1>5
<1>9. \A i \in DOMAIN levelStack' : IsDict(levelStack'[i])
  BY <1>8, TypeParts DEF Elements
<1> QED
  BY <1>1, <1>3, <1>4, <1>7, <1>9, TypeParts, StepTyped

(* A call of validate() starts with types in order.                        *)
LEMMA ValidateTyped ==
  ASSUME TypeOK, NEW d \in Documents[root] \cup Again[root], Validate(d)
  PROVE  TypeOK'
<1> DEFINE f == Frame("children", root, d, ChildEnforce(root, TRUE))
<1>1. root \in Node /\ IsDict(d)
  BY TypeParts, SchemaAssumption
<1>2. Activation(f)
  BY <1>1, EnforceBoolean, FrameActivation
<1>3. /\ control' = <<f>> /\ caseStack' = <<>> /\ levelStack' = <<>>
      /\ status' = "running" /\ document' = d /\ UNCHANGED config
  BY DEF Validate
<1>4. Activations(<<f>>)
  BY <1>2, SingletonTyped
<1>5. Activations(control)' /\ IsSeq(levelStack)'
  BY <1>3, <1>4, EmptyTyped DEF Activations, IsSeq, Elements
<1> QED
  BY <1>1, <1>3, <1>5, StepTyped

(* TypeOK is inductive.                                                    *)
LEMMA TypeStep == ASSUME TypeOK, [Next]_vars PROVE TypeOK'
<1>1. CASE VisitDataNode
  BY <1>1, VisitDataNodeTyped
<1>2. CASE VisitChoice
  BY <1>2, VisitChoiceTyped
<1>3. CASE VisitEntry
  BY <1>3, VisitEntryTyped
<1>4. CASE FinishEntries
  BY <1>4, PopTyped DEF FinishEntries, InEntries
<1>5. CASE FinishCase
  BY <1>5, FinishCaseTyped
<1>6. CASE FinishChildren
  BY <1>6, PopTyped DEF FinishChildren, LoopDone
<1>7. CASE Return
  <2>1. /\ UNCHANGED <<config, document, caseStack, levelStack>> /\ control' = control
        /\ status' = "done"
    BY <1>7 DEF Return, walk
  <2>2. Activations(control)'
    BY <2>1, TypeParts DEF Activations, IsSeq, Elements
  <2> QED
    BY <2>1, <2>2, WalkTyped
<1>8. CASE ValidateFirst \/ ValidateAgain
  BY <1>8, ValidateTyped DEF ValidateFirst, ValidateAgain
<1>9. CASE UNCHANGED vars
  BY <1>9 DEF vars, config, walk, TypeOK
<1> QED
  BY <1>1, <1>2, <1>3, <1>4, <1>5, <1>6, <1>7, <1>8, <1>9 DEF Next, Step

(* The walk's activations and stacks have their types on every schema and  *)
(* document: no activation over anything but a dict, or a list's entries.  *)
THEOREM TypeCorrect == Spec => []TypeOK
<1>1. Init => TypeOK
  BY EmptyTyped, SchemaAssumption DEF Init, TypeOK, Activations, IsSeq, Elements, Null
<1>2. TypeOK /\ [Next]_vars => TypeOK'
  BY TypeStep
<1> QED
  BY <1>1, <1>2, PTL DEF Spec
-----------------------------------------------------------------------------
(* Only _visit_choice and the reset in validate() touch the case stacks.   *)
StacksKept == UNCHANGED <<caseStack, levelStack>>
StacksReset == caseStack' = <<>> /\ levelStack' = <<>>

(* The four things a step can do to the case stacks.                       *)
LEMMA StackSteps ==
  [Next]_vars => EnterCase \/ FinishCase \/ StacksReset \/ StacksKept
<1> SUFFICES ASSUME [Next]_vars PROVE EnterCase \/ FinishCase \/ StacksReset \/ StacksKept
  OBVIOUS
<1>1. CASE VisitDataNode
  BY <1>1 DEF VisitDataNode, SkipInactive, SkipWhenFalse, SkipAbsent, VisitValue, EnterContainer,
     EnterList, RejectDuplicateKey, RaiseTypeError, Continue, Call, StacksReset, StacksKept
<1>2. CASE VisitChoice
  BY <1>2 DEF VisitChoice, SkipInactiveChoice, SkipChoiceWhenFalse, RejectCase,
     RejectSeveralCases, SkipEmptyChoice, Continue, StacksKept
<1>3. CASE ValidateFirst \/ ValidateAgain
  BY <1>3 DEF ValidateFirst, ValidateAgain, Validate, StacksReset
<1>4. CASE VisitEntry \/ FinishEntries \/ FinishChildren \/ Return \/ UNCHANGED vars
  BY <1>4 DEF VisitEntry, FinishEntries, FinishChildren, Return, vars, walk, StacksKept
<1> QED
  BY <1>1, <1>2, <1>3, <1>4 DEF Next, Step

(* ActiveCaseHasData is inductive relative to TypeOK.                      *)
LEMMA ActiveCaseStep ==
  ASSUME TypeOK, ActiveCaseHasData, [Next]_vars
  PROVE  ActiveCaseHasData'
<1>1. IsSeq(caseStack) /\ IsSeq(levelStack)
  BY TypeParts, SeqOfElements
<1>2. CASE EnterCase
  <2>1. PICK a : /\ CaseHasAnyStmtData(a, Top.data)
                 /\ caseStack' = Append(caseStack, a)
                 /\ levelStack' = Append(levelStack, Top.data)
    BY <1>2 DEF EnterCase, ActiveCases, CaseWithData
  <2>2. /\ Len(caseStack') = Len(caseStack) + 1 /\ Len(levelStack') = Len(levelStack) + 1
        /\ Len(caseStack) \in Nat
    BY <1>1, <2>1, AppendSeq
  <2>3. ASSUME NEW i \in 1 .. Len(caseStack')
        PROVE  CaseHasAnyStmtData(caseStack'[i], levelStack'[i])
    <3>1. CASE i = Len(caseStack) + 1
      BY <1>1, <2>1, <3>1, AppendSeq DEF ActiveCaseHasData
    <3>2. CASE i \in 1 .. Len(caseStack)
      BY <1>1, <2>1, <3>2, AppendSeq DEF ActiveCaseHasData
    <3> QED
      BY <2>2, <3>1, <3>2
  <2> QED
    BY <2>2, <2>3 DEF ActiveCaseHasData
<1>3. CASE FinishCase
  <2>1. caseStack' = Front(caseStack) /\ levelStack' = Front(levelStack)
    BY <1>3 DEF FinishCase
  <2>2. CASE caseStack = <<>>
    BY <1>1, <2>1, <2>2 DEF ActiveCaseHasData, Front, IsSeq
  <2>3. CASE caseStack # <<>>
    <3>1. levelStack # <<>>
      BY <1>1, <2>3 DEF ActiveCaseHasData, IsSeq
    <3>2. /\ Len(caseStack') = Len(caseStack) - 1 /\ Len(levelStack') = Len(levelStack) - 1
          /\ Len(caseStack) \in Nat
      BY <1>1, <2>1, <2>3, <3>1, FrontSeq
    <3>3. ASSUME NEW i \in 1 .. Len(caseStack')
          PROVE  caseStack'[i] = caseStack[i] /\ levelStack'[i] = levelStack[i]
      BY <1>1, <2>1, <2>3, <3>1, <3>2, FrontSeq DEF ActiveCaseHasData
    <3> QED
      BY <3>2, <3>3 DEF ActiveCaseHasData
  <2> QED
    BY <2>2, <2>3
<1>4. CASE StacksReset
  BY <1>4 DEF StacksReset, ActiveCaseHasData
<1>5. CASE StacksKept
  BY <1>5 DEF StacksKept, ActiveCaseHasData
<1> QED
  BY <1>2, <1>3, <1>4, <1>5, StackSteps

(* On every schema and document the two case stacks go together, and a     *)
(* case on them has data in its dict, also after a call that raised.       *)
THEOREM ActiveCasesHaveData == Spec => []ActiveCaseHasData
<1>1. Init => ActiveCaseHasData
  BY DEF Init, ActiveCaseHasData
<1>2. TypeOK /\ ActiveCaseHasData /\ [Next]_vars => ActiveCaseHasData'
  BY ActiveCaseStep
<1> QED
  BY <1>1, <1>2, TypeCorrect, PTL DEF Spec
-----------------------------------------------------------------------------
(* The place of an activation among a set of them, below the n-th one.     *)
LEMMA RankBelow ==
  ASSUME NEW n \in Nat, NEW I \in SUBSET (1 .. n)
  PROVE  /\ IsFiniteSet(I) /\ Cardinality(I) \in Nat
         /\ \A i \in I : Rank(I, i) \in 1 .. Cardinality(I)
<1>1. IsFiniteSet(1 .. n)
  BY FS_Interval
<1>2. IsFiniteSet(I) /\ Cardinality(I) \in Nat
  BY <1>1, FS_Subset, FS_CardinalityType
<1>3. ASSUME NEW i \in I PROVE Rank(I, i) \in 1 .. Cardinality(I)
  <2> DEFINE J == {j \in I : j <= i}
  <2>1. IsFiniteSet(J) /\ Cardinality(J) \in Nat /\ Cardinality(J) <= Cardinality(I)
    BY <1>2, FS_Subset, FS_CardinalityType
  <2>2. i \in J
    OBVIOUS
  <2>3. Cardinality(J) # 0
    BY <2>1, <2>2, FS_EmptySet
  <2> QED
    BY <1>2, <2>1, <2>3 DEF Rank
<1> QED
  BY <1>2, <1>3

(* The next activation comes after all of them.                            *)
LEMMA RankNext ==
  ASSUME NEW n \in Nat, NEW I \in SUBSET (1 .. n)
  PROVE  /\ Cardinality(I \cup {n + 1}) = Cardinality(I) + 1
         /\ Rank(I \cup {n + 1}, n + 1) = Cardinality(I) + 1
         /\ \A i \in I : Rank(I \cup {n + 1}, i) = Rank(I, i)
<1>1. IsFiniteSet(I)
  BY RankBelow
<1>2. n + 1 \notin I
  OBVIOUS
<1>3. Cardinality(I \cup {n + 1}) = Cardinality(I) + 1
  BY <1>1, <1>2, FS_AddElement
<1>4. {j \in I \cup {n + 1} : j <= n + 1} = I \cup {n + 1}
  <2>1. \A j \in I \cup {n + 1} : j <= n + 1
    OBVIOUS
  <2> QED
    BY <2>1
<1>5. \A i \in I : {j \in I \cup {n + 1} : j <= i} = {j \in I : j <= i}
  OBVIOUS
<1> QED
  BY <1>3, <1>4, <1>5 DEF Rank
-----------------------------------------------------------------------------
(* The case stacks cs and ls are those of the activations s; the path p    *)
(* is theirs.                                                              *)
CasesMatch(s, cs, ls) ==
  /\ Len(cs) = Cardinality(CasesOf(s)) /\ Len(ls) = Cardinality(CasesOf(s))
  /\ \A i \in CasesOf(s) : /\ cs[Rank(CasesOf(s), i)] = s[i].stmt
                           /\ ls[Rank(CasesOf(s), i)] = s[i].data

SegmentOf(f, x) ==
  /\ x[1] = Stmt[f.stmt].name
  /\ Stmt[f.stmt].kind = "list" => x[2] = KeyTuple(f.stmt, f.data)

PathMatches(s, p) ==
  /\ Len(p) = Cardinality(NestedOf(s))
  /\ \A i \in NestedOf(s) : SegmentOf(s[i], p[Rank(NestedOf(s), i)])

SameActivations(t, s) ==
  /\ DOMAIN t = DOMAIN s
  /\ \A i \in DOMAIN s : t[i].op = s[i].op /\ t[i].stmt = s[i].stmt /\ t[i].data = s[i].data

(* A loop that moves on is the same activation.                            *)
LEMMA MovedMatches ==
  ASSUME NEW s, NEW t, SameActivations(t, s)
  PROVE  /\ \A cs, ls : CasesMatch(s, cs, ls) => CasesMatch(t, cs, ls)
         /\ \A p : PathMatches(s, p) => PathMatches(t, p)
<1>1. CasesOf(t) = CasesOf(s) /\ NestedOf(t) = NestedOf(s)
  BY DEF SameActivations, CasesOf, NestedOf
<1>2. CasesOf(s) \subseteq DOMAIN s /\ NestedOf(s) \subseteq DOMAIN s
  BY DEF CasesOf, NestedOf
<1> QED
  BY <1>1, <1>2 DEF SameActivations, CasesMatch, PathMatches, SegmentOf

(* The activations below the innermost one, and that one.                  *)
LEMMA InnermostOf ==
  ASSUME NEW s, IsSeq(s), NEW t, IsSeq(t), Len(t) = Len(s) + 1, \A i \in 1 .. Len(s) : t[i] = s[i],
         NEW f, t[Len(s) + 1] = f
  PROVE  /\ Len(s) \in Nat
         /\ CasesOf(s) \subseteq 1 .. Len(s) /\ NestedOf(s) \subseteq 1 .. Len(s)
         /\ CasesOf(t) = CasesOf(s) \cup (IF f.op = "case" THEN {Len(s) + 1} ELSE {})
         /\ NestedOf(t) = NestedOf(s) \cup
                            (IF f.op = "children" /\ s # <<>> THEN {Len(s) + 1} ELSE {})
<1>1. /\ Len(s) \in Nat /\ DOMAIN s = 1 .. Len(s) /\ DOMAIN t = 1 .. Len(s) + 1
      /\ s # <<>> <=> Len(s) > 0
  BY DEF IsSeq
<1>2. 1 .. Len(s) + 1 = (1 .. Len(s)) \cup {Len(s) + 1}
  BY <1>1
<1>3. CasesOf(t) = CasesOf(s) \cup (IF f.op = "case" THEN {Len(s) + 1} ELSE {})
  BY <1>1, <1>2 DEF CasesOf
<1>4. NestedOf(t) = NestedOf(s) \cup
                      (IF f.op = "children" /\ s # <<>> THEN {Len(s) + 1} ELSE {})
  BY <1>1, <1>2 DEF NestedOf
<1> QED
  BY <1>1, <1>3, <1>4 DEF CasesOf, NestedOf

(* q2 has what q has of the activations I, and x of the k-th.              *)
Extends(q2, q, I, k, x) ==
  /\ Len(q) = Cardinality(I) <=> Len(q2) = Cardinality(I \cup {k})
  /\ Len(q) = Cardinality(I) =>
       /\ \A i \in I : q2[Rank(I \cup {k}, i)] = q[Rank(I, i)]
       /\ q2[Rank(I \cup {k}, k)] = x

(* A push carries over what a sequence has.                                *)
LEMMA RankOneMore ==
  ASSUME NEW n \in Nat, NEW I \in SUBSET (1 .. n), NEW q, NEW q2, NEW x, OneMore(q2, q, x)
  PROVE  Extends(q2, q, I, n + 1, x)
<1> DEFINE J == I \cup {n + 1}
<1>1. /\ Cardinality(J) = Cardinality(I) + 1 /\ Cardinality(I) \in Nat
      /\ Rank(J, n + 1) = Cardinality(I) + 1
      /\ \A i \in I : Rank(J, i) = Rank(I, i) /\ Rank(I, i) \in 1 .. Cardinality(I)
  BY RankNext, RankBelow
<1>2. Len(q) \in Nat /\ Len(q2) = Len(q) + 1
  BY DEF OneMore, IsSeq
<1>3. Len(q) = Cardinality(I) <=> Len(q2) = Cardinality(J)
  BY <1>1, <1>2
<1>4. ASSUME Len(q) = Cardinality(I)
      PROVE  (\A i \in I : q2[Rank(J, i)] = q[Rank(I, i)]) /\ q2[Rank(J, n + 1)] = x
  BY <1>1, <1>4 DEF OneMore
<1> QED
  BY <1>3, <1>4 DEF Extends

(* The cases of one activation more.                                       *)
LEMMA CasesStep ==
  ASSUME NEW s, NEW t, NEW f, OneMore(t, s, f), NEW cs, NEW ls
  PROVE  /\ f.op # "case" => (CasesMatch(s, cs, ls) <=> CasesMatch(t, cs, ls))
         /\ f.op = "case" =>
              \A cs2, ls2 : OneMore(cs2, cs, f.stmt) /\ OneMore(ls2, ls, f.data) =>
                              (CasesMatch(s, cs, ls) <=> CasesMatch(t, cs2, ls2))
<1> DEFINE I == CasesOf(s)
           J == CasesOf(t)
<1>1. /\ Len(s) \in Nat /\ I \in SUBSET (1 .. Len(s))
      /\ J = I \cup (IF f.op = "case" THEN {Len(s) + 1} ELSE {})
  BY InnermostOf DEF OneMore
<1>2. (\A i \in I : t[i] = s[i]) /\ t[Len(s) + 1] = f
  BY <1>1 DEF OneMore
<1>3. ASSUME f.op # "case" PROVE CasesMatch(s, cs, ls) <=> CasesMatch(t, cs, ls)
  <2>1. J = I
    BY <1>1, <1>3
  <2>2. CasesOf(s) = I /\ CasesOf(t) = J
    OBVIOUS
  <2> HIDE DEF I, J
  <2> QED
    BY ONLY <1>2, <2>1, <2>2 DEF CasesMatch
<1>4. ASSUME f.op = "case", NEW cs2, NEW ls2, OneMore(cs2, cs, f.stmt), OneMore(ls2, ls, f.data)
      PROVE  CasesMatch(s, cs, ls) <=> CasesMatch(t, cs2, ls2)
  <2>1. PICK n \in Nat : n = Len(s)
    BY <1>1
  <2>2. I \in SUBSET (1 .. n) /\ CasesOf(s) = I /\ CasesOf(t) = I \cup {n + 1} /\ t[n + 1] = f
    BY <1>1, <1>2, <1>4, <2>1
  <2> HIDE DEF I
  <2>3. Extends(cs2, cs, I, n + 1, f.stmt) /\ Extends(ls2, ls, I, n + 1, f.data)
    BY ONLY <1>4, <2>2, RankOneMore
  <2> DEFINE K == I \cup {n + 1}
             L == Len(cs) = Cardinality(I) /\ Len(ls) = Cardinality(I)
             L2 == Len(cs2) = Cardinality(K) /\ Len(ls2) = Cardinality(K)
             Has(i) == cs[Rank(I, i)] = s[i].stmt /\ ls[Rank(I, i)] = s[i].data
             Has2(i) == cs2[Rank(K, i)] = t[i].stmt /\ ls2[Rank(K, i)] = t[i].data
  <2>4. L <=> L2
    BY ONLY <2>3 DEF Extends
  <2>5. L => Has2(n + 1) /\ \A i \in I : Has(i) <=> Has2(i)
    BY ONLY <1>2, <2>2, <2>3 DEF Extends
  <2>6. /\ CasesMatch(s, cs, ls) <=> L /\ \A i \in I : Has(i)
        /\ CasesMatch(t, cs2, ls2) <=> L2 /\ \A i \in K : Has2(i)
    BY ONLY <2>2 DEF CasesMatch
  <2> HIDE DEF L, L2, Has, Has2
  <2> QED
    BY ONLY <2>4, <2>5, <2>6
<1> QED
  BY <1>3, <1>4

(* The same for the path, which has no segment for the outermost one.      *)
LEMMA PathStep ==
  ASSUME NEW s, NEW t, NEW f, OneMore(t, s, f), NEW p
  PROVE  /\ f.op # "children" \/ s = <<>> => (PathMatches(s, p) <=> PathMatches(t, p))
         /\ f.op = "children" /\ s # <<>> =>
              \A p2, x : OneMore(p2, p, x) =>
                (PathMatches(s, p) /\ SegmentOf(f, x) <=> PathMatches(t, p2))
<1> DEFINE I == NestedOf(s)
           J == NestedOf(t)
<1>1. /\ Len(s) \in Nat /\ I \in SUBSET (1 .. Len(s))
      /\ J = I \cup (IF f.op = "children" /\ s # <<>> THEN {Len(s) + 1} ELSE {})
  BY InnermostOf DEF OneMore
<1>2. (\A i \in I : t[i] = s[i]) /\ t[Len(s) + 1] = f
  BY <1>1 DEF OneMore
<1>3. ASSUME f.op # "children" \/ s = <<>> PROVE PathMatches(s, p) <=> PathMatches(t, p)
  <2>1. J = I
    BY <1>1, <1>3
  <2>2. NestedOf(s) = I /\ NestedOf(t) = J
    OBVIOUS
  <2> HIDE DEF I, J
  <2> QED
    BY ONLY <1>2, <2>1, <2>2 DEF PathMatches
<1>4. ASSUME f.op = "children", s # <<>>, NEW p2, NEW x, OneMore(p2, p, x)
      PROVE  PathMatches(s, p) /\ SegmentOf(f, x) <=> PathMatches(t, p2)
  <2>1. PICK n \in Nat : n = Len(s)
    BY <1>1
  <2>2. I \in SUBSET (1 .. n) /\ NestedOf(s) = I /\ NestedOf(t) = I \cup {n + 1} /\ t[n + 1] = f
    BY <1>1, <1>2, <1>4, <2>1
  <2> HIDE DEF I
  <2>3. Extends(p2, p, I, n + 1, x)
    BY ONLY <1>4, <2>2, RankOneMore
  <2> QED
    BY ONLY <1>2, <2>2, <2>3 DEF PathMatches, Extends
<1> QED
  BY <1>3, <1>4

(* The innermost loop moves on.                                            *)
LEMMA TopMoves ==
  ASSUME Activations(control), control # <<>>,
         NEW r, r.op = Top.op, r.stmt = Top.stmt, r.data = Top.data
  PROVE  LET s == [control EXCEPT ![Len(control)] = r]
         IN  IsSeq(s) /\ s # <<>> /\ SameActivations(s, control)
<1> DEFINE s == [control EXCEPT ![Len(control)] = r]
<1>1. IsSeq(control) /\ Len(control) \in DOMAIN control
  BY TopActivation DEF Activations
<1>2. IsSeq(s) /\ Len(s) = Len(control) /\ Len(control) \in Nat \ {0}
  BY <1>1, ReplaceLastSeq
<1>3. s # <<>>
  BY <1>2
<1>4. SameActivations(s, control)
  BY <1>1 DEF SameActivations, Top
<1> QED
  BY <1>2, <1>3, <1>4

(* So does a loop over statements.                                        *)
LEMMA AdvancedMoves ==
  ASSUME Activations(control), control # <<>>
  PROVE  IsSeq(Advanced) /\ Advanced # <<>> /\ SameActivations(Advanced, control)
<1>1. Activation(Top)
  BY TopActivation
<1>2. /\ AdvancedTop.op = Top.op /\ AdvancedTop.stmt = Top.stmt /\ AdvancedTop.data = Top.data
  <2> DEFINE r == [op |-> Top.op, stmt |-> Top.stmt, data |-> Top.data,
                   enforce |-> Top.enforce, next |-> Top.next, visited |-> Top.visited]
  <2>1. Top = r
    BY <1>1 DEF Activation
  <2>2. AdvancedTop =
          [r EXCEPT !.next = Top.next + 1,
                    !.visited = IF Top.op = "children" THEN Top.visited \cup Claimed ELSE Top.visited]
    BY <2>1 DEF AdvancedTop
  <2> QED
    BY <2>2
<1> QED
  BY <1>2, TopMoves DEF Advanced

-----------------------------------------------------------------------------
(* What the walk keeps about where it is: for the activations t, the case  *)
(* stacks cs and ls, the path p and the status st.                         *)
Where(t, cs, ls, p, st) ==
  /\ CasesMatch(t, cs, ls)
  /\ st # "raised" => PathMatches(t, p)
  /\ IsSeq(p)

WalkInv == TypeOK /\ Where(control, caseStack, levelStack, path, status)
WhereNext == Where(control', caseStack', levelStack', path', status')

(* The parts of the invariant, in the words of the specification.          *)
LEMMA WhereFollows ==
  Where(control, caseStack, levelStack, path, status) <=> StateFollowsControl /\ IsSeq(path)
  BY DEF Where, StateFollowsControl, StacksFollowControl, PathFollowsControl, CasesMatch,
         PathMatches, SegmentOf

(* A visit that goes on to the next statement, or into the activation f.   *)
LEMMA ContinueWhere ==
  ASSUME WalkInv, NEW kinds, Visiting(kinds), NEW found, Continue(found)
  PROVE  WhereNext
<1>1. SameActivations(Advanced, control)
  BY AdvancedMoves, TypeParts DEF WalkInv, Visiting
<1>2. Where(Advanced, caseStack, levelStack, path, status)
  BY <1>1, MovedMatches DEF WalkInv, Where
<1> QED
  BY <1>2 DEF Continue, WhereNext

(* A nested activation that is not a case: a segment more, or none.        *)
LEMMA NestedWhere ==
  ASSUME WalkInv, control # <<>>, NEW s, IsSeq(s), s # <<>>, SameActivations(s, control),
         NEW f, f.op # "case", control' = Append(s, f),
         UNCHANGED <<status, caseStack, levelStack>>,
         IF f.op = "children" THEN \E x : SegmentOf(f, x) /\ path' = Append(path, x)
                              ELSE path' = path
  PROVE  WhereNext
<1>1. CasesMatch(s, caseStack, levelStack) /\ (status # "raised" => PathMatches(s, path)) /\ IsSeq(path)
  BY MovedMatches DEF WalkInv, Where
<1>2. OneMore(control', s, f)
  BY PushIsOneMore
<1>3. CasesMatch(control', caseStack, levelStack)
  BY <1>1, <1>2, CasesStep
<1>4. CASE f.op = "children"
  <2>1. PICK x : SegmentOf(f, x) /\ path' = Append(path, x)
    BY <1>4
  <2>2. OneMore(path', path, x)
    BY <1>1, <2>1, PushIsOneMore
  <2>3. status # "raised" => PathMatches(control', path')
    BY <1>1, <1>2, <1>4, <2>1, <2>2, PathStep
  <2>4. IsSeq(path')
    BY <2>2 DEF OneMore
  <2> QED
    BY <1>3, <2>3, <2>4 DEF WhereNext, Where
<1>5. CASE f.op # "children"
  <2>1. status # "raised" => PathMatches(control', path)
    BY <1>1, <1>2, <1>5, PathStep
  <2> QED
    BY <1>1, <1>3, <1>5, <2>1 DEF WhereNext, Where
<1> QED
  BY <1>4, <1>5

(* A loop over statements or entries that returns: its segment is popped.  *)
LEMMA PopWhere ==
  ASSUME WalkInv, control # <<>>, control' = Front(control), Top.op # "case",
         UNCHANGED <<status, caseStack, levelStack>>,
         path' = IF Top.op = "children" /\ Len(control) # 1 THEN Front(path) ELSE path
  PROVE  WhereNext
<1>1. /\ IsSeq(control) /\ IsSeq(path) /\ CasesMatch(control, caseStack, levelStack)
      /\ status # "raised" => PathMatches(control, path)
  BY TypeParts DEF WalkInv, Activations, Where
<1>2. OneMore(control, control', Top)
  BY <1>1, PopIsOneMore DEF Top
<1>3. CasesMatch(control', caseStack, levelStack)
  BY <1>1, <1>2, CasesStep
<1>4. Len(control') = Len(control) - 1 /\ Len(control) \in Nat \ {0} /\ IsSeq(control')
  BY <1>1, FrontSeq
<1>5. control' = <<>> <=> Len(control) = 1
  BY ONLY <1>4, EmptySeq
<1>6. IsSeq(path')
  BY <1>1, FrontIn, SeqOfElements DEF IsSeq
<1>7. CASE Top.op = "children" /\ Len(control) # 1
  <2>1. ASSUME status # "raised" PROVE path # <<>>
    <3>1. Len(control) \in NestedOf(control)
      BY <1>1, <1>4, <1>7 DEF NestedOf, Top, IsSeq
    <3>2. NestedOf(control) \in SUBSET (1 .. Len(control)) /\ Len(control) \in Nat
      BY <1>1, <1>4 DEF NestedOf, IsSeq
    <3>3. Cardinality(NestedOf(control)) # 0
      BY <3>1, <3>2, RankBelow, FS_EmptySet
    <3> QED
      BY <1>1, <2>1, <3>3 DEF PathMatches
  <2>2. ASSUME status # "raised" PROVE OneMore(path, path', path[Len(path)])
    BY <1>1, <1>7, <2>1, <2>2, PopIsOneMore
  <2>3. status # "raised" => PathMatches(control', path')
    BY <1>1, <1>2, <1>5, <1>7, <2>2, PathStep
  <2> QED
    BY <1>3, <1>6, <2>3 DEF WhereNext, Where
<1>8. CASE ~(Top.op = "children" /\ Len(control) # 1)
  <2>1. status # "raised" => PathMatches(control', path)
    BY <1>1, <1>2, <1>5, <1>8, PathStep
  <2> QED
    BY <1>1, <1>3, <1>8, <2>1 DEF WhereNext, Where
<1> QED
  BY <1>7, <1>8

(* No activation: nothing on the stacks.  One: nothing either, unless it   *)
(* is a case.                                                              *)
LEMMA NothingWhere ==
  /\ CasesMatch(<<>>, <<>>, <<>>) /\ PathMatches(<<>>, <<>>) /\ IsSeq(<<>>)
  /\ \A f : f.op # "case" => CasesMatch(<<f>>, <<>>, <<>>) /\ PathMatches(<<f>>, <<>>)
<1>1. CasesOf(<<>>) = {} /\ NestedOf(<<>>) = {} /\ Cardinality({}) = 0 /\ Len(<<>>) = 0
  BY FS_EmptySet DEF CasesOf, NestedOf
<1>2. ASSUME NEW f, f.op # "case" PROVE CasesOf(<<f>>) = {} /\ NestedOf(<<f>>) = {}
  <2>1. DOMAIN <<f>> = {1} /\ <<f>>[1] = f
    OBVIOUS
  <2> QED
    BY <1>2, <2>1 DEF CasesOf, NestedOf
<1> QED
  BY <1>1, <1>2, EmptyTyped DEF CasesMatch, PathMatches

(* Every branch of _visit_stmt on a data node.                             *)
LEMMA VisitDataNodeWhere == ASSUME WalkInv, VisitDataNode PROVE WhereNext
<1>1. CASE SkipInactive
  BY <1>1, ContinueWhere DEF SkipInactive
<1>2. CASE SkipWhenFalse
  BY <1>2, ContinueWhere DEF SkipWhenFalse
<1>3. CASE SkipAbsent
  BY <1>3, ContinueWhere DEF SkipAbsent, Applicable
<1>4. CASE VisitValue
  BY <1>4, ContinueWhere DEF VisitValue, Applicable
<1>5. CASE RejectDuplicateKey
  BY <1>5, ContinueWhere DEF RejectDuplicateKey, Applicable
<1>6. CASE EnterContainer
  <2> DEFINE v == EffectiveValue(Current, Top.data)
             f == Frame("children", Current, v, ChildEnforce(Current, ChildEnforce(Current, Top.enforce)))
  <2>1. /\ control # <<>> /\ Stmt[Current].kind = "container"
        /\ control' = Append(Advanced, f) /\ path' = Append(path, Segment(Current))
        /\ UNCHANGED <<status, caseStack, levelStack>>
    BY <1>6 DEF EnterContainer, Applicable, Visiting, Call, At
  <2>2. f.op = "children" /\ f.stmt = Current
    BY DEF Frame
  <2>3. SegmentOf(f, Segment(Current))
    BY <2>1, <2>2 DEF SegmentOf, Segment
  <2>4. IsSeq(Advanced) /\ Advanced # <<>> /\ SameActivations(Advanced, control)
    BY <2>1, AdvancedMoves, TypeParts DEF WalkInv
  <2> HIDE DEF f
  <2> QED
    BY <2>1, <2>2, <2>3, <2>4, NestedWhere
<1>7. CASE EnterList
  <2> DEFINE f == Frame("entries", Current, EffectiveValue(Current, Top.data), Top.enforce)
  <2>1. /\ control # <<>> /\ control' = Append(Advanced, f)
        /\ UNCHANGED <<status, caseStack, levelStack, path>>
    BY <1>7 DEF EnterList, Applicable, Visiting, Call
  <2>2. f.op = "entries"
    BY DEF Frame
  <2>3. IsSeq(Advanced) /\ Advanced # <<>> /\ SameActivations(Advanced, control)
    BY <2>1, AdvancedMoves, TypeParts DEF WalkInv
  <2> HIDE DEF f
  <2> QED
    BY <2>1, <2>2, <2>3, NestedWhere
<1>8. CASE RaiseTypeError
  BY <1>8, NothingWhere DEF RaiseTypeError, WhereNext, Where, WalkInv
<1> QED
  BY <1>1, <1>2, <1>3, <1>4, <1>5, <1>6, <1>7, <1>8 DEF VisitDataNode

(* Every branch of _visit_choice; the case that is entered is put on both  *)
(* stacks.                                                                 *)
LEMMA VisitChoiceWhere == ASSUME WalkInv, VisitChoice PROVE WhereNext
<1>1. CASE SkipInactiveChoice
  BY <1>1, ContinueWhere DEF SkipInactiveChoice
<1>2. CASE SkipChoiceWhenFalse
  BY <1>2, ContinueWhere DEF SkipChoiceWhenFalse
<1>3. CASE RejectCase
  BY <1>3, ContinueWhere DEF RejectCase, ApplicableChoice
<1>4. CASE RejectSeveralCases
  BY <1>4, ContinueWhere DEF RejectSeveralCases, ChoiceSettled, ApplicableChoice
<1>5. CASE SkipEmptyChoice
  BY <1>5, ContinueWhere DEF SkipEmptyChoice, ChoiceSettled, ApplicableChoice
<1>6. CASE EnterCase
  <2>1. PICK a : /\ control' = Append(Advanced, Frame("case", a, Top.data, ChildEnforce(a, Top.enforce)))
                 /\ caseStack' = Append(caseStack, a)
                 /\ levelStack' = Append(levelStack, Top.data)
    BY <1>6 DEF EnterCase
  <2>2. control # <<>> /\ UNCHANGED <<status, path>>
    BY <1>6 DEF EnterCase, ChoiceSettled, ApplicableChoice, Visiting
  <2>3. IsSeq(Advanced) /\ SameActivations(Advanced, control)
    BY <2>2, AdvancedMoves, TypeParts DEF WalkInv
  <2>4. /\ CasesMatch(Advanced, caseStack, levelStack) /\ IsSeq(path)
        /\ status # "raised" => PathMatches(Advanced, path)
    BY <2>3, MovedMatches DEF WalkInv, Where
  <2> DEFINE f == Frame("case", a, Top.data, ChildEnforce(a, Top.enforce))
  <2>5. f.op = "case" /\ f.stmt = a /\ f.data = Top.data
    BY DEF Frame
  <2> HIDE DEF f
  <2>6. OneMore(control', Advanced, f)
    BY <2>1, <2>3, PushIsOneMore DEF f
  <2>7. IsSeq(caseStack) /\ IsSeq(levelStack)
    BY TypeParts, SeqOfElements DEF WalkInv
  <2>8. OneMore(caseStack', caseStack, f.stmt) /\ OneMore(levelStack', levelStack, f.data)
    BY <2>1, <2>5, <2>7, PushIsOneMore
  <2>9. CasesMatch(control', caseStack', levelStack')
    BY ONLY <2>4, <2>5, <2>6, <2>8, CasesStep
  <2>10. status # "raised" => PathMatches(control', path)
    BY <2>4, <2>5, <2>6, PathStep
  <2> QED
    BY <2>2, <2>4, <2>9, <2>10 DEF WhereNext, Where
<1> QED
  BY <1>1, <1>2, <1>3, <1>4, <1>5, <1>6 DEF VisitChoice

(* An iteration over the entries of a list: the segment of an entry has    *)
(* its key.                                                                *)
LEMMA VisitEntryWhere == ASSUME WalkInv, VisitEntry PROVE WhereNext
<1> DEFINE n == Top.stmt
           r == [Top EXCEPT !.next = @ + 1]
           more == [control EXCEPT ![Len(control)].next = @ + 1]
           f == Frame("children", n, Entry, ChildEnforce(n, ChildEnforce(n, Top.enforce)))
           x == <<Stmt[n].name, EntryKey(n, Entry)>>
<1>1. /\ control # <<>> /\ UNCHANGED <<status, caseStack, levelStack>>
      /\ IF IsDict(Entry) THEN control' = Append(more, f) /\ path' = Append(path, x)
                          ELSE control' = more /\ path' = path
  BY DEF VisitEntry, InEntries, EntryPath
<1>2. Activation(Top) /\ Len(control) \in DOMAIN control
  BY <1>1, TopActivation, TypeParts DEF WalkInv
<1>3. r.op = Top.op /\ r.stmt = Top.stmt /\ r.data = Top.data
  <2> DEFINE t == [op |-> Top.op, stmt |-> Top.stmt, data |-> Top.data,
                   enforce |-> Top.enforce, next |-> Top.next, visited |-> Top.visited]
  <2>1. Top = t
    BY <1>2 DEF Activation
  <2>2. r = [t EXCEPT !.next = Top.next + 1]
    BY <2>1
  <2> QED
    BY <2>2
<1>4. more = [control EXCEPT ![Len(control)] = r]
  BY <1>2 DEF Top
<1>5. IsSeq(more) /\ more # <<>> /\ SameActivations(more, control)
  BY <1>1, <1>3, <1>4, TopMoves, TypeParts DEF WalkInv
<1> HIDE DEF more
<1>6. CASE IsDict(Entry)
  <2>1. f.op = "children" /\ f.stmt = n /\ f.data = Entry
    BY DEF Frame
  <2>2. SegmentOf(f, x)
    BY <1>6, <2>1 DEF SegmentOf, EntryKey
  <2> HIDE DEF f, x
  <2> QED
    BY <1>1, <1>5, <1>6, <2>1, <2>2, NestedWhere
<1>7. CASE ~IsDict(Entry)
  BY <1>1, <1>5, <1>7, MovedMatches DEF WalkInv, WhereNext, Where
<1> QED
  BY <1>6, <1>7

(* The finally clauses of _visit_choice take the innermost case from both  *)
(* stacks.                                                                 *)
LEMMA FinishCaseWhere == ASSUME WalkInv, FinishCase PROVE WhereNext
<1>1. /\ control # <<>> /\ Top.op = "case" /\ control' = Front(control)
      /\ caseStack' = Front(caseStack) /\ levelStack' = Front(levelStack)
      /\ UNCHANGED <<status, path>>
  BY DEF FinishCase, LoopDone
<1>2. /\ IsSeq(control) /\ IsSeq(caseStack) /\ IsSeq(levelStack) /\ IsSeq(path)
      /\ CasesMatch(control, caseStack, levelStack)
      /\ status # "raised" => PathMatches(control, path)
  BY TypeParts, SeqOfElements DEF WalkInv, Activations, Where
<1>3. OneMore(control, control', Top)
  BY <1>1, <1>2, PopIsOneMore DEF Top
<1> DEFINE I == CasesOf(control)
           n == Len(control)
<1>4. n \in Nat \ {0} /\ n \in I /\ I \in SUBSET (1 .. n) /\ Top = control[n]
  BY <1>1, <1>2 DEF CasesOf, Top, IsSeq
<1>5. Cardinality(I) # 0 /\ Cardinality(I) \in Nat /\ Rank(I, n) = Cardinality(I)
  <2>1. {j \in I : j <= n} = I
    BY <1>4
  <2> QED
    BY <1>4, <2>1, RankBelow, FS_EmptySet DEF Rank
<1>6. /\ Len(caseStack) = Cardinality(I) /\ Len(levelStack) = Cardinality(I)
      /\ caseStack[Len(caseStack)] = Top.stmt /\ levelStack[Len(levelStack)] = Top.data
  BY <1>2, <1>4, <1>5 DEF CasesMatch
<1>7. caseStack # <<>> /\ levelStack # <<>>
  BY <1>5, <1>6
<1>8. OneMore(caseStack, caseStack', Top.stmt) /\ OneMore(levelStack, levelStack', Top.data)
  BY <1>1, <1>2, <1>6, <1>7, PopIsOneMore
<1>9. CasesMatch(control', caseStack', levelStack')
  BY ONLY <1>1, <1>2, <1>3, <1>8, CasesStep
<1>10. status # "raised" => PathMatches(control', path)
  BY <1>1, <1>2, <1>3, PathStep
<1> QED
  BY <1>1, <1>2, <1>9, <1>10 DEF WhereNext, Where

(* Every step leaves the validator with what says where it is.             *)
LEMMA WhereStep == ASSUME WalkInv, [Next]_vars PROVE WhereNext
<1>1. CASE FinishEntries
  BY <1>1, PopWhere DEF FinishEntries, InEntries
<1>2. CASE FinishChildren
  BY <1>2, PopWhere DEF FinishChildren, LoopDone
<1>3. CASE Return
  BY <1>3 DEF Return, walk, WalkInv, WhereNext, Where
<1>4. CASE ValidateFirst \/ ValidateAgain
  <2>1. PICK d : Validate(d)
    BY <1>4 DEF ValidateFirst, ValidateAgain
  <2> DEFINE f == Frame("children", root, d, ChildEnforce(root, TRUE))
  <2>2. control' = <<f>> /\ caseStack' = <<>> /\ levelStack' = <<>> /\ path' = <<>>
    BY <2>1 DEF Validate
  <2>3. f.op # "case"
    BY DEF Frame
  <2> HIDE DEF f
  <2> QED
    BY <2>2, <2>3, NothingWhere DEF WhereNext, Where
<1>5. CASE UNCHANGED vars
  BY <1>5 DEF vars, walk, WalkInv, WhereNext, Where
<1> QED
  BY <1>1, <1>2, <1>3, <1>4, <1>5, VisitDataNodeWhere, VisitChoiceWhere, VisitEntryWhere,
     FinishCaseWhere DEF Next, Step

(* On every schema and document, after every call and every exception, the *)
(* case stacks have exactly the cases the walk is in, with their dicts,     *)
(* and the path the containers and keyed entries around it.                *)
THEOREM StateIsWhereTheWalkIs == Spec => []StateFollowsControl
<1>1. Init => Where(control, caseStack, levelStack, path, status)
  BY NothingWhere DEF Init, Where
<1>2. TypeOK /\ Where(control, caseStack, levelStack, path, status) /\ [Next]_vars
        => Where(control, caseStack, levelStack, path, status)'
  BY WhereStep DEF WalkInv, WhereNext
<1>3. Where(control, caseStack, levelStack, path, status) => StateFollowsControl
  BY WhereFollows
<1> QED
  BY <1>1, <1>2, <1>3, TypeCorrect, PTL DEF Spec
-----------------------------------------------------------------------------
(* The tree of the schema.                                                 *)

Kind(n) == Stmt[n].kind

(* Statements of statements are nodes.                                     *)
LEMMA StmtsAreNodes == \A n \in Node : StmtsOf(n) \subseteq Node
<1> SUFFICES ASSUME NEW n \in Node, NEW s \in StmtsOf(n) PROVE s \in Node
  OBVIOUS
<1>1. Stmt[n].stmts \in Seq(Node)
  BY SchemaAssumption DEF StmtRecord
<1> QED
  BY <1>1 DEF StmtsOf

(* The scope of a statement is what its definition says.                   *)
LEMMA ScopeDefined ==
  ASSUME SchemaIsTree
  PROVE  \A n \in Node :
           /\ Scope(n) = UNION {IF Kind(s) \in Virtual THEN Scope(s) ELSE {s} : s \in StmtsOf(n)}
           /\ Scope(n) \subseteq Node
<1> DEFINE Body(n, f) == UNION {IF Stmt[s].kind \in Virtual THEN f[s] ELSE {s} : s \in StmtsOf(n)}
           step == [n \in Node |-> [f \in [Node -> SUBSET Node] |-> Body(n, f)]]
<1>1. PICK depth \in [Node -> Nat] : \A n \in Node : \A s \in StmtsOf(n) : depth[s] < depth[n]
  BY DEF SchemaIsTree, Descending
<1>2. ASSUME NEW n \in Node, NEW f \in [Node -> SUBSET Node] PROVE Body(n, f) \in SUBSET Node
  BY StmtsAreNodes
<1>3. step \in [Node -> [[Node -> SUBSET Node] -> SUBSET Node]]
  BY <1>2
<1>4. ASSUME NEW n \in Node, NEW f \in [Node -> SUBSET Node], NEW g \in [Node -> SUBSET Node],
             \A m \in Node : depth[m] < depth[n] => f[m] = g[m]
      PROVE  step[n][f] = step[n][g]
  <2>1. \A s \in StmtsOf(n) : f[s] = g[s]
    BY <1>1, <1>4, StmtsAreNodes
  <2>2. Body(n, f) = Body(n, g)
    BY <2>1
  <2> QED
    BY <2>2
<1>5. \E f \in [Node -> SUBSET Node] : \A n \in Node : f[n] = step[n][f]
  <2>1. Recursion(Node, depth, SUBSET Node, step)
    BY <1>3, <1>4 DEF Recursion
  <2> HIDE DEF step
  <2> QED
    BY <2>1, RecursionByDepth
<1>6. PICK f \in [Node -> SUBSET Node] : f = [n \in Node |-> Body(n, f)]
  BY <1>5
<1>7. ScopeOf = [n \in Node |-> Body(n, ScopeOf)]
  BY <1>6 DEF ScopeOf
<1> DEFINE G == {n \in Node : Scope(n) \subseteq Node}
<1>8. ASSUME NEW n \in Node, \A m \in Node : depth[m] < depth[n] => m \in G PROVE n \in G
  <2>1. Scope(n) = Body(n, ScopeOf)
    BY <1>7 DEF Scope
  <2>2. \A s \in StmtsOf(n) : s \in Node /\ ScopeOf[s] \subseteq Node
    BY <1>1, <1>8, StmtsAreNodes DEF Scope
  <2> QED
    BY <2>1, <2>2
<1>9. \A n \in Node : n \in G
  <2> HIDE DEF G
  <2> QED
    BY <1>8, ByDepth
<1> QED
  BY <1>7, <1>9 DEF Scope, Kind

(* So are the choices and cases it holds.                                  *)
LEMMA InnerDefined ==
  ASSUME SchemaIsTree
  PROVE  \A n \in Node :
           /\ Inner(n) = UNION {IF Kind(s) \in Virtual THEN {s} \cup Inner(s) ELSE {} : s \in StmtsOf(n)}
           /\ \A c \in Inner(n) : c \in Node /\ Kind(c) \in Virtual
<1> DEFINE Body(n, f) ==
             UNION {IF Stmt[s].kind \in Virtual THEN {s} \cup f[s] ELSE {} : s \in StmtsOf(n)}
           step == [n \in Node |-> [f \in [Node -> SUBSET Node] |-> Body(n, f)]]
<1>1. PICK depth \in [Node -> Nat] : \A n \in Node : \A s \in StmtsOf(n) : depth[s] < depth[n]
  BY DEF SchemaIsTree, Descending
<1>2. ASSUME NEW n \in Node, NEW f \in [Node -> SUBSET Node] PROVE Body(n, f) \in SUBSET Node
  BY StmtsAreNodes
<1>3. step \in [Node -> [[Node -> SUBSET Node] -> SUBSET Node]]
  BY <1>2
<1>4. ASSUME NEW n \in Node, NEW f \in [Node -> SUBSET Node], NEW g \in [Node -> SUBSET Node],
             \A m \in Node : depth[m] < depth[n] => f[m] = g[m]
      PROVE  step[n][f] = step[n][g]
  <2>1. \A s \in StmtsOf(n) : f[s] = g[s]
    BY <1>1, <1>4, StmtsAreNodes
  <2>2. Body(n, f) = Body(n, g)
    BY <2>1
  <2> QED
    BY <2>2
<1>5. \E f \in [Node -> SUBSET Node] : \A n \in Node : f[n] = step[n][f]
  <2>1. Recursion(Node, depth, SUBSET Node, step)
    BY <1>3, <1>4 DEF Recursion
  <2> HIDE DEF step
  <2> QED
    BY <2>1, RecursionByDepth
<1>6. PICK f \in [Node -> SUBSET Node] : f = [n \in Node |-> Body(n, f)]
  BY <1>5
<1>7. InnerOf = [n \in Node |-> Body(n, InnerOf)]
  BY <1>6 DEF InnerOf
<1> DEFINE G == {n \in Node : \A c \in Inner(n) : c \in Node /\ Kind(c) \in Virtual}
<1>8. ASSUME NEW n \in Node, \A m \in Node : depth[m] < depth[n] => m \in G PROVE n \in G
  <2>1. Inner(n) = Body(n, InnerOf)
    BY <1>7 DEF Inner
  <2>2. \A s \in StmtsOf(n) : s \in Node /\ \A c \in InnerOf[s] : c \in Node /\ Kind(c) \in Virtual
    BY <1>1, <1>8, StmtsAreNodes DEF Inner
  <2> QED
    BY <2>1, <2>2 DEF Kind
<1>9. \A n \in Node : n \in G
  <2> HIDE DEF G
  <2> QED
    BY <1>8, ByDepth
<1> QED
  BY <1>7, <1>9 DEF Inner, Kind

(* Everything below a statement down to the next level of data.            *)
Below(c) == Scope(c) \cup Inner(c)

(* It is below the statement itself or below a choice or case in it.       *)
LEMMA BelowStep ==
  ASSUME SchemaIsTree, NEW c \in Node, NEW n
  PROVE  /\ n \in Below(c) <=>
              n \in StmtsOf(c) \/ \E s \in StmtsOf(c) : Kind(s) \in Virtual /\ n \in Below(s)
         /\ n \in Inner(c) <=>
              \E s \in StmtsOf(c) : Kind(s) \in Virtual /\ (n = s \/ n \in Inner(s))
         /\ n \in Scope(c) <=>
              \E s \in StmtsOf(c) : IF Kind(s) \in Virtual THEN n \in Scope(s) ELSE n = s
         /\ Below(c) \subseteq Node
<1>1. /\ Scope(c) = UNION {IF Kind(s) \in Virtual THEN Scope(s) ELSE {s} : s \in StmtsOf(c)}
      /\ Scope(c) \subseteq Node
  BY ScopeDefined
<1>2. /\ Inner(c) = UNION {IF Kind(s) \in Virtual THEN {s} \cup Inner(s) ELSE {} : s \in StmtsOf(c)}
      /\ Inner(c) \subseteq Node
  BY InnerDefined
<1>3. n \in Scope(c) <=> \E s \in StmtsOf(c) : IF Kind(s) \in Virtual THEN n \in Scope(s) ELSE n = s
  BY <1>1
<1>4. n \in Inner(c) <=> \E s \in StmtsOf(c) : Kind(s) \in Virtual /\ (n = s \/ n \in Inner(s))
  BY <1>2
<1>5. n \in Below(c) <=>
        n \in StmtsOf(c) \/ \E s \in StmtsOf(c) : Kind(s) \in Virtual /\ n \in Below(s)
  BY <1>3, <1>4 DEF Below
<1> QED
  BY <1>1, <1>2, <1>3, <1>4, <1>5 DEF Below

(* Its depth is smaller, and it stands in the statement or in one of the   *)
(* choices and cases around it.                                            *)
LEMMA BelowParent ==
  ASSUME SchemaIsTree, NEW depth, Descending(depth)
  PROVE  \A c \in Node : \A n \in Below(c) :
           depth[n] < depth[c] /\ \E p \in {c} \cup Inner(c) : n \in StmtsOf(p)
<1> DEFINE G == {c \in Node : \A n \in Below(c) :
                   depth[n] < depth[c] /\ \E p \in {c} \cup Inner(c) : n \in StmtsOf(p)}
<1>1. depth \in [Node -> Nat] /\ \A n \in Node : \A s \in StmtsOf(n) : depth[s] < depth[n]
  BY DEF Descending
<1>2. ASSUME NEW c \in Node, \A m \in Node : depth[m] < depth[c] => m \in G PROVE c \in G
  <2> SUFFICES ASSUME NEW n \in Below(c)
               PROVE  depth[n] < depth[c] /\ \E p \in {c} \cup Inner(c) : n \in StmtsOf(p)
    OBVIOUS
  <2>1. CASE n \in StmtsOf(c)
    BY <1>1, <2>1
  <2>2. ASSUME NEW s \in StmtsOf(c), Kind(s) \in Virtual, n \in Below(s)
        PROVE  depth[n] < depth[c] /\ \E p \in {c} \cup Inner(c) : n \in StmtsOf(p)
    <3>1. s \in Node /\ depth[s] < depth[c] /\ n \in Node
      BY <1>1, <2>2, StmtsAreNodes, BelowStep
    <3>2. depth[n] < depth[s] /\ \E p \in {s} \cup Inner(s) : n \in StmtsOf(p)
      BY <1>2, <2>2, <3>1
    <3>3. {s} \cup Inner(s) \subseteq Inner(c)
      BY <2>2, BelowStep
    <3>4. depth[n] \in Nat /\ depth[s] \in Nat /\ depth[c] \in Nat
      BY <1>1, <3>1
    <3> QED
      BY <3>1, <3>2, <3>3, <3>4
  <2> QED
    BY <2>1, <2>2, BelowStep
<1>3. \A c \in Node : c \in G
  <2> HIDE DEF G
  <2> QED
    BY <1>1, <1>2, ByDepth
<1> QED
  BY <1>3

(* What is below a choice or case of a statement is below the statement.   *)
LEMMA BelowInner ==
  ASSUME SchemaIsTree
  PROVE  \A c \in Node : \A x \in Inner(c) : Below(x) \subseteq Below(c)
<1>1. PICK depth \in [Node -> Nat] : \A n \in Node : \A s \in StmtsOf(n) : depth[s] < depth[n]
  BY DEF SchemaIsTree, Descending
<1> DEFINE G == {c \in Node : \A x \in Inner(c) : Below(x) \subseteq Below(c)}
<1>2. ASSUME NEW c \in Node, \A m \in Node : depth[m] < depth[c] => m \in G PROVE c \in G
  <2> SUFFICES ASSUME NEW x \in Inner(c), NEW n \in Below(x) PROVE n \in Below(c)
    OBVIOUS
  <2>1. PICK s \in StmtsOf(c) : Kind(s) \in Virtual /\ (x = s \/ x \in Inner(s))
    BY BelowStep
  <2>2. s \in Node /\ s \in G
    BY <1>1, <1>2, StmtsAreNodes
  <2>3. n \in Below(s)
    BY <2>1, <2>2
  <2> QED
    BY <2>1, <2>3, BelowStep
<1>3. \A c \in Node : c \in G
  <2> HIDE DEF G
  <2> QED
    BY <1>1, <1>2, ByDepth
<1> QED
  BY <1>3

(* Of two statements above a third one is above the other.                 *)
LEMMA BelowBoth ==
  ASSUME SchemaIsTree
  PROVE  \A c \in Node : \A e \in Node : \A n \in Below(c) \cap Below(e) :
           c = e \/ c \in Below(e) \/ e \in Below(c)
<1>1. PICK depth : Descending(depth)
  BY DEF SchemaIsTree
<1>2. depth \in [Node -> Nat] /\ \A n \in Node : \A s \in StmtsOf(n) : depth[s] < depth[n]
  BY <1>1 DEF Descending
<1>3. ASSUME NEW a \in Node, NEW b \in Node, NEW n, n \in StmtsOf(a), n \in StmtsOf(b) PROVE a = b
  <2>1. StmtsOf(a) \cap StmtsOf(b) # {}
    BY <1>3
  <2> QED
    BY <2>1 DEF SchemaIsTree, StatementsOwned
<1> DEFINE G == {c \in Node : \A e \in Node : \A n \in Below(c) \cap Below(e) :
                   c = e \/ c \in Below(e) \/ e \in Below(c)}
<1>4. ASSUME NEW c \in Node, NEW e \in Node, NEW n \in StmtsOf(c), n \in Below(e)
      PROVE  c \in {e} \cup Inner(e)
  <2>1. PICK p \in {e} \cup Inner(e) : n \in StmtsOf(p)
    BY <1>1, <1>4, BelowParent
  <2>2. p \in Node
    BY InnerDefined
  <2> QED
    BY <1>3, <2>1, <2>2
<1>5. ASSUME NEW c \in Node, \A m \in Node : depth[m] < depth[c] => m \in G PROVE c \in G
  <2> SUFFICES ASSUME NEW e \in Node, NEW n \in Below(c), n \in Below(e)
               PROVE  c = e \/ c \in Below(e) \/ e \in Below(c)
    OBVIOUS
  <2>1. CASE n \in StmtsOf(c)
    BY <1>4, <2>1 DEF Below
  <2>2. ASSUME NEW s \in StmtsOf(c), Kind(s) \in Virtual, n \in Below(s)
        PROVE  c = e \/ c \in Below(e) \/ e \in Below(c)
    <3>1. s \in Node /\ s \in G
      BY <1>2, <1>5, StmtsAreNodes
    <3>2. s = e \/ s \in Below(e) \/ e \in Below(s)
      BY <2>2, <3>1
    <3>3. CASE s = e \/ e \in Below(s)
      BY <2>2, <3>3, BelowStep
    <3>4. CASE s \in Below(e)
      BY <1>4, <3>4 DEF Below
    <3> QED
      BY <3>2, <3>3, <3>4
  <2> QED
    BY <2>1, <2>2, BelowStep
<1>6. \A c \in Node : c \in G
  <2> HIDE DEF G
  <2> QED
    BY <1>2, <1>5, ByDepth
<1> QED
  BY <1>6

(* No statement of a dict, choice or case is below another of it.          *)
LEMMA SiblingsApart ==
  ASSUME SchemaIsTree, NEW s \in Node, NEW c \in StmtsOf(s), NEW e \in StmtsOf(s)
  PROVE  c \notin Below(e)
<1> SUFFICES ASSUME c \in Below(e) PROVE FALSE
  OBVIOUS
<1>1. PICK depth : Descending(depth)
  BY DEF SchemaIsTree
<1>2. e \in Node /\ depth \in [Node -> Nat] /\ depth[e] < depth[s]
  BY <1>1, StmtsAreNodes DEF Descending
<1>3. PICK p \in {e} \cup Inner(e) : c \in StmtsOf(p)
  BY <1>1, <1>2, BelowParent
<1>4. p \in Node /\ StmtsOf(p) \cap StmtsOf(s) # {}
  BY <1>2, <1>3, InnerDefined
<1>5. p = s
  BY <1>4 DEF SchemaIsTree, StatementsOwned
<1>6. depth[p] < depth[e] \/ p = e
  BY <1>1, <1>2, BelowParent DEF Below
<1>7. depth[e] \in Nat /\ depth[s] \in Nat
  BY <1>2
<1> QED
  BY <1>2, <1>5, <1>6, <1>7

(* The choices and cases around a part of a choice or case: that one, and  *)
(* those in it.  There are none around a statement of its own.             *)
LEMMA AroundStep ==
  ASSUME SchemaIsTree, NEW s \in Node, NEW c \in StmtsOf(s)
  PROVE  /\ Around(c, s) = {}
         /\ Kind(c) \in Virtual =>
              \A n \in Below(c) : Around(n, s) = {c} \cup Around(n, c)
<1>1. c \in Node
  BY StmtsAreNodes
<1>2. Around(c, s) = {}
  <2> SUFFICES ASSUME NEW x \in Inner(s), c \in Below(x) PROVE FALSE
    BY DEF Around, Below
  <2>1. PICK e \in StmtsOf(s) : Kind(e) \in Virtual /\ (x = e \/ x \in Inner(e))
    BY BelowStep
  <2>2. c \in Below(e)
    BY <2>1, BelowInner, StmtsAreNodes
  <2> QED
    BY <2>2, SiblingsApart
<1>3. ASSUME Kind(c) \in Virtual, NEW n \in Below(c) PROVE Around(n, s) = {c} \cup Around(n, c)
  <2>1. {c} \cup Inner(c) \subseteq Inner(s)
    BY <1>3, BelowStep
  <2>2. {c} \cup Around(n, c) \subseteq Around(n, s)
    BY <1>3, <2>1 DEF Around, Below
  <2>3. ASSUME NEW x \in Inner(s), n \in Below(x) PROVE x = c \/ x \in Inner(c)
    <3>1. PICK e \in StmtsOf(s) : Kind(e) \in Virtual /\ (x = e \/ x \in Inner(e))
      BY BelowStep
    <3>2. e \in Node /\ n \in Below(e)
      BY <2>3, <3>1, BelowInner, StmtsAreNodes
    <3>3. e = c
      BY <1>1, <1>3, <3>2, BelowBoth, SiblingsApart
    <3> QED
      BY <3>1, <3>3
  <2>4. Around(n, s) \subseteq {c} \cup Around(n, c)
    BY <2>3 DEF Around, Below
  <2> QED
    BY <2>2, <2>4
<1> QED
  BY <1>2, <1>3
-----------------------------------------------------------------------------
(* What a choice claims.                                                   *)

(* A choice has data if one of its cases has, a node if it is a member.    *)
LEMMA MatchingDefined ==
  ASSUME SchemaIsTree, NEW d
  PROVE  \A m \in Node :
           StatementHasMatchingData(m, d) <=>
             IF Kind(m) = "choice" THEN \E c \in StmtsOf(m) : CaseHasAnyStmtData(c, d)
             ELSE Kind(m) \in DataKinds /\ Present(m, d)
<1> DEFINE Body(m, f) ==
             IF Kind(m) = "choice" THEN \E c \in StmtsOf(m) : \E s \in StmtsOf(c) : f[s]
             ELSE Kind(m) \in DataKinds /\ Present(m, d)
           step == [m \in Node |-> [f \in [Node -> BOOLEAN] |-> Body(m, f)]]
<1>1. PICK depth : Descending(depth)
  BY DEF SchemaIsTree
<1>2. depth \in [Node -> Nat] /\ \A n \in Node : \A s \in StmtsOf(n) : depth[s] < depth[n]
  BY <1>1 DEF Descending
<1>3. ASSUME NEW m \in Node, NEW c \in StmtsOf(m), NEW s \in StmtsOf(c)
      PROVE  s \in Node /\ depth[s] < depth[m]
  <2>1. c \in Node /\ depth[c] < depth[m]
    BY <1>2, StmtsAreNodes
  <2>2. s \in Node /\ depth[s] < depth[c]
    BY <1>2, <2>1, StmtsAreNodes
  <2>3. depth[s] \in Nat /\ depth[c] \in Nat /\ depth[m] \in Nat
    BY <1>2, <2>1, <2>2
  <2> QED
    BY <2>1, <2>2, <2>3
<1>4. ASSUME NEW m \in Node, NEW f \in [Node -> BOOLEAN], NEW g \in [Node -> BOOLEAN],
             \A n \in Node : depth[n] < depth[m] => f[n] = g[n]
      PROVE  Body(m, f) = Body(m, g)
  <2>1. \A c \in StmtsOf(m) : \A s \in StmtsOf(c) : f[s] = g[s]
    BY <1>3, <1>4
  <2> QED
    BY <2>1
<1>5. \A m \in Node : \A f \in [Node -> BOOLEAN] : Body(m, f) \in BOOLEAN
  OBVIOUS
<1>6. Recursion(Node, depth, BOOLEAN, step)
  <2> HIDE DEF Body
  <2> QED
    BY <1>2, <1>4, <1>5 DEF Recursion
<1>7. \E f \in [Node -> BOOLEAN] : \A m \in Node : f[m] = step[m][f]
  <2> HIDE DEF step
  <2> QED
    BY <1>6, RecursionByDepth
<1> DEFINE has == CHOOSE has : has = [m \in Node |-> Body(m, has)]
<1>8. has = [m \in Node |-> Body(m, has)]
  <2> HIDE DEF Body
  <2>1. PICK f \in [Node -> BOOLEAN] : f = [m \in Node |-> Body(m, f)]
    BY <1>7
  <2> QED
    BY <2>1
<1>9. \A m : StatementHasMatchingData(m, d) = has[m]
  BY DEF StatementHasMatchingData, Kind
<1> HIDE DEF has
<1>10. \A m \in Node : StatementHasMatchingData(m, d) <=> Body(m, has)
  BY <1>8, <1>9
<1> QED
  BY <1>9, <1>10 DEF CaseHasAnyStmtData

(* A choice claims what the nodes of its enabled cases with data claim; a  *)
(* choice among them, its own name if it is there.                         *)
LEMMA ClaimsDefined ==
  ASSUME SchemaIsTree, NEW d, NEW k \in DOMAIN d.m
  PROVE  \A m \in Node :
           k \in ChoiceInstanceKeys(m, d) <=>
             /\ m \notin inactive
             /\ \E a \in StmtsOf(m) \ inactive :
                  /\ CaseHasAnyStmtData(a, d)
                  /\ \E s \in StmtsOf(a) :
                       IF Kind(s) = "choice" /\ ~Present(s, d)
                       THEN k \in ChoiceInstanceKeys(s, d) ELSE k = Stmt[s].name
<1> DEFINE Body(m, f) ==
             /\ m \notin inactive
             /\ \E a \in StmtsOf(m) \ inactive :
                  /\ CaseHasAnyStmtData(a, d)
                  /\ \E s \in StmtsOf(a) :
                       IF Kind(s) = "choice" /\ ~Present(s, d) THEN f[s] ELSE k = Stmt[s].name
           step == [m \in Node |-> [f \in [Node -> BOOLEAN] |-> Body(m, f)]]
<1>1. PICK depth : Descending(depth)
  BY DEF SchemaIsTree
<1>2. depth \in [Node -> Nat] /\ \A n \in Node : \A s \in StmtsOf(n) : depth[s] < depth[n]
  BY <1>1 DEF Descending
<1>3. ASSUME NEW m \in Node, NEW c \in StmtsOf(m), NEW s \in StmtsOf(c)
      PROVE  s \in Node /\ depth[s] < depth[m]
  <2>1. c \in Node /\ depth[c] < depth[m]
    BY <1>2, StmtsAreNodes
  <2>2. s \in Node /\ depth[s] < depth[c]
    BY <1>2, <2>1, StmtsAreNodes
  <2>3. depth[s] \in Nat /\ depth[c] \in Nat /\ depth[m] \in Nat
    BY <1>2, <2>1, <2>2
  <2> QED
    BY <2>1, <2>2, <2>3
<1>4. ASSUME NEW m \in Node, NEW f \in [Node -> BOOLEAN], NEW g \in [Node -> BOOLEAN],
             \A n \in Node : depth[n] < depth[m] => f[n] = g[n]
      PROVE  Body(m, f) = Body(m, g)
  <2>1. \A a \in StmtsOf(m) : \A s \in StmtsOf(a) : f[s] = g[s]
    BY <1>3, <1>4
  <2> QED
    BY <2>1
<1>5. \A m \in Node : \A f \in [Node -> BOOLEAN] : Body(m, f) \in BOOLEAN
  OBVIOUS
<1>6. Recursion(Node, depth, BOOLEAN, step)
  <2> HIDE DEF Body
  <2> QED
    BY <1>2, <1>4, <1>5 DEF Recursion
<1>7. \E f \in [Node -> BOOLEAN] : \A m \in Node : f[m] = step[m][f]
  <2> HIDE DEF step
  <2> QED
    BY <1>6, RecursionByDepth
<1> DEFINE claims == CHOOSE claims : claims = [m \in Node |-> Body(m, claims)]
<1>8. claims = [m \in Node |-> Body(m, claims)]
  <2> HIDE DEF Body
  <2>1. PICK f \in [Node -> BOOLEAN] : f = [m \in Node |-> Body(m, f)]
    BY <1>7
  <2> QED
    BY <2>1
<1>9. \A m : k \in ChoiceInstanceKeys(m, d) <=> claims[m]
  BY DEF ChoiceInstanceKeys, Kind
<1> HIDE DEF claims
<1>10. \A m \in Node : k \in ChoiceInstanceKeys(m, d) <=> Body(m, claims)
  BY <1>8, <1>9
<1> QED
  BY <1>9, <1>10

(* What a statement of the tree is.                                        *)
LEMMA KindsInTree ==
  ASSUME SchemaIsTree, NEW n \in Node, NEW s \in StmtsOf(n)
  PROVE  /\ s \in Node
         /\ Kind(s) = "case" <=> Kind(n) = "choice"
         /\ Kind(s) \in Virtual => Kind(s) \in {"choice", "case"}
         /\ Kind(s) \notin Virtual => Kind(s) \in DataKinds
<1>1. s \in Node
  BY StmtsAreNodes
<1>2. Kind(s) \in DataKinds \cup {"module", "choice", "case"}
  BY <1>1, SchemaAssumption DEF StmtRecord, Kind
<1> QED
  BY <1>1, <1>2 DEF SchemaIsTree, StatementsOwned, Virtual, Kind

(* A choice or case with a data node that is there has data.               *)
LEMMA DataFound ==
  ASSUME SchemaIsTree, NEW d
  PROVE  \A c \in Node : (\E n \in Scope(c) : Present(n, d)) =>
           /\ Kind(c) = "case" => CaseHasAnyStmtData(c, d)
           /\ Kind(c) = "choice" => StatementHasMatchingData(c, d)
<1>1. PICK depth : Descending(depth)
  BY DEF SchemaIsTree
<1>2. depth \in [Node -> Nat] /\ \A n \in Node : \A s \in StmtsOf(n) : depth[s] < depth[n]
  BY <1>1 DEF Descending
<1> DEFINE G == {c \in Node : (\E n \in Scope(c) : Present(n, d)) =>
                   /\ Kind(c) = "case" => CaseHasAnyStmtData(c, d)
                   /\ Kind(c) = "choice" => StatementHasMatchingData(c, d)}
<1>3. ASSUME NEW c \in Node, \A m \in Node : depth[m] < depth[c] => m \in G PROVE c \in G
  <2> SUFFICES ASSUME NEW n \in Scope(c), Present(n, d)
               PROVE  /\ Kind(c) = "case" => CaseHasAnyStmtData(c, d)
                      /\ Kind(c) = "choice" => StatementHasMatchingData(c, d)
    OBVIOUS
  <2>1. PICK s \in StmtsOf(c) : IF Kind(s) \in Virtual THEN n \in Scope(s) ELSE n = s
    BY BelowStep
  <2>2. /\ s \in Node /\ (Kind(s) = "case" <=> Kind(c) = "choice")
        /\ Kind(s) \in Virtual => Kind(s) \in {"choice", "case"}
        /\ Kind(s) \notin Virtual => Kind(s) \in DataKinds
    BY KindsInTree
  <2>3. s \in G
    BY <1>2, <1>3, <2>2
  <2>4. CASE Kind(c) = "case"
    <3>1. Kind(s) # "case"
      BY <2>2, <2>4
    <3>2. StatementHasMatchingData(s, d)
      <4>1. CASE Kind(s) \in Virtual
        BY <2>1, <2>2, <2>3, <3>1, <4>1
      <4>2. CASE Kind(s) \notin Virtual
        BY <2>1, <2>2, <4>2, MatchingDefined DEF Virtual
      <4> QED
        BY <4>1, <4>2
    <3> QED
      BY <2>4, <3>2 DEF CaseHasAnyStmtData
  <2>5. CASE Kind(c) = "choice"
    <3>1. CaseHasAnyStmtData(s, d)
      BY <2>1, <2>2, <2>3, <2>5 DEF Virtual
    <3> QED
      BY <2>5, <3>1, MatchingDefined
  <2> QED
    BY <2>4, <2>5
<1>4. \A c \in Node : c \in G
  <2> HIDE DEF G
  <2> QED
    BY <1>2, <1>3, ByDepth
<1> QED
  BY <1>4

(* A member is claimed by a choice, in a dict without members named like   *)
(* the choices in it, if a data node answers to it through enabled cases.  *)
ActiveName(k, c) == \E n \in Scope(c) : Stmt[n].name = k /\ Around(n, c) \cap inactive = {}
NoChoiceNamed(c, d) == \A x \in Inner(c) : Kind(x) = "choice" => ~Present(x, d)

LEMMA ClaimsAreNames ==
  ASSUME SchemaIsTree, NEW d, NEW k \in DOMAIN d.m
  PROVE  \A c \in Node : Kind(c) = "choice" /\ NoChoiceNamed(c, d) =>
           (k \in ChoiceInstanceKeys(c, d) <=> c \notin inactive /\ ActiveName(k, c))
<1>1. PICK depth : Descending(depth)
  BY DEF SchemaIsTree
<1>2. depth \in [Node -> Nat] /\ \A n \in Node : \A s \in StmtsOf(n) : depth[s] < depth[n]
  BY <1>1 DEF Descending
<1> DEFINE G == {c \in Node : Kind(c) = "choice" /\ NoChoiceNamed(c, d) =>
                   (k \in ChoiceInstanceKeys(c, d) <=> c \notin inactive /\ ActiveName(k, c))}
<1>3. ASSUME NEW c \in Node, \A m \in Node : depth[m] < depth[c] => m \in G PROVE c \in G
  <2> SUFFICES ASSUME Kind(c) = "choice", NoChoiceNamed(c, d)
               PROVE  k \in ChoiceInstanceKeys(c, d) <=> c \notin inactive /\ ActiveName(k, c)
    OBVIOUS
  <2>1. ASSUME NEW a \in StmtsOf(c)
        PROVE  a \in Node /\ Kind(a) = "case" /\ Kind(a) \in Virtual /\ {a} \cup Inner(a) \subseteq Inner(c)
    <3>1. a \in Node /\ Kind(a) = "case" /\ Kind(a) \in Virtual
      BY <2>1, KindsInTree DEF Virtual
    <3> QED
      BY <2>1, <3>1, BelowStep
  <2>2. ASSUME NEW a \in StmtsOf(c), NEW s \in StmtsOf(a)
        PROVE  /\ s \in Node /\ s \in Below(a) /\ Around(s, a) = {}
               /\ Kind(s) = "choice" \/ Kind(s) \notin Virtual
               /\ Kind(s) = "choice" => /\ Kind(s) \in Virtual /\ ~Present(s, d)
                                        /\ NoChoiceNamed(s, d) /\ s \in G
    <3>1. a \in Node /\ Kind(a) = "case"
      BY <2>1
    <3>2. s \in Node /\ s \in Below(a) /\ Around(s, a) = {}
      BY <3>1, StmtsAreNodes, BelowStep, AroundStep
    <3>3. Kind(s) = "choice" \/ Kind(s) \notin Virtual
      BY <3>1, KindsInTree DEF Virtual
    <3>4. ASSUME Kind(s) = "choice" PROVE Kind(s) \in Virtual /\ ~Present(s, d) /\ NoChoiceNamed(s, d)
      <4>1. Kind(s) \in Virtual
        BY <3>4 DEF Virtual
      <4>2. {s} \cup Inner(s) \subseteq Inner(c)
        BY <2>1, <3>1, <4>1, BelowStep
      <4> QED
        BY <3>4, <4>1, <4>2 DEF NoChoiceNamed
    <3>5. s \in G
      <4>1. depth[s] < depth[a] /\ depth[a] < depth[c]
        BY <1>2, <3>1
      <4>2. depth[s] \in Nat /\ depth[a] \in Nat /\ depth[c] \in Nat
        BY <1>2, <3>1, <3>2
      <4> QED
        BY <1>3, <3>2, <4>1, <4>2
    <3> QED
      BY <3>2, <3>3, <3>4, <3>5
  <2>3. ASSUME k \in ChoiceInstanceKeys(c, d) PROVE c \notin inactive /\ ActiveName(k, c)
    <3>1. PICK a \in StmtsOf(c) \ inactive : \E s \in StmtsOf(a) :
                 IF Kind(s) = "choice" /\ ~Present(s, d)
                 THEN k \in ChoiceInstanceKeys(s, d) ELSE k = Stmt[s].name
      BY <2>3, ClaimsDefined
    <3>2. c \notin inactive
      BY <2>3, ClaimsDefined
    <3>3. PICK s \in StmtsOf(a) : IF Kind(s) = "choice" /\ ~Present(s, d)
                                  THEN k \in ChoiceInstanceKeys(s, d) ELSE k = Stmt[s].name
      BY <3>1
    <3>4. \E n \in Scope(a) : Stmt[n].name = k /\ Around(n, a) \cap inactive = {}
      <4>1. CASE Kind(s) = "choice"
        <5>1. s \notin inactive /\ ActiveName(k, s)
          BY <2>2, <3>1, <3>3, <4>1
        <5>2. PICK n \in Scope(s) : Stmt[n].name = k /\ Around(n, s) \cap inactive = {}
          BY <5>1 DEF ActiveName
        <5>3. n \in Scope(a) /\ Around(n, a) = {s} \cup Around(n, s)
          BY <2>1, <2>2, <3>1, <4>1, BelowStep, AroundStep DEF Below
        <5> QED
          BY <5>1, <5>2, <5>3
      <4>2. CASE Kind(s) # "choice"
        <5>1. s \in Scope(a) /\ Around(s, a) = {}
          BY <2>1, <2>2, <3>1, <4>2, BelowStep
        <5> QED
          BY <3>3, <4>2, <5>1
      <4> QED
        BY <4>1, <4>2
    <3>5. PICK n \in Scope(a) : Stmt[n].name = k /\ Around(n, a) \cap inactive = {}
      BY <3>4
    <3>6. n \in Scope(c) /\ Around(n, c) = {a} \cup Around(n, a)
      BY <2>1, <3>1, BelowStep, AroundStep DEF Below
    <3> QED
      BY <3>1, <3>2, <3>5, <3>6 DEF ActiveName
  <2>4. ASSUME c \notin inactive, ActiveName(k, c) PROVE k \in ChoiceInstanceKeys(c, d)
    <3>1. PICK n \in Scope(c) : Stmt[n].name = k /\ Around(n, c) \cap inactive = {}
      BY <2>4 DEF ActiveName
    <3>2. PICK a \in StmtsOf(c) : n \in Scope(a)
      BY <2>1, BelowStep
    <3>3. Around(n, c) = {a} \cup Around(n, a)
      BY <2>1, <3>2, AroundStep DEF Below
    <3>4. a \notin inactive /\ Around(n, a) \cap inactive = {}
      BY <3>1, <3>3
    <3>5. CaseHasAnyStmtData(a, d)
      <4>1. Present(n, d)
        BY <3>1 DEF Present
      <4> QED
        BY <2>1, <3>2, <4>1, DataFound
    <3>6. \E s \in StmtsOf(a) : IF Kind(s) = "choice" /\ ~Present(s, d)
                                THEN k \in ChoiceInstanceKeys(s, d) ELSE k = Stmt[s].name
      <4>1. PICK s \in StmtsOf(a) : IF Kind(s) \in Virtual THEN n \in Scope(s) ELSE n = s
        BY <2>1, <3>2, BelowStep
      <4>2. CASE Kind(s) = "choice"
        <5>1. n \in Scope(s)
          BY <2>2, <4>1, <4>2
        <5>2. Around(n, a) = {s} \cup Around(n, s)
          BY <2>1, <2>2, <4>2, <5>1, AroundStep DEF Below
        <5>3. s \notin inactive /\ ActiveName(k, s)
          BY <3>1, <3>4, <5>1, <5>2 DEF ActiveName
        <5> QED
          BY <2>2, <4>2, <5>3
      <4>3. CASE Kind(s) # "choice"
        BY <2>2, <3>1, <4>1, <4>3
      <4> QED
        BY <4>2, <4>3
    <3> QED
      BY <2>4, <3>2, <3>4, <3>5, <3>6, ClaimsDefined
  <2> QED
    BY <2>3, <2>4
<1>4. \A c \in Node : c \in G
  <2> HIDE DEF G
  <2> QED
    BY <1>2, <1>3, ByDepth
<1> QED
  BY <1>4
-----------------------------------------------------------------------------
(* What _visit_children has seen.                                          *)

ClaimOf(n, d) == IF Kind(n) = "choice" THEN ChoiceInstanceKeys(n, d) ELSE {Stmt[n].name}
ClaimedBefore(f) == UNION {ClaimOf(Stmt[f.stmt].stmts[i], f.data) : i \in 1 .. f.next - 1}

(* A loop over the statements of a dict knows what those before its place  *)
(* claim; the dict is not a choice's or a case's.                          *)
Exact(f) ==
  /\ f.op = "children" => /\ Kind(f.stmt) \notin Virtual
                          /\ 1 .. f.next - 1 \subseteq DOMAIN Stmt[f.stmt].stmts
                          /\ f.visited = ClaimedBefore(f)
  /\ f.op = "entries" => Kind(f.stmt) = "list"
AllExact(s) == \A i \in DOMAIN s : Exact(s[i])

(* A nested activation begins, a loop returns.                             *)
LEMMA ExactPush ==
  ASSUME NEW s, IsSeq(s), AllExact(s), NEW f, Exact(f)
  PROVE  AllExact(Append(s, f))
<1>1. DOMAIN Append(s, f) = 1 .. Len(s) + 1 /\ DOMAIN s = 1 .. Len(s) /\ Len(s) \in Nat
  BY AppendSeq, SeqOfElements DEF IsSeq
<1>2. (\A i \in 1 .. Len(s) : Append(s, f)[i] = s[i]) /\ Append(s, f)[Len(s) + 1] = f
  BY AppendSeq
<1>3. \A i \in 1 .. Len(s) + 1 : i \in 1 .. Len(s) \/ i = Len(s) + 1
  BY <1>1
<1> QED
  BY <1>1, <1>2, <1>3 DEF AllExact

LEMMA ExactPop == ASSUME NEW s, IsSeq(s), s # <<>>, AllExact(s) PROVE AllExact(Front(s))
<1>1. /\ DOMAIN Front(s) = 1 .. Len(s) - 1 /\ DOMAIN s = 1 .. Len(s) /\ Len(s) \in Nat
      /\ \A i \in 1 .. Len(s) - 1 : Front(s)[i] = s[i]
  BY FrontSeq, SeqOfElements DEF IsSeq
<1> QED
  BY <1>1 DEF AllExact

(* The innermost loop moves on.                                            *)
LEMMA ExactReplace ==
  ASSUME NEW s, IsSeq(s), s # <<>>, AllExact(s), NEW f, Exact(f)
  PROVE  AllExact([s EXCEPT ![Len(s)] = f])
<1> DEFINE t == [s EXCEPT ![Len(s)] = f]
<1>1. DOMAIN t = DOMAIN s /\ \A i \in DOMAIN s : t[i] = s[i] \/ t[i] = f
  BY DEF IsSeq
<1> HIDE DEF t
<1> QED
  BY <1>1 DEF AllExact, t

(* An activation that begins has seen nothing.                             *)
LEMMA ExactFrame ==
  ASSUME NEW op, NEW n, NEW v, NEW e,
         op = "children" => Kind(n) \notin Virtual, op = "entries" => Kind(n) = "list"
  PROVE  Exact(Frame(op, n, v, e))
<1> DEFINE f == Frame(op, n, v, e)
<1>1. f.op = op /\ f.stmt = n /\ f.next = 1 /\ f.visited = {}
  BY DEF Frame
<1>2. 1 .. 1 - 1 = {}
  OBVIOUS
<1> HIDE DEF f
<1>3. ClaimedBefore(f) = {}
  BY <1>1, <1>2 DEF ClaimedBefore
<1> QED
  BY <1>1, <1>3 DEF Exact, f

(* Each turn of the loop adds what its statement claims.                   *)
LEMMA ExactAdvanced ==
  ASSUME Activations(control), AllExact(control), NEW kinds, Visiting(kinds)
  PROVE  AllExact(Advanced) /\ IsSeq(Advanced) /\ Advanced # <<>>
<1>1. /\ control # <<>> /\ Activation(Top) /\ Len(control) \in DOMAIN control /\ IsSeq(control)
      /\ Top.op \in {"children", "case"} /\ Exact(Top)
  BY TopActivation DEF Visiting, AllExact, Top, Activations
<1>2. /\ AdvancedTop.op = Top.op /\ AdvancedTop.stmt = Top.stmt /\ AdvancedTop.data = Top.data
      /\ AdvancedTop.next = Top.next + 1
      /\ AdvancedTop.visited = IF Top.op = "children" THEN Top.visited \cup Claimed ELSE Top.visited
  <2> DEFINE r == [op |-> Top.op, stmt |-> Top.stmt, data |-> Top.data,
                   enforce |-> Top.enforce, next |-> Top.next, visited |-> Top.visited]
  <2>1. Top = r
    BY <1>1 DEF Activation
  <2>2. AdvancedTop =
          [r EXCEPT !.next = Top.next + 1,
                    !.visited = IF Top.op = "children" THEN Top.visited \cup Claimed ELSE Top.visited]
    BY <2>1 DEF AdvancedTop
  <2> QED
    BY <2>2
<1>3. Claimed = ClaimOf(Current, Top.data)
  BY DEF Claimed, ClaimOf, Kind
<1>4. Top.next \in Nat \ {0}
  BY <1>1 DEF Activation
<1>5. ClaimedBefore(AdvancedTop) = ClaimedBefore(Top) \cup Claimed
  <2>1. 1 .. (Top.next + 1) - 1 = (1 .. Top.next - 1) \cup {Top.next}
    BY <1>4
  <2> QED
    BY <1>2, <1>3, <2>1 DEF ClaimedBefore, Current
<1>6. Exact(AdvancedTop)
  <2>1. 1 .. (Top.next + 1) - 1 = (1 .. Top.next - 1) \cup {Top.next}
    BY <1>4
  <2>2. Top.next \in DOMAIN Stmt[Top.stmt].stmts
    BY DEF Visiting
  <2> QED
    BY <1>1, <1>2, <1>5, <2>1, <2>2 DEF Exact
<1>7. AllExact(Advanced)
  BY <1>1, <1>6, ExactReplace DEF Advanced
<1> QED
  BY <1>1, <1>7, AdvancedMoves

(* Every step keeps what the loops have seen exact.                        *)
LEMMA ExactStep ==
  ASSUME SchemaIsTree, TypeOK, AllExact(control), [Next]_vars
  PROVE  AllExact(control')
<1>1. Activations(control) /\ IsSeq(control)
  BY TypeParts DEF Activations
<1>2. ASSUME NEW kinds, Visiting(kinds), NEW found, Continue(found) PROVE AllExact(control')
  BY <1>1, <1>2, ExactAdvanced DEF Continue
<1>3. ASSUME NEW kinds, Visiting(kinds), NEW f, Exact(f), control' = Append(Advanced, f)
      PROVE  AllExact(control')
  BY <1>1, <1>3, ExactAdvanced, ExactPush
<1>4. ASSUME control # <<>>, control' = Front(control) PROVE AllExact(control')
  BY <1>1, <1>4, ExactPop
<1>5. AllExact(<<>>) /\ \A f : Exact(f) => AllExact(<<f>>)
  <2>1. DOMAIN <<>> = {} /\ \A f : DOMAIN <<f>> = {1} /\ <<f>>[1] = f
    OBVIOUS
  <2> QED
    BY <2>1 DEF AllExact
<1>6. CASE VisitDataNode
  <2>1. CASE SkipInactive \/ SkipWhenFalse \/ SkipAbsent \/ VisitValue \/ RejectDuplicateKey
    BY <1>2, <2>1 DEF SkipInactive, SkipWhenFalse, SkipAbsent, VisitValue, RejectDuplicateKey, Applicable
  <2>2. CASE EnterContainer
    <3>1. /\ Visiting(DataKinds) /\ Kind(Current) = "container"
          /\ \E v, e : control' = Append(Advanced, Frame("children", Current, v, e))
      BY <2>2 DEF EnterContainer, Applicable, Call, Kind
    <3>2. \A v, e : Exact(Frame("children", Current, v, e))
      BY <3>1, ExactFrame DEF Virtual
    <3> QED
      BY <1>3, <3>1, <3>2
  <2>3. CASE EnterList
    <3>1. /\ Visiting(DataKinds) /\ Kind(Current) = "list"
          /\ \E v, e : control' = Append(Advanced, Frame("entries", Current, v, e))
      BY <2>3 DEF EnterList, Applicable, Call, Kind
    <3>2. \A v, e : Exact(Frame("entries", Current, v, e))
      BY <3>1, ExactFrame
    <3> QED
      BY <1>3, <3>1, <3>2
  <2>4. CASE RaiseTypeError
    BY <1>5, <2>4 DEF RaiseTypeError
  <2> QED
    BY <1>6, <2>1, <2>2, <2>3, <2>4 DEF VisitDataNode
<1>7. CASE VisitChoice
  <2>1. CASE \/ SkipInactiveChoice \/ SkipChoiceWhenFalse \/ RejectCase \/ RejectSeveralCases
             \/ SkipEmptyChoice
    BY <1>2, <2>1 DEF SkipInactiveChoice, SkipChoiceWhenFalse, RejectCase, RejectSeveralCases,
       SkipEmptyChoice, ChoiceSettled, ApplicableChoice
  <2>2. CASE EnterCase
    <3>1. /\ Visiting({"choice"})
          /\ \E a, e : control' = Append(Advanced, Frame("case", a, Top.data, e))
      BY <2>2 DEF EnterCase, ChoiceSettled, ApplicableChoice
    <3>2. \A a, v, e : Exact(Frame("case", a, v, e))
      BY ExactFrame
    <3> QED
      BY <1>3, <3>1, <3>2
  <2> QED
    BY <1>7, <2>1, <2>2 DEF VisitChoice
<1>8. CASE VisitEntry
  <2> DEFINE r == [Top EXCEPT !.next = @ + 1]
             more == [control EXCEPT ![Len(control)].next = @ + 1]
  <2>1. /\ control # <<>> /\ Top.op = "entries"
        /\ control' = more \/ \E v, e : control' = Append(more, Frame("children", Top.stmt, v, e))
    BY <1>8 DEF VisitEntry, InEntries
  <2>2. Activation(Top) /\ Len(control) \in DOMAIN control /\ Exact(Top)
    BY <1>1, <2>1, TopActivation DEF AllExact, Top
  <2>3. Kind(Top.stmt) = "list"
    BY <2>1, <2>2 DEF Exact
  <2>4. r.op = "entries" /\ r.stmt = Top.stmt
    BY <2>1, <2>2 DEF Activation
  <2>5. Exact(r)
    BY <2>3, <2>4 DEF Exact
  <2>6. more = [control EXCEPT ![Len(control)] = r]
    BY <2>2 DEF Top
  <2> HIDE DEF r
  <2>7. AllExact(more) /\ IsSeq(more)
    BY <1>1, <2>1, <2>5, <2>6, ExactReplace, ReplaceLastSeq
  <2>8. \A v, e : Exact(Frame("children", Top.stmt, v, e))
    BY <2>3, ExactFrame DEF Virtual
  <2> HIDE DEF more
  <2> QED
    BY <2>1, <2>7, <2>8, ExactPush
<1>9. CASE FinishEntries \/ FinishCase \/ FinishChildren
  BY <1>4, <1>9 DEF FinishEntries, FinishCase, FinishChildren, InEntries, LoopDone
<1>10. CASE ValidateFirst \/ ValidateAgain
  <2>1. \E v, e : control' = <<Frame("children", root, v, e)>>
    BY <1>10 DEF ValidateFirst, ValidateAgain, Validate
  <2>2. Kind(root) \notin Virtual
    BY TypeParts DEF SchemaIsTree, StatementsOwned, Virtual, Kind
  <2>3. \A v, e : Exact(Frame("children", root, v, e))
    BY <2>2, ExactFrame
  <2> QED
    BY <1>5, <2>1, <2>3
<1>11. CASE Return \/ UNCHANGED vars
  BY <1>11 DEF Return, vars, walk
<1> QED
  BY <1>6, <1>7, <1>8, <1>9, <1>10, <1>11 DEF Next, Step

(* What a validator is built for stays.                                    *)
LEMMA ConfigStep == ASSUME [Next]_vars PROVE inactive' = inactive
<1>1. VisitDataNode => inactive' = inactive
  BY DEF VisitDataNode, SkipInactive, SkipWhenFalse, SkipAbsent, VisitValue, EnterContainer,
     EnterList, RejectDuplicateKey, RaiseTypeError, Continue, Call, config
<1>2. VisitChoice => inactive' = inactive
  BY DEF VisitChoice, SkipInactiveChoice, SkipChoiceWhenFalse, RejectCase, RejectSeveralCases,
     SkipEmptyChoice, EnterCase, Continue, config
<1>3. VisitEntry \/ FinishEntries \/ FinishCase \/ FinishChildren \/ Return => inactive' = inactive
  BY DEF VisitEntry, FinishEntries, FinishCase, FinishChildren, Return, config
<1>4. ValidateFirst \/ ValidateAgain => inactive' = inactive
  BY DEF ValidateFirst, ValidateAgain, Validate, config
<1> QED
  BY <1>1, <1>2, <1>3, <1>4 DEF Next, Step, vars, config

(* At the end of the loop that is what the data nodes of the dict answer   *)
(* to.                                                                     *)
LEMMA ExactUnknown ==
  ASSUME SchemaIsTree, TypeOK, AllExact(control)
  PROVE  UnknownFieldsExact
<1> DEFINE t == Top.stmt
           d == Top.data
<1> SUFFICES ASSUME LoopDone("children"), ChoiceNames(t) \cap DOMAIN d.m = {},
                    NEW k \in DOMAIN d.m
             PROVE  k \in Top.visited <=> ActiveName(k, t)
  BY DEF UnknownFieldsExact, ActiveName
<1>1. /\ Activation(Top) /\ Exact(Top) /\ Top.op = "children"
      /\ Top.next \notin DOMAIN Stmt[t].stmts
  BY TypeParts, TopActivation DEF LoopDone, AllExact, Top
<1>2. t \in Node /\ Top.next \in Nat \ {0} /\ Kind(t) \notin Virtual
  BY <1>1 DEF Activation, Exact
<1>3. Stmt[t].stmts \in Seq(Node)
  BY <1>2, SchemaAssumption DEF StmtRecord
<1>4. DOMAIN Stmt[t].stmts = 1 .. Top.next - 1
  <2> DEFINE N == Len(Stmt[t].stmts)
             j == Top.next
  <2>1. N \in Nat /\ DOMAIN Stmt[t].stmts = 1 .. N
    BY <1>3
  <2>2. j \in Nat \ {0} /\ j \notin 1 .. N /\ 1 .. j - 1 \subseteq 1 .. N
    BY <1>1, <1>2, <2>1 DEF Exact
  <2> HIDE DEF N, j
  <2>3. j > N
    BY <2>1, <2>2
  <2>4. j - 1 = 0 \/ j - 1 \in 1 .. N
    BY <2>1, <2>2, <2>3
  <2>5. j - 1 = N
    BY <2>1, <2>2, <2>3, <2>4
  <2> QED
    BY <2>1, <2>5 DEF j
<1>5. k \in Top.visited <=> \E s \in StmtsOf(t) : k \in ClaimOf(s, d)
  <2>1. Top.visited = UNION {ClaimOf(Stmt[t].stmts[i], d) : i \in 1 .. Top.next - 1}
    BY <1>1 DEF Exact, ClaimedBefore
  <2> QED
    BY <1>4, <2>1 DEF StmtsOf
<1>6. ASSUME NEW s \in StmtsOf(t)
      PROVE  /\ s \in Node
             /\ Kind(s) \in Virtual <=> Kind(s) = "choice"
  BY <1>2, KindsInTree DEF Virtual
<1>7. ASSUME NEW s \in StmtsOf(t), Kind(s) = "choice"
      PROVE  k \in ClaimOf(s, d) <=>
               \E n \in Scope(s) : Stmt[n].name = k /\ Around(n, t) \cap inactive = {}
  <2>1. NoChoiceNamed(s, d)
    <3> SUFFICES ASSUME NEW x \in Inner(s), Kind(x) = "choice" PROVE ~Present(x, d)
      BY DEF NoChoiceNamed
    <3>1. x \in Inner(t)
      BY <1>2, <1>6, <1>7, BelowStep
    <3>2. x \notin StmtsOf(t)
      BY <1>2, SiblingsApart DEF Below
    <3>3. Stmt[x].name \in ChoiceNames(t)
      BY <3>1, <3>2 DEF ChoiceNames, Kind
    <3> QED
      BY <3>3 DEF Present
  <2>2. k \in ClaimOf(s, d) <=> s \notin inactive /\ ActiveName(k, s)
    BY <1>6, <1>7, <2>1, ClaimsAreNames DEF ClaimOf
  <2>3. \A n \in Scope(s) : Around(n, t) = {s} \cup Around(n, s)
    BY <1>2, <1>6, <1>7, AroundStep DEF Below
  <2> QED
    BY <2>2, <2>3 DEF ActiveName
<1>8. ASSUME NEW s \in StmtsOf(t), Kind(s) # "choice"
      PROVE  k \in ClaimOf(s, d) <=> Stmt[s].name = k /\ Around(s, t) \cap inactive = {}
  BY <1>2, <1>8, AroundStep DEF ClaimOf
<1>9. \A n : n \in Scope(t) <=>
        \E s \in StmtsOf(t) : IF Kind(s) = "choice" THEN n \in Scope(s) ELSE n = s
  <2> SUFFICES ASSUME NEW n
               PROVE  n \in Scope(t) <=>
                        \E s \in StmtsOf(t) : IF Kind(s) = "choice" THEN n \in Scope(s) ELSE n = s
    OBVIOUS
  <2>1. n \in Scope(t) <=>
          \E s \in StmtsOf(t) : IF Kind(s) \in Virtual THEN n \in Scope(s) ELSE n = s
    BY <1>2, BelowStep
  <2> QED
    BY <1>6, <2>1
<1>10. ASSUME k \in Top.visited PROVE ActiveName(k, t)
  <2>1. PICK s \in StmtsOf(t) : k \in ClaimOf(s, d)
    BY <1>5, <1>10
  <2> QED
    BY <1>7, <1>8, <1>9, <2>1 DEF ActiveName
<1>11. ASSUME ActiveName(k, t) PROVE k \in Top.visited
  <2>1. PICK n \in Scope(t) : Stmt[n].name = k /\ Around(n, t) \cap inactive = {}
    BY <1>11 DEF ActiveName
  <2>2. PICK s \in StmtsOf(t) : IF Kind(s) = "choice" THEN n \in Scope(s) ELSE n = s
    BY <1>9, <2>1
  <2> QED
    BY <1>5, <1>7, <1>8, <2>1, <2>2
<1> QED
  BY <1>10, <1>11

(* The members _visit_children reports as unknown fields are those that no *)
(* data node of the dict answers to, or only one in a choice or case whose *)
(* if-feature is false: what the loop has seen, statement by statement and *)
(* through nested choices, is what the schema allows there.                *)
THEOREM UnknownFieldsAreExact == SchemaIsTree => (Spec => []UnknownFieldsExact)
<1> SUFFICES ASSUME SchemaIsTree PROVE Spec => []UnknownFieldsExact
  OBVIOUS
<1>1. Init => AllExact(control)
  <2>1. DOMAIN <<>> = {}
    OBVIOUS
  <2> QED
    BY <2>1 DEF Init, AllExact
<1>2. TypeOK /\ AllExact(control) /\ [Next]_vars => AllExact(control)'
  <2> SUFFICES ASSUME TypeOK, AllExact(control), [Next]_vars PROVE AllExact(control)'
    OBVIOUS
  <2>1. AllExact(control')
    BY ExactStep
  <2>2. inactive' = inactive
    BY ConfigStep
  <2> QED
    BY <2>1, <2>2 DEF AllExact, Exact, ClaimedBefore, ClaimOf, ChoiceInstanceKeys, Kind
<1>3. TypeOK /\ AllExact(control) => UnknownFieldsExact
  BY ExactUnknown
<1> QED
  BY <1>1, <1>2, <1>3, TypeCorrect, PTL DEF Spec
=============================================================================
