---------------------------- MODULE DocumentWalk ----------------------------
(***************************************************************************)
(* DocumentValidator (src/xyang/validator/document_validator.py): the walk *)
(* of an instance document in lockstep with the schema.                    *)
(*                                                                         *)
(* The recursion of _visit_children / _visit_stmt / _visit_choice is kept  *)
(* as an explicit stack of activation records (control), next to the state *)
(* the object itself keeps: _case_stack, _case_level_data_stack, the path  *)
(* builder and _errors.  XPath evaluation, type checking and the feature   *)
(* map are parameters: what the walk does with their answers is modelled,  *)
(* how they reach them is not.                                             *)
(***************************************************************************)
EXTENDS Integers, SequencesExt

CONSTANTS
  Stmt,              \* statement id -> its AST record, see StmtRecord
  Name,              \* JSON member names
  Roots,             \* the modules a validator may be built for
  Gated,             \* root -> its statements with an if-feature
  Documents,         \* root -> the documents validate() is first called with
  Again,             \* root -> the documents of a later call on the same object
  Default,           \* the value of a leaf's default statement
  When(_, _),        \* n's when in a dict: "true", "false" or "error"
  Must(_, _, _),     \* outcome of n's must: dict (a list's: the entry), context value
  TypeFails(_, _)    \* does TypeChecker.check report the value of leaf n?

Node == DOMAIN Stmt
Leafs == {"leaf", "anydata"}
DataKinds == Leafs \cup {"leaf-list", "container", "list"}
StmtRecord ==
  [kind : DataKinds \cup {"module", "choice", "case"},
   name : Name,          \* instance_member_keys: the one key the node answers to
   stmts : Seq(Node),    \* .statements; a choice's .cases
   keys : Seq(Name),     \* a list's key leafs
   mandatory : BOOLEAN, presence : BOOLEAN, default : BOOLEAN,
   empty : BOOLEAN,      \* the leaf has type empty
   when : BOOLEAN, must : BOOLEAN,   \* the statement has a when, a must
   min : Nat, max : Nat] \* min-elements, max-elements (0: none)

Null == [t |-> "null"]
IsDict(v) == v.t = "dict"
IsList(v) == v.t = "list"

ASSUME SchemaAssumption ==
  /\ Stmt \in [Node -> StmtRecord]
  /\ Roots \subseteq Node
  /\ \A r \in Roots : /\ Gated[r] \subseteq Node
                       /\ \A d \in Documents[r] \cup Again[r] : IsDict(d)

VARIABLES
  root, inactive, constraintChecks,  \* fixed when the validator is built
  status,      \* "idle", "running", or how the last validate() ended
  document,    \* argument of the call
  control,     \* activation records of the walk, innermost last
  caseStack, levelStack,             \* _case_stack, _case_level_data_stack
  path,        \* the PathBuilder's segments
  errors       \* _errors, as a set

config == <<root, inactive, constraintChecks>>
walk == <<control, caseStack, levelStack, path>>
vars == <<config, status, document, walk, errors>>

(* An activation: "children" is the loop of _visit_children over stmt's    *)
(* statements, "case" the loop of _visit_choice over the active case,      *)
(* "entries" the loop over the entries of a list.                          *)
Frame(op, n, v, e) ==
  [op |-> op, stmt |-> n, data |-> v, enforce |-> e, next |-> 1, visited |-> {}]

StmtsOf(n) == {Stmt[n].stmts[i] : i \in DOMAIN Stmt[n].stmts}
-----------------------------------------------------------------------------
(* What a dict holds of the schema.                                        *)

Present(n, d) == Stmt[n].name \in DOMAIN d.m

EffectiveValue(n, d) ==
  IF Present(n, d) THEN d.m[Stmt[n].name]
  ELSE IF Stmt[n].default THEN Default ELSE Null

StatementHasMatchingData(n, d) ==
  LET has[m \in Node] ==
        IF Stmt[m].kind = "choice"
        THEN \E c \in StmtsOf(m) : \E s \in StmtsOf(c) : has[s]
        ELSE Stmt[m].kind \in DataKinds /\ Present(m, d)
  IN  has[n]

CaseHasAnyStmtData(c, d) == \E s \in StmtsOf(c) : StatementHasMatchingData(s, d)

(* Mutant of CaseHasOtherStmtData: only statements before the skipped one. *)
CaseHasEarlierStmtData(c, d, skip) ==
  \E i, j \in DOMAIN Stmt[c].stmts :
    i < j /\ Stmt[c].stmts[j] = skip /\ StatementHasMatchingData(Stmt[c].stmts[i], d)

CaseHasOtherStmtData(c, d, skip) ==
  \E s \in StmtsOf(c) \ {skip} : StatementHasMatchingData(s, d)

ChoiceHasBranchData(c, d) == \E a \in StmtsOf(c) : CaseHasAnyStmtData(a, d)

(* Mutant of ChoiceInstanceKeys: nested choices are not looked into.       *)
KeysOfOwnStatements(c, d) ==
  {k \in DOMAIN d.m :
     \E a \in StmtsOf(c) \ inactive :
       CaseHasAnyStmtData(a, d) /\ \E s \in StmtsOf(a) : k = Stmt[s].name}

(* The members of d a choice accounts for: those of its active cases.  A   *)
(* nested choice first claims a member called like the choice itself.      *)
ChoiceInstanceKeys(c, d) ==
  {k \in DOMAIN d.m :
     LET claims[m \in Node] ==
           /\ m \notin inactive
           /\ \E a \in StmtsOf(m) \ inactive :
                /\ CaseHasAnyStmtData(a, d)
                /\ \E s \in StmtsOf(a) :
                     IF Stmt[s].kind = "choice" /\ ~Present(s, d)
                     THEN claims[s]
                     ELSE k = Stmt[s].name
     IN  claims[c]}
-----------------------------------------------------------------------------
(* When mandatory statements are enforced (RFC 7950 7.9.4, 7.6.5).         *)

ChildEnforce(owner, parentEnforce) ==
  \/ Stmt[owner].kind \in {"module", "list"}
  \/ Stmt[owner].kind = "container" /\ Stmt[owner].presence
  \/ Stmt[owner].kind # "case" /\ parentEnforce

MandatoryChoiceViolation(c, enforce) ==
  /\ Stmt[c].mandatory
  /\ \/ enforce
     \/ caseStack = <<>>
     \/ CaseHasOtherStmtData(Last(caseStack), Last(levelStack), c)

LeafMandatoryMustExist(n, enforce) ==
  /\ Stmt[n].mandatory
  /\ \/ enforce
     \/ caseStack = <<>>
     \/ CaseHasAnyStmtData(Last(caseStack), Last(levelStack))
-----------------------------------------------------------------------------
(* The phases of _visit_stmt on a data node n of dict d.                   *)

Err(kind, at, name) == [kind |-> kind, path |-> at, name |-> name]
Segment(n) == <<Stmt[n].name, <<>>>>
At(n) == Append(path, Segment(n))
Report(kind, n, bad) == IF bad THEN {Err(kind, At(n), Stmt[n].name)} ELSE {}

WhenFalse(n, d) == constraintChecks /\ Stmt[n].when /\ When(n, d) = "false"

Items(v) == IF IsList(v) THEN {v.s[i] : i \in DOMAIN v.s}
            ELSE IF v = Null THEN {} ELSE {v}
Count(v) == IF IsList(v) THEN Len(v.s) ELSE IF v = Null THEN 0 ELSE 1

(* _check_structural: what it reports, and whether the visit goes on.      *)
StructuralErrors(n, d, enforce) ==
  LET v == EffectiveValue(n, d)
      missing == /\ Stmt[n].kind \in Leafs
                 /\ v = Null /\ ~(Stmt[n].empty /\ Present(n, d))
                 /\ LeafMandatoryMustExist(n, enforce)
      counted == Stmt[n].kind \in {"list", "leaf-list"} /\ Present(n, d)
  IN  Report("mandatory", n, missing)
      \cup Report("min-elements", n, counted /\ Count(v) < Stmt[n].min)
      \cup Report("max-elements", n, counted /\ Stmt[n].max > 0 /\ Count(v) > Stmt[n].max)

Exists(n, d) ==
  IF Stmt[n].kind \in Leafs
  THEN EffectiveValue(n, d) # Null \/ (Stmt[n].empty /\ Present(n, d))
  ELSE Present(n, d)

(* _check_must: an expression that cannot be evaluated is a violation too. *)
MustErrors(n, d, v, at) ==
  IF constraintChecks /\ Stmt[n].must /\ Must(n, d, v) # "true"
  THEN {Err(IF Must(n, d, v) = "error" THEN "must-error" ELSE "must", at, Stmt[n].name)}
  ELSE {}

ConstraintErrors(n, d) ==
  LET v == EffectiveValue(n, d)
      each == IF Stmt[n].kind = "leaf-list" THEN Items(v) ELSE {v}
      typed == CASE Stmt[n].kind = "leaf" -> {v} \ {Null}
                 [] Stmt[n].kind = "leaf-list" -> Items(v)
                 [] OTHER -> {}
  IN  (IF Stmt[n].kind = "list" THEN {}
       ELSE UNION {MustErrors(n, d, x, At(n)) : x \in each})
      \cup Report("type", n, constraintChecks /\ \E x \in typed : TypeFails(n, x))
-----------------------------------------------------------------------------
(* List keys: entry.get(k) for every key leaf, hashed in order.            *)

KeyTuple(n, entry) ==
  [i \in DOMAIN Stmt[n].keys |->
     IF Stmt[n].keys[i] \in DOMAIN entry.m THEN entry.m[Stmt[n].keys[i]] ELSE Null]

EntryKey(n, entry) == IF IsDict(entry) THEN KeyTuple(n, entry) ELSE <<>>

DuplicateAt(n, s, j) ==
  /\ Stmt[n].keys # <<>> /\ IsDict(s[j])
  /\ \E i \in 1 .. j - 1 : IsDict(s[i]) /\ KeyTuple(n, s[i]) = KeyTuple(n, s[j])

(* Mutant of UnhashableAt: keys that are arrays count as hashable.         *)
UnhashableObjectAt(n, s, j) ==
  IsDict(s[j]) /\ \E k \in DOMAIN Stmt[n].keys : IsDict(KeyTuple(n, s[j])[k])

UnhashableAt(n, s, j) ==
  /\ IsDict(s[j])
  /\ \E k \in DOMAIN Stmt[n].keys : LET x == KeyTuple(n, s[j])[k] IN IsDict(x) \/ IsList(x)

(* The scan stops at the first entry that repeats a key or cannot be       *)
(* hashed; an unhashable tuple raises before it is compared.               *)
ScanStops(n, s, j) ==
  /\ DuplicateAt(n, s, j) \/ UnhashableAt(n, s, j)
  /\ \A i \in 1 .. j - 1 : ~DuplicateAt(n, s, i) /\ ~UnhashableAt(n, s, i)

ScanRaises(n, s) == \E j \in DOMAIN s : ScanStops(n, s, j) /\ UnhashableAt(n, s, j)
ScanFindsDuplicate(n, s) == \E j \in DOMAIN s : ScanStops(n, s, j) /\ ~UnhashableAt(n, s, j)
-----------------------------------------------------------------------------
(* The loop over statements: which one is next, and the two ways a visit   *)
(* can go on, to the next statement or into a nested activation.           *)

Top == control[Len(control)]
Current == Stmt[Top.stmt].stmts[Top.next]

Visiting(kinds) ==
  /\ control # <<>>
  /\ Top.op \in {"children", "case"}
  /\ Top.next \in DOMAIN Stmt[Top.stmt].stmts
  /\ Stmt[Current].kind \in kinds

Claimed ==
  IF Stmt[Current].kind = "choice" THEN ChoiceInstanceKeys(Current, Top.data)
  ELSE {Stmt[Current].name}

AdvancedTop ==
  [Top EXCEPT !.next = Top.next + 1,
              !.visited = IF Top.op = "children" THEN Top.visited \cup Claimed ELSE Top.visited]

Advanced == [control EXCEPT ![Len(control)] = AdvancedTop]

Continue(found) ==
  /\ control' = Advanced
  /\ errors' = errors \cup found
  /\ UNCHANGED <<config, status, document, caseStack, levelStack, path>>

Call(frame, found) ==
  /\ control' = Append(Advanced, frame)
  /\ errors' = errors \cup found
  /\ UNCHANGED <<config, status, document, caseStack, levelStack>>
-----------------------------------------------------------------------------
(* _visit_stmt on a data node.                                             *)

(* Phase 0: an if-feature that is false.                                   *)
SkipInactive ==
  /\ Visiting(DataKinds) /\ Current \in inactive
  /\ Continue(Report("if-feature", Current, Present(Current, Top.data)))

(* Phase 1: a when that is false; one that cannot be evaluated is ignored. *)
SkipWhenFalse ==
  /\ Visiting(DataKinds) /\ Current \notin inactive
  /\ WhenFalse(Current, Top.data)
  /\ Continue(Report("when", Current, Present(Current, Top.data)))

Applicable ==
  /\ Visiting(DataKinds) /\ Current \notin inactive
  /\ ~WhenFalse(Current, Top.data)

(* Phase 2 ends the visit of a node that is not there.                     *)
SkipAbsent ==
  /\ Applicable /\ ~Exists(Current, Top.data)
  /\ Continue(StructuralErrors(Current, Top.data, Top.enforce))

Found == StructuralErrors(Current, Top.data, Top.enforce)
         \cup ConstraintErrors(Current, Top.data)

DescendsInto(n, v) ==
  \/ Stmt[n].kind = "container" /\ IsDict(v)
  \/ Stmt[n].kind = "list" /\ IsList(v)

(* Phases 3 and 4 on a node with nothing to descend into.                  *)
VisitValue ==
  /\ Applicable /\ Exists(Current, Top.data)
  /\ ~DescendsInto(Current, EffectiveValue(Current, Top.data))
  /\ Continue(Found)

(* Phase 5: the flag is computed here and once more by _visit_children.    *)
(* Mutant of EnterContainer: any value is taken for an object.             *)
EnterAnyContainer ==
  /\ Applicable /\ Exists(Current, Top.data)
  /\ Stmt[Current].kind = "container"
  /\ Call(Frame("children", Current, EffectiveValue(Current, Top.data), Top.enforce), Found)
  /\ path' = At(Current)

EnterContainer ==
  /\ Applicable /\ Exists(Current, Top.data)
  /\ Stmt[Current].kind = "container"
  /\ LET v == EffectiveValue(Current, Top.data)
         e == ChildEnforce(Current, ChildEnforce(Current, Top.enforce))
     IN  /\ IsDict(v)
         /\ Call(Frame("children", Current, v, e), Found)
         /\ path' = At(Current)

EnterList ==
  /\ Applicable /\ Exists(Current, Top.data)
  /\ Stmt[Current].kind = "list"
  /\ LET v == EffectiveValue(Current, Top.data)
     IN  /\ IsList(v)
         /\ \A j \in DOMAIN v.s : ~ScanStops(Current, v.s, j)
         /\ Call(Frame("entries", Current, v, Top.enforce), Found)
         /\ UNCHANGED path

(* A repeated key: reported once, and no entry is visited.                 *)
RejectDuplicateKey ==
  /\ Applicable /\ Exists(Current, Top.data)
  /\ Stmt[Current].kind = "list"
  /\ LET v == EffectiveValue(Current, Top.data)
     IN  /\ IsList(v) /\ ScanFindsDuplicate(Current, v.s)
         /\ Continue(Found \cup Report("duplicate-key", Current, TRUE))

(* A key value that cannot be hashed: TypeError leaves validate(); the     *)
(* finally clauses pop the case stacks, nothing pops the path.             *)
RaiseTypeError ==
  /\ Applicable /\ Exists(Current, Top.data)
  /\ Stmt[Current].kind = "list"
  /\ LET v == EffectiveValue(Current, Top.data)
     IN  IsList(v) /\ ScanRaises(Current, v.s)
  /\ errors' = errors \cup Found
  /\ status' = "raised"
  /\ control' = <<>> /\ caseStack' = <<>> /\ levelStack' = <<>>
  /\ UNCHANGED <<config, document, path>>
-----------------------------------------------------------------------------
(* The loop over a list's entries.                                         *)

InEntries == control # <<>> /\ Top.op = "entries"
Entry == Top.data.s[Top.next]

EntryPath(n, entry) == Append(path, <<Stmt[n].name, EntryKey(n, entry)>>)

VisitEntry ==
  /\ InEntries /\ Top.next \in DOMAIN Top.data.s
  /\ LET n == Top.stmt
         at == EntryPath(n, Entry)
         e == ChildEnforce(n, ChildEnforce(n, Top.enforce))
         more == [control EXCEPT ![Len(control)].next = @ + 1]
     IN  /\ errors' = errors \cup MustErrors(n, Entry, Entry, at)
         /\ IF IsDict(Entry)
            THEN /\ control' = Append(more, Frame("children", n, Entry, e))
                 /\ path' = at
            ELSE control' = more /\ UNCHANGED path
  /\ UNCHANGED <<config, status, document, caseStack, levelStack>>

(* Mutant of FinishEntries: the loop does not end.                         *)
StayInEntries ==
  /\ InEntries /\ Top.next \notin DOMAIN Top.data.s
  /\ UNCHANGED vars

FinishEntries ==
  /\ InEntries /\ Top.next \notin DOMAIN Top.data.s
  /\ control' = Front(control)
  /\ UNCHANGED <<config, status, document, caseStack, levelStack, path, errors>>
-----------------------------------------------------------------------------
(* _visit_choice.                                                          *)

ReportHere(kind, n, bad) == IF bad THEN {Err(kind, path, Stmt[n].name)} ELSE {}

SkipInactiveChoice ==
  /\ Visiting({"choice"}) /\ Current \in inactive
  /\ Continue(ReportHere("choice-if-feature", Current,
                         ChoiceHasBranchData(Current, Top.data)))

SkipChoiceWhenFalse ==
  /\ Visiting({"choice"}) /\ Current \notin inactive
  /\ WhenFalse(Current, Top.data)
  /\ Continue(ReportHere("choice-when", Current,
                         ChoiceHasBranchData(Current, Top.data)))

ApplicableChoice ==
  /\ Visiting({"choice"}) /\ Current \notin inactive
  /\ ~WhenFalse(Current, Top.data)

CaseWithData(a) == CaseHasAnyStmtData(a, Top.data)
CaseRejected(a) == CaseWithData(a) /\ (a \in inactive \/ WhenFalse(a, Top.data))
Cases == Stmt[Current].stmts
(* Mutant of ActiveCases: a case counts whether it has data or not.        *)
EnabledCases == StmtsOf(Current) \ inactive

ActiveCases == {a \in StmtsOf(Current) \ inactive : CaseWithData(a)}

(* The first case with data that may not exist ends the visit.             *)
RejectCase ==
  /\ ApplicableChoice
  /\ \E i \in DOMAIN Cases :
       /\ CaseRejected(Cases[i])
       /\ \A j \in 1 .. i - 1 : ~CaseRejected(Cases[j])
       /\ Continue({Err(IF Cases[i] \in inactive THEN "case-if-feature" ELSE "case-when",
                        path, Stmt[Cases[i]].name)})

ChoiceSettled == ApplicableChoice /\ \A a \in StmtsOf(Current) : ~CaseRejected(a)

RejectSeveralCases ==
  /\ ChoiceSettled
  /\ \E a, b \in ActiveCases : a # b
  /\ Continue(ReportHere("several-cases", Current, TRUE))

SkipEmptyChoice ==
  /\ ChoiceSettled
  /\ ActiveCases = {}
  /\ Continue(ReportHere("mandatory-choice", Current,
                         MandatoryChoiceViolation(Current, Top.enforce)))

EnterCase ==
  /\ ChoiceSettled
  /\ \E a \in ActiveCases :
       /\ ActiveCases = {a}
       /\ control' = Append(Advanced,
                            Frame("case", a, Top.data, ChildEnforce(a, Top.enforce)))
       /\ caseStack' = Append(caseStack, a)
       /\ levelStack' = Append(levelStack, Top.data)
  /\ UNCHANGED <<config, status, document, path, errors>>

LoopDone(op) ==
  /\ control # <<>> /\ Top.op = op
  /\ Top.next \notin DOMAIN Stmt[Top.stmt].stmts

(* Mutant of FinishCase: the level of the case stays on its stack.         *)
FinishCaseKeepLevel ==
  /\ LoopDone("case")
  /\ control' = Front(control)
  /\ caseStack' = Front(caseStack)
  /\ UNCHANGED <<config, status, document, levelStack, path, errors>>

FinishCase ==
  /\ LoopDone("case")
  /\ control' = Front(control)
  /\ caseStack' = Front(caseStack)
  /\ levelStack' = Front(levelStack)
  /\ UNCHANGED <<config, status, document, path, errors>>
-----------------------------------------------------------------------------
(* Mutant of FinishChildren: the caller does not pop its segment.          *)
FinishChildrenKeepPath ==
  /\ LoopDone("children")
  /\ errors' = errors \cup {Err("unknown", Append(path, <<k, <<>>>>), k)
                             : k \in DOMAIN Top.data.m \ Top.visited}
  /\ control' = Front(control)
  /\ UNCHANGED <<config, status, document, caseStack, levelStack, path>>

(* The end of _visit_children: members no statement claimed.  The caller   *)
(* of a nested activation pops the segment it pushed.                      *)
FinishChildren ==
  /\ LoopDone("children")
  /\ errors' = errors \cup {Err("unknown", Append(path, <<k, <<>>>>), k)
                             : k \in DOMAIN Top.data.m \ Top.visited}
  /\ control' = Front(control)
  /\ path' = IF Len(control) = 1 THEN path ELSE Front(path)
  /\ UNCHANGED <<config, status, document, caseStack, levelStack>>

Return ==
  /\ status = "running" /\ control = <<>>
  /\ status' = "done"
  /\ UNCHANGED <<config, document, walk, errors>>

(* Mutant of Validate: the errors of the former call are kept.             *)
ValidateKeepErrors(d) ==
  /\ status' = "running"
  /\ document' = d
  /\ path' = <<>> /\ caseStack' = <<>> /\ levelStack' = <<>>
  /\ control' = <<Frame("children", root, d, ChildEnforce(root, TRUE))>>
  /\ UNCHANGED <<config, errors>>

(* validate(): everything a former call left behind is reset.              *)
Validate(d) ==
  /\ status' = "running"
  /\ document' = d
  /\ errors' = {} /\ path' = <<>>
  /\ caseStack' = <<>> /\ levelStack' = <<>>
  /\ control' = <<Frame("children", root, d, ChildEnforce(root, TRUE))>>
  /\ UNCHANGED config

ValidateFirst == status = "idle" /\ \E d \in Documents[root] : Validate(d)
ValidateAgain == status \in {"done", "raised"} /\ \E d \in Again[root] : Validate(d)
-----------------------------------------------------------------------------
Init ==
  /\ root \in Roots
  /\ inactive \in SUBSET Gated[root]
  /\ constraintChecks \in BOOLEAN
  /\ status = "idle"
  /\ document = Null
  /\ control = <<>> /\ caseStack = <<>> /\ levelStack = <<>> /\ path = <<>>
  /\ errors = {}

VisitDataNode ==
  \/ SkipInactive \/ SkipWhenFalse \/ SkipAbsent \/ VisitValue
  \/ EnterContainer \/ EnterList \/ RejectDuplicateKey \/ RaiseTypeError

VisitChoice ==
  \/ SkipInactiveChoice \/ SkipChoiceWhenFalse \/ RejectCase
  \/ RejectSeveralCases \/ SkipEmptyChoice \/ EnterCase

Step ==
  \/ VisitDataNode \/ VisitChoice
  \/ VisitEntry \/ FinishEntries \/ FinishCase \/ FinishChildren \/ Return

Next == Step \/ ValidateFirst \/ ValidateAgain

(* Step is the running thread of a call; a caller need not call.           *)
Spec == Init /\ [][Next]_vars /\ WF_vars(Step)
-----------------------------------------------------------------------------
(* Type correctness of the walk's own state (validate, _visit_children,    *)
(* _visit_choice): "children" and "case" activations hold a dict, an       *)
(* "entries" activation a list; the stacks hold cases and dicts.           *)
Activation(f) ==
  /\ f = [op |-> f.op, stmt |-> f.stmt, data |-> f.data, enforce |-> f.enforce,
          next |-> f.next, visited |-> f.visited]
  /\ f.stmt \in Node /\ f.enforce \in BOOLEAN /\ f.next \in Nat \ {0}
  /\ \/ /\ f.op \in {"children", "case"} /\ IsDict(f.data)
        /\ f.visited \subseteq Name \cup DOMAIN f.data.m
     \/ f.op = "entries" /\ IsList(f.data) /\ f.visited = {}

TypeOK ==
  /\ root \in Roots /\ inactive \subseteq Node /\ constraintChecks \in BOOLEAN
  /\ status \in {"idle", "running", "done", "raised"}
  /\ document = Null \/ IsDict(document)
  /\ control \in Seq({control[i] : i \in DOMAIN control})
  /\ \A i \in DOMAIN control : Activation(control[i])
  /\ caseStack \in Seq(Node)
  /\ levelStack \in Seq({levelStack[i] : i \in DOMAIN levelStack})
  /\ \A i \in DOMAIN levelStack : IsDict(levelStack[i])

(* Activations of one kind on the stack s, and the place of the i-th       *)
(* activation among those of the set I.                                    *)
CasesOf(s) == {i \in DOMAIN s : s[i].op = "case"}
NestedOf(s) == {i \in DOMAIN s : i > 1 /\ s[i].op = "children"}
Rank(I, i) == Cardinality({j \in I : j <= i})

(* The case bookkeeping of _visit_choice and its finally clauses follows   *)
(* the recursion exactly: innermost last, one entry per active case, each  *)
(* with the dict the case was entered on; none is left when the call ends. *)
StacksFollowControl ==
  LET cases == CasesOf(control)
  IN  /\ Len(caseStack) = Cardinality(cases) /\ Len(levelStack) = Cardinality(cases)
      /\ \A i \in cases : /\ caseStack[Rank(cases, i)] = control[i].stmt
                          /\ levelStack[Rank(cases, i)] = control[i].data

(* The shared PathBuilder names the position of the walk: one segment per  *)
(* container and list entry on the stack, nothing left after validate().   *)
PathFollowsControl ==
  LET nested == NestedOf(control)
  IN  status # "raised" =>
        /\ Len(path) = Cardinality(nested)
        /\ \A i \in nested :
             LET segment == path[Rank(nested, i)]
             IN  /\ segment[1] = Stmt[control[i].stmt].name
                 /\ Stmt[control[i].stmt].kind = "list" =>
                      segment[2] = KeyTuple(control[i].stmt, control[i].data)

(* Whatever a visit does before it recurses or returns early, what the     *)
(* validator keeps about where it is says where it is.                     *)
StateFollowsControl == StacksFollowControl /\ PathFollowsControl

(* A case on _case_stack has data at its level: the walk enters no case    *)
(* that the document does not select.                                      *)
ActiveCaseHasData ==
  /\ Len(caseStack) = Len(levelStack)
  /\ \A i \in 1 .. Len(caseStack) : CaseHasAnyStmtData(caseStack[i], levelStack[i])

(* validate() ends: every call returns or raises.                          *)
Terminates == status = "running" ~> status \in {"done", "raised"}
=============================================================================
