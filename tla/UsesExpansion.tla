---------------------------- MODULE UsesExpansion ----------------------------
(***************************************************************************)
(* expand_all_uses_in_module (src/xyang/uses_expand.py): every uses of a   *)
(* module is replaced by a copy of its grouping, in the statements of the  *)
(* module and then, in place, in each of its groupings.                    *)
(*                                                                         *)
(* The recursion of expand_uses_in_statements is the stack.  A frame is    *)
(* one activation: what it has still to visit, what it has expanded, the   *)
(* statement whose substatements these are, and its ExpandUsesContext.     *)
(* pending holds the lists of refines not applied yet: a uses begins one,  *)
(* all activations below it share the last.  A copy is independent of its  *)
(* original, which values are by themselves; what copies share (type,      *)
(* when, refines) is nowhere changed.                                      *)
(***************************************************************************)
EXTENDS Integers, SequencesExt

CONSTANTS
  Type,              \* names of typedefs
  Prop,              \* what a refine may replace in a statement
  Refinable,         \* Prop -> the kinds of statements that have it
  None,
  Sources,           \* modules as parsed
  FoundIn(_, _),     \* find_nodes_by_refine_path: how many nodes it finds
  Extended(_, _, _), \* the body with statements added at the node found
  Copyable(_)        \* copy_yang_statement knows every statement of the body

Module == {"m", "l"}    \* the module that is expanded, and one it imports
Kind == {"leaf", "container", "choice", "case", "uses", "typedef", "notification"}
WithMust == {"leaf", "container", "notification"}
WithWhen == Kind \ {"typedef"}

(* A module as parsed: the names of its groupings, in order, the bodies of *)
(* them and of those it imports, and per module a typedef or None by name. *)
ASSUME SourceAssumption ==
  \A s \in Sources :
    /\ DOMAIN s.groupings = Module /\ DOMAIN s.typedefs = Module
    /\ s.order \in Seq(DOMAIN s.groupings["m"])

VARIABLES
  source,      \* the module as parsed, fixed
  body,        \* module.statements
  groupings,   \* per module: the bodies of its groupings
  typedefs,    \* per module: typedef name -> the typedef found under it
  stack, pending,
  next,        \* the place in source.order of the grouping to expand next
  status       \* "running", "ok" or the exception raised

vars == <<source, body, groupings, typedefs, stack, pending, next, status>>
-----------------------------------------------------------------------------
(* Statements.                                                             *)

NoProps == [p \in Prop |-> None]

Stmt(kind, name) ==
  [kind |-> kind, name |-> name,
   subs |-> <<>>, cases |-> <<>>,             \* cases: of a choice
   when |-> {}, parent |-> FALSE, feats |-> {}, musts |-> {}, props |-> NoProps,
   prefix |-> None, grouping |-> None, refines |-> <<>>, augs |-> <<>>]

(* apply_refine_to_node: what the statement does not have is ignored.      *)
Apply(s, r) ==
  [s EXCEPT
     !.props = [p \in Prop |-> IF r.props[p] # None /\ s.kind \in Refinable[p]
                               THEN r.props[p] ELSE @[p]],
     !.musts = @ \cup (IF s.kind \in WithMust THEN r.musts ELSE {}),
     !.feats = @ \cup (IF s.kind \in WithWhen THEN r.feats ELSE {})]

(* _refine_target_matches_stmt_path: the end of the path will do.          *)
Matches(r, path) == path # <<>> /\ IsSuffix(r.path, path)

(* _apply_refines_matching_path: from the last to the first.               *)
Refined(s, path, refines) ==
  FoldRight(LAMBDA r, t : Apply(t, r), SelectSeq(refines, LAMBDA r : Matches(r, path)), s)

(* Mutant of Unapplied: what is applied is not taken out.                  *)
UnappliedAll(path, refines) == refines

Unapplied(path, refines) == SelectSeq(refines, LAMBDA r : ~Matches(r, path))

(* _merge_uses_if_features_..., _merge_uses_when_into_grouping_roots: the  *)
(* conditions of a uses or augment go to each root, and take the root's    *)
(* own when along to the context of the parent.                            *)
Gated(roots, from) ==
  [i \in DOMAIN roots |->
     IF roots[i].kind \notin WithWhen THEN roots[i]
     ELSE [roots[i] EXCEPT !.feats = @ \cup from.feats,
                           !.when = @ \cup from.when,
                           !.parent = @ \/ from.when # {}]]

Untyped(b) == SelectSeq(b, LAMBDA s : s.kind # "typedef")
TypedefsIn(b) == {s.name : s \in {t \in ToSet(b) : t.kind = "typedef"}}
-----------------------------------------------------------------------------
(* The innermost activation.                                               *)

Frame(how, s, k, todo, module, chain, prefix, target) ==
  [how |-> how, stmt |-> s, case |-> k, todo |-> todo, out |-> <<>>,
   module |-> module, chain |-> chain, prefix |-> prefix, target |-> target]

Running == stack # <<>>
Top == Last(stack)
Reading == Running /\ Top.todo # <<>>
AtEnd == Running /\ Top.todo = <<>>
Refines == Last(pending)

(* get_schema_node: a uses or typedef adds no segment to the path.         *)
Here == IF Head(Top.todo).kind \in {"uses", "typedef"} THEN Top.prefix
        ELSE Append(Top.prefix, Head(Top.todo).name)

(* Mutant of Current: the copy is not what is refined.                     *)
CurrentUnrefined == Head(Top.todo)

Current == Refined(Head(Top.todo), Here, Refines)
At(kind) == Reading /\ Head(Top.todo).kind = kind
RefinesLeft == Unapplied(Here, Refines)
PendingLeft == Append(Front(pending), RefinesLeft)

(* ctx.reg_module, where the typedefs of an activation are registered.     *)
Registry == IF Top.target = None THEN Top.module ELSE Top.target

Child(how, s, k, todo, prefix) ==
  Frame(how, s, k, todo, Top.module, Top.chain, prefix, Registry)

(* The visited statement is done; stmts is what it became.                 *)
Advanced(st, stmts) ==
  [st EXCEPT ![Len(st)].todo = Tail(@), ![Len(st)].out = @ \o stmts]

(* Mutant of Registered: typedefs of another module are left there.        *)
RegisteredOwn(target, from, names) ==
  [typedefs EXCEPT ![target] =
     [t \in Type |-> IF t \in names /\ @[t] = None /\ target = from
                     THEN typedefs[from][t] ELSE @[t]]]

(* _register_typedef_for_uses: a name that is taken stays what it is.      *)
Registered(target, from, names) ==
  [typedefs EXCEPT ![target] =
     [t \in Type |-> IF t \in names /\ @[t] = None THEN typedefs[from][t] ELSE @[t]]]

Fail(error) ==
  /\ status' = error /\ stack' = <<>>
  /\ UNCHANGED <<source, body, groupings, typedefs, pending, next>>
-----------------------------------------------------------------------------
(* Visiting a statement.                                                   *)

VisitTypedef ==
  /\ At("typedef")
  /\ pending' = PendingLeft
  /\ IF Top.target = None
     THEN stack' = Advanced(stack, <<Current>>) /\ UNCHANGED typedefs
     ELSE /\ stack' = Advanced(stack, <<>>)
          /\ typedefs' = Registered(Registry, Top.module, {Current.name})
  /\ UNCHANGED <<source, body, groupings, next, status>>

Descend ==
  /\ Reading /\ Head(Top.todo).kind \notin {"typedef", "uses", "choice"}
  /\ pending' = PendingLeft
  /\ stack' = Append(stack, Child("body", Current, 0, Current.subs, Here))
  /\ UNCHANGED <<source, body, groupings, typedefs, next, status>>

(* Case k of choice s: refined, then walked.                               *)
EnterCase(st, s, k, prefix, lists, module, chain, target) ==
  LET path == Append(prefix, s.cases[k].name)
      c == Refined(s.cases[k], path, Last(lists))
  IN  /\ stack' = Append(st, Frame("case", [s EXCEPT !.cases[k] = c], k, c.subs,
                                   module, chain, path, target))
      /\ pending' = Append(Front(lists), Unapplied(path, Last(lists)))

(* Mutant of VisitChoice: the statements of the cases are not walked.      *)
VisitChoiceOnly ==
  /\ At("choice")
  /\ stack' = Advanced(stack, <<Current>>) /\ pending' = PendingLeft
  /\ UNCHANGED <<source, body, groupings, typedefs, next, status>>

VisitChoice ==
  /\ At("choice")
  /\ IF Current.cases = <<>>
     THEN stack' = Advanced(stack, <<Current>>) /\ pending' = PendingLeft
     ELSE EnterCase(stack, Current, 1, Here, PendingLeft, Top.module, Top.chain, Registry)
  /\ UNCHANGED <<source, body, groupings, typedefs, next, status>>
-----------------------------------------------------------------------------
(* uses: _expand_one_uses_stmt.                                            *)

(* resolve_prefixed_module, get_grouping.  The imported module imports     *)
(* nothing; its own prefix is not written.                                 *)
ModuleOf(module, s) ==
  CASE s.prefix \in {None, module} -> module
    [] module = "m" /\ s.prefix = "l" -> "l"
    [] OTHER -> None
Home == ModuleOf(Top.module, Current)
Resolved == Home # None /\ Current.grouping \in DOMAIN groupings[Home]
Definition == groupings[Home][Current.grouping]
QName == <<Current.prefix, Current.grouping>>

(* A warning is logged; refines and augments of the uses go unheard.       *)
UnknownGrouping ==
  /\ At("uses") /\ ~Resolved
  /\ pending' = PendingLeft /\ stack' = Advanced(stack, <<>>)
  /\ UNCHANGED <<source, body, groupings, typedefs, next, status>>

(* Mutant of CircularUses: only a grouping that uses itself is circular.   *)
CircularUsesDirect ==
  /\ At("uses") /\ Resolved /\ Top.chain # <<>> /\ QName = Last(Top.chain)
  /\ Fail("circular")

CircularUses ==
  At("uses") /\ Resolved /\ QName \in ToSet(Top.chain) /\ Fail("circular")

CannotCopy ==
  /\ At("uses") /\ Resolved /\ QName \notin ToSet(Top.chain)
  /\ ~Copyable(Untyped(Definition))
  /\ Fail("copy")

(* Mutant of EnterUses: whether the grouping is in the chain is not asked. *)
EnterUsesAgain ==
  /\ At("uses") /\ Resolved /\ Len(Top.chain) < 3
  /\ Copyable(Untyped(Definition))
  /\ typedefs' = Registered(Top.module, Home, TypedefsIn(Definition))
  /\ pending' = Append(PendingLeft, Current.refines)
  /\ stack' = Append(stack, Frame("uses", Current, 0, Gated(Untyped(Definition), Current),
                                  Home, Append(Top.chain, QName), <<>>, Top.module))
  /\ UNCHANGED <<source, body, groupings, next, status>>

(* The grouping is walked with the refines of the uses.  Its paths go on   *)
(* from here only if there are refines of an outer uses left.              *)
EnterUses ==
  /\ At("uses") /\ Resolved /\ QName \notin ToSet(Top.chain)
  /\ Copyable(Untyped(Definition))
  /\ typedefs' = Registered(Top.module, Home, TypedefsIn(Definition))
  /\ pending' = Append(PendingLeft, Current.refines)
  /\ stack' = Append(stack, Frame("uses", Current, 0, Gated(Untyped(Definition), Current),
                                  Home, Append(Top.chain, QName),
                                  IF RefinesLeft # <<>> THEN Top.prefix ELSE <<>>,
                                  Top.module))
  /\ UNCHANGED <<source, body, groupings, next, status>>

RefineTargetNotFound ==
  AtEnd /\ Top.how = "uses" /\ Refines # <<>> /\ Fail("refine")

(* _apply_uses_augmentations, in turn: each sees the ones before.          *)
Augmented ==
  FoldLeft(LAMBDA b, a :
             IF b = None \/ FoundIn(b, a.path) # 1 THEN None
             ELSE Extended(b, a.path, Gated(a.subs, a)),
           Top.out, Top.stmt.augs)

AugmentTargetNotFound ==
  AtEnd /\ Top.how = "uses" /\ Refines = <<>> /\ Augmented = None /\ Fail("augment")

(* Mutant of LeaveUses: the list of refines stays.                         *)
LeaveUsesKeepRefines ==
  /\ AtEnd /\ Top.how = "uses" /\ Refines = <<>> /\ Augmented # None
  /\ LET user == stack[Len(stack) - 1]
     IN  stack' = Append(Front(stack),
                    Frame("splice", Top.stmt, 0, Augmented, user.module, user.chain,
                          user.prefix, IF user.target = None THEN user.module ELSE user.target))
  /\ UNCHANGED <<source, body, groupings, typedefs, pending, next, status>>

(* The result is walked again, with the refines of the outer uses.         *)
LeaveUses ==
  /\ AtEnd /\ Top.how = "uses" /\ Refines = <<>> /\ Augmented # None
  /\ LET user == stack[Len(stack) - 1]
     IN  stack' = Append(Front(stack),
                    Frame("splice", Top.stmt, 0, Augmented, user.module, user.chain,
                          user.prefix, IF user.target = None THEN user.module ELSE user.target))
  /\ pending' = Front(pending)
  /\ UNCHANGED <<source, body, groupings, typedefs, next, status>>
-----------------------------------------------------------------------------
(* Leaving an activation.                                                  *)

LeaveBody ==
  /\ AtEnd /\ Top.how = "body"
  /\ stack' = Advanced(Front(stack), <<[Top.stmt EXCEPT !.subs = Top.out]>>)
  /\ UNCHANGED <<source, body, groupings, typedefs, pending, next, status>>

LeaveCase ==
  /\ AtEnd /\ Top.how = "case"
  /\ LET s == [Top.stmt EXCEPT !.cases[Top.case].subs = Top.out]
     IN  IF Top.case = Len(s.cases)
         THEN stack' = Advanced(Front(stack), <<s>>) /\ UNCHANGED pending
         ELSE EnterCase(Front(stack), s, Top.case + 1, Front(Top.prefix), pending,
                        Top.module, Top.chain, Top.target)
  /\ UNCHANGED <<source, body, groupings, typedefs, next, status>>

LeaveSplice ==
  /\ AtEnd /\ Top.how = "splice"
  /\ stack' = Advanced(Front(stack), Top.out)
  /\ UNCHANGED <<source, body, groupings, typedefs, pending, next, status>>

(* expand_all_uses_in_module: the module, then its groupings one by one,   *)
(* each seeing the ones before as expanded already.                        *)
Root(todo) == Frame("root", Stmt("container", None), 0, todo, "m", <<>>, <<>>, None)

LeaveRoot ==
  /\ AtEnd /\ Top.how = "root"
  /\ IF next = 1 THEN body' = Top.out /\ UNCHANGED groupings
     ELSE /\ groupings' = [groupings EXCEPT !["m"][source.order[next - 1]] = Top.out]
          /\ UNCHANGED body
  /\ IF next > Len(source.order)
     THEN status' = "ok" /\ stack' = <<>> /\ UNCHANGED next
     ELSE /\ stack' = <<Root(groupings["m"][source.order[next]])>>
          /\ next' = next + 1 /\ UNCHANGED status
  /\ UNCHANGED <<source, typedefs, pending>>
-----------------------------------------------------------------------------
Init ==
  /\ source \in Sources
  /\ body = source.body /\ groupings = source.groupings /\ typedefs = source.typedefs
  /\ stack = <<Root(source.body)>> /\ pending = << <<>> >>
  /\ next = 1 /\ status = "running"

Next ==
  \/ VisitTypedef \/ Descend \/ VisitChoice
  \/ UnknownGrouping \/ CircularUses \/ CannotCopy \/ EnterUses
  \/ RefineTargetNotFound \/ AugmentTargetNotFound \/ LeaveUses
  \/ LeaveBody \/ LeaveCase \/ LeaveSplice \/ LeaveRoot

(* One thread expands a module to the end.                                 *)
Spec == Init /\ [][Next]_vars /\ WF_vars(Next)
-----------------------------------------------------------------------------
Done == status # "running"

(* The activations of _expand_one_uses_stmt on the stack s.                *)
UsesOf(s) == {i \in DOMAIN s : s[i].how = "uses"}

(* The types stay in their sets: every grouping of the source is kept, a   *)
(* typedef is one of the declared ones, and there is a list of refines for *)
(* the root and for each uses entered.                                     *)
TypeOK ==
  /\ status \in {"running", "ok", "circular", "copy", "refine", "augment"}
  /\ \A mod \in Module : DOMAIN groupings[mod] = DOMAIN source.groupings[mod]
  /\ \A mod \in Module, t \in Type :
       typedefs[mod][t] \in {None} \cup {source.typedefs[n][t] : n \in Module}
  /\ Running => Len(pending) = 1 + Cardinality(UsesOf(stack))
  /\ next \in 1..(1 + Len(source.order))

(* However groupings use each other, also when their expansion fails: no   *)
(* more uses are in progress at a time than groupings have names, of which *)
(* a grouping has three, with either prefix or none.                       *)
UsesBounded ==
  LET names == UNION {DOMAIN source.groupings[mod] : mod \in Module}
  IN  IsFiniteSet(names) => Cardinality(UsesOf(stack)) <= 3 * Cardinality(names)

(* A chain holds no grouping twice: what bounds the recursion of           *)
(* _expand_one_uses_stmt on circular groupings.                            *)
ChainDistinct == \A i \in DOMAIN stack : IsInjective(stack[i].chain)
=============================================================================
