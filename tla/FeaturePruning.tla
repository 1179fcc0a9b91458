--------------------------- MODULE FeaturePruning ---------------------------
(***************************************************************************)
(* build_enabled_features_map and _prune_per_feature_if_features           *)
(* (src/xyang/validator/if_feature_eval.py): from the features a caller    *)
(* enables to the features the validator takes as supported, by dropping,  *)
(* round after round, those whose own if-feature statements fail.          *)
(*                                                                         *)
(* A feature is a pair <<module, name>>, so the map from module names to   *)
(* sets of names is a set of features.  An if-feature expression is a      *)
(* member of Expr; Eval(e, S) is its value when exactly the features of S  *)
(* are supported (evaluate_if_feature_expression on the text).             *)
(***************************************************************************)
EXTENDS Naturals

CONSTANTS
  Module,      \* the reachable modules
  Feature,     \* <<module, name>> pairs a map may hold
  Declared,    \* those some module declares (module.features)
  Expr,        \* if-feature expressions, resolved in their module
  Eval(_, _)   \* truth of an expression given the supported features

ASSUME FeatureAssumption ==
  /\ \A f \in Feature : f = <<f[1], f[2]>> /\ f[1] \in Module
  /\ Declared \subseteq Feature

ASSUME EvalAssumption == \A e \in Expr : \A S \in SUBSET Declared : Eval(e, S) \in BOOLEAN

VARIABLES
  reqs,      \* feature_if_features: feature -> its if-feature expressions
  given,     \* the map before pruning
  mutable,   \* the features still enabled
  frozen,    \* their snapshot at the start of the round
  todo,      \* features the round has still to look at
  changed,   \* the round has dropped one
  pc         \* "round", "check" or "done"

vars == <<reqs, given, mutable, frozen, todo, changed, pc>>

(* feature_is_supported: a name that is enabled but declared nowhere is    *)
(* not a supported feature.                                                *)
Supported(enabled) == enabled \cap Declared

(* stmt_if_features_satisfied: every if-feature of the statement holds.    *)
Satisfied(f, enabled) == \A e \in reqs[f] : Eval(e, Supported(enabled))

(* The map the pruning starts from: the caller's choice for the modules it *)
(* lists, every declared feature for the others.                           *)
InitialMap(overridden, chosen) ==
  {f \in Feature : IF f[1] \in overridden THEN f \in chosen ELSE f \in Declared}

Init ==
  /\ reqs \in [Feature -> SUBSET Expr]
  /\ \A f \in Feature \ Declared : reqs[f] = {}
  /\ \E overridden \in SUBSET Module, chosen \in SUBSET Feature :
       given = InitialMap(overridden, chosen)
  /\ mutable = given
  /\ frozen = {} /\ todo = {} /\ changed = FALSE
  /\ pc = "round"

(* Mutant of BeginRound: the snapshot holds the declared features only.    *)
BeginRoundDeclared ==
  /\ pc = "round"
  /\ frozen' = Supported(mutable) /\ todo' = mutable /\ changed' = FALSE
  /\ pc' = "check"
  /\ UNCHANGED <<reqs, given, mutable>>

(* while changed: changed = False, frozen = a copy of the map.             *)
BeginRound ==
  /\ pc = "round"
  /\ frozen' = mutable /\ todo' = mutable /\ changed' = FALSE
  /\ pc' = "check"
  /\ UNCHANGED <<reqs, given, mutable>>

(* Mutant of Keep: a kept feature is looked at again.                      *)
KeepInTodo(f) ==
  /\ pc = "check" /\ f \in todo
  /\ Satisfied(f, frozen)
  /\ UNCHANGED vars

Keep(f) ==
  /\ pc = "check" /\ f \in todo
  /\ Satisfied(f, frozen)
  /\ todo' = todo \ {f}
  /\ UNCHANGED <<reqs, given, mutable, frozen, changed, pc>>

(* Mutant of Drop: one failing feature takes its whole module along.       *)
DropModule(f) ==
  /\ pc = "check" /\ f \in todo
  /\ ~Satisfied(f, frozen)
  /\ mutable' = {g \in mutable : g[1] # f[1]}
  /\ changed' = TRUE
  /\ todo' = todo \ {f}
  /\ UNCHANGED <<reqs, given, frozen, pc>>

(* The conditions are evaluated on the snapshot, so the order in which a   *)
(* round meets the features (a Python set's) makes no difference.          *)
Drop(f) ==
  /\ pc = "check" /\ f \in todo
  /\ ~Satisfied(f, frozen)
  /\ mutable' = mutable \ {f}
  /\ changed' = TRUE
  /\ todo' = todo \ {f}
  /\ UNCHANGED <<reqs, given, frozen, pc>>

(* Mutant of EndRound: one round, whatever it dropped.                     *)
EndAfterOneRound ==
  /\ pc = "check" /\ todo = {}
  /\ pc' = "done"
  /\ UNCHANGED <<reqs, given, mutable, frozen, todo, changed>>

EndRound ==
  /\ pc = "check" /\ todo = {}
  /\ pc' = IF changed THEN "round" ELSE "done"
  /\ UNCHANGED <<reqs, given, mutable, frozen, todo, changed>>

Next ==
  \/ BeginRound
  \/ \E f \in Feature : Keep(f) \/ Drop(f)
  \/ EndRound

(* One thread runs the loop to its end.                                    *)
Spec == Init /\ [][Next]_vars /\ WF_vars(Next)
-----------------------------------------------------------------------------
TypeOK ==
  /\ reqs \in [Feature -> SUBSET Expr]
  /\ given \subseteq Feature
  /\ mutable \subseteq given
  /\ frozen \subseteq given
  /\ todo \subseteq frozen
  /\ changed \in BOOLEAN
  /\ pc \in {"round", "check", "done"}

Consistent(S) == \A f \in S : Satisfied(f, S)

(* "Drop feature names whose own if-feature substatements fail" (line 208):*)
(* in the map the validator works with no enabled feature is left whose    *)
(* condition fails under that same map.                                    *)
ResultConsistent == pc = "done" => Consistent(mutable)

MonotoneAt(f) ==
  \A S, T \in SUBSET Feature :
    S \subseteq T => (Satisfied(f, S) => Satisfied(f, T))

Monotone == \A f \in Feature : MonotoneAt(f)

(* With conditions without "not", nothing is dropped needlessly: every set *)
(* of requested features that supports itself survives, so the result is   *)
(* the greatest one, the same in whatever order modules and sets are read. *)
GreatestConsistent ==
  pc = "done" /\ Monotone => \A S \in SUBSET given : Consistent(S) => S \subseteq mutable

Smaller(S, T) == S \subseteq T /\ S # T

(* Every step brings the end nearer, also with conditions that use "not":  *)
(* each further round looks at fewer features than the one before, within  *)
(* a round fewer are left to look at, and a round that dropped none is the *)
(* last.                                                                   *)
StepsDescend ==
  \/ pc = "round" /\ pc' = "check" /\ (changed => Smaller(frozen', frozen))
  \/ pc = "check" /\ pc' = "check" /\ frozen' = frozen /\ Smaller(todo', todo)
  \/ /\ pc = "check" /\ todo = {} /\ frozen' = frozen
     /\ IF changed THEN pc' = "round" /\ changed' ELSE pc' = "done" /\ mutable = frozen

(* The loop ends: every round but the last drops a feature.                *)
Terminates == <>(pc = "done")
=============================================================================
