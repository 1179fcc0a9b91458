-------------------------- MODULE FeatureConditions --------------------------
(***************************************************************************)
(* The pruning of FeaturePruning with conditions that are texts, parsed    *)
(* and evaluated by evaluate_if_feature_expression                         *)
(* (src/xyang/validator/if_feature_eval.py).                               *)
(***************************************************************************)
EXTENDS FeaturePruning, IfFeatureExpr

(* Every condition is a text, and its truth is what the parser makes of it.*)
IsText(e) == e.tokens \in Seq({e.tokens[i] : i \in DOMAIN e.tokens})
ConditionsAreTexts ==
  \A e \in Expr :
    IsText(e) /\ \A S \in SUBSET Declared : Eval(e, S) = EvaluateIfFeature(e, S)

(* Whatever the text of a condition, the parser gives it the value of the  *)
(* grammar, and FALSE where it has none: "strict: node is inactive"        *)
(* (if_feature_eval.py:175).                                               *)
ConditionsRight ==
  pc \in {"round", "done"} =>
    \A f \in Feature : \A e \in reqs[f] :
      ~Misplaced(e) =>
        (Eval(e, Supported(mutable)) <=> TRUE \in Values(e, Supported(mutable)))
=============================================================================
