--------------------------- MODULE FeatureInference ---------------------------
(***************************************************************************)
(* infer_required_features (src/xyang/validator/infer_required_features.py)*)
(* on the schema of one module, and what its result is for: an override    *)
(* for FeaturePruning, under which the instance's nodes are all active.    *)
(* Conditions are texts (FeatureConditions).                               *)
(*                                                                         *)
(* A statement is [kind, name, owner, gates, subs]: kind "choice", "case", *)
(* "container", "list" or "leaf" (leaf-list, anydata and anyxml as well),  *)
(* owner its defining_module or "", gates its if-features as token         *)
(* sequences.  An object is [is |-> "object", of |-> f] with f a function  *)
(* from members <<qualifier or "", name>>, an array [is |-> "array", of],  *)
(* anything else [is |-> "scalar"].                                        *)
(***************************************************************************)
EXTENDS FeatureConditions

CONSTANTS
  Root,       \* the module an instance belongs to
  Schema,     \* its statements, a set: the order decides no result
  Instances,  \* the objects inferred from
  Fitting     \* those whose members and shapes are the schema's

ASSUME TextAssumption == ConditionsAreTexts

Owner(stmt, ctx) == IF stmt.owner = "" THEN ctx ELSE stmt.owner
Condition(ctx, tokens) == [ctx |-> ctx, tokens |-> tokens]
Gates(stmt, ctx) == {Condition(ctx, t) : t \in stmt.gates}
-----------------------------------------------------------------------------
(* A result is [ok, features]; ok is FALSE when ValueError is raised.      *)

Features(fs) == [ok |-> TRUE, features |-> fs]
Unsupported == [ok |-> FALSE, features |-> {}]
Together(results) ==
  IF \A r \in results : r.ok THEN Features(UNION {r.features : r \in results}) ELSE Unsupported

(* The split at "and" into atoms that are identifiers.                     *)
Splits(tokens) ==
  /\ Len(tokens) % 2 = 1
  /\ \A i \in DOMAIN tokens :
       IF i % 2 = 0 THEN tokens[i] = Word("and") ELSE tokens[i] \notin Reserved

Atoms(tokens) == {tokens[i] : i \in {i \in DOMAIN tokens : i % 2 = 1}}

RECURSIVE AddConditions(_, _)
(* Mutant of AddFeature: the feature without its prerequisites.            *)
AddFeatureAlone(key, active) == IF key \notin Declared THEN Unsupported ELSE Features({key})

(* A feature is added with its prerequisites; the one being added again is *)
(* a cycle.                                                                *)
AddFeature(key, active) ==
  IF key \notin Declared \/ key \in active THEN Unsupported
  ELSE LET below == AddConditions(reqs[key], active \cup {key})
       IN  IF below.ok THEN Features(below.features \cup {key}) ELSE Unsupported

AddConditions(conditions, active) ==
  Together(UNION {IF ~Splits(c.tokens) THEN {Unsupported}
                  ELSE {IF Reference(c.ctx, a) = {} THEN Unsupported
                        ELSE LET key == CHOOSE f \in Reference(c.ctx, a) : TRUE
                             IN  AddFeature(key, active) : a \in Atoms(c.tokens)}
                  : c \in conditions})

(* entries: the data nodes of a level with the conditions of the choices   *)
(* and cases around them; an unknown defining module has no context.       *)
RECURSIVE Entries(_, _, _)
Entries(statements, ctx, gates) ==
  UNION {LET local == Owner(s, ctx)
         IN  IF s.kind \in {"choice", "case"}
             THEN Entries(s.subs, local, gates \cup Gates(s, local))
             ELSE {[stmt |-> s, ctx |-> local, gates |-> gates \cup Gates(s, local)]}
         : s \in statements}
RECURSIVE Known(_, _)
Known(statements, ctx) ==
  \A s \in statements : /\ Owner(s, ctx) \in Module
                        /\ s.kind \in {"choice", "case"} => Known(s.subs, Owner(s, ctx))

(* A member that is not the name of exactly one node matches none.         *)
Matches(member, statements, ctx) ==
  {n \in Entries(statements, ctx, {}) :
     member = <<n.ctx, n.stmt.name>> \/ (member = <<"", n.stmt.name>> /\ n.ctx = ctx)}

RECURSIVE Walk(_, _, _)
Below(node, child) ==
  CASE node.stmt.kind = "list" /\ child.is # "array" -> {Unsupported}
    [] node.stmt.kind = "list" /\ child.is = "array" ->
         {Walk(node.stmt.subs, child.of[i], node.ctx) : i \in DOMAIN child.of}
    [] node.stmt.kind = "container" -> {Walk(node.stmt.subs, child, node.ctx)}
    [] OTHER -> {}
Walk(statements, value, ctx) ==
  IF value.is # "object" \/ ~Known(statements, ctx) THEN Unsupported
  ELSE Together(UNION {
         LET found == Matches(member, statements, ctx)
             node == CHOOSE n \in found : TRUE
         IN  IF \E n \in found : found = {n}
             THEN {AddConditions(node.gates, {})} \cup Below(node, value.of[member])
             ELSE {Unsupported}
         : member \in DOMAIN value.of})

InferRequiredFeatures(instance) == Walk(Schema, instance, Root)
-----------------------------------------------------------------------------
(* The conditions on the way to the nodes of an instance.                  *)
RECURSIVE Encountered(_, _, _)
Encountered(statements, value, ctx) ==
  UNION {UNION {n.gates \cup
                (CASE n.stmt.kind = "container" -> Encountered(n.stmt.subs, value.of[member], n.ctx)
                   [] n.stmt.kind = "list" ->
                        UNION {Encountered(n.stmt.subs, value.of[member].of[i], n.ctx)
                               : i \in DOMAIN value.of[member].of}
                   [] OTHER -> {})
                : n \in Matches(member, statements, ctx)}
         : member \in DOMAIN value.of}

Holds(conditions, S) == \A c \in conditions : Eval(c, Supported(S))
ReferencesOf(conditions) ==
  UNION {UNION {Reference(c.ctx, a) : a \in Atoms(c.tokens)} : c \in conditions}
Prerequisites(S) == ReferencesOf(UNION {reqs[f] : f \in S})
Needed(gates) ==
  {f \in Feature : \A T \in SUBSET Feature :
     ReferencesOf(gates) \cup Prerequisites(T) \subseteq T => f \in T}
Cyclic(S) == \E T \in SUBSET S : T # {} /\ T \subseteq Prerequisites(T)
Conjunctive(conditions) ==
  \A c \in conditions :
    Splits(c.tokens) /\ \A a \in Atoms(c.tokens) : Reference(c.ctx, a) \cap Declared # {}

(* "The minimum feature requirements" (README.md:304): the features        *)
(* inferred are the least that support each other and make every node of   *)
(* the instance active, and a validator that is given just these keeps     *)
(* them all.  It gives up only on members the schema has not, conditions   *)
(* that are no conjunctions of features, and features that need themselves.*)
InferredExact ==
  pc = "done" =>
    \A instance \in Instances :
      LET r == InferRequiredFeatures(instance)
          gates == Encountered(Schema, instance, Root)
          needed == Needed(gates)
      IN  given = InitialMap(Module, r.features) =>
            IF r.ok
            THEN /\ instance \in Fitting
                 /\ Holds(gates, mutable)
                 /\ \A S \in SUBSET Declared :
                      Consistent(S) /\ Holds(gates, S) => r.features \subseteq S
            ELSE instance \in Fitting =>
                   \/ ~Conjunctive(gates \cup UNION {reqs[f] : f \in needed})
                   \/ Cyclic(needed)
=============================================================================
