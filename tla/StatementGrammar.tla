--------------------------- MODULE StatementGrammar ---------------------------
(***************************************************************************)
(* What each parse_<kw> of src/xyang/parser accepts: the kinds of token its *)
(* argument may be, the dispatch table of its block, whether the block     *)
(* takes uses of extensions, and which substatements it parses only to     *)
(* drop them, for the statement's class has no field for them.             *)
(***************************************************************************)
EXTENDS TLC

Data == {"leaf", "leaf-list", "container", "list", "anydata", "anyxml"}
Inline == Data \cup {"choice"}
Metadata == {"description", "reference", "units", "status"}
DataNode == Metadata \cup {"config", "typedef"}
Conditions == {"when", "if-feature"}
Linkage == {"yang-version", "import", "include", "revision", "feature", "extension",
            "typedef", "identity", "grouping", "augment", "notification"}
Documented == {"description", "reference"}
Unsupported == {"deviation", "action"}

Numbers == {"INTEGER", "DOTTED_NUMBER"}
LBRACE == "{"
RBRACE == "}"
SEMICOLON == ";"
COLON == ":"
SLASH == "/"
Braces == {LBRACE, RBRACE}
AnyKind ==
  Braces \cup Numbers \cup {SEMICOLON, COLON, SLASH, "=", "+", "STRING", "IDENTIFIER"}
Name == {"IDENTIFIER"}
Quoted == {"STRING"}

Rule(argument, block) ==
  [argument |-> argument, block |-> block, extensions |-> TRUE, drops |-> {}]
Closed(rule) == [rule EXCEPT !.extensions = FALSE]
Dropping(drops, rule) == [rule EXCEPT !.drops = drops]
Single(argument) == Closed(Rule(argument, {}))

-----------------------------------------------------------------------------
(* Modules and what stands at their top.                                   *)

ModuleRule ==
  Rule(Name, Data \cup Linkage \cup
    {"rpc", "description", "namespace", "prefix", "organization", "contact"})
SubmoduleRule == Rule(Name, Data \cup Linkage \cup {"belongs-to"})
BelongsToRule == Closed(Dropping({"prefix"}, Rule(Name, {"prefix"})))
ImportRule == Dropping(Documented, Rule(Name, Documented \cup {"prefix", "revision-date"}))
IncludeRule == Dropping(Documented \cup {"prefix"}, ImportRule)
RevisionRule == Closed(Rule(AnyKind, Documented))
FeatureRule == Closed(Dropping(Documented, Rule(Name, Documented \cup {"if-feature"})))
IfFeatureRule == Closed(Dropping({"description"}, Rule(Quoted, Documented)))
ExtensionRule ==
  Closed(Dropping({"if-feature"}, Rule(Name, Documented \cup {"if-feature", "argument"})))
ArgumentRule == Closed(Rule(Quoted \cup Name, {"yin-element"}))
IdentityRule == Rule(Name, Metadata \cup {"base", "if-feature"})
TypedefRule == Closed(Rule(Name, Metadata \cup {"type", "default"}))
GroupingRule ==
  Dropping({"must"} \cup Conditions,
    Rule(AnyKind, Metadata \cup Inline \cup Conditions \cup
      {"typedef", "grouping", "uses", "must", "notification"}))
ModuleFields ==
  "yang-version" :> Single(Name \cup {"DOTTED_NUMBER"})
  @@ [kw \in {"namespace", "organization", "contact"} |-> Single(Quoted)]
  @@ "prefix" :> Single(Quoted \cup Name)

-----------------------------------------------------------------------------
(* Data nodes.                                                             *)

ContainerRule ==
  Rule(AnyKind, DataNode \cup Inline \cup Conditions \cup
    {"presence", "must", "uses", "notification"})
ListRule ==
  Rule(AnyKind, DataNode \cup Inline \cup Conditions \cup
    {"key", "min-elements", "max-elements", "ordered-by", "must", "uses", "notification"})
LeafRule ==
  Rule(AnyKind, DataNode \cup Conditions \cup {"type", "mandatory", "default", "must"})
LeafListRule ==
  Rule(AnyKind, DataNode \cup Conditions \cup
    {"type", "min-elements", "max-elements", "ordered-by", "must"})
ChoiceRule ==
  Rule(AnyKind, DataNode \cup Conditions \cup {"case", "mandatory"})
CaseRule == Rule(AnyKind, DataNode \cup Inline \cup Conditions \cup {"uses"})
AnydataRule == Closed(Rule(AnyKind, DataNode \cup Conditions \cup {"must", "mandatory"}))
AnyxmlRule == AnydataRule
NotificationRule ==
  Rule(AnyKind, Metadata \cup Inline \cup Conditions \cup {"typedef", "must", "uses"})
IoRule == [NotificationRule EXCEPT !.argument = {}]
RpcRule == Rule(AnyKind, Metadata \cup Conditions \cup {"must", "input", "output"})
UsesRule == Rule(AnyKind, Metadata \cup Conditions \cup {"refine", "augment"})
RefineRule ==
  Closed(Rule(AnyKind, DataNode \cup
    {"must", "min-elements", "max-elements", "ordered-by", "mandatory", "default",
     "if-feature", "type"}))
AugmentRule ==
  Closed(Dropping({"must"}, Rule(Quoted, DataNode \cup Inline \cup Conditions \cup
    {"uses", "case", "must", "notification"})))
ExtensionUseRule ==
  Rule(AnyKind, Inline \cup Conditions \cup Documented \cup {"must", "uses", "case"})
DataFields ==
  "key" :> Single(Quoted \cup Name)
  @@ [kw \in {"min-elements", "max-elements"} |-> Single({"INTEGER"})]
  @@ "default" :> Single(Quoted \cup Name \cup {"INTEGER"})
  @@ [kw \in {"presence"} \cup Documented |-> Single(Quoted)]

-----------------------------------------------------------------------------
(* Types and conditions.                                                   *)

TypeRule ==
  Closed(Dropping(Documented, Rule(AnyKind, Documented \cup
    {"type", "pattern", "length", "range", "fraction-digits", "enum", "bit", "path",
     "require-instance", "base", "units"})))
EnumRule ==
  Dropping(Documented \cup {"if-feature"},
    Rule(AnyKind, Documented \cup {"if-feature", "value", "status"}))
BitRule == Closed(Rule(AnyKind, Documented \cup {"position"}))
PatternRule ==
  Dropping(Documented,
    Rule(Quoted, Documented \cup {"error-message", "error-app-tag", "modifier"}))
TypeFields ==
  [kw \in {"fraction-digits", "position", "value"} |-> Single({"INTEGER"})]
  @@ "error-app-tag" :> Single(Quoted)
MustRule == Closed(Rule(Quoted, Documented \cup {"error-message"}))
WhenRule == Closed(Rule(Quoted, Documented))
ErrorMessageRule == Single(Quoted)

-----------------------------------------------------------------------------
BlockRules ==
  "belongs-to" :> BelongsToRule
  @@ "import" :> ImportRule @@ "include" :> IncludeRule @@ "revision" :> RevisionRule
  @@ "feature" :> FeatureRule @@ "if-feature" :> IfFeatureRule
  @@ "extension" :> ExtensionRule @@ "argument" :> ArgumentRule
  @@ "identity" :> IdentityRule @@ "typedef" :> TypedefRule @@ "grouping" :> GroupingRule
  @@ "container" :> ContainerRule @@ "list" :> ListRule @@ "leaf" :> LeafRule
  @@ "leaf-list" :> LeafListRule @@ "choice" :> ChoiceRule @@ "case" :> CaseRule
  @@ "anydata" :> AnydataRule @@ "anyxml" :> AnyxmlRule
  @@ "notification" :> NotificationRule @@ "rpc" :> RpcRule
  @@ [kw \in {"input", "output"} |-> IoRule]
  @@ "uses" :> UsesRule @@ "refine" :> RefineRule @@ "augment" :> AugmentRule
  @@ "prefix:name" :> ExtensionUseRule
  @@ "type" :> TypeRule @@ "enum" :> EnumRule @@ "bit" :> BitRule @@ "pattern" :> PatternRule
  @@ "must" :> MustRule @@ "when" :> WhenRule @@ "error-message" :> ErrorMessageRule
  @@ ModuleFields @@ DataFields @@ TypeFields

Grammar ==
  [kw \in {"module", "submodule"} \cup DOMAIN BlockRules |->
     IF kw = "module" THEN ModuleRule
     ELSE IF kw = "submodule" THEN SubmoduleRule ELSE BlockRules[kw]]

(* What no rule names takes any one token and no block. *)
RuleOf(kw) == IF kw \in DOMAIN Grammar THEN Grammar[kw] ELSE Single(AnyKind)

Allowed(kw) == RuleOf(kw).block
Kinds(kw) == RuleOf(kw).argument
Keywords == Inline \cup UNION {Allowed(kw) : kw \in DOMAIN Grammar}
TakesExtensions == {kw \in DOMAIN Grammar : Grammar[kw].extensions}

(* status, ordered-by and the value of an enum are dropped everywhere. *)
Dropped(parent, kw) == kw \in {"status", "ordered-by", "value"} \cup RuleOf(parent).drops
=============================================================================
