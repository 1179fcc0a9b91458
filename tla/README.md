# xYang: a verification development

TLA+ modules, TLC runs and TLAPS proofs for the Python package `src/xyang`, a
YANG 1.1 (RFC 7950) parser and validator of JSON instance documents. The
TypeScript port under `ts/` repeats the same algorithms and is not modelled.

## The system

A run of the program has three stages. The **loader** tokenizes a `.yang` file,
parses it to an AST, loads its imports and includes on the way, and finalizes
every module: `uses` are expanded, augments merged, extensions applied,
semantic rules checked. A **validator** is built for one module and fixes the
set of supported features. `validate()` walks a **document** in lockstep with
the schema, asks the XPath engine about `when` and `must`, the type checker
about values, and returns a list of errors. The JSON Schema generator and
parser translate the AST instead.

| component (source) | state it keeps | operations | talks to | hard behaviour | what makes it correct |
|---|---|---|---|---|---|
| document validator (`validator/document_validator.py`, `path_builder.py`, `encoding/rfc7951.py`) | errors, case stack, level stack, path, config | `validate`, one visit per kind of node | expressions, type checker, feature map | early returns, deferral of mandatory across cases, reuse of the object, exception in mid-walk | verdict equals the rules; stacks and path follow the recursion; it ends |
| if-feature (`validator/if_feature_eval.py`) | the map of enabled features, a snapshot per round | build map, prune, evaluate | imports of the module | fixed point over cyclic conditions, `not` | result consistent, nothing dropped needlessly |
| feature inference (`validator/infer_required_features.py`) | set of required features | one walk | if-feature | cyclic prerequisites | the least features that activate the instance |
| identity graph (`identity_graph.py`, `module.py`) | worklist and seen set of a call | closures and queries | imports, type checker, XPath, JSON Schema | cycles, prefixes in several scopes | answers equal the derivation relation |
| type checker (`validator/type_checker.py`, `types.py`) | none between calls | `check` | identity graph, XPath (leafref) | unions, scopes of bases | value spaces of RFC 7950 section 9 |
| XPath engine (`xpath/`) | path cache of a document | parse, evaluate | schema navigation | stale cache, evaluation errors | cached result equals a fresh one |
| loader (`parser/yang_parser.py`) | module cache, pending imports, include stack | parse file or string, import, include | statement parsers, expansion | sharing of cached modules, partial failure, circular imports | one object per file, acyclic imports, no half-merged module |
| expansion (`uses_expand.py`, `refine_expand.py`, `augment_expand.py`) | pending refines, expansion chain, the AST in place | expand module, refine, augment | loader, other modules' ASTs | order of siblings, nested uses, aliasing of copied statements | no `uses` left, every refine applied once, at its target |
| semantic checks (`semantic_validate.py`) | none | one pass | AST | | |
| statement parsers (`parser/`) | token position, current parent, the module's tables | one per statement | loader for import and include | skipping of unsupported statements, ownership by the context at the end of a statement | every statement is in the one that owns it, the whole text is consumed, parsing ends |
| JSON Schema (`json/`) | definitions under construction | generate, parse | AST, identity graph | choices hoisted into their parent, references overlaid by what refers to them, types rebuilt from bounds | what comes back means the same; the schema accepts what the module describes |
| extensions (`ext/`) | registry of capabilities | register, apply, expand structures | loader, validator | order of application | |
| command line (`__main__.py`) | none | parse, validate, convert | all | | |

## Modules

| module | models |
|---|---|
| `StatementGrammar` | the dispatch tables and arguments of all `parse_<keyword>` |
| `StatementParser` | the statement parsers over the token stream, as a state machine |
| `StatementParserProofs` | that the parser stays within the text and in step with its braces |
| `StatementRules`, `StatementParserMC` | what a text means, on the tree it was written from; the texts |
| `ModuleLoader` | `YangParser`: calls, imports, includes, cache, augments of shared modules, and the command line's module map |
| `ModuleLoaderMC`, `ModuleLoaderProofs` | directories of three modules and a submodule; types, pending set, cache, sharing, import cycles, depth, what finished modules hold and keep |
| `LoadingRules`, `LoadingRulesProofs` | which files load, by rules without calls, cache or stack; that the loader's verdicts are these |
| `UsesExpansion`, `UsesTree` | `expand_all_uses_in_module` as a state machine; lookup and copy of trees |
| `UsesRules`, `UsesExpansionMC` | the module a `uses` stands for, without steps; the instances |
| `UsesExpansionProofs` | types; chains of groupings, and how deep `uses` nest |
| `CommonLemmas` | least numbers, induction backwards and by depth, the existence of recursive functions, what pushing, popping and replacing the top do to a stack and to a count of its places; shared by the proofs |
| `DocumentWalk` | `DocumentValidator`: the walk as a state machine |
| `SchemaScope` | which members a dict may have, through choices and cases |
| `DocumentRules`, `DocumentWalkMC`, `DocumentWalkProofs` | what a document has to satisfy; schemas and documents; types, path, stacks and unknown fields |
| `Validation` | loading the expressions of a module and one `validate()`: when, must, type, keys, the cache |
| `XPathParser`, `XPathEvaluator`, `TypeChecker` | the operators `Validation` judges with |
| `ValidationRules`, `ValidationMC` | the violations of a document, stated on positions; modules and documents |
| `IntegerBounds` | `json/integer_bounds.py` |
| `JsonGenerator`, `JsonParser` | `json/generator.py` and `json/parser.py` as operators on modules and schemas |
| `JsonSchema` | a module written as JSON Schema and read back, as a state machine |
| `JsonRules`, `JsonSchemaMC` | what a module means, which modules are lossless, which documents a schema and a module accept; the modules |
| `FeaturePruning`, `FeaturePruningProofs` | `build_enabled_features_map` and the pruning loop; its results, its end, the value of conditions |
| `IfFeatureExpr`, `FeatureConditions` | the parser of conditions and their grammar; the pruning with texts for conditions |
| `FeatureInference`, `FeaturePruningMC` | `infer_required_features` composed with the pruning |
| `Reachability` | abstract: a graph walk hands out a closure |
| `IdentityClosure`, `IdentityClosureMC` | `identity_graph.py`, shown to implement `Reachability` |
| `LeafTypeProofs` | the answers about identityrefs; that bounds and types keep the values of an integer range |

How they fit: a text is parsed (`StatementParser`), its module loaded with those
it imports (`ModuleLoader`), its `uses` expanded (`UsesExpansion`); a validator
is built with a map of features (`FeaturePruning`) and walks a document
(`DocumentWalk`), judging its nodes (`Validation`), where identityrefs are walks
over identities (`IdentityClosure`). Each takes from the others only a result:
`DocumentWalk` the outcome of an expression, `Validation` the derivation of
identities, `ModuleLoader` whether an expansion succeeds. `JsonSchema` takes the
same expanded module another way, to a schema and back.

### StatementParser

The recursive descent is the stack: a frame per open block, the statement being
built in it. `Root` reads `module name {`, `Statement` dispatches a keyword
whose argument `AfterArgument` reads, `Extension` a use of an extension, `Other`
skips an unsupported construct or raises, `Close` and `End` finish a block.
`Attach` is what the parsers do with a finished statement: fields replace,
lists append, a second `type` goes into the first, a node of a choice gets its
implicit case, definitions go to the module's `tables`; `Refused` holds the
checks at the end of a statement (empty enumerations, bits and bases, positions
of bits, names in cases, second typedefs and features). `StatementGrammar` says
the rest, one `Rule` per parser: kinds of argument token, substatements, whether
extensions are taken, what is parsed and dropped.

`StatementRules` starts from the tree: `Written` gives its tokens, `Means` the
statement the parser should build, `LegalModule` whether it is to be refused.
Abstracted: the tokenizer and the joining of quoted strings; a `STRING` never
spells a keyword.

Where the parser departs from what a reader of RFC 7950 expects, the model follows
the parser: nothing after the `}` of the module is read; `;` is optional everywhere
but after `import`; an `action` or `deviation` without terminator takes the next
statement with it; names are taken without a look at the token's kind (`leaf ;` is a
leaf named `;`, `leaf { }` one named `{`, after which the parser closes one block
more than it opened: `BracesMatch` speaks of texts up to such a place); a second
`type` becomes a member of the first; an extension used in an enum, pattern or
import belongs to the module; the `reference` of an `if-feature` overwrites the one
of the statement around it; nested groupings of one name overwrite each other;
`must`, `when` and `if-feature` of a grouping are parsed and dropped; an extension
of the module itself must stand before its use, and after the prefix; the module
refuses `reference`, `uses` and `choice` at its top level, the submodule
`description` and its like; `default` of a leaf-list or choice is a syntax error.

### ModuleLoader

One parser object and the calls on it. `modules` is the heap of `YangModule`
objects; an object is named by its index, so that two objects of one file are
told apart. `cache` and `pending` are `_module_cache` and `_import_pending`,
which the parser of an import shares with its importer; `stack` holds the
nested `parse_string` activations with their place in the file. A file is a
sequence of the statements the loader acts on. `ReadStatement`, `BindCached`,
`LoadImport`, `LoadInclude` read one statement; `MergeSubmodule` is
`_merge_submodule_definitions`; `ExpandUses`, `MergeAugment` and `Return` /
`ReturnImport` are `_expand_and_augment` and what follows it, one augment per
step, because each edits an object that others share. The seven `Refuse...`
actions and `SyntaxError` are the places that raise; they end the call through
`Abort`, which leaves every parse in progress through its `finally` clauses and
undoes nothing (`RefuseImported` first caches the module that it then refuses).
`registered` is the map `_load_anydata_module_map` builds from the calls of
`parse_file`.

A statement that its parser refuses, a second typedef or feature of one name
among them, stands in a file as `error`, which `SyntaxError` reads; the names that
`ReadStatement` defines are new in their file.

An import statement without a prefix is passed over (`module.py:114`). What is
included is parsed like any file; `ReadyMatchesSource` speaks of directories
where only submodules, which have no prefix of their own, are included.

Abstracted: a schema tree is the sequence of its nodes, an augment names its
target node, and the expansion of `uses` and the semantic checks succeed or
raise. `Locate` finds a file by its name: one directory, no revisions.
`apply_augmentations_across_module_map` finds nothing left to do, since every
registered module is finished, and has no action. The host module of the
command line, which a parser of its own loads, is left out, as is
`expand_uses=False`.

### UsesExpansion

A frame is an activation of `expand_uses_in_statements`: what it has still to
visit, what it has put out, and its `ExpandUsesContext`. `VisitTypedef`,
`Descend` and `VisitChoice` are the visits of a statement; `EnterUses` copies
the grouping, adds its name to the chain and begins a list of `pending` refines
that everything below shares, as the code shares the list object; `LeaveUses`
looks for targets left over, and merges conditions and augments;
`UnknownGrouping`, `CircularUses`, `CannotCopy`, `RefineTargetNotFound` and
`AugmentTargetNotFound` are the other ends. `LeaveRoot` writes a body back and
begins the next grouping, in place. Typedefs of groupings are registered in the
module that uses them on the way.

Abstracted: two modules, one importing the other; the properties a refine
replaces are members of `Prop`; copies are values, which is right because what a
copy shares with its original is changed nowhere.

`UsesRules` states the outcome: `Instance` is the body a module means, with each
refine at its path; `ResultCorrect` compares it with what the steps leave.
It leaves out two kinds of module (`Meant`) for which the code does something else: a
refine goes to the first node whose path *ends* in its target, so that with `a/b`
before `b` a refine of `b` changes `a/b`; and an augment of a choice puts its
statements where no reader of a choice looks. Both are listed below under "Where
code and documentation disagree".

### DocumentWalk

The recursion `_visit_children` / `_visit_stmt` / `_visit_choice` becomes an
explicit stack `control` of activation records: `children` is the loop over the
statements of a container, module or list entry, `case` the loop over the
active case of a choice, `entries` the loop over a list. `caseStack`,
`levelStack`, `path` and `errors` are the attributes of the same purpose; the
errors are a set, each with its kind, its path and the name of its statement.
An action is the visit of one statement up to the point where it recurses: all
early returns of `_visit_stmt` (if-feature, when, absence) are actions of their
own, and each adds what that branch reports. `FinishChildren` reports the
unknown fields. `RaiseTypeError` is the one exception the code lets through, an
unhashable list key; it unwinds the `finally` clauses. `ValidateAgain` is a
further call on the same object.

Abstracted: one node answers to one member name (`instance_member_keys`
offers the plain and the module-qualified form), values are a null, scalars,
objects and arrays, `When`, `Must` and `TypeFails` stand for the XPath engine
and the type checker and may answer anything. Left out: the anydata hook of
the extension API and `leafref_root_data`.

`DocumentRules` states the verdict recursively on schema and data, with no order
of checks, no early return and no stacks. It has two readings of `mandatory`: with
`through`, it binds below containers without presence that are absent, as
`tests/test_choice_case.py:6-16` reads RFC 7950; without, only where the containers
are there, as the code does. `VerdictCorrect` speaks of the documents on which the
two agree (`ReadingsAgree`): the two differ on documents that have all but something
mandatory in an absent container, and there the code is known to go wrong (below).
It also says that a call ends by `TypeError` only where a key is an object or an
array, and that no such document is returned as one without errors. `SchemaScope` says which data nodes a
statement has through the choices and cases in it, and which of these are around
a node; `UnknownFieldsExact` compares what the loop has seen with it, on dicts
without a member that is named like a choice in a case.

### Validation

`Refused` and `Load` parse every expression of the module, as the AST's
constructors do; then `todo` holds what the walk has still to judge, in order.
`Visit` evaluates a when (`WhenNode`: at the parent if it came from a uses or an
augment) and lays out the work of the node: its musts, its type, the visits
below. One `cache` goes through all of them. An expression that raises counts as
a when that holds and a must that fails; a type check that raises (a leafref
path) is an exception of `validate()`.

`XPathParser` makes trees of lexemes and decides which paths may be cached.
`XPathEvaluator` evaluates a tree at a node: steps through data and schema,
defaults of absent leaves, predicates, functions, comparison and arithmetic,
with the cache before and after. `TypeChecker` is `TypeChecker.check`.

`ValidationRules` judges without trees of calls, cache or order: a position is a
path of names and indices, an expression means a set of positions or a scalar,
the violations of a document are a set. `ParsedRight` compares the text an
expression was written as with the text of what was parsed, up to parentheses
around a single literal (`Bare`), which the parser drops.

Kept as the code has it: operators on numbers and strings convert as
`utils.py` does; `!=` is the negation of `=`; two empty sets are equal;
prefixed steps of a path match nothing; defaults of leaf-lists are invisible to
expressions; a default is its text (a boolean `false` is a non-empty string);
`*` gives no value; `true` is an integer and `1` a boolean to the type
checker. Three things are left out of the instance because the code does not do
what an expression or type says, and are listed below: a parenthesis that
begins with a literal and an operator, `(2 - ../a)`; a range of several parts, or one
beyond the bounds of its integer type; a relative leafref of a leaf-list. The rules
compare values as the model does, by Python's equality, so a wrong comparison would
be in both: `VerdictExact` is about what is compared with what.

Left out: `translate()`, numbers with a fraction, the spelling of names and
strings. Patterns, base64 and number spelling are functions of the instance.
Besides `ValueError`, a cyclic typedef (`RecursionError`) and an infinite number
(`OverflowError`) leave `validate()` too.

### JsonSchema

Two actions: `Generate` is `generate_json_schema`, `Parse` is
`parse_json_schema`; a behaviour is a module that is written and read `Rounds`
times. A module is its identities, typedefs and statements, with every
substatement that the translation handles; a schema is a record of the keywords
of JSON Schema, with `xyang` for `x-yang`. The work is in the operators, one per
function of the code: `TypeSchema` and `TypeFrom` for types, `Shape`,
`MergedBranch` and `HoistedFrom` for a choice that is written as a `oneOf` of its
parent and has to be told from its siblings again, `TargetLeaf` for the leaf
whose type a leafref is given, `Resolved` for a property that refers to a
definition. `IntegerBounds` holds the arithmetic of integer ranges apart, so that
it can be proved about.

`JsonRules` says what to expect of the two directions. A round trip must keep the
`Meaning` of the module: nodes, constraints, annotations, cases and mandatory marks
as they are, but an integer type as its set of values, a length as its least and
most, and units and default of a leaf together with what its type and typedef give.
This is claimed of the modules that are `Lossless`, a condition on the module alone;
each of its conjuncts leaves out one loss of the translation, and they are all
listed below under "Where code and documentation disagree". `Accepts` is the meaning
of a JSON Schema keyword by keyword, `ShapedDocument` what the module says of the
same document: names, types, mandatory nodes, keys, cases, numbers of elements.
`SchemaAgrees` compares the two on the modules that are `Plain`; what that leaves
out is listed below, too.

A pattern is the sequence of its branches, the alternatives between its top-level
bars. `_anchored` puts `^` and `$` around the text of a pattern, so in the schema they
bind to the first and the last branch (`Anchored`, `Finds`), whereas the type checker
matches the whole text (`FullMatch`); the two agree on patterns of one branch, and
`Plain` asks for that. Which part of a text a branch matches is a constant (`Spans`).

Abstracted: descriptions, error messages, the metadata of the module, the
spelling of numbers, paths and branches, and the members of a set of substatements
that are copied as they are. Identities have the names of their own module.
Notifications are left out: copying one raises `TypeError`.

### FeaturePruning, IfFeatureExpr, FeatureInference

The map from module names to feature sets is one set of pairs. A behaviour is
one call: a caller's override, then rounds of `BeginRound` (the frozen copy),
`Keep` or `Drop` per feature in any order, `EndRound`. For the proofs a
condition is anything with a truth value (`Eval`); in the run it is a text, and
`Eval` is `IfFeatureExpr!EvaluateIfFeature`, the descent of `_IfFeatureParser`
over tokens, which parses and evaluates at once: a function of the place in the
text, defined from later places. `Values` is the grammar of RFC 7950 on the same
tokens. `FeatureConditions` joins the two: `ConditionsRight` says that what the
pruning keeps and drops is judged by the grammar.

`FeatureInference` adds the inference: `AddConditions` with its prerequisites and
cycle check, `Entries` with the conditions of choices and cases around a node,
`Walk` over the members of an instance. Its result is the override the README of
the repository tells a caller to configure a validator with, so `InferredExact`
speaks of the state in which the pruning of just that map has ended.

The parser takes `and`, `or` and `)` for features where one is expected, so that
`not )` is true; `ConditionsRight` leaves such texts out (`Misplaced`).

### IdentityClosure

A behaviour is one call of `identityref_value_valid`,
`is_derived_from_strict_qnames`, `is_derived_from_or_self_qnames` or
`descendant_closure` on an arbitrary identity graph. `Resolve` is the lookup of
a reference in the importer's scope; worklists are sets, as neither the order
nor repetitions change a result. `Reachability` is the promise: the set found
grows along edges, and is handed out when closed.

## Runs

| run | bounds | shows |
|---|---|---|
| `StatementParser` | every keyword in every block, 8 blocks with pairs of 22 statements, bits of 3 with given and implicit positions, definitions of one name, wrong arguments, texts cut by up to 6 tokens | every statement is where it belongs or the text is refused; the blocks are those of the braces; parsing ends |
| `ModuleLoader` | 800 directories of 4 files, 2 calls out of 8, at most 14 objects | all loader properties, and that every call ends |
| `ModuleLoaderMap` | same | a module that is imported, augmented and then parsed as a file is registered without the augment (violation) |
| `UsesExpansion` | `g` uses `h` uses up to `g`, `h` or an imported `k`; refines, conditions and augments at each level | the expansion is the one meant, or the exception the right one; it ends |
| `UsesExpansionScope` | same | a leaf of an imported grouping gets the typedef of the using module (violation) |
| `DocumentWalk` | two schemas of 18 and 10 statements, 1664 + 600-odd documents, all subsets of two gated statements, checks on and off, one further call out of two | all invariants, and that every call ends |
| `Validation` | some 40 rules of one or two operators and with value lists, on a tree with a list, a leafref, a union and a gated container, 32 documents; every type against up to 12 values; leaf-lists of leafrefs with an absolute path | each error is a violation and each violation an error; the cache answers as an evaluation would; what is parsed is what was written |
| `ValidationCache` | two musts with paths that differ in a predicate | one is given the other's nodes (violation) |
| `ValidationRaises` | a leafref path whose predicate is not a number | `validate()` raises (violation) |
| `JsonSchema` | integer types of 2 to 6 bits, every type as leaf, leaf-list and typedef, with and without annotations and units; objects and choices as container, list and rpc; 664 modules, two rounds; per module the documents of each node | the 333 lossless modules come back with their meaning, and what comes back does so the second time if it is lossless; on 395 plain modules the schema accepts the documents of the module and no others |
| `FeaturePruning` | 4 features in 2 modules; every set of 4 conditions in m and 2 in n with every override, or any text of up to 3 tokens out of 7, 4 out of 6, and 9 longer ones; 11 instances | the result is consistent, and greatest for monotone conditions; conditions have the value of the grammar; inference is exact; the loop ends |
| `IdentityClosure` | 2 modules with 2 identities, 5 base sets each, 22 queries | exact answers, implements `Reachability`, ends on cycles |

The directories of `ModuleLoaderMC` hold import cycles of length one to three,
also through a submodule; an import of a missing file and of one with another
name; a submodule that is included before and after an import of its prefix,
that uses its parent's prefix, defines a name of its parent, belongs elsewhere
or includes itself; augments of an imported, of the own and of no node, and of
a node another augment adds; failures before and after an augment is merged.
Two calls are what it takes for one to see what another left behind; that a
third sees more is not excluded by the runs, but the proved properties hold for
any number. `MergedOnce` speaks of directories that state each node once
(`StatedOnce`) and of parsers that have read each file at most once. No call of this instance needs more than 14 objects, or `Terminates`
would fail. `VerdictStable` leaves out directories in which an augment adds the
target of another: there the order of the calls decides, and no document says
otherwise.

The groupings of `UsesExpansionMC` nest three deep, so that refines of two levels
are pending at once while a third is expanded; `h` holds in turn a node whose
name ends another's path, a choice, typedefs, what cannot be copied, and the
cycles.

The schemas of `DocumentWalkMC` are built so that each early return and each
deferral rule meets data before and after it: a mandatory choice with a `when`,
a gated case with a nested mandatory choice, a mandatory leaf below a
non-presence container, a defaulted leaf alone in a case with a `when` that can
fail to evaluate; a list with key, bounds, `must` and non-object entries, keys
that are absent or not hashable. Choices nest two deep, so the stacks hold two
levels.

The rules of `ValidationMC` combine each kind of path (own, sibling, absolute,
with a position, with a comparison to a text or to `current()`, through `deref`)
with each operator and with `and`, `or` and `not` in both groupings; its documents
have no, one or two list entries, with and without duplicate keys, and defaults
in play. A path is asked for at several nodes of one document, before and after
it is cached. Two modules and two identities (four nodes) suffice for cycles
within and across modules, own-prefix, imported and dangling references.

The modules of `JsonSchemaMC` have one node each beside the leaf that leafrefs
lead to: the translation treats nodes one by one, and only a choice, its siblings
and the names that are required depend on one another, so these come in
combinations: no, one or two cases, empty ones, cases with two nodes, with a
choice or with a node that is lost, each mandatory and optional, with no, optional and
mandatory siblings, and beside a second choice. 48 of the lossless modules have a
choice that is hoisted. Types of 2 to 6 bits have all the
relations of the real ones, which differ in size only. A second round shows that what has been read back is
written like anything else.

`CHECK_DEADLOCK FALSE` is said where a behaviour is one call that ends.

**Fairness.** Each component is one thread that runs to the end of the call, so
weak fairness on its steps is what the interpreter gives; a caller is never
obliged to call, so `ValidateFirst`, `ValidateAgain`, `ParseFile` and
`ParseString` have none.

## Proofs

All for arbitrary constants that satisfy the named assumptions: a schema whose
records are well typed (`SchemaAssumption`), features in known modules and
Boolean conditions (`FeatureAssumption`, `EvalAssumption`), prefixes that lead
to at most one module and well-formed queries (`ScopeAssumption`,
`QueryAssumption`), groupings and typedefs listed by module (`SourceAssumption`),
tokens of the kinds the tokenizer makes (`TextAssumption` of `StatementParser`).
Two theorems have a hypothesis on the constants besides, which the runs show of
their instances: conditions are texts of tokens (`ConditionsAreTexts`, an `ASSUME`
of `FeatureInference`), and the schema is a tree in which cases stand in
choices and nowhere else (`SchemaIsTree`, the `ASSUME` of `DocumentWalkMC`), as
`parse_choice` builds it and the expansion, which copies groupings, leaves it.

* `ModuleLoaderProofs!TypeCorrect`, `PendingIsExact`, `CacheIsComplete`,
  `ImportsAreShared`, for every directory (`DiskAssumption`), any number of calls
  and any heap. The four are proved together: the invariant says that the
  parses in progress are of distinct unfinished objects, that a file in
  mid-import is pending once and not cached, and that bindings lead to finished
  cached objects. Each part needs the others: a cached object stays finished
  because only objects in progress are edited (an augment adds nodes, nothing
  else), and a binding stays the cached one because a file is not imported while
  it is cached or pending. `Grown` sums up what a step may do to the heap.
* `ModuleLoaderProofs!NoImportCycle`. Every non-empty set of importing objects has
  one whose imports all lead out of it (`Acyclic`). A new object imports nothing; a
  binding is added to an object in progress only, and leads to a finished object. It
  closes no cycle, because bindings lead only to finished objects (the other part of
  `SharedOK`), so nothing is bound to the object that gets it: take the set without
  that object, and what it offers serves, or the object itself does.
* `ModuleLoaderProofs!ModulesHoldTheirSource`. Inductive invariant (`ContentInv`):
  an object in progress holds what the statements before its place in the file
  state, an include standing for all that its files state (`FrameOK`); the parse
  below another waits at the import or include that began it (`LinkOK`), so
  that what the upper one returns is what the lower one asked for; a finished
  object holds its whole source (`ReadyOK`). An augment only adds nodes.
* `ModuleLoaderProofs!NodesAreMergedOnce`. Inductive invariant (`OnceInv`): where a
  node is stated is where it is, at one place of one list: in the nodes of a module,
  in the augments still to be merged, or unread in the file of a parse in
  progress. Reading, including and merging move it from one to the next; as no
  file is read twice, no object states it again.
* `ModuleLoaderProofs!FinishedModulesStay`, of every step: what is cached stays
  cached, and a finished module changes only by the node that the augment being
  merged adds at its end, also when the call fails later.
* `ModuleLoaderProofs!NestingIsBounded`. A parse on the stack is known by two
  files, the import (or call) that began its parser and the file itself; no two
  parses have the same two, as imports in progress are distinct and the include
  stack refuses a file twice (`IncludesOnce`). There are at most (n + 1)(n + 1) pairs
  for n files.
* `LoadingRulesProofs!VerdictsAreExact`, `VerdictsAreStable`, for directories in
  which no augment aims at a node that only another augment adds: a call that ends
  has accepted its file exactly when the file loads by `LoadingRules`, whose rules
  say what each file comes to statement by statement, as the least set of facts,
  and know nothing of what the parser did before; so it ends as the first call on
  the file did. Two halves. What is accepted loads: the inductive invariant
  (`KnownInv`) says that what an object in progress has read, and what a finished one
  came to, is a fact, but for nodes that augments added (`Grew`), of which none is a
  target. What is refused does not: every file on the stack waits for a fact of the
  next one that is beyond what that one has reached, so when the innermost has no
  next fact, the facts that are not beyond are closed under the rules and hold all
  there is (`Blocked`, `StackBlocked`). This covers a cycle of imports or includes,
  where the innermost waits for a file further down.
* `UsesExpansionProofs!TypeCorrect`: the lists of pending refines are as many as
  the `uses` entered and one, because each return of a `uses` drops the list its
  entry began, counted over the activations of kind `uses`.
* `StatementParserProofs!NeverReadsPastTheText`, `KnowsItsBlock`, for any
  sequence of tokens. The inductive invariant (`ParserInv`) has both, and that
  the outermost open statement is the module, every other one has a block, and
  no token is read before the first. The work is in lemmas about what is read
  between two states: an argument, a date, a path, an optional argument or a
  skipped construct ends within the text and leaves as many blocks open as before,
  or a brace was taken for a name. What is skipped ends at the first place where
  the braces balance, found as the least element of a set (`LeastNumber`); the
  end of a refine's path is a recursive function (`PathEnd`), which is first shown
  to exist.
* `DocumentWalkProofs!StateIsWhereTheWalkIs`. The path and the two stacks are given
  by the stack of activations alone: the k-th entry belongs to the k-th activation
  that is a case, or is nested. Places are counted (`Rank`), so that a step that
  pushes or pops one activation changes one count (`PushIsOneMore`, `PopIsOneMore`
  of `CommonLemmas`). After an exception the path is left as it was, and the next
  `validate()` begins a new one; the invariant says this much.
* `DocumentWalkProofs!TypeCorrect`, `ActiveCasesHaveData`. `TypeOK` is inductive
  by itself: what is pushed is a dict or a list because the guard tested it. A
  case is pushed with the data its choice found in it, and the pops take equal
  numbers from both stacks.
* `DocumentWalkProofs!UnknownFieldsAreExact`. Inductive invariant (`AllExact`): a loop
  over the statements of a dict has seen what those before its place claim. What a
  choice claims is shown, by induction over the depth of the schema, to be the names
  of the data nodes that are reached through enabled cases. That the statements form
  a tree makes the choices and cases around a node the same seen from the dict and
  from the choice: of two statements above a third, one is above the other.
* `UsesExpansionProofs!ChainsAreDistinct`, for any modules, refines, augments and
  copyable sets. Inductive invariant (`IInv`): the activations form a stack in
  which exactly the outermost is a `root`, so that every return finds a caller,
  and every activation carries a chain of grouping names without repetition. A
  chain grows by a name only where the test of `uses_expand.py:236` found it
  missing; the first part is needed because a return edits the activation below.
* `UsesExpansionProofs!UsesAreBounded`: never more `uses` in progress than three for
  each name of a grouping, which a `uses` may write with either prefix or none. The
  chains of the activations only gain names inwards, and each activation of a `uses`
  has a name that the ones outside it have not.
* `LeafTypeProofs!RangesKept`, `BuiltinsKept`, for any bounds of the eight
  types that are distinct and start at 0 for the unsigned ones (`BoundsAssumption`;
  the real ones, and the small ones of the run, are such): a range of one interval,
  written as `minimum` and `maximum`, comes back as a type and range of exactly the
  same values, and a type without a range comes back as itself. The argument goes by
  the cases of `yang_integer_from_json_bounds`: a pair that is a whole type is that
  type, as bounds are distinct; the half of a signed type has its lower bound
  stated; in every other case the first type that fits holds the interval, and the
  interval is stated.
* `FeaturePruningProofs!ResultIsConsistent`. Inductive invariant: as long as a
  round has dropped nothing, the map equals the snapshot, and every feature
  already looked at satisfies its condition on the snapshot; at the end no
  feature is left to look at.
* `FeaturePruningProofs!ResultIsGreatest`. Every consistent subset of the
  requested features lies in the map and in the snapshot of the round; a
  dropped feature fails on the larger snapshot, hence by monotonicity in the
  subset.
* `FeaturePruningProofs!LoopDescends`: each step of the pruning makes the map, or the
  features left to look at smaller, or ends the loop, so that with finitely many
  features it ends whatever the conditions (the run states that as `Terminates`).
* `FeaturePruningProofs!EvaluationIsTheGrammars`, `ConditionsAreRight`, for every text
  of tokens. From the end of the text backwards: what the grammar derives from a
  place the parser reads there with that value, and what the parser reads the grammar
  derives, unless an operator stands in the place of a feature.
* `LeafTypeProofs!AnswersAreExact`, `EnumsAreExact`. Inductive invariant:
  the identities seen lie in every set closed under the edges that holds the
  start, and the edges of what is seen lead to what is seen or on the stack.
* `LeafTypeProofs!WalksImplementReachability`. Initial states and steps
  of the walk are those of `Reachability` under the refinement mapping.

Model-checked only:

* every liveness property, and the fairness of the refinement, which the prover
  cannot express;
* `VerdictCorrect` of the walk, `InferredExact`, `ResultCorrect`, `VerdictCorrect` and
  `GroupingTypesRegistered` of the expansion, `ParsedRight`, `CacheSound` and
  `VerdictExact`, `ParsedExact`, `RoundTrip` and `SchemaAgrees`: each compares a
  result with a definition that is recursive on trees of any depth, as the data
  are, and the prover does not reason about `RECURSIVE` operators.

## Where code and documentation disagree

The four violation runs; `PROJECT.json` quotes the lines of each. Met while
modelling, without a run of their own; the properties that would not hold
leave these cases out, as said above.

Of documents:

* a mandatory node below an absent non-presence container is not missed
  (`document_validator.py:677`), also where its case has other data: RFC 7950 and
  the reading of `tests/test_choice_case.py:8` count it;
* `validate()` is documented not to raise (`document_validator.py:114`) and raises
  `TypeError` on a list key that is an object or array (`:766`);
* members of a choice named like a leaf of its own case are reported as unknown, and
  a member named like a choice in a case is taken for the data of that choice and is
  not reported (`document_validator.py:494`);
* a relative leafref of a leaf is followed from the leaf, that of a leaf-list from
  its parent (`document_validator.py:454`), so that `../l/n` of a leaf-list beside `l`
  is looked for one level too high and its values are rejected;
* values are compared by Python's equality, for which `True == 1`: a leafref to an
  `int8` of value 1 accepts `true` (`type_checker.py:298`), a key `true` repeats a key
  1, although leafrefs have "`require-instance` semantics" (`FEATURES.md:30`);
* of a range of several parts only the outer bounds are read, or none
  (`type_checker.py:484`): between and beyond the parts all numbers are accepted
  (`FEATURES.md:78`); and a range replaces the bounds of its integer type;
* a literal right after `(` is consumed before it is known whether a value list
  follows (`xpath/parser.py:244`): `(2 - ../a)` is read as `-../a`, although
  "Only **literals** are allowed inside the parentheses" (`FEATURES.md:336`).

Of modules:

* with `a/b` before `b`, `refine b` changes `a/b` and not `b` (`uses_expand.py:165`);
* what a uses adds to a choice by augment is put beside its cases
  (`uses_expand.py:203`): its members are unknown fields of a document, and a `uses` in
  it is not expanded;
* with `not`, a feature may be dropped although its condition holds in the end
  (`if_feature_eval.py:216`); `not )` is true although malformed (`:175`);
* an identityref accepts its own base, the closure being reflexive
  (`identity_graph.py:202`);
* `descendant_closure` ignores a base written with the module's own prefix
  (`identity_graph.py:128`), the validator does not;
* nodes of a file that failed stay in the modules it augmented
  (`augment_expand.py:217`), although `__main__.py:177` says such a file is skipped.

The JSON Schema is documented to keep what generic tools cannot express in
`x-yang` (`FEATURES.md:219`). What is lost, and what `Lossless` leaves out:

* a leaf with an inline string of several patterns, or an inverted one, comes back
  without patterns, length and default: its `allOf` is taken for references and
  replaces the property (`parser.py:481`). `FEATURES.md:76` and `:233` promise
  a round trip and "full fidelity". An identityref of several bases loses its default
  the same way;
* a leaf of inline bits is lost, since the `x-yang` of its type overrides the kind of
  the leaf;
* `binary` and other types without a schema of their own become strings, an
  enumeration of one value a string with a pattern;
* a range of a single value comes back open upwards, `5` of a `uint8` as `5..max` of a
  `uint64`; one of several parts with other values;
* a typedef named like an identity is lost (one namespace, `generator.py:1188`), a
  typedef of a typedef becomes a string, the default of a typedef that is a number or
  boolean comes back in the spelling of JSON;
* a leaf of one identity gains the if-features of that identity. Units are lost where
  a reference to a typedef states them, or the leaf and its type state different ones;
* an optional choice with one case takes its container's other children with it, a
  list keeps them; the nodes of the one case of a mandatory choice become siblings
  of a choice without cases, and lose `mandatory`; a case without nodes is lost;
* the `config` of a hoisted choice, of an anydata or anyxml, and a `when` of any choice
  or case are lost.

As a schema for generic tools, outside `Plain`: `a|b` is written `^a|b$`
(`generator.py:358`), which finds `ax` too, while the validator takes the whole string
(`type_checker.py:328`); a leafref has the type of its target
(`tests/json/test_leafref_json.py:100`; `FEATURES.md:236` and `:246` say string), but a
relative one starts at the parent of the leaf and its `..` at the grandparent
(`generator.py:247`), so that one to a sibling integer is a string; every node
of a case is required; a choice beside another, in a case or in an rpc is a
property of its own name, which the data do not have; a `oneOf` rejects a value of
two members of a union; nothing is required at the top; `empty` is an object without
members.

## Not modelled

* `semantic_validate.py`: one pass of local checks on the expanded tree, without
  state; to the loader it succeeds or raises.
* `ext/`: the structure expansion and the nested validation of anydata repeat
  `UsesExpansion` and `DocumentWalk` on other data.
* Tokenizers, `yang_strings.py`, `translate()`, messages, the formatting of
  errors: conversions of text that no property speaks about.
* `types.py` is used by nothing in the package.
* The TypeScript port.

## Plan

Done: the parser, the loader, the expansion, the walk, the judging of values and
expressions, features and identities, the JSON Schema. Left, in this order:

1. The scope of conditions, bases and typedefs that come from another module, as
   one composition of `UsesExpansion` with `FeaturePruning`, `IdentityClosure` and
   `TypeChecker`.
2. `ext/`: the expansion of structures, if it is to differ from that of `uses`.
3. Proofs of `VerdictCorrect` of the walk and of the expansion, with the rules of
   `DocumentRules` and `UsesRules` as recursive functions, as `SchemaScope` has them.
