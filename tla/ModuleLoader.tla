----------------------------- MODULE ModuleLoader -----------------------------
(***************************************************************************)
(* YangParser (src/xyang/parser/yang_parser.py): one parser object on which *)
(* parse_file and parse_string are called, with the imports and includes   *)
(* they load, and the module map the command line fills from the results   *)
(* (_load_anydata_module_map, register_module_closure).                    *)
(*                                                                         *)
(* A module object is an index of modules, the heap.  An import is parsed  *)
(* by a parser of its own that shares the cache and the pending set; an    *)
(* include by the same parser.  stack holds the nested parses.  A schema   *)
(* tree is the sequence of its nodes, wherever in the tree they are;       *)
(* expansion of uses and semantic checks either succeed or raise.          *)
(***************************************************************************)
EXTENDS Integers, Sequences, FiniteSets

CONSTANTS
  Path, Name, Prefix, Node,
  NoPath, NoPrefix,
  Locate,          \* _resolve_submodule_path: name -> the file found, or NoPath
  Disks,           \* what the files may hold: path -> file
  MaxCalls,        \* bound: calls on the parser
  MaxObjects       \* bound: objects on the heap; a load that needs more is stuck

(* The statements of a file the loader acts on, in order.  name is of the  *)
(* module imported or included; node, of what is defined or augmented in.  *)
(* An import that states no prefix is passed over.                         *)
Statement ==
  {s \in [op : {"import", "include", "node", "define", "augment", "error"},
          name : Name, prefix : Prefix \cup {NoPrefix}, target : Node, node : Node] :
     s.op = "import" => s.prefix # NoPrefix}

File ==
  [name : Name, prefix : Prefix \cup {NoPrefix},  \* a submodule has no prefix
   belongs : SUBSET Name,                         \* belongs-to, if any
   body : Seq(Statement),
   fault : {"none", "uses", "semantics"}]         \* the check that will raise

ASSUME DiskAssumption ==
  /\ NoPath \notin Path /\ NoPrefix \notin Prefix
  /\ Locate \in [Name -> Path \cup {NoPath}]
  /\ Disks \subseteq [Path -> File]

ASSUME BoundAssumption == MaxCalls \in Nat /\ MaxObjects \in Nat

VARIABLES
  disk,        \* the files, fixed
  modules,     \* the heap of YangModule objects
  cache,       \* _module_cache: path -> object, 0 if none
  pending,     \* _import_pending
  stack,       \* the parses in progress, innermost last
  status,      \* "idle", "running", or how the last call ended
  result,      \* the object a successful call returned
  registered,  \* the command line's map: module name -> object, 0 if none
  calls,       \* number of calls
  first        \* history: how the first call on a path ended

vars == <<disk, modules, cache, pending, stack, status, result, registered, calls, first>>

NewModule(p) ==
  [path |-> p, nodes |-> <<>>, defines |-> {}, augments |-> <<>>,
   imports |-> {},       \* import_prefixes: pairs of a prefix and an object
   ready |-> FALSE]      \* finalized: expanded, augments merged, checked

Activation(how, p, id) ==
  [how |-> how, path |-> p, id |-> id, next |-> 1, finalizing |-> FALSE]

Objects == DOMAIN modules
NameOf(i) == disk[modules[i].path].name
Own(i) == disk[modules[i].path].prefix
Bound(i, p) == {b[2] : b \in {x \in modules[i].imports : x[1] = p}}

(* resolve_prefixed_module: the own prefix goes before the imports.        *)
Resolved(i, p) == IF p = Own(i) THEN {i} ELSE Bound(i, p)

Depth == Len(stack)
Top == stack[Depth]
Reading == stack # <<>> /\ ~Top.finalizing
Body == disk[Top.path].body
Current == Body[Top.next]
At(op) == Reading /\ Top.next \in DOMAIN Body /\ Current.op = op
AtEnd == Reading /\ Top.next \notin DOMAIN Body
Advanced == [stack EXCEPT ![Depth].next = @ + 1]
Target == Locate[Current.name]
Fresh == Len(modules) + 1

(* The include stack of the parser at work: it begins anew with an import, *)
(* and holds the file itself in parse_file only.                           *)
IncludeStack ==
  {stack[i].path : i \in {j \in 1 .. Depth :
     /\ stack[j].how \in {"include", "file"}
     /\ \A k \in j + 1 .. Depth : stack[k].how = "include"}}
-----------------------------------------------------------------------------
(* How a call ends.                                                        *)

Verdict(v) ==
  LET p == stack[1].path
  IN  first' = [first EXCEPT ![p] = IF @ = "none" THEN v ELSE @]

Importing == {stack[i].path : i \in {j \in 1 .. Depth : stack[j].how = "import"}}

(* Mutant of Abort: pending is not discarded in a finally clause.          *)
AbortKeepPending ==
  /\ stack' = <<>> /\ status' = "error" /\ result' = 0
  /\ Verdict("error")
  /\ UNCHANGED <<disk, modules, cache, pending, registered, calls>>

(* Mutant of Abort: the importer goes on.                                  *)
AbortFrame ==
  /\ stack' = SubSeq(stack, 1, Depth - 1) /\ status' = "error" /\ result' = 0
  /\ pending' = pending \ Importing
  /\ Verdict("error")
  /\ UNCHANGED <<disk, modules, cache, registered, calls>>

(* An exception leaves every parse in progress.  What they have built so   *)
(* far is unreachable; what they have done to cached modules stays.        *)
Abort ==
  /\ stack' = <<>> /\ status' = "error" /\ result' = 0
  /\ pending' = pending \ Importing
  /\ Verdict("error")
  /\ UNCHANGED <<disk, modules, cache, registered, calls>>

(* register_module_closure: a module and all it imports, without a check   *)
(* for what was visited.  A name that comes twice is set twice, the module *)
(* itself first.  The command line calls parse_file.                       *)
Closure(i) ==
  LET reach[j \in Objects] == {j} \cup UNION {reach[b[2]] : b \in modules[j].imports}
  IN  reach[i]

Register(i) ==
  registered' =
    [n \in Name |->
       LET imported == {j \in Objects \ {i} : j \in Closure(i) /\ NameOf(j) = n}
       IN  CASE imported # {} -> CHOOSE j \in imported : TRUE
             [] imported = {} /\ NameOf(i) = n -> i
             [] OTHER -> registered[n]]
-----------------------------------------------------------------------------
(* Calls.                                                                  *)

Call(how, p) ==
  /\ status # "running" /\ calls < MaxCalls /\ Fresh <= MaxObjects
  /\ modules' = Append(modules, NewModule(p))
  /\ stack' = <<Activation(how, p, Fresh)>>
  /\ status' = "running" /\ result' = 0
  /\ calls' = calls + 1
  /\ UNCHANGED <<disk, cache, registered, first>>

ParseFile(p) == Call("file", p) /\ pending' = {}

ParseString(p) == Call("string", p) /\ UNCHANGED pending
-----------------------------------------------------------------------------
(* The statements of a file.                                               *)

(* One that is read.  One that its parser refuses, a second typedef or     *)
(* feature of a name among them, is an "error" in the file: SyntaxError.   *)
ReadStatement ==
  /\ At("node") \/ At("define") \/ At("augment")
  /\ modules' =
       CASE Current.op = "node" -> [modules EXCEPT ![Top.id].nodes = Append(@, Current.node)]
         [] Current.op = "define" -> [modules EXCEPT ![Top.id].defines = @ \cup {Current.node}]
         [] OTHER -> [modules EXCEPT ![Top.id].augments = Append(@, Current)]
  /\ stack' = Advanced
  /\ UNCHANGED <<disk, cache, pending, status, result, registered, calls, first>>

SyntaxError == At("error") /\ Abort

(* Mutant of ImportRefused: nothing is known of imports in progress.       *)
ImportRefusedUnlessPending ==
  \/ Current.prefix = Own(Top.id) \/ Bound(Top.id, Current.prefix) # {}
  \/ Target = NoPath

(* register_import and _load_imported_module raise: the prefix is taken,   *)
(* there is no such file, it is being imported already, or the cached      *)
(* module has another name.                                                *)
ImportRefused ==
  \/ Current.prefix = Own(Top.id) \/ Bound(Top.id, Current.prefix) # {}
  \/ Target = NoPath
  \/ Target # NoPath /\ cache[Target] = 0 /\ Target \in pending
  \/ Target # NoPath /\ cache[Target] # 0 /\ NameOf(cache[Target]) # Current.name

RefuseImport == At("import") /\ ImportRefused /\ Abort

Bind(i, p, j) == [modules EXCEPT ![i].imports = @ \cup {<<p, j>>}]

BindCached ==
  /\ At("import") /\ ~ImportRefused /\ cache[Target] # 0
  /\ modules' = Bind(Top.id, Current.prefix, cache[Target])
  /\ stack' = Advanced
  /\ UNCHANGED <<disk, cache, pending, status, result, registered, calls, first>>

(* Mutant of LoadImport: a module is cached when its parse begins.         *)
LoadImportCached ==
  /\ At("import") /\ ~ImportRefused /\ cache[Target] = 0 /\ Fresh <= MaxObjects
  /\ modules' = Append(modules, NewModule(Target))
  /\ cache' = [cache EXCEPT ![Target] = Fresh]
  /\ pending' = pending \cup {Target}
  /\ stack' = Append(stack, Activation("import", Target, Fresh))
  /\ UNCHANGED <<disk, status, result, registered, calls, first>>

LoadImport ==
  /\ At("import") /\ ~ImportRefused /\ cache[Target] = 0 /\ Fresh <= MaxObjects
  /\ modules' = Append(modules, NewModule(Target))
  /\ pending' = pending \cup {Target}
  /\ stack' = Append(stack, Activation("import", Target, Fresh))
  /\ UNCHANGED <<disk, cache, status, result, registered, calls, first>>

RefuseInclude ==
  /\ At("include")
  /\ Target = NoPath \/ Target \in IncludeStack
  /\ Abort

LoadInclude ==
  /\ At("include") /\ Target # NoPath /\ Target \notin IncludeStack
  /\ Fresh <= MaxObjects
  /\ modules' = Append(modules, NewModule(Target))
  /\ stack' = Append(stack, Activation("include", Target, Fresh))
  /\ UNCHANGED <<disk, cache, pending, status, result, registered, calls, first>>
-----------------------------------------------------------------------------
(* The end of an included file: merge_included_submodule.                  *)

Caller == stack[Depth - 1]
Parent == modules[Caller.id]
Sub == modules[Top.id]

Taken(p) == \E b \in Parent.imports : b[1] = p

SubmoduleRefused ==
  \/ NameOf(Top.id) # disk[Caller.path].body[Caller.next].name
  \/ \E n \in disk[Top.path].belongs : n # NameOf(Caller.id)
  \/ Sub.defines \cap Parent.defines # {}
  \/ \E b \in Sub.imports, c \in Parent.imports :
       b[1] # Own(Caller.id) /\ c[1] = b[1] /\ NameOf(c[2]) # NameOf(b[2])

RefuseSubmodule == AtEnd /\ Top.how = "include" /\ SubmoduleRefused /\ Abort

(* Mutant of MergeSubmodule: the imports stay with the submodule.          *)
MergeSubmoduleKeepImports ==
  /\ AtEnd /\ Top.how = "include" /\ ~SubmoduleRefused
  /\ modules' =
       [modules EXCEPT
          ![Caller.id].nodes = @ \o Sub.nodes,
          ![Caller.id].defines = @ \cup Sub.defines,
          ![Caller.id].augments = @ \o Sub.augments,
          ![Top.id] = NewModule(Top.path)]
  /\ stack' = [SubSeq(stack, 1, Depth - 1) EXCEPT ![Depth - 1].next = @ + 1]
  /\ UNCHANGED <<disk, cache, pending, status, result, registered, calls, first>>

(* An import whose prefix the parent uses for itself or has already is not *)
(* taken over.  The submodule is left empty.                               *)
MergeSubmodule ==
  /\ AtEnd /\ Top.how = "include" /\ ~SubmoduleRefused
  /\ modules' =
       [modules EXCEPT
          ![Caller.id].nodes = @ \o Sub.nodes,
          ![Caller.id].defines = @ \cup Sub.defines,
          ![Caller.id].augments = @ \o Sub.augments,
          ![Caller.id].imports =
             @ \cup {b \in Sub.imports : b[1] # Own(Caller.id) /\ ~Taken(b[1])},
          ![Top.id] = NewModule(Top.path)]
  /\ stack' = [SubSeq(stack, 1, Depth - 1) EXCEPT ![Depth - 1].next = @ + 1]
  /\ UNCHANGED <<disk, cache, pending, status, result, registered, calls, first>>
-----------------------------------------------------------------------------
(* The end of a module: _expand_and_augment, then back to the importer.    *)

ExpandUses ==
  /\ AtEnd /\ Top.how # "include" /\ disk[Top.path].fault # "uses"
  /\ stack' = [stack EXCEPT ![Depth].finalizing = TRUE]
  /\ UNCHANGED <<disk, modules, cache, pending, status, result, registered, calls, first>>

RefuseUses ==
  AtEnd /\ Top.how # "include" /\ disk[Top.path].fault = "uses" /\ Abort

Finalizing == stack # <<>> /\ Top.finalizing
Augment == Head(modules[Top.id].augments)
AugmentTargets ==
  {i \in Resolved(Top.id, Augment.prefix) :
     \E k \in DOMAIN modules[i].nodes : modules[i].nodes[k] = Augment.target}

(* Mutant of MergeAugment: the statement is not removed.                   *)
MergeAugmentKeep ==
  /\ Finalizing /\ modules[Top.id].augments # <<>>
  /\ \E i \in AugmentTargets :
       modules' = [modules EXCEPT ![i].nodes = Append(@, Augment.node)]
  /\ UNCHANGED <<disk, cache, pending, stack, status, result, registered, calls, first>>

(* apply_augmentations: into the object the prefix leads to, usually one   *)
(* of the cache that other modules share.                                  *)
MergeAugment ==
  /\ Finalizing /\ modules[Top.id].augments # <<>>
  /\ \E i \in AugmentTargets :
       modules' = [modules EXCEPT ![i].nodes = Append(@, Augment.node),
                                  ![Top.id].augments = Tail(@)]
  /\ UNCHANGED <<disk, cache, pending, stack, status, result, registered, calls, first>>

RefuseAugment ==
  /\ Finalizing /\ modules[Top.id].augments # <<>>
  /\ AugmentTargets = {}
  /\ Abort

Merged == Finalizing /\ modules[Top.id].augments = <<>>
Sound == disk[Top.path].fault # "semantics"

RefuseSemantics == Merged /\ ~Sound /\ Abort

Ready == [modules EXCEPT ![Top.id].ready = TRUE]

Return ==
  /\ Merged /\ Sound /\ Top.how \in {"file", "string"}
  /\ modules' = Ready
  /\ stack' = <<>> /\ status' = "ok" /\ result' = Top.id
  /\ IF Top.how = "file" THEN Register(Top.id) ELSE UNCHANGED registered
  /\ Verdict("ok")
  /\ UNCHANGED <<disk, cache, pending, calls>>

Expected == disk[Caller.path].body[Caller.next]

(* Mutant of ReturnImport: the module is not cached.                       *)
ReturnImportUncached ==
  /\ Merged /\ Sound /\ Top.how = "import"
  /\ NameOf(Top.id) = Expected.name
  /\ modules' = [Ready EXCEPT ![Caller.id].imports = @ \cup {<<Expected.prefix, Top.id>>}]
  /\ pending' = pending \ {Top.path}
  /\ stack' = [SubSeq(stack, 1, Depth - 1) EXCEPT ![Depth - 1].next = @ + 1]
  /\ UNCHANGED <<disk, cache, status, result, registered, calls, first>>

ReturnImport ==
  /\ Merged /\ Sound /\ Top.how = "import"
  /\ NameOf(Top.id) = Expected.name
  /\ modules' = [Ready EXCEPT ![Caller.id].imports = @ \cup {<<Expected.prefix, Top.id>>}]
  /\ cache' = [cache EXCEPT ![Top.path] = Top.id]
  /\ pending' = pending \ {Top.path}
  /\ stack' = [SubSeq(stack, 1, Depth - 1) EXCEPT ![Depth - 1].next = @ + 1]
  /\ UNCHANGED <<disk, status, result, registered, calls, first>>

(* The name is compared when the module is in the cache already.           *)
RefuseImported ==
  /\ Merged /\ Sound /\ Top.how = "import"
  /\ NameOf(Top.id) # Expected.name
  /\ modules' = Ready
  /\ cache' = [cache EXCEPT ![Top.path] = Top.id]
  /\ pending' = pending \ Importing
  /\ stack' = <<>> /\ status' = "error" /\ result' = 0
  /\ Verdict("error")
  /\ UNCHANGED <<disk, registered, calls>>
-----------------------------------------------------------------------------
Init ==
  /\ disk \in Disks
  /\ modules = <<>>
  /\ cache = [p \in Path |-> 0]
  /\ pending = {} /\ stack = <<>>
  /\ status = "idle" /\ result = 0
  /\ registered = [n \in Name |-> 0]
  /\ calls = 0
  /\ first = [p \in Path |-> "none"]

ReadStep ==
  \/ ReadStatement \/ SyntaxError
  \/ RefuseImport \/ BindCached \/ LoadImport
  \/ RefuseInclude \/ LoadInclude \/ RefuseSubmodule \/ MergeSubmodule

FinalizeStep ==
  \/ ExpandUses \/ RefuseUses \/ MergeAugment \/ RefuseAugment
  \/ RefuseSemantics \/ Return \/ ReturnImport \/ RefuseImported

Step == ReadStep \/ FinalizeStep

Next == Step \/ \E p \in Path : ParseFile(p) \/ ParseString(p)

(* Step is the running thread of a call; a caller need not call.           *)
Spec == Init /\ [][Next]_vars /\ WF_vars(Step)
-----------------------------------------------------------------------------
(* Properties.                                                             *)

Elements(q) == {q[k] : k \in DOMAIN q}
Statements(p) == Elements(disk[p].body)
Includes(p) == {Locate[s.name] : s \in {t \in Statements(p) : t.op = "include"}} \ {NoPath}

(* A file and what it includes, directly or by what it includes.           *)
Files(p) ==
  {q \in Path : \A F \in SUBSET Path :
                  p \in F /\ (\A f \in F : Includes(f) \subseteq F) => q \in F}
Source(p, op) == {s \in UNION {Statements(q) : q \in Files(p)} : s.op = op}
Occurrences(i, n) == Cardinality({k \in DOMAIN modules[i].nodes : modules[i].nodes[k] = n})

(* The variables have their types, a call is in progress exactly while     *)
(* there is a parse on the stack, and only the outermost parse is a call's.*)
TypeOK ==
  /\ disk \in Disks
  /\ cache \in [Path -> 0 .. Len(modules)]
  /\ registered \in [Name -> 0 .. Len(modules)]
  /\ pending \subseteq Path
  /\ \A i \in Objects : modules[i].path \in Path
  /\ \A k \in DOMAIN stack :
       /\ stack[k].id \in Objects /\ stack[k].path = modules[stack[k].id].path
       /\ stack[k].how \in IF k = 1 THEN {"file", "string"} ELSE {"import", "include"}
  /\ status \in {"idle", "running", "ok", "error"}
  /\ status = "running" <=> stack # <<>>
  /\ result \in 0 .. Len(modules) /\ (result # 0 <=> status = "ok")
  /\ first \in [Path -> {"none", "ok", "error"}]

(* The pending set, which every parser of a load shares, holds exactly the *)
(* files whose import is in progress: whatever raises, at whatever depth,  *)
(* leaves nothing behind that a later call would take for a cycle.         *)
PendingExact == pending = Importing

(* A cached object is of its file, and is expanded, augmented and checked: *)
(* no importer is handed a module another load has not finished.           *)
CacheComplete ==
  \A p \in Path : cache[p] # 0 =>
    /\ modules[cache[p]].path = p
    /\ modules[cache[p]].ready
    /\ modules[cache[p]].augments = <<>>

(* Within one parser a file is imported as one object: every import, also  *)
(* one merged from a submodule, leads to the finished object in the cache, *)
(* so that augments of several modules meet in the same target.            *)
OneObjectPerFile ==
  \A i \in Objects : \A b \in modules[i].imports :
    modules[b[2]].ready /\ cache[modules[b[2]].path] = b[2]

(* A load, also one that fails, changes a finished module in one way only: *)
(* an augment of a module that imports it adds a node at the end.  What is *)
(* cached stays the object it is (_module_cache is never written twice for *)
(* a file), so that no importer is left with a module of its own.          *)
FinishedStays ==
  /\ \A p \in Path : cache[p] # 0 => cache'[p] = cache[p]
  /\ \A i \in Objects : modules[i].ready =>
       /\ i \in DOMAIN modules'
       /\ \/ modules'[i] = modules[i]
          \/ /\ Finalizing /\ i \in Bound(Top.id, Augment.prefix)
             /\ modules'[i] = [modules[i] EXCEPT !.nodes = Append(@, Augment.node)]

(* Imports form no cycle between objects, whatever the files say: the      *)
(* recursion of register_module_closure, which keeps no set of what it     *)
(* visited, comes to an end.                                               *)
ImportsAcyclic ==
  \A S \in SUBSET {i \in Objects : modules[i].imports # {}} : S # {} =>
    \E i \in S : \A b \in modules[i].imports : b[2] \notin S

(* Whatever files import and include each other, also in turns: a call     *)
(* nests no more parses than each file being imported once and, in each of *)
(* these and by the call itself, every file being included once.           *)
NestingBounded ==
  IsFiniteSet(Path) => Depth <= (Cardinality(Path) + 1) * (Cardinality(Path) + 1)

(* No augment aims at a node that only another augment adds.               *)
TargetsInSource ==
  \A p \in Path : \A s \in Statements(p) : s.op = "augment" =>
    \A q \in Path : \A t \in Statements(q) : t.op = "augment" => t.node # s.target

(* What a parser did before does not decide whether a file loads: caches,  *)
(* the pending set and modules augmented by failed loads do not turn an    *)
(* accepted file into a refused one, or the reverse.                       *)
VerdictStable ==
  [][(status = "running" /\ status' # "running" /\ TargetsInSource)
       => first[stack[1].path] \in {"none", status'}]_vars

(* No node is stated by two statements.                                    *)
StatedOnce ==
  \A p, q \in Path : \A k \in DOMAIN disk[p].body, l \in DOMAIN disk[q].body :
    LET s == disk[p].body[k]
        t == disk[q].body[l]
    IN  {s.op, t.op} \subseteq {"node", "augment"} /\ s.node = t.node => p = q /\ k = l

(* While every file has been parsed at most once, a node is in a finished  *)
(* module at most once: augments are not merged again when the module that *)
(* states them is imported a second time from the cache.                   *)
MergedOnce ==
  StatedOnce /\ (\A i, j \in Objects : modules[i].path = modules[j].path => i = j)
  => \A i \in Objects : modules[i].ready =>
       \A n \in Node : Occurrences(i, n) <= 1

(* What is included is a submodule, which has no prefix of its own.  (The  *)
(* parser does not look, and a module may drop imports of its submodules.) *)
IncludesSubmodules == \A p \in Path : \A q \in Includes(p) : disk[q].prefix = NoPrefix

(* A finished module has all that its file and the submodules it includes  *)
(* state: each node, and for each import a binding of its prefix to a      *)
(* module of that name, unless the prefix is the module's own.             *)
ReadyMatchesSource ==
  IncludesSubmodules =>
  \A i \in Objects : modules[i].ready =>
    LET p == modules[i].path
        imports == {s \in Source(p, "import") : s.prefix # Own(i)}
    IN  /\ {s.node : s \in Source(p, "node")} \subseteq Elements(modules[i].nodes)
        /\ {<<s.prefix, s.name>> : s \in imports}
             = {<<b[1], NameOf(b[2])>> : b \in modules[i].imports}
        /\ \A b, c \in modules[i].imports : b[1] = c[1] => b = c

(* Every call ends, whatever the files import and include.                 *)
Terminates == status = "running" ~> status # "running"

(* FEATURES.md on the module map: augments apply to the same YangModule    *)
(* instances used for validation.  An augment a registered module states   *)
(* is in the registered object of the module it aims at, once.             *)
AugmentsReachTheMap ==
  \A n \in Name : registered[n] # 0 =>
    LET i == registered[n]
    IN  \A s \in Source(modules[i].path, "augment") :
          \A j \in Resolved(i, s.prefix) :
            Occurrences(registered[NameOf(j)], s.node) = 1
=============================================================================
