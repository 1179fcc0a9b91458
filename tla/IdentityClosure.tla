--------------------------- MODULE IdentityClosure ---------------------------
(***************************************************************************)
(* Identity derivation (src/xyang/identity_graph.py): the three questions  *)
(* answered from identity_ancestor_closure, and descendant_closure, which  *)
(* lists an identity's values for the JSON Schema.                         *)
(*                                                                         *)
(* The functions keep nothing between calls: a behaviour is one call.  An  *)
(* identity is a pair <<module, name>>, a reference <<prefix, name>>; the  *)
(* worklists are sets, as neither the order in which entries are popped    *)
(* nor a second copy of one changes a result.                              *)
(***************************************************************************)
CONSTANTS
  Module, Ident,
  Prefix, NoPrefix,  \* prefixes in use, and the absence of one
  PrefixTarget,      \* resolve_prefixed_module: module -> prefix -> at most one module
  BaseSets,          \* the sets of base statements an identity may have
  Queries            \* the calls, see Query

Pair == Module \X Ident
Ref == (Prefix \cup {NoPrefix}) \X Ident

(* importer: the module whose prefixes the names use (descendant_closure:  *)
(* the module itself, value its identity); targets: the second name, or    *)
(* the identityref's bases.                                                *)
Query == [op : {"identityref", "derived-from", "derived-from-or-self", "descendants"},
          importer : Module, value : Ref, targets : SUBSET Ref]

ASSUME ScopeAssumption ==
  /\ NoPrefix \notin Prefix
  /\ PrefixTarget \in [Module -> [Prefix -> SUBSET Module]]
  /\ \A m \in Module, p \in Prefix : \A x, y \in PrefixTarget[m][p] : x = y

ASSUME QueryAssumption ==
  /\ BaseSets \subseteq SUBSET Ref
  /\ Queries \subseteq Query
  /\ \A q \in Queries : q.op = "descendants" => q.value[1] = NoPrefix

VARIABLES
  identities,   \* defined identity -> its bases
  query,        \* the call
  seen, stack,  \* of the walk; descendant_closure's out is seen
  answer, pc

vars == <<identities, query, seen, stack, answer, pc>>
-----------------------------------------------------------------------------
(* Mutant of Resolve: a name is not looked up in the module it leads to.   *)
ResolveModuleOnly(m, ref) ==
  {p \in Pair :
     /\ p[2] = ref[2]
     /\ IF ref[1] = NoPrefix THEN p[1] = m ELSE p[1] \in PrefixTarget[m][ref[1]]}

(* resolve_identity_base_ref: the identity a reference denotes, {} if none.*)
Resolve(m, ref) ==
  {p \in DOMAIN identities :
     /\ p[2] = ref[2]
     /\ IF ref[1] = NoPrefix THEN p[1] = m ELSE p[1] \in PrefixTarget[m][ref[1]]}

(* resolve_identity_qname_pair: a name without a prefix denotes nothing.   *)
ResolveQName(m, ref) == IF ref[1] = NoPrefix THEN {} ELSE Resolve(m, ref)

Bases(p) ==
  IF p \in DOMAIN identities THEN UNION {Resolve(p[1], b) : b \in identities[p]} ELSE {}

(* Mutant of Children: the prefix of a base is disregarded.                *)
ChildrenOfAnyPrefix(p) ==
  {c \in DOMAIN identities : c[1] = p[1] /\ \E b \in identities[c] : b[2] = p[2]}

(* descendant_closure's children: by the bases written without a prefix.   *)
Children(p) ==
  {c \in DOMAIN identities : c[1] = p[1] /\ <<NoPrefix, p[2]>> \in identities[c]}

Descending == query.op = "descendants"
Value == ResolveQName(query.importer, query.value)

(* Calls that answer before any walk.                                      *)
Refused ==
  /\ ~Descending
  /\ \/ Value = {}
     \/ query.op = "identityref" /\ query.targets = {}
     \/ query.op # "identityref" /\ \E t \in query.targets : ResolveQName(query.importer, t) = {}

Start ==
  IF Refused THEN {}
  ELSE IF Descending THEN {<<query.importer, query.value[2]>>}
  ELSE Value

(* The answer read off the closure, out.                                   *)
Holds(out) ==
  CASE query.op = "identityref" ->
         \A t \in query.targets : \E p \in Resolve(query.importer, t) : p \in out
    [] query.op = "derived-from" ->
         \A t \in query.targets : \E p \in ResolveQName(query.importer, t) :
           p \in out /\ p \notin Value
    [] query.op = "derived-from-or-self" ->
         \A t \in query.targets : \E p \in ResolveQName(query.importer, t) : p \in out
    [] OTHER -> FALSE
-----------------------------------------------------------------------------
Init ==
  /\ identities \in UNION {[D -> BaseSets] : D \in SUBSET Pair}
  /\ query \in Queries
  /\ Descending => <<query.importer, query.value[2]>> \in DOMAIN identities
  /\ seen = {} /\ stack = {} /\ answer = FALSE /\ pc = "call"

Refuse ==
  /\ pc = "call" /\ Refused
  /\ pc' = "done" /\ answer' = FALSE
  /\ UNCHANGED <<identities, query, seen, stack>>

(* descendant_closure has its start in the result from the beginning.      *)
Begin ==
  /\ pc = "call" /\ ~Refused
  /\ stack' = Start
  /\ seen' = IF Descending THEN Start ELSE {}
  /\ pc' = "walk"
  /\ UNCHANGED <<identities, query, answer>>

(* Mutant of SkipSeen: the bases of a seen identity are pushed again.      *)
PushSeen(p) ==
  /\ pc = "walk" /\ ~Descending /\ p \in stack /\ p \in seen
  /\ stack' = (stack \ {p}) \cup Bases(p)
  /\ UNCHANGED <<identities, query, seen, answer, pc>>

SkipSeen(p) ==
  /\ pc = "walk" /\ ~Descending /\ p \in stack /\ p \in seen
  /\ stack' = stack \ {p}
  /\ UNCHANGED <<identities, query, seen, answer, pc>>

(* Mutant of Visit: the bases replace what was still to be visited.        *)
VisitBasesOnly(p) ==
  /\ pc = "walk" /\ ~Descending /\ p \in stack /\ p \notin seen
  /\ seen' = seen \cup {p}
  /\ stack' = Bases(p)
  /\ UNCHANGED <<identities, query, answer, pc>>

Visit(p) ==
  /\ pc = "walk" /\ ~Descending /\ p \in stack /\ p \notin seen
  /\ seen' = seen \cup {p}
  /\ stack' = (stack \ {p}) \cup Bases(p)
  /\ UNCHANGED <<identities, query, answer, pc>>

(* descendant_closure marks a child when it pushes it.                     *)
VisitChildren(p) ==
  /\ pc = "walk" /\ Descending /\ p \in stack
  /\ seen' = seen \cup Children(p)
  /\ stack' = (stack \ {p}) \cup (Children(p) \ seen)
  /\ UNCHANGED <<identities, query, answer, pc>>

Answer ==
  /\ pc = "walk" /\ stack = {}
  /\ answer' = Holds(seen)
  /\ pc' = "done"
  /\ UNCHANGED <<identities, query, seen, stack>>

Next ==
  \/ Refuse \/ Begin
  \/ \E p \in Pair : SkipSeen(p) \/ Visit(p) \/ VisitChildren(p)
  \/ Answer

(* A call runs to its end.                                                 *)
Spec == Init /\ [][Next]_vars /\ WF_vars(Next)
-----------------------------------------------------------------------------
TypeOK ==
  /\ identities \in UNION {[D -> BaseSets] : D \in SUBSET Pair}
  /\ query \in Queries
  /\ seen \subseteq DOMAIN identities
  /\ stack \subseteq DOMAIN identities
  /\ answer \in BOOLEAN
  /\ pc \in {"call", "walk", "done"}

(* Every walk is a Reachability walk along its kind of edges: it hands out *)
(* exactly the closure of its start, and it ends, also on cyclic bases.    *)
Edges == [p \in Pair |-> IF Descending THEN Children(p) ELSE Bases(p)]

Abstract == INSTANCE Reachability WITH
  Node <- Pair, edges <- Edges, start <- Start, found <- seen, complete <- (pc = "done")

Implements == Abstract!Spec

(* Derivation (RFC 7950, 7.18.2), stated without the walk: t is in every   *)
(* set of identities that holds v and the bases of its members.            *)
DerivedOrSelf(v, t) ==
  \A T \in SUBSET Pair : v \in T /\ (\A p \in T : Bases(p) \subseteq T) => t \in T

Derives(v, t) ==
  CASE query.op = "derived-from" -> DerivedOrSelf(v, t) /\ v # t
    [] OTHER -> DerivedOrSelf(v, t)

(* The three questions are answered by the derivation over all modules,    *)
(* with the names resolved in the importer's scope; a name that resolves   *)
(* to nothing makes the answer no.                                         *)
AnswerExact ==
  pc = "done" /\ ~Descending =>
    (answer <=>
       /\ query.op = "identityref" => query.targets # {}
       /\ \E v \in Value : \A t \in query.targets :
            \E p \in IF query.op = "identityref" THEN Resolve(query.importer, t)
                     ELSE ResolveQName(query.importer, t) :
              Derives(v, p))

(* descendant_closure walks downwards, along edges it inverts first; it    *)
(* finds the identities from which a walk upwards along unprefixed bases   *)
(* reaches the given one.                                                  *)
LocalBases(p) ==
  {q \in Pair : q[1] = p[1] /\ p \in DOMAIN identities /\ <<NoPrefix, q[2]>> \in identities[p]}

LocallyDerived(v, t) ==
  \A T \in SUBSET Pair : v \in T /\ (\A p \in T : LocalBases(p) \subseteq T) => t \in T

EnumExact ==
  pc = "done" /\ Descending =>
    \A v \in Pair :
      v \in seen <=> LocallyDerived(v, <<query.importer, query.value[2]>>)
=============================================================================
