------------------------------ MODULE UsesRules ------------------------------
(***************************************************************************)
(* What expanding a module should give, written over the module as parsed: *)
(* a uses is the grouping it names, expanded, with each refine at its path *)
(* below the uses, gated, and extended by the augments (RFC 7950, 7.13).   *)
(* It is compared with what the steps of UsesExpansion leave behind.       *)
(***************************************************************************)
EXTENDS UsesExpansion, UsesTree

Found(src, module, s) ==
  LET home == ModuleOf(module, s)
  IN  home # None /\ s.grouping \in DOMAIN src.groupings[home]
Used(src, module, s) == src.groupings[ModuleOf(module, s)][s.grouping]

(* The node at the end of a path.                                          *)
Addressed(b, path) == {l[2] : l \in {m \in Located(b) : m[1] = path}}
RefinedAt(b, r) ==
  IF Addressed(b, r.path) = {} THEN b
  ELSE LET a == CHOOSE a \in Addressed(b, r.path) : TRUE
       IN  WithAt(b, a, Apply(NodeAt(b, a), r))
ExtendedAt(b, path, stmts) ==
  IF Addressed(b, path) = {} THEN b
  ELSE ExtendAt(b, CHOOSE a \in Addressed(b, path) : TRUE, stmts)

RECURSIVE Instance(_, _, _, _)
Instance(src, module, b, top) ==
  LET Refine(e, s) == FoldLeft(RefinedAt, e, s.refines)
      Augment(e, s) ==
        FoldLeft(LAMBDA x, a :
                   ExtendedAt(x, a.path, Gated(Instance(src, module, a.subs, FALSE), a)),
                 e, s.augs)
      One(s) ==
        CASE s.kind = "typedef" -> IF top THEN <<s>> ELSE <<>>
          [] s.kind = "uses" /\ ~Found(src, module, s) -> <<>>
          [] s.kind = "uses" /\ Found(src, module, s) ->
               Augment(Gated(Refine(Instance(src, ModuleOf(module, s), Used(src, module, s), FALSE),
                                    s), s), s)
          [] s.kind = "choice" ->
               <<[s EXCEPT !.cases = [k \in DOMAIN s.cases |->
                    [s.cases[k] EXCEPT !.subs = Instance(src, module, @, FALSE)]]]>>
          [] OTHER -> <<[s EXCEPT !.subs = Instance(src, module, @, FALSE)]>>
  IN  FlattenSeq([i \in DOMAIN b |-> One(b[i])])

(* A grouping that uses itself: a set in which each uses another.          *)
Cyclic(src) ==
  \E S \in SUBSET ToSet(src.order) \ {{}} : \A g \in S :
    \E s \in UsesIn(src.groupings["m"][g]) :
      Found(src, "m", s) /\ ModuleOf("m", s) = "m" /\ s.grouping \in S

(* Every uses that is expanded: the statement, where it stands, and its    *)
(* grouping expanded.                                                      *)
RECURSIVE Instances(_, _, _, _)
Instances(src, module, b, prefix) ==
  UNION {IF s.kind # "uses"
         THEN Instances(src, module, Kids(s), IF Node(s) THEN Append(prefix, s.name) ELSE prefix)
         ELSE IF ~Found(src, module, s) THEN {}
         ELSE LET home == ModuleOf(module, s)  def == Used(src, module, s)
              IN  {[stmt |-> s, prefix |-> prefix, inst |-> Instance(src, home, def, FALSE)]}
                  \cup Instances(src, home, def, prefix)
                  \cup UNION {Instances(src, module, a.subs, prefix \o a.path) :
                                 a \in ToSet(s.augs)} :
         s \in ToSet(b)}
InstancesOf(src) ==
  Instances(src, "m", src.body, <<>>)
  \cup UNION {Instances(src, "m", src.groupings["m"][g], <<>>) : g \in ToSet(src.order)}

(* A refine no node but its own answers to, counting the way down to the   *)
(* uses; an augment that finds its node and no other, one with statements. *)
EndingIn(u, r) == {p \in Paths(u.inst) : IsSuffix(r.path, u.prefix \o p)}
RefinesMeant(u) ==
  \A r \in ToSet(u.stmt.refines) : EndingIn(u, r) = {r.path} /\ ~IsSuffix(r.path, u.prefix)
AugmentsMeant(u) ==
  Len(u.stmt.augs) <= 1 /\ \A a \in ToSet(u.stmt.augs) :
    /\ Addresses(u.inst, a.path) = Addressed(u.inst, a.path)
    /\ Cardinality(Addresses(u.inst, a.path)) = 1
    /\ \A x \in Addresses(u.inst, a.path) : NodeAt(u.inst, x).kind # "choice"
Meant(src) == \A u \in InstancesOf(src) : RefinesMeant(u) /\ AugmentsMeant(u)
AllCopied(src) ==
  \A u \in InstancesOf(src) : CanCopy(u.inst) /\ \A a \in ToSet(u.stmt.augs) : CanCopy(a.subs)
-----------------------------------------------------------------------------
(* Neither the statements of the module nor a grouping has a uses left,    *)
(* but for those below the statements the augment of a choice misplaced.   *)
NothingLeft ==
  \A b \in {body} \cup Range(groupings["m"]) :
    \A s \in Statements(b) : s.kind # "uses" \/ \E c \in Statements(b) :
       c.kind = "choice" /\ s \in Statements(c.subs)

(* expand_all_uses_in_module leaves no uses and gives what the module      *)
(* means: refines on their nodes and nowhere else, conditions of nested    *)
(* uses on their roots, all augments, whatever the order of the groupings, *)
(* and the statements of one place untouched by what is done to another    *)
(* copy.                                                                   *)
ResultCorrect ==
  status = "ok" =>
    /\ NothingLeft
    /\ Meant(source) =>
         /\ body = Instance(source, "m", source.body, TRUE)
         /\ \A g \in DOMAIN groupings["m"] :
              groupings["m"][g] = Instance(source, "m", source.groupings["m"][g], TRUE)

(* Each exception has its reason, and a module without one is expanded:    *)
(* circular groupings are found under whatever prefix they are written,    *)
(* and reported only if circular.                                          *)
VerdictCorrect ==
  Done =>
    /\ status = "circular" => Cyclic(source)
    /\ status = "ok" => ~Cyclic(source)
    /\ ~Cyclic(source) =>
         CASE status = "refine" ->
                \E u \in InstancesOf(source) : \E r \in ToSet(u.stmt.refines) : EndingIn(u, r) = {}
           [] status = "augment" ->
                \E u \in InstancesOf(source) : ~AugmentsMeant(u)
           [] status = "copy" -> ~AllCopied(source)
           [] OTHER -> TRUE
    /\ ~Cyclic(source) /\ Meant(source) /\ AllCopied(source) => status = "ok"
-----------------------------------------------------------------------------
(* Types.                                                                  *)

(* A body with each type replaced by the typedef found under its name.     *)
RECURSIVE Bound(_, _)
Bound(defs, b) ==
  LET Def(p) == [p EXCEPT !["type"] = IF @ = None THEN None ELSE defs[@]]
  IN  [i \in DOMAIN b |->
        [b[i] EXCEPT !.props = Def(@),
           !.subs = Bound(defs, @), !.cases = Bound(defs, @),
           !.refines = [j \in DOMAIN @ |-> [@[j] EXCEPT !.props = Def(@)]],
           !.augs = [j \in DOMAIN @ |-> [@[j] EXCEPT !.subs = Bound(defs, @)]]]]
BoundSource ==
  [source EXCEPT
     !.body = Bound(source.typedefs["m"], @),
     !.groupings = [mod \in Module |-> [g \in DOMAIN @[mod] |->
                      Bound(source.typedefs[mod], @[mod][g])]]]

(* The leaves of the expanded module have the types they had where they    *)
(* were written (_register_typedef_for_uses: "RFC 7950 scoping").          *)
TypesKeepTheirScope ==
  status = "ok" /\ Meant(source) =>
    Bound(typedefs["m"], body) = Instance(BoundSource, "m", BoundSource.body, TRUE)

(* They do if the modules have no typedef name in common, and an imported  *)
(* grouping declares the typedefs it uses.                                 *)
TypesIn(b) == {s.props["type"] : s \in Statements(b)} \ {None}
ScopesApart ==
  /\ \A t \in Type : source.typedefs["m"][t] = None \/ source.typedefs["l"][t] = None
  /\ \A b \in Range(source.groupings["l"]) : TypesIn(b) \subseteq TypedefsIn(b)
GroupingTypesRegistered == ScopesApart => TypesKeepTheirScope

(* Every expansion comes to an end, circular groupings included.           *)
Terminates == <>Done
=============================================================================
