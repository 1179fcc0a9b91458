----------------------------- MODULE LoadingRules -----------------------------
(***************************************************************************)
(* Which files load, stated by rules, without calls, cache, pending set or *)
(* stack: what a file comes to statement by statement, and when it is      *)
(* accepted.  LoadingRulesProofs shows that YangParser accepts and refuses *)
(* exactly as these rules say, whatever it has loaded before.              *)
(***************************************************************************)
EXTENDS ModuleLoader

AugmentsOf(d) == {s \in UNION {Elements(d[p].body) : p \in Path} : s.op = "augment"}
AddedNodes(d) == {s.node : s \in AugmentsOf(d)}

(* What the statements of a file come to; an import is known by its prefix *)
(* and the file it leads to.                                               *)
Content(d) ==
  [nodes : SUBSET Node, defines : SUBSET Node, augments : SUBSET AugmentsOf(d),
   imports : SUBSET (Prefix \X Path)]

Nothing == [nodes |-> {}, defines |-> {}, augments |-> {}, imports |-> {}]

(* <<p, n, c>>: what stands before the n-th statement of p comes to c.     *)
(* Beyond the last statement, at n = End(d, p), the file has been read; at *)
(* the number after that, it is accepted.                                  *)
Facts(d) == Path \X Nat \X Content(d)
End(d, p) == Len(d[p].body) + 1

(* A submodule that is included by this name fits what precedes it.        *)
Fits(d, p, c, name, q, sub) ==
  /\ d[q].name = name
  /\ d[q].belongs \subseteq {d[p].name}
  /\ sub.defines \cap c.defines = {}
  /\ \A b \in sub.imports, e \in c.imports :
       b[1] # d[p].prefix /\ e[1] = b[1] => d[e[2]].name = d[b[2]].name

Joined(d, p, c, sub) ==
  [nodes |-> c.nodes \cup sub.nodes, defines |-> c.defines \cup sub.defines,
   augments |-> c.augments \cup sub.augments,
   imports |-> c.imports \cup
     {b \in sub.imports : b[1] # d[p].prefix /\ \A e \in c.imports : e[1] # b[1]}]

(* Statement s takes p from content c to content c2, by the facts S.       *)
Reads(d, S, p, s, c, c2) ==
  \/ s.op = "node" /\ c2 = [c EXCEPT !.nodes = @ \cup {s.node}]
  \/ s.op = "define" /\ c2 = [c EXCEPT !.defines = @ \cup {s.node}]
  \/ s.op = "augment" /\ c2 = [c EXCEPT !.augments = @ \cup {s}]
  \/ LET q == Locate[s.name]
     IN  /\ s.op = "import" /\ q \in Path
         /\ s.prefix # d[p].prefix /\ \A b \in c.imports : b[1] # s.prefix
         /\ d[q].name = s.name
         /\ \E own : <<q, End(d, q) + 1, own>> \in S
         /\ c2 = [c EXCEPT !.imports = @ \cup {<<s.prefix, q>>}]
  \/ LET q == Locate[s.name]
     IN  /\ s.op = "include" /\ q \in Path
         /\ \E sub : /\ <<q, End(d, q), sub>> \in S
                     /\ Fits(d, p, c, s.name, q, sub)
                     /\ c2 = Joined(d, p, c, sub)

(* The target of augment s is in the file itself or in an imported one.    *)
HasTarget(d, S, p, c, s) ==
  IF s.prefix = d[p].prefix
  THEN s.target \in c.nodes
  ELSE \E b \in c.imports : /\ b[1] = s.prefix
                            /\ \E own : /\ <<b[2], End(d, b[2]) + 1, own>> \in S
                                        /\ s.target \in own.nodes

Accepted(d, S, p, c) ==
  d[p].fault = "none" /\ \A s \in c.augments : HasTarget(d, S, p, c, s)

Follows(d, S, p, n, c) ==
  \/ n = 1 /\ c = Nothing
  \/ /\ n - 1 \in 1 .. Len(d[p].body)
     /\ \E c1 : <<p, n - 1, c1>> \in S /\ Reads(d, S, p, d[p].body[n - 1], c1, c)
  \/ n = End(d, p) + 1 /\ <<p, n - 1, c>> \in S /\ Accepted(d, S, p, c)

(* The facts that follow, from nothing, by the rules: the least set closed *)
(* under them.  A cycle of imports or includes establishes nothing.        *)
ClosedUnder(d, S) ==
  \A p \in Path, n \in Nat, c \in Content(d) : Follows(d, S, p, n, c) => <<p, n, c>> \in S
Established(d) == {f \in Facts(d) : \A S \in SUBSET Facts(d) : ClosedUnder(d, S) => f \in S}

Loads(d, p) == \E c : <<p, End(d, p) + 1, c>> \in Established(d)

(* A call accepts exactly the files that load, whatever came before it.    *)
VerdictsExact ==
  [][(status = "running" /\ status' # "running" /\ TargetsInSource)
       => (status' = "ok" <=> Loads(disk, stack[1].path))]_vars
=============================================================================
