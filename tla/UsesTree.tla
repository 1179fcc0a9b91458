------------------------------ MODULE UsesTree ------------------------------
(***************************************************************************)
(* Trees of statements: the lookup and the copy of src/xyang/              *)
(* refine_expand.py, and what expanding a module should give, written as   *)
(* RFC 7950 puts it (a refine goes to the node at its path below the       *)
(* uses, a cycle is one of groupings).  For TLC.                           *)
(***************************************************************************)
EXTENDS Integers, SequencesExt

Kids(s) == IF s.kind = "choice" THEN s.cases ELSE s.subs
WithKids(s, kids) ==
  IF s.kind = "choice" THEN [s EXCEPT !.cases = kids] ELSE [s EXCEPT !.subs = kids]

(* copy_yang_statement knows neither notification nor action.              *)
RECURSIVE CanCopy(_)
CanCopy(b) ==
  \A s \in ToSet(b) : /\ s.kind # "notification"
                      /\ CanCopy(s.subs) /\ CanCopy(s.cases)
                      /\ \A a \in ToSet(s.augs) : CanCopy(a.subs)

(* _find_from_node: the addresses, below s, of the nodes path leads to.  A *)
(* node whose name is not the next one is looked through; a choice is      *)
(* looked through down to the bodies of its cases.                         *)
RECURSIVE Find(_, _)
Find(s, path) ==
  LET Below(node, rest) ==
        UNION {{<<k>> \o a : a \in Find(Kids(node)[k], rest)} : k \in DOMAIN Kids(node)}
      InCase(name, rest) ==
        UNION {IF rest = <<>> THEN {<<k>>}
               ELSE {<<k>> \o a : a \in Below(s.cases[k], rest)} :
               k \in {j \in DOMAIN s.cases : s.cases[j].name = name}}
      Flat(rest) ==
        IF s.kind # "choice" THEN Below(s, rest)
        ELSE UNION {{<<k>> \o a : a \in Below(s.cases[k], rest)} : k \in DOMAIN s.cases}
  IN  CASE s.name = Head(path) /\ Len(path) = 1 -> {<<>>}
        [] s.name = Head(path) /\ Len(path) > 1 ->
             IF s.kind = "choice" THEN InCase(path[2], Tail(Tail(path)))
             ELSE Flat(Tail(path))
        [] s.kind = "choice" /\ \E c \in ToSet(s.cases) : c.name = Head(path) ->
             InCase(Head(path), Tail(path))
        [] OTHER -> Flat(path)

(* find_nodes_by_refine_path: an address begins with the root's place.     *)
Addresses(b, path) == UNION {{<<i>> \o a : a \in Find(b[i], path)} : i \in DOMAIN b}
NodesFound(b, path) == Cardinality(Addresses(b, path))

(* target.statements.extend: of a choice too, whose cases are elsewhere.   *)
RECURSIVE ExtendAt(_, _, _)
ExtendAt(b, address, stmts) ==
  [b EXCEPT ![Head(address)] =
     IF Len(address) = 1 THEN [@ EXCEPT !.subs = @ \o stmts]
     ELSE WithKids(@, ExtendAt(Kids(@), Tail(address), stmts))]
ExtendFound(b, path, stmts) ==
  ExtendAt(b, CHOOSE a \in Addresses(b, path) : TRUE, stmts)
-----------------------------------------------------------------------------
(* What should come out.                                                   *)

Node(s) == s.kind \notin {"uses", "typedef"}

(* Paths and addresses of all nodes of an expanded body, as pairs.         *)
RECURSIVE Located(_)
Located(b) ==
  UNION {{<< <<b[i].name>>, <<i>> >>}
           \cup {<< <<b[i].name>> \o l[1], <<i>> \o l[2] >> : l \in Located(Kids(b[i]))} :
         i \in {j \in DOMAIN b : Node(b[j])}}
Paths(b) == {l[1] : l \in Located(b)}

RECURSIVE NodeAt(_, _)
NodeAt(b, address) ==
  IF Len(address) = 1 THEN b[address[1]] ELSE NodeAt(Kids(b[address[1]]), Tail(address))

RECURSIVE WithAt(_, _, _)
WithAt(b, address, s) ==
  [b EXCEPT ![Head(address)] =
     IF Len(address) = 1 THEN s ELSE WithKids(@, WithAt(Kids(@), Tail(address), s))]

(* Every statement of a body, of the cases and augments below included.    *)
RECURSIVE Statements(_)
Statements(b) ==
  UNION {{s} \cup Statements(s.subs) \cup Statements(s.cases)
             \cup UNION {Statements(a.subs) : a \in ToSet(s.augs)} : s \in ToSet(b)}
UsesIn(b) == {s \in Statements(b) : s.kind = "uses"}
=============================================================================
