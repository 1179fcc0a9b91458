---------------------------- MODULE Reachability ----------------------------
(***************************************************************************)
(* What the graph walks of the code promise (identity_graph.py): the set   *)
(* found grows along the edges and is handed out when it is closed.        *)
(***************************************************************************)
CONSTANT Node

VARIABLES
  edges,     \* [Node -> SUBSET Node]
  start,     \* the nodes the walk begins with
  found,     \* the nodes reached so far
  complete   \* the result has been handed out

vars == <<edges, start, found, complete>>

Next1(S) == start \cup UNION {edges[n] : n \in S}
Closed(S) == Next1(S) \subseteq S

Init ==
  /\ edges \in [Node -> SUBSET Node]
  /\ start \subseteq Node
  /\ found \subseteq start
  /\ complete = FALSE

Extend ==
  /\ ~complete
  /\ \E X \in SUBSET Next1(found) : found' = found \cup X
  /\ UNCHANGED <<edges, start, complete>>

Finish ==
  /\ ~complete /\ Closed(found)
  /\ complete' = TRUE
  /\ UNCHANGED <<edges, start, found>>

Next == Extend \/ Finish

Spec == Init /\ [][Next]_vars /\ WF_vars(Next)
-----------------------------------------------------------------------------
TypeOK ==
  /\ edges \in [Node -> SUBSET Node]
  /\ start \subseteq Node
  /\ found \subseteq Node
  /\ complete \in BOOLEAN

(* Nothing is found that need not be: found is part of every closed set.   *)
Sound == \A T \in SUBSET Node : Closed(T) => found \subseteq T

(* The result of the walk is the least closed set: the reflexive and       *)
(* transitive closure of the start under the edges.                        *)
Least == complete => Closed(found) /\ Sound
=============================================================================
