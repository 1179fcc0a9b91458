----------------------------- MODULE SchemaScope -----------------------------
(***************************************************************************)
(* Which members a dict may have: the data nodes of a statement, through   *)
(* the choices and cases it holds, which are no data nodes themselves      *)
(* ("nested choices: leaves stay at this level",                           *)
(* src/xyang/validator/document_validator.py:501).                         *)
(***************************************************************************)
EXTENDS DocumentWalk

Virtual == {"choice", "case"}

(* The data nodes of a statement, and the choices and cases it holds, down *)
(* to the next level of data.                                              *)
ScopeOf[n \in Node] ==
  UNION {IF Stmt[s].kind \in Virtual THEN ScopeOf[s] ELSE {s} : s \in StmtsOf(n)}
Scope(n) == ScopeOf[n]

InnerOf[n \in Node] ==
  UNION {IF Stmt[s].kind \in Virtual THEN {s} \cup InnerOf[s] ELSE {} : s \in StmtsOf(n)}
Inner(n) == InnerOf[n]

(* The choices and cases of s that n is a part of.                         *)
Around(n, s) == {c \in Inner(s) : n \in Scope(c) \cup Inner(c)}
-----------------------------------------------------------------------------
(* What the parser makes: a statement stands in one other, a finite number *)
(* of levels down from the module; a choice has cases, and cases are       *)
(* nowhere else (parse_choice).                                            *)
Descending(depth) ==
  depth \in [Node -> Nat] /\ \A n \in Node : \A s \in StmtsOf(n) : depth[s] < depth[n]
StatementsOwned ==
  /\ \A a, b \in Node : StmtsOf(a) \cap StmtsOf(b) # {} => a = b
  /\ \A n \in Node : \A s \in StmtsOf(n) :
       /\ Stmt[n].kind = "choice" <=> Stmt[s].kind = "case"
       /\ Stmt[s].kind # "module"
  /\ \A r \in Roots : Stmt[r].kind = "module"
SchemaIsTree == (\E depth : Descending(depth)) /\ StatementsOwned

(* The names of choices in cases: the walk takes a member called so for    *)
(* the data of the choice (document_validator.py:494).                     *)
ChoiceNames(s) ==
  {Stmt[c].name : c \in {c \in Inner(s) \ StmtsOf(s) : Stmt[c].kind = "choice"}}

(* At the end of _visit_children the members reported as unknown fields    *)
(* are those no data node answers to, or only one in a choice or case      *)
(* whose if-feature is false.                                              *)
UnknownFieldsExact ==
  LoopDone("children") /\ ChoiceNames(Top.stmt) \cap DOMAIN Top.data.m = {} =>
    \A k \in DOMAIN Top.data.m :
      k \in Top.visited <=>
        \E n \in Scope(Top.stmt) :
          Stmt[n].name = k /\ Around(n, Top.stmt) \cap inactive = {}
=============================================================================
