---------------------------- MODULE DocumentRules ----------------------------
(***************************************************************************)
(* What a document has to satisfy, stated on schema and data without the   *)
(* walk: the rules DocumentValidator is documented and tested to enforce   *)
(* (FEATURES.md, tests/test_choice_case.py, the module docstrings).        *)
(*                                                                         *)
(* The rules are read in two ways.  "through" is that of                   *)
(* tests/test_choice_case.py:6-16: mandatory binds below the closest       *)
(* ancestor that is not a non-presence container, whether or not the       *)
(* containers in between are there.  Without it mandatory binds in         *)
(* containers that are there only.                                         *)
(***************************************************************************)
EXTENDS SchemaScope

HasDataOf(c, o) == \E n \in Scope(c) : Present(n, o)
Allowed(n, o) == n \notin inactive /\ ~WhenFalse(n, o)
AllowedHere(n, s, o) == \A c \in Around(n, s) \cup {n} : Allowed(c, o)

(* A statement binds when it may exist and its cases are selected.         *)
Binds(n, s, o) ==
  /\ AllowedHere(n, s, o)
  /\ \A c \in Around(n, s) : Stmt[c].kind = "case" => HasDataOf(c, o)

MustHolds(n, o, v) == constraintChecks /\ Stmt[n].must => Must(n, o, v) = "true"
TypeHolds(n, v) == constraintChecks => ~TypeFails(n, v)

(* Nothing mandatory lies below n, which is absent: no case of a choice is *)
(* selected there.                                                         *)
RECURSIVE NothingMissing(_)
NothingMissing(n) ==
  \A x \in StmtsOf(n) :
    Allowed(x, [t |-> "dict", m |-> <<>>]) =>
      /\ ~Stmt[x].mandatory
      /\ Stmt[x].kind = "container" /\ ~Stmt[x].presence => NothingMissing(x)

RECURSIVE ValidObject(_, _, _)

ValidLeaf(n, o) ==
  LET v == EffectiveValue(n, o)
      there == v # Null \/ (Stmt[n].empty /\ Present(n, o))
  IN  /\ Stmt[n].mandatory => there
      /\ there => MustHolds(n, o, v)
      /\ v # Null /\ Stmt[n].kind = "leaf" => TypeHolds(n, v)

ValidCount(n, v) ==
  Count(v) >= Stmt[n].min /\ (Stmt[n].max > 0 => Count(v) <= Stmt[n].max)

ValidEntries(n, s, through) ==
  /\ \A i \in DOMAIN s :
       MustHolds(n, s[i], s[i]) /\ (IsDict(s[i]) => ValidObject(n, s[i], through))
  /\ Stmt[n].keys # <<>> =>
       \A i, j \in DOMAIN s :
         i # j /\ IsDict(s[i]) /\ IsDict(s[j]) => KeyTuple(n, s[i]) # KeyTuple(n, s[j])

ValidNode(n, o, through) ==
  LET v == EffectiveValue(n, o)
  IN  CASE Stmt[n].kind \in Leafs -> ValidLeaf(n, o)
        [] Stmt[n].kind = "leaf-list" ->
             Present(n, o) => /\ ValidCount(n, v)
                              /\ \A x \in Items(v) : MustHolds(n, o, x) /\ TypeHolds(n, x)
        [] Stmt[n].kind = "container" ->
             IF Present(n, o)
             THEN MustHolds(n, o, v) /\ (IsDict(v) => ValidObject(n, v, through))
             ELSE through /\ ~Stmt[n].presence => NothingMissing(n)
        [] Stmt[n].kind = "list" ->
             Present(n, o) => ValidCount(n, v) /\ (IsList(v) => ValidEntries(n, v.s, through))

ValidObject(s, o, through) ==
  /\ \A k \in DOMAIN o.m :
       \E n \in Scope(s) : Stmt[n].name = k /\ AllowedHere(n, s, o)
  /\ \A c \in {x \in Inner(s) : Stmt[x].kind = "choice"} :
       /\ \A a, b \in StmtsOf(c) : HasDataOf(a, o) /\ HasDataOf(b, o) => a = b
       /\ Stmt[c].mandatory /\ Binds(c, s, o) => HasDataOf(c, o)
  /\ \A n \in Scope(s) : Binds(n, s, o) => ValidNode(n, o, through)
-----------------------------------------------------------------------------
(* The documents that the two readings judge alike.                        *)
ReadingsAgree ==
  ValidObject(root, document, TRUE) = ValidObject(root, document, FALSE)

(* The keys of the entries of the lists that a document may have.          *)
RECURSIVE KeysHashable(_, _)
KeysHashable(s, o) ==
  \A n \in {n \in Scope(s) : Binds(n, s, o) /\ Present(n, o)} :
    LET v == EffectiveValue(n, o)
    IN  /\ Stmt[n].kind = "container" /\ IsDict(v) => KeysHashable(n, v)
        /\ Stmt[n].kind = "list" /\ IsList(v) =>
             \A e \in {e \in Items(v) : IsDict(e)} :
               /\ \A k \in {Stmt[n].keys[i] : i \in DOMAIN Stmt[n].keys} \cap DOMAIN e.m :
                    ~IsDict(e.m[k]) /\ ~IsList(e.m[k])
               /\ KeysHashable(n, e)

(* validate() returns no error exactly for the documents that satisfy the  *)
(* rules, whatever the order of checks and early returns in the walk and   *)
(* whatever an earlier call on the same object left behind.  Documents     *)
(* whose only fault lies below an absent non-presence container are left   *)
(* out: the code does not look there (document_validator.py:677).          *)
(* It ends by an exception (document_validator.py:114 says never) only     *)
(* where a key is an object or an array, in a list that the document may   *)
(* have, and never returns such a document as one without errors.          *)
VerdictCorrect ==
  /\ status = "done" /\ ReadingsAgree =>
       (errors = {} <=> ValidObject(root, document, TRUE))
  /\ status = "raised" => ~KeysHashable(root, document)
  /\ status = "done" /\ errors = {} => KeysHashable(root, document)
=============================================================================
