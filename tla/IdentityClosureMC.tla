-------------------------- MODULE IdentityClosureMC --------------------------
(***************************************************************************)
(* IdentityClosure on two modules that import each other, with up to two   *)
(* identities each: all graphs over five base sets, cycles, unresolved and  *)
(* own-prefix references among them.                                       *)
(***************************************************************************)
EXTENDS IdentityClosure, TLC

MCModule == {"m", "n"}
MCIdent == {"a", "b"}
MCNoPrefix == ""
MCPrefix == {"own", "imp"}
Other(m) == CHOOSE o \in MCModule : o # m
MCPrefixTarget == [m \in MCModule |-> ("own" :> {m}) @@ ("imp" :> {Other(m)})]

MCBaseSets ==
  {{}, {<<"", "a">>}, {<<"own", "a">>},
   {<<"", "a">>, <<"imp", "b">>}, {<<"", "b">>, <<"imp", "a">>}}

Ask(op, value, targets) == [op |-> op, importer |-> "m", value |-> value, targets |-> targets]

Values == {<<"own", "a">>, <<"imp", "a">>}
MCQueries ==
  {Ask("identityref", v, ts) :
     v \in Values \cup {<<"", "a">>},
     ts \in {{}, {<<"", "a">>}, {<<"own", "a">>, <<"imp", "b">>}}}
  \cup {Ask(op, v, {t}) :
          op \in {"derived-from", "derived-from-or-self"}, v \in Values,
          t \in {<<"", "b">>, <<"own", "a">>, <<"imp", "b">>}}
  \cup {Ask("descendants", <<"", "a">>, {})}
=============================================================================
