------------------------------- MODULE JsonSchema -------------------------------
(***************************************************************************)
(* A module, the JSON Schema generated from it, and the module this is     *)
(* read back as, Rounds times.                                             *)
(***************************************************************************)
EXTENDS JsonRules

CONSTANTS Sources,   \* the modules
          Rounds     \* how often one is written and read

VARIABLES module,    \* the module at hand
          source,    \* the module the schema was generated from
          schema,    \* the schema, None before the first
          phase,     \* "module" or "schema": which of the two is the latest
          round      \* how often the module has been read back
vars == <<module, source, schema, phase, round>>

Init == /\ module \in Sources /\ source = None /\ schema = None
        /\ phase = "module" /\ round = 0

Generate == /\ phase = "module" /\ round < Rounds
            /\ schema' = GenerateJsonSchema(module)
            /\ source' = module /\ phase' = "schema"
            /\ UNCHANGED <<module, round>>

Parse == /\ phase = "schema"
         /\ module' = ParseJsonSchema(schema)
         /\ phase' = "module" /\ round' = round + 1
         /\ UNCHANGED <<source, schema>>

Next == Generate \/ Parse
Spec == Init /\ [][Next]_vars
------------------------------------------------------------------------------
(* What is read back says what the module said: every node, the values of  *)
(* every type, every pattern, default, unit, x-yang annotation, case and   *)
(* mandatory mark, with the hoisted choices told from their siblings       *)
(* (FEATURES.md:294), for the modules that are lossless by README.md.       *)
RoundTrip ==
  phase = "module" /\ round > 0 /\ Lossless(source) => Meaning(module) = Meaning(source)

(* A generic JSON Schema tool accepts a document with the schema if and    *)
(* only if names, types, mandatory nodes, choices and numbers of elements  *)
(* are those of the module (FEATURES.md:219), where the module is plain.   *)
SchemaAgrees ==
  phase = "schema" /\ Plain(module) =>
    \A f \in Documents(module) : AcceptsDocument(schema, f) = ShapedDocument(module, f)
==============================================================================
