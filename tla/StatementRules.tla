---------------------------- MODULE StatementRules ----------------------------
(***************************************************************************)
(* What StatementParser promises, stated on the tree a text was written    *)
(* from.  A source carries its tree, whether a legal argument was replaced *)
(* in it, and how many of its last tokens are missing.                     *)
(*                                                                         *)
(* A statement of a tree is [kw, arg, body, braces, end]: end says whether *)
(* a ";" follows, which the parser never insists on; wrong marks an        *)
(* argument the keyword does not take.                                     *)
(***************************************************************************)
EXTENDS StatementParser

Punctuate(mark) == <<<<mark, mark>>>>
Word(text) == <<<<"IDENTIFIER", text>>>>

Each(seq, Op(_)) == FlattenSeq([i \in 1..Len(seq) |-> Op(seq[i])])

(* The tokens of a tree. *)
RECURSIVE Written(_)
Written(s) ==
  (IF s.kw = "prefix:name" THEN <<>> ELSE Word(s.kw)) \o s.arg
  \o (IF s.braces THEN Punctuate("{") \o Each(s.body, Written) \o Punctuate("}") ELSE <<>>)
  \o (IF s.end THEN Punctuate(";") ELSE <<>>)

Cut(tokens, missing) == SubSeq(tokens, 1, Len(tokens) - missing)

-----------------------------------------------------------------------------
(* Who owns what.                                                          *)

IsSkipped(s) == s.kw \in Unsupported
Read(s) ==
  IF s.kw = "description" THEN <<>> ELSE SelectSeq(s.body, LAMBDA c : ~IsSkipped(c))
Of(seq, kws) == SelectSeq(seq, LAMBDA c : c.kw \in kws)

(* Every statement below s that is read, a statement after its own. *)
RECURSIVE Below(_)
Below(s) == Each(Read(s), LAMBDA c : Below(c) \o <<c>>)

(* Blocks that are no parent of an extension's use: the module is. *)
Transparent == {"enum", "pattern", "import", "include"}
RECURSIVE Strays(_)
Strays(s) ==
  Each(Read(s), LAMBDA c : Strays(c) \o
         (IF s.kw \in Transparent /\ c.kw = "prefix:name" THEN <<c>> ELSE <<>>))

(* The statements s owns: its own, those its if-features and its argument  *)
(* pass on to it, and the strays of the whole text if it is the module.    *)
Owned(s) ==
  LET own(c) == CASE s.kw = "if-feature" /\ c.kw = "reference" -> <<>>
                  [] s.kw = "argument" /\ c.kw = "yin-element" -> <<>>
                  [] s.kw \in Transparent /\ c.kw = "prefix:name" -> <<>>
                  [] OTHER -> <<c>>
      passed(c) == CASE c.kw = "if-feature" -> Of(Read(c), {"reference"})
                     [] c.kw = "argument" -> Of(Read(c), {"yin-element"})
                     [] OTHER -> <<>>
      strays(c) == IF s.kw \in {"module", "submodule"} THEN Strays(c) ELSE <<>>
  IN SelectSeq(Each(Read(s), LAMBDA c : strays(c) \o own(c) \o passed(c)),
               LAMBDA c : ~Dropped(s.kw, c.kw))

(* The statement the parser builds for s. *)
RECURSIVE Means(_)
Means(s) ==
  LET types == Of(Owned(s), {"type"})
      lists == Appended \cup (IF s.kw = "refine" THEN {"default"} ELSE {})
               \cup (IF s.kw = "type" THEN {"type"} ELSE {})
      away == {"grouping", "identity", "feature"}
              \cup (IF s.kw \in {"module", "submodule"} THEN {"typedef"} ELSE {})
      fields == SelectSeq(Owned(s), LAMBDA c : c.kw \notin lists \cup away \cup {"type"})
      lone(c) == s.kw = "choice" /\ c.kw \in Inline
      members == [i \in 1..(Len(types) - 1) |-> Means(types[i + 1])]
  IN [ kw    |-> s.kw,
       arg   |-> s.arg,
       attrs |->
         [k \in {fields[i].kw : i \in 1..Len(fields)} |->
            Means(Last(Of(fields, {k})))]
         @@ (IF types = <<>> \/ s.kw = "type" THEN <<>>
             ELSE "type" :> [Means(types[1]) EXCEPT !.subs = @ \o members]),
       subs  |->
         Each(Of(Owned(s), lists \ away),
              LAMBDA c : <<IF lone(c)
                           THEN [kw |-> "case", arg |-> c.arg, attrs |-> <<>>,
                                 subs |-> <<Means(c)>>]
                           ELSE Means(c)>>) ]

(* The module's tables: the last definition of a name, for a feature the   *)
(* last that has conditions if any has.                                    *)
Definitions(s) ==
  LET all == Of(Below(s), {"typedef", "grouping", "identity", "feature", "extension"})
      keys == {<<all[i].kw, all[i].arg>> : i \in 1..Len(all)}
      named(k) == SelectSeq(all, LAMBDA d : <<d.kw, d.arg>> = k)
      guarded(k) == SelectSeq(named(k), LAMBDA d : Means(d).subs # <<>>)
  IN [k \in keys |-> Means(IF k[1] = "feature" /\ guarded(k) # <<>> THEN Last(guarded(k))
                           ELSE Last(named(k)))]

-----------------------------------------------------------------------------
(* Which texts are refused.                                                *)

Belongs(parent, s) ==
  CASE s.kw = "prefix:name" -> parent \in TakesExtensions
    [] parent = "choice" -> s.kw \in Allowed(parent) \cup Inline
    [] OTHER -> s.kw \in Allowed(parent)

(* Bits have names and positions of their own, counted on where not given. *)
BitsSound(bits) ==
  LET n == Len(bits)
      given(i) == Of(bits[i].body, {"position"})
      Counts(pos) ==
        \A i \in 1..n :
          IF given(i) # <<>> THEN pos[i] = given(i)[1].arg[1][3]
          ELSE /\ \A j \in 1..(i - 1) : pos[j] < pos[i]
               /\ i = 1 => pos[i] = 0
               /\ i > 1 => \E j \in 1..(i - 1) : pos[j] = pos[i] - 1
  IN /\ n > 0
     /\ \A i, j \in 1..n : bits[i].arg = bits[j].arg => i = j
     /\ \E pos \in [1..n -> 0..5] : Counts(pos) /\ IsInjective(pos)

(* The schema nodes below a choice, whatever cases they are in. *)
NodesOf(choice) == Of(choice.body, Inline) \o Each(Of(choice.body, {"case"}), LAMBDA c :
                        Of(c.body, Inline))

Sound(s) ==
  /\ s.kw = "type" /\ Last(s.arg)[2] = "enumeration" => Of(s.body, {"enum"}) # <<>>
  /\ s.kw = "type" /\ Last(s.arg)[2] = "identityref" => Of(s.body, {"base"}) # <<>>
  /\ s.kw = "type" /\ Last(s.arg)[2] = "bits" => BitsSound(Of(s.body, {"bit"}))
  /\ s.kw = "bit" => Len(Of(s.body, {"position"})) < 2
  /\ s.kw = "choice" => IsInjective([i \in 1..Len(NodesOf(s)) |-> NodesOf(s)[i].arg])
  /\ s.kw = "belongs-to" => s.braces
  /\ s.kw = "import" => s.braces \/ s.end
  /\ s.braces => Allowed(s.kw) # {} \/ s.kw = "description"

RECURSIVE Legal(_)
Legal(s) ==
  /\ ~s.wrong
  /\ \A i \in 1..Len(Read(s)) : Belongs(s.kw, Read(s)[i]) /\ Legal(Read(s)[i])
  /\ Sound(s)

(* Only one typedef of a name, wherever it stands; one feature of a name   *)
(* with conditions; and an extension of this module only after it.         *)
LegalModule(root) ==
  LET all == Below(root)
      top == Read(root)
      named(i) == <<all[i].kw, all[i].arg>>
      once(i) == all[i].kw = "typedef" \/ (all[i].kw = "feature" /\ Means(all[i]).subs # <<>>)
      uses(i) == Of(Below(top[i]) \o <<top[i]>>, {"prefix:name"})
      known(use, i) ==
        LET name == <<use.arg[1][2], use.arg[3][2]>>
            own == \E j \in 1..(i - 1) : top[j].kw = "prefix" /\ top[j].arg[1][2] = name[1]
        IN IF own THEN \E j \in 1..(i - 1) : top[j].kw = "extension" /\ top[j].arg[1][2] = name[2]
           ELSE name \in Extensions
  IN /\ Legal(root)
     /\ \A i, j \in 1..Len(all) : once(i) /\ once(j) /\ named(i) = named(j) => i = j
     /\ \A i \in 1..Len(top) : \A k \in 1..Len(uses(i)) : known(uses(i)[k], i)

-----------------------------------------------------------------------------
(* A text is refused exactly when it is cut short or not legal; otherwise  *)
(* every statement is in the one that owns it, in the order of the text,   *)
(* each definition is in the module's table, and all tokens are consumed.  *)
ParsedExact ==
  /\ status = "done" =>
       /\ source.missing = 0 /\ LegalModule(source.tree)
       /\ stack = <<Means(source.tree)>>
       /\ tables = Definitions(source.tree)
       /\ index = Len(Tokens) + 1
  /\ status = "failed" => source.missing > 0 \/ ~LegalModule(source.tree)

(* parse_string always returns or raises: no loop over a block's           *)
(* substatements turns without consuming a token, though only that of a    *)
(* container looks for it.                                                 *)
Terminates == <>(status # "parsing")
=============================================================================
