--------------------------- MODULE StatementParser ---------------------------
(***************************************************************************)
(* The statement parser of src/xyang/parser.                               *)
(*                                                                         *)
(* The code is a recursive descent over a TokenStream: every parse_<kw>     *)
(* consumes the keyword and its argument, and where a "{" follows pushes a *)
(* context whose current_parent is the new statement, runs the same loop   *)
(* over its substatements until the "}", and attaches the statement to the *)
(* parent it was called with.  The call stack is `stack` here, one frame   *)
(* for every open block; an action is one turn of the innermost loop.      *)
(*                                                                         *)
(* A token is <<kind, text>>, an INTEGER has its value for a third.  The   *)
(* tokens are those the tokenizer hands over: concatenated strings are one *)
(* STRING, and no STRING spells a keyword (a few loops compare the text    *)
(* only).  An argument is the sequence of the tokens it consumed.  Loading *)
(* imported and included files is ModuleLoader's business, the grammar of  *)
(* XPath XPathParser's.                                                    *)
(***************************************************************************)
EXTENDS StatementGrammar, Integers, FiniteSets, SequencesExt

CONSTANTS
  Sources,     \* the texts: records with a field "tokens"
  Extensions   \* the extensions of imported modules: <<prefix, name>>

(* The tokenizer's kinds; a brace's text is the brace.                     *)
ASSUME TextAssumption ==
  \A s \in Sources :
    /\ DOMAIN s.tokens = 1 .. Len(s.tokens) /\ Len(s.tokens) \in Nat
    /\ \A i \in 1 .. Len(s.tokens) :
         /\ s.tokens[i][1] \in AnyKind
         /\ s.tokens[i][1] \in Braces => s.tokens[i][2] = s.tokens[i][1]

VARIABLES
  source,      \* the text being parsed
  index,       \* TokenStream.index, from 1: the next token
  stack,       \* the open blocks, outermost first
  tables,      \* module.typedefs, groupings, identities, features, extensions
  status       \* "parsing", "done" or "failed" (YangSyntaxError)

vars == <<source, index, stack, tables, status>>

-----------------------------------------------------------------------------
(* Arguments.                                                              *)

Tokens == source.tokens
Peek(i) == IF i <= Len(Tokens) THEN Tokens[i] ELSE <<"END", "">>
KindAt(i) == Peek(i)[1]
TextAt(i) == Peek(i)[2]

(* The words a one-token argument is limited to: consume_oneof. *)
Worded(kw, text) ==
  /\ kw \in {"mandatory", "config", "require-instance", "yin-element"} =>
       text \in {"true", "false"}
  /\ kw = "ordered-by" => text \in {"user", "system"}

(* consume_identifier_ref: the token after name or prefix:name; 0 raises. *)
AfterReference(i) ==
  IF KindAt(i) # "IDENTIFIER" THEN 0
  ELSE IF KindAt(i + 1) # COLON THEN i + 1
  ELSE IF KindAt(i + 2) = "IDENTIFIER" THEN i + 3 ELSE 0

(* A reference, or where none stands any token. *)
AfterName(i) ==
  IF KindAt(i) = "IDENTIFIER" THEN AfterReference(i)
  ELSE IF KindAt(i) \in AnyKind THEN i + 1 ELSE 0

(* The target of a refine that starts at a token: names with "/" between. *)
PathEnd[first \in 1..(Len(Tokens) + 1)] ==
  LET next == AfterName(first)
  IN IF next # 0 /\ KindAt(next) = SLASH THEN PathEnd[next + 1] ELSE next

(* A date: one string, or the numbers and words an unquoted one falls into. *)
AfterDate(i) ==
  LET Chunk(j) == KindAt(j) \in Numbers \cup {"IDENTIFIER"}
      end == CHOOSE j \in i..(Len(Tokens) + 1) : ~Chunk(j) /\ \A k \in i..(j - 1) : Chunk(k)
  IN IF KindAt(i) = "STRING" THEN i + 1 ELSE IF end = i THEN 0 ELSE end

(* The token after the argument that starts at token i; 0 raises. *)
AfterArgument(parent, kw, i) ==
  CASE kw \in {"input", "output"} -> i
    [] kw \in {"type", "uses"} -> AfterName(i)
    [] kw = "base" -> AfterReference(i)
    [] kw = "refine" -> PathEnd[i]
    [] kw \in {"revision", "revision-date"} -> AfterDate(i)
    [] kw = "status" -> IF KindAt(i) = "IDENTIFIER" THEN i + 1
                        ELSE IF parent # "enum" /\ KindAt(i) \in AnyKind THEN i ELSE 0
    [] OTHER -> IF i <= Len(Tokens) /\ KindAt(i) \in Kinds(kw) /\ Worded(kw, TextAt(i))
                THEN i + 1 ELSE 0

(* _consume_optional_extension_argument. *)
AfterOptional(i) == IF KindAt(i) \in Numbers \cup {"STRING", "IDENTIFIER"} THEN i + 1 ELSE i

(* Mutant of AfterSemicolon: a terminator is taken for granted. *)
AfterSemicolonAlways(i) == i + 1

(* consume_if_type(SEMICOLON). *)
AfterSemicolon(i) == IF KindAt(i) = SEMICOLON THEN i + 1 ELSE i

(* Mutant of AfterBraces: nested braces are not counted. *)
AfterBracesFlat(i) ==
  LET closes == {j \in i..Len(Tokens) : KindAt(j) = RBRACE}
  IN IF closes = {} THEN Len(Tokens) + 1 ELSE 1 + CHOOSE j \in closes : \A k \in closes : j <= k

(* How many of the tokens from i to j are of a kind. *)
Occurring(kind, i, j) == Cardinality({k \in i..j : KindAt(k) = kind})

(* _consume_balanced_braces: the token after the "}" of the "{" at i. *)
AfterBraces(i) ==
  LET closes == {j \in i..Len(Tokens) : Occurring(LBRACE, i, j) = Occurring(RBRACE, i, j)}
  IN IF closes = {} THEN Len(Tokens) + 1 ELSE 1 + CHOOSE j \in closes : \A k \in closes : j <= k

(* Mutant of AfterSkipped: stopping at a "}" gives the statement back. *)
AfterSkippedBack(i) ==
  LET stop == CHOOSE j \in (i + 1)..(Len(Tokens) + 1) :
                /\ KindAt(j) \in {LBRACE, SEMICOLON, RBRACE, "END"}
                /\ \A k \in (i + 1)..(j - 1) : KindAt(k) \notin {LBRACE, SEMICOLON, RBRACE}
  IN IF KindAt(stop) = LBRACE THEN AfterSemicolon(AfterBraces(stop))
     ELSE IF KindAt(stop) = RBRACE THEN i ELSE AfterSemicolon(stop)

(* skip_unsupported_construct: keyword ... ; or keyword ... { ... }. *)
AfterSkipped(i) ==
  LET stop == CHOOSE j \in (i + 1)..(Len(Tokens) + 1) :
                /\ KindAt(j) \in {LBRACE, SEMICOLON, RBRACE, "END"}
                /\ \A k \in (i + 1)..(j - 1) : KindAt(k) \notin {LBRACE, SEMICOLON, RBRACE}
  IN IF KindAt(stop) = LBRACE THEN AfterSemicolon(AfterBraces(stop)) ELSE AfterSemicolon(stop)

-----------------------------------------------------------------------------
(* Statements: attrs holds the substatements stored in a field of their    *)
(* own, where a later one replaces an earlier one; subs those appended.    *)

Node(kw, arg) == [kw |-> kw, arg |-> arg, attrs |-> <<>>, subs |-> <<>>]

Appended == Inline \cup
  {"must", "if-feature", "uses", "case", "refine", "augment", "notification", "rpc", "input",
   "output", "base", "enum", "bit", "pattern", "revision", "import", "include", "extension",
   "prefix:name", "typedef"}

Named(node, kw) == SelectSeq(node.subs, LAMBDA sub : sub.kw = kw)

Store(node, sub) ==
  IF sub.kw \in Appended \/ (sub.kw = "default" /\ node.kw = "refine")
  THEN [node EXCEPT !.subs = Append(@, sub)]
  ELSE [node EXCEPT !.attrs = sub.kw :> sub @@ @]

(* Mutant of StoreType: the last type wins. *)
StoreTypeLast(node, type) ==
  IF node.kw = "type" THEN [node EXCEPT !.subs = Append(@, type)]
  ELSE [node EXCEPT !.attrs = "type" :> type @@ @]

(* parse_type hands a second type of a leaf to the first one as a member. *)
StoreType(node, type) ==
  IF node.kw = "type" THEN [node EXCEPT !.subs = Append(@, type)]
  ELSE IF "type" \in DOMAIN node.attrs
  THEN [node EXCEPT !.attrs["type"].subs = Append(@, type)]
  ELSE [node EXCEPT !.attrs = "type" :> type @@ @]

(* _parse_choice_implicit_case. *)
Case(node) ==
  IF node.kw \in Inline THEN [Node("case", node.arg) EXCEPT !.subs = <<node>>] ELSE node

(* The frame that context.current_parent is, in a block that pushes none. *)
Holder(frames, kw) ==
  LET top == Len(frames)
  IN CASE frames[top].kw = "if-feature" /\ kw = "reference" -> top - 1
       [] frames[top].kw = "argument" /\ kw = "yin-element" -> top - 1
       [] frames[top].kw \in {"enum", "pattern", "import", "include"} /\ kw = "prefix:name" -> 1
       [] OTHER -> top

(* The stack once a finished statement is attached to its parent. *)
Attach(frames, node) ==
  LET at == Holder(frames, node.kw)
      parent == frames[at]
      away == \/ Dropped(parent.kw, node.kw)
              \/ node.kw \in {"grouping", "identity", "feature"}
              \/ node.kw = "typedef" /\ at = 1
  IN IF away THEN frames
     ELSE [frames EXCEPT ![at] = IF node.kw = "type" THEN StoreType(@, node)
                                 ELSE IF parent.kw = "choice" THEN Store(@, Case(node))
                                 ELSE Store(@, node)]

(* The module's tables once a statement is finished. *)
Register(node) ==
  LET key == <<node.kw, node.arg>>
  IN CASE node.kw \notin {"typedef", "grouping", "identity", "feature", "extension"} -> tables
       [] node.kw = "feature" /\ node.subs = <<>> /\ key \in DOMAIN tables -> tables
       [] OTHER -> [k \in DOMAIN tables \cup {key} |-> IF k = key THEN node ELSE tables[k]]

-----------------------------------------------------------------------------
(* What a finished statement must satisfy.                                 *)

IsType(node, name) == node.kw = "type" /\ Last(node.arg)[2] = name

(* finalize_bits_type: the position of bit i, given or one above the highest. *)
Position(bits) ==
  LET At[i \in 1..Len(bits)] ==
        IF "position" \in DOMAIN bits[i].attrs THEN bits[i].attrs["position"].arg[1][3]
        ELSE LET before == {At[j] : j \in 1..(i - 1)}
             IN IF before = {} THEN 0 ELSE 1 + CHOOSE p \in before : \A q \in before : q <= p
  IN At

BitsRefused(bits) ==
  \/ bits = <<>>
  \/ \E i, j \in 1..Len(bits) :
       i < j /\ (bits[i].arg = bits[j].arg \/ Position(bits)[i] = Position(bits)[j])
  \/ \E i \in 1..Len(bits) : Position(bits)[i] < 0

(* get_schema_node: the names the statements of a case add to the schema. *)
SchemaNames(case) ==
  LET nodes == SelectSeq(case.subs, LAMBDA sub : sub.kw \in Inline)
  IN [i \in 1..Len(nodes) |-> nodes[i].arg]

(* validate_case_unique_child_names. *)
CasesClash(choice) ==
  ~IsInjective(FlattenSeq([i \in 1..Len(Named(choice, "case")) |->
                             SchemaNames(Named(choice, "case")[i])]))

Refused(node) ==
  \/ IsType(node, "enumeration") /\ Named(node, "enum") = <<>>
  \/ IsType(node, "bits") /\ BitsRefused(Named(node, "bit"))
  \/ IsType(node, "identityref") /\ Named(node, "base") = <<>>
  \/ node.kw = "choice" /\ CasesClash(node)
  \/ node.kw = "typedef" /\ <<"typedef", node.arg>> \in DOMAIN tables
  \/ /\ node.kw = "feature" /\ node.subs # <<>>
     /\ <<"feature", node.arg>> \in DOMAIN tables
     /\ tables[<<"feature", node.arg>>].subs # <<>>

-----------------------------------------------------------------------------
Top == stack[Len(stack)]
Key == IF KindAt(index) = "IDENTIFIER" THEN TextAt(index) ELSE ""

(* is_prefixed_extension_start *)
Prefixed ==
  /\ KindAt(index) = "IDENTIFIER"
  /\ KindAt(index + 1) = COLON
  /\ KindAt(index + 2) = "IDENTIFIER"

(* resolve_prefixed_module and get_extension: an extension of this module  *)
(* must have been parsed before it is used.                                *)
Resolves(name) ==
  LET module == stack[1]
      own == "prefix" \in DOMAIN module.attrs /\ module.attrs["prefix"].arg[1][2] = name[1]
  IN IF own THEN <<"extension", <<<<"IDENTIFIER", name[2]>>>>>> \in DOMAIN tables
     ELSE name \in Extensions

Init ==
  /\ source \in Sources
  /\ index = 1
  /\ stack = <<>>
  /\ tables = <<>>
  /\ status = "parsing"

Fail ==
  /\ status' = "failed"
  /\ UNCHANGED <<source, index, stack, tables>>

(* The statement is complete, the next token is i: attach it and go on. *)
Finish(frames, node, i) ==
  IF Refused(node) THEN Fail
  ELSE /\ index' = AfterSemicolon(i)
       /\ stack' = Attach(frames, node)
       /\ tables' = Register(node)
       /\ UNCHANGED <<source, status>>

(* The header is read up to token i: open a block or finish the statement. *)
Enter(node, i) ==
  CASE KindAt(i) = LBRACE /\ node.kw = "description" ->
         Finish(stack, node, AfterBraces(i))
    [] KindAt(i) = LBRACE /\ node.kw # "description" /\ Allowed(node.kw) # {} ->
         /\ index' = i + 1
         /\ stack' = Append(stack, node)
         /\ UNCHANGED <<source, tables, status>>
    [] KindAt(i) # LBRACE /\ node.kw = "belongs-to" -> Fail
    [] KindAt(i) \notin {LBRACE, SEMICOLON} /\ node.kw = "import" -> Fail
    [] OTHER -> Finish(stack, node, i)

(* parse_string, parse_module and parse_submodule up to the "{". *)
Root ==
  /\ status = "parsing" /\ stack = <<>>
  /\ IF Key \in {"module", "submodule"} /\ KindAt(2) = "IDENTIFIER" /\ KindAt(3) = LBRACE
     THEN /\ index' = 4
          /\ stack' = <<Node(Key, <<Peek(2)>>)>>
          /\ UNCHANGED <<source, tables, status>>
     ELSE Fail

(* A turn of the loop over the substatements of the innermost block. *)
InBlock == status = "parsing" /\ stack # <<>> /\ KindAt(index) \notin {RBRACE, "END"}

Dispatched ==
  /\ KindAt(index) = "IDENTIFIER"
  /\ Key \in Allowed(Top.kw) \/ (Top.kw = "choice" /\ Key \in Inline)
  /\ ~(Top.kw = "prefix:name" /\ Prefixed)

(* A duplicate position is refused before its integer is read. *)
Statement ==
  /\ InBlock
  /\ Dispatched
  /\ LET next == AfterArgument(Top.kw, Key, index + 1)
     IN IF next = 0 \/ (Key = "position" /\ "position" \in DOMAIN Top.attrs) THEN Fail
        ELSE Enter(Node(Key, SubSeq(Tokens, index + 1, next - 1)), next)

(* parse_prefixed_extension_statement *)
Extension ==
  /\ InBlock
  /\ ~Dispatched
  /\ Prefixed /\ Top.kw \in TakesExtensions
  /\ LET name == <<TextAt(index), TextAt(index + 2)>>
         next == AfterOptional(index + 3)
     IN IF Resolves(name) THEN Enter(Node("prefix:name", SubSeq(Tokens, index, next - 1)), next)
        ELSE Fail

(* skip_unsupported_or_raise_unknown_stmt *)
Other ==
  /\ InBlock
  /\ ~Dispatched
  /\ ~(Prefixed /\ Top.kw \in TakesExtensions)
  /\ IF TextAt(index) \in Unsupported
     THEN /\ index' = AfterSkipped(index)
          /\ UNCHANGED <<source, stack, tables, status>>
     ELSE Fail

(* The "}" of a block; nothing is read after the "}" of the module. *)
Close ==
  /\ status = "parsing" /\ stack # <<>> /\ KindAt(index) = RBRACE
  /\ IF Len(stack) = 1
     THEN /\ status' = "done"
          /\ index' = index + 1
          /\ UNCHANGED <<source, stack, tables>>
     ELSE Finish(Front(stack), Top, index + 1)

(* The text ends in a block: only parse_container goes on to its parent. *)
End ==
  /\ status = "parsing" /\ stack # <<>> /\ KindAt(index) = "END"
  /\ IF Top.kw = "container" THEN Finish(Front(stack), Top, index) ELSE Fail

Stopped == status # "parsing" /\ UNCHANGED vars

Next == Root \/ Statement \/ Extension \/ Other \/ Close \/ End \/ Stopped

Spec == Init /\ [][Next]_vars /\ WF_vars(Next)

-----------------------------------------------------------------------------
(* The state the code can be in.  It reads no token beyond the end of the  *)
(* text, only statements that have a block are open, and a definition is   *)
(* in the table under its own name.                                        *)
TypeOK ==
  /\ index \in 1..(Len(Tokens) + 1)
  /\ status \in {"parsing", "done", "failed"}
  /\ \A i \in 1..Len(stack) : Allowed(stack[i].kw) # {}
  /\ \A key \in DOMAIN tables : tables[key].kw = key[1] /\ tables[key].arg = key[2]

(* As many blocks as are open before token i. *)
Depth(i) == Occurring(LBRACE, 1, i - 1) - Occurring(RBRACE, 1, i - 1)

(* A brace stands where the name after a keyword, or after the "/" of a    *)
(* refine's target, is due: the code takes it for the name (consume()).    *)
BraceForName(i) ==
  /\ KindAt(i + 1) \in Braces
  /\ \/ KindAt(i) = SLASH
     \/ /\ KindAt(i) = "IDENTIFIER" /\ TextAt(i) \in Keywords
        /\ TextAt(i) \in {"type", "uses", "refine"} \/ KindAt(i + 1) \in Kinds(TextAt(i))

(* The block the parser believes to be in is the one the text is in: as    *)
(* many contexts are pushed as braces are open before the next token,      *)
(* whatever was skipped (unsupported_skip.py) or left unterminated, for as *)
(* long as no brace is taken for a name.                                   *)
BracesMatch ==
  status = "parsing" /\ index <= Len(Tokens) /\ (\A i \in 1..(index - 2) : ~BraceForName(i))
    => Len(stack) = Depth(index)
=============================================================================
