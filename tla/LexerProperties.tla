---------------------------- MODULE LexerProperties ----------------------------
(***************************************************************************)
(* What the tokenizer must keep true, whatever the text.                    *)
(***************************************************************************)
EXTENDS Lexer, FiniteSets

(* The tokens of blocks are variants of their own, which no word of the source
   is taken for.                                                             *)
ASSUME BlockTokensAssumption == Words \cap {"INDENT", "DEDENT"} = {}

LexerSpec == (\E source \in Seq(STRING) : LexerInit(source)) /\ [][Tokenize]_lexer

(* TypeOK: the place in the text, the tokens and the stack of indentations are
   of their kinds, and the stack, which lexer.rs:158 takes for never empty,
   begins with 0 and grows strictly, whatever was indented or dedented.       *)
TypeOK ==
  /\ pos \in 1..End
  /\ paren_depth \in Nat
  /\ at_line_start \in BOOLEAN
  /\ lexing \in {"scan", "dedent", "close", "done", "error"}
  /\ indent_stack # << >> /\ indent_stack[1] = 0
  /\ \A i \in 2..Len(indent_stack) : indent_stack[i - 1] < indent_stack[i]

(* BlocksBalanced: the blocks opened and not closed by the tokens so far are
   those on the stack, no prefix closes more than it opened, and a text that
   is read to its end leaves none open.  The parser finds the end of every
   block by its DEDENT.                                                       *)
Places(ts, t) == {i \in DOMAIN ts : ts[i] = t}
Opened(ts) == Cardinality(Places(ts, "INDENT")) - Cardinality(Places(ts, "DEDENT"))
BlocksBalanced ==
  /\ Opened(tokens) = Len(indent_stack) - 1
  /\ \A k \in DOMAIN tokens : Opened(SubSeq(tokens, 1, k)) >= 0
  /\ lexing = "done" => Opened(tokens) = 0
================================================================================
