--------------------------------- MODULE Lexer ---------------------------------
(***************************************************************************)
(* The tokenizer of src/lexer.rs, one round of its loops to a step: leading  *)
(* spaces against the stack of indentations, blank lines and comments, line  *)
(* ends inside and outside brackets, the longest operator first, and what is *)
(* owed at the end of the file.                                              *)
(*                                                                          *)
(* A text is a sequence of symbols.  A word (an identifier, a keyword, a      *)
(* number, or a string with its quotes) is one symbol and its own token; "'"   *)
(* is a quote that its line does not close.  Everything else is a character. *)
(* Positions of tokens are left out.                                         *)
(***************************************************************************)
EXTENDS Integers, Sequences, SequencesExt

CONSTANT Words

VARIABLES
  text,            \* the source
  pos,             \* the symbol the loop is at
  tokens,
  indent_stack,    \* widths of the open blocks, outermost first
  paren_depth,
  at_line_start,
  lexing           \* "scan"; "dedent" and "close" in the loops that pop; "done", "error"

lexer == <<text, pos, tokens, indent_stack, paren_depth, at_line_start, lexing>>

-------------------------------------------------------------------------------
Opening == {"(", "[", "{"}
Closing == {")", "]", "}"}
Single == Opening \cup Closing \cup
  {"+", "-", "*", "/", "%", "<", ">", "=", "&", "|", "^", "~", "@", ":", ",", ".", ";"}
Double ==
  {"==", "!=", "<=", ">=", "//", "**", "+=", "-=", "*=", "/=", "%=", "<<",
   ">>", "&=", "|=", "^=", "->"}
Triple == {"...", "<<=", ">>=", "**=", "//="}
Spelling == [t \in Single \cup Double \cup Triple |->
  CASE t \in Single -> <<t>>
    [] t = "==" -> <<"=", "=">> [] t = "!=" -> <<"!", "=">>
    [] t = "<=" -> <<"<", "=">> [] t = ">=" -> <<">", "=">>
    [] t = "//" -> <<"/", "/">> [] t = "**" -> <<"*", "*">>
    [] t = "+=" -> <<"+", "=">> [] t = "-=" -> <<"-", "=">>
    [] t = "*=" -> <<"*", "=">> [] t = "/=" -> <<"/", "=">>
    [] t = "%=" -> <<"%", "=">> [] t = "<<" -> <<"<", "<">>
    [] t = ">>" -> <<">", ">">> [] t = "&=" -> <<"&", "=">>
    [] t = "|=" -> <<"|", "=">> [] t = "^=" -> <<"^", "=">>
    [] t = "->" -> <<"-", ">">> [] t = "..." -> <<".", ".", ".">>
    [] t = "<<=" -> <<"<", "<", "=">> [] t = ">>=" -> <<">", ">", "=">>
    [] t = "**=" -> <<"*", "*", "=">> [] t = "//=" -> <<"/", "/", "=">>]

(* The first place from k on, or the end, whose symbol is (not) in S. *)
End == Len(text) + 1
First(k, S)  == CHOOSE j \in k..End : (j = End \/ text[j] \in S)
                                      /\ \A i \in k..j - 1 : text[i] \notin S
Beyond(k, S) == CHOOSE j \in k..End : (j = End \/ text[j] \notin S)
                                      /\ \A i \in k..j - 1 : text[i] \in S

Emit(t) == tokens' = Append(tokens, t)

-------------------------------------------------------------------------------
(* The beginning of a line, or of what follows a bracket that closes on another
   line than it opened on: at_line_start is still set there.                 *)
LineStart == lexing = "scan" /\ at_line_start /\ paren_depth = 0 /\ pos < End
Text == Beyond(pos, {" "})
Width == Text - pos

BlankLine_faulty_stays ==      \* forgets the line's end behind a comment
  /\ LineStart /\ Text < End /\ text[Text] \in {"\n", "#"}
  /\ pos' = First(Text, {"\n"})
  /\ UNCHANGED <<text, tokens, indent_stack, paren_depth, at_line_start, lexing>>
BlankLine ==
  /\ LineStart /\ Text < End /\ text[Text] \in {"\n", "#"}
  /\ pos' = IF First(Text, {"\n"}) = End THEN End ELSE First(Text, {"\n"}) + 1
  /\ UNCHANGED <<text, tokens, indent_stack, paren_depth, at_line_start, lexing>>

OnlySpaces ==
  /\ LineStart /\ Text = End
  /\ pos' = End
  /\ UNCHANGED <<text, tokens, indent_stack, paren_depth, at_line_start, lexing>>

CodeLine == LineStart /\ Text < End /\ text[Text] \notin {"\n", "#"}
BeginLine == pos' = Text /\ at_line_start' = FALSE

Indent ==
  /\ CodeLine /\ Width > Last(indent_stack)
  /\ indent_stack' = Append(indent_stack, Width)
  /\ Emit("INDENT")
  /\ BeginLine
  /\ UNCHANGED <<text, paren_depth, lexing>>

SameIndent ==
  /\ CodeLine /\ Width = Last(indent_stack)
  /\ BeginLine
  /\ UNCHANGED <<text, tokens, indent_stack, paren_depth, lexing>>

(* The loop that pops, and its end: at one of the widths below, or nowhere. *)
Shallower == lexing \in {"scan", "dedent"} /\ Width < Last(indent_stack)
Dedent_faulty_once ==      \* the next round takes the line for an inner one
  /\ Shallower /\ (lexing = "scan" => CodeLine)
  /\ indent_stack' = Append(Front(indent_stack), Width)
  /\ Emit("DEDENT")
  /\ lexing' = "dedent"
  /\ UNCHANGED <<text, pos, paren_depth, at_line_start>>
Dedent ==
  /\ Shallower /\ (lexing = "scan" => CodeLine)
  /\ indent_stack' = Front(indent_stack)
  /\ Emit("DEDENT")
  /\ lexing' = "dedent"
  /\ UNCHANGED <<text, pos, paren_depth, at_line_start>>

Dedented ==
  /\ lexing = "dedent" /\ Width >= Last(indent_stack)
  /\ IF Width = Last(indent_stack)
     THEN lexing' = "scan" /\ BeginLine
     ELSE lexing' = "error" /\ UNCHANGED <<pos, at_line_start>>
  /\ UNCHANGED <<text, tokens, indent_stack, paren_depth>>

-------------------------------------------------------------------------------
(* Inside a line. *)
InLine == lexing = "scan" /\ ~(at_line_start /\ paren_depth = 0) /\ pos < End
At(S) == InLine /\ text[pos] \in S

Space ==
  /\ At({" ", "\t", "\r"})
  /\ pos' = pos + 1
  /\ UNCHANGED <<text, tokens, indent_stack, paren_depth, at_line_start, lexing>>

Comment ==
  /\ At({"#"})
  /\ pos' = First(pos, {"\n"})
  /\ UNCHANGED <<text, tokens, indent_stack, paren_depth, at_line_start, lexing>>

Newline ==
  /\ At({"\n"})
  /\ tokens' = IF paren_depth = 0 /\ tokens # << >> /\ Last(tokens) # "NEWLINE"
               THEN Append(tokens, "NEWLINE") ELSE tokens
  /\ pos' = pos + 1
  /\ at_line_start' = TRUE
  /\ UNCHANGED <<text, indent_stack, paren_depth, lexing>>

Word ==
  /\ At(Words)
  /\ Emit(text[pos])
  /\ pos' = pos + 1
  /\ UNCHANGED <<text, indent_stack, paren_depth, at_line_start, lexing>>

Here == SubSeq(text, pos, IF pos + 2 < End THEN pos + 2 ELSE End - 1)
Operators == {t \in DOMAIN Spelling : IsPrefix(Spelling[t], Here)}
Longest == CHOOSE t \in Operators : \A u \in Operators : Len(Spelling[u]) <= Len(Spelling[t])

Depth(t) == IF t \in Opening THEN paren_depth + 1
            ELSE IF t \in Closing /\ paren_depth > 0 THEN paren_depth - 1
            ELSE paren_depth
Operator ==
  /\ InLine /\ Operators # {}
  /\ Emit(Longest)
  /\ pos' = pos + Len(Spelling[Longest])
  /\ paren_depth' = Depth(Longest)
  /\ UNCHANGED <<text, indent_stack, at_line_start, lexing>>

(* An open string, or a character that begins no token. *)
BadSymbol ==
  /\ InLine /\ Operators = {}
  /\ text[pos] \notin Words \cup {" ", "\t", "\r", "\n", "#"}
  /\ lexing' = "error"
  /\ UNCHANGED <<text, pos, tokens, indent_stack, paren_depth, at_line_start>>

-------------------------------------------------------------------------------
(* The end of the file. *)
FinalNewline ==
  /\ lexing = "scan" /\ pos = End
  /\ tokens' = IF tokens # << >> /\ Last(tokens) \notin {"NEWLINE", "DEDENT"}
               THEN Append(tokens, "NEWLINE") ELSE tokens
  /\ lexing' = "close"
  /\ UNCHANGED <<text, pos, indent_stack, paren_depth, at_line_start>>

CloseBlock ==
  /\ lexing = "close" /\ Len(indent_stack) > 1
  /\ indent_stack' = Front(indent_stack)
  /\ Emit("DEDENT")
  /\ UNCHANGED <<text, pos, paren_depth, at_line_start, lexing>>

EndOfFile_faulty_open ==
  /\ lexing = "close"
  /\ Emit("EOF")
  /\ lexing' = "done"
  /\ UNCHANGED <<text, pos, indent_stack, paren_depth, at_line_start>>
EndOfFile ==
  /\ lexing = "close" /\ Len(indent_stack) = 1
  /\ Emit("EOF")
  /\ lexing' = "done"
  /\ UNCHANGED <<text, pos, indent_stack, paren_depth, at_line_start>>

-------------------------------------------------------------------------------
LexerInit(source) ==
  /\ text = source
  /\ pos = 1
  /\ tokens = << >>
  /\ indent_stack = <<0>>
  /\ paren_depth = 0
  /\ at_line_start = TRUE
  /\ lexing = "scan"

Tokenize == \/ BlankLine \/ OnlySpaces \/ Indent \/ SameIndent \/ Dedent \/ Dedented
            \/ Space \/ Comment \/ Newline \/ Word \/ Operator \/ BadSymbol
            \/ FinalNewline \/ CloseBlock \/ EndOfFile
=============================================================================
