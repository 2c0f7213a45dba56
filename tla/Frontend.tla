------------------------------- MODULE Frontend --------------------------------
(***************************************************************************)
(* From a text to its tree and to the places of its names, as run_and_capture  *)
(* of src/main.rs and an import begin: tokenize, parse, compile, and nothing   *)
(* more where one of them fails.                                              *)
(***************************************************************************)
EXTENDS Parser, Scopes, LexerProperties

(* Texts, each with the tree it stands for or Rejected, the number of code
   objects that the VM has when it is compiled (none, or those of what ran
   before an import), and whether it is about the names of nested functions.  *)
CONSTANT Sources

VARIABLES source, parsed, compiled

vars == <<source, parsed, compiled, lexer>>

Outcome(kind) == << <<kind>> >>
Unparsed == Outcome("unparsed")
Rejected == Outcome("rejected")

Init ==
  /\ source \in Sources
  /\ parsed = Unparsed
  /\ compiled = << >>
  /\ LexerInit(source.text)

Parse ==
  /\ parsed = Unparsed /\ lexing = "done"
  /\ parsed' = LET module == parse_module IN IF module.next = 0 THEN Rejected ELSE module.node
  /\ UNCHANGED <<source, compiled, lexer>>

Fail ==
  /\ parsed = Unparsed /\ lexing = "error"
  /\ parsed' = Rejected
  /\ UNCHANGED <<source, compiled, lexer>>

(* The code objects with the names each takes from the table of scopes. *)
Compile ==
  /\ parsed \notin {Unparsed, Rejected} /\ compiled = << >>
  /\ compiled' = LET scopes == analyze_all_scopes(parsed)
                     codes  == compile_module(parsed)
                 IN  [k \in DOMAIN codes |-> codes[k] @@ Scoped(scopes, codes, source.loaded, k)]
  /\ UNCHANGED <<source, parsed, lexer>>

Next == (Tokenize /\ UNCHANGED <<source, parsed, compiled>>) \/ Parse \/ Fail \/ Compile
Spec == Init /\ [][Next]_vars /\ WF_lexer(Tokenize)

-------------------------------------------------------------------------------
(* RoundTrip: what the grammar of Python writes down in any layout is parsed to
   the tree it was written from, and a malformed text is rejected.             *)
RoundTrip == parsed # Unparsed => parsed = source.tree

(* ResolvesNames: in functions inside functions and around their blocks, all the
   loads, stores and parameters that mean one variable by the rules of the
   language go to one slot, cell or name of the module, and those that mean
   different ones do not meet.                                                *)
ResolvesNames == source.closures => Resolved(compiled)

(* ScopesAligned: compiler.rs:45 has the scope info of each code object under its
   index.                                                                    *)
ScopesAligned == compiled # << >> => Aligned(analyze_all_scopes(parsed), compiled, source.loaded)

(* LexerEnds: whatever the text, the loops of the lexer end, and it answers with
   tokens or an error.                                                        *)
LexerEnds == <>(lexing \in {"done", "error"})
=============================================================================
