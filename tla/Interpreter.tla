------------------------------ MODULE Interpreter -----------------------------
(***************************************************************************)
(* A script from source to output: run_and_capture of src/main.rs compiles  *)
(* it and runs the code in a new VM.  A source is a sequence of module      *)
(* bodies, the script's first and then those of the files it may import.    *)
(***************************************************************************)
EXTENDS VMProperties, Compiler

CONSTANT Sources    \* the scripts of a run

ScriptInit == /\ source \in Sources
              /\ code_objects = compile(source)
              /\ Start
ScriptSpec == ScriptInit /\ [][Next]_vars
FairScriptSpec == ScriptSpec /\ WF_vars(Step)

-------------------------------------------------------------------------------
(* Jumps out of a try body.  inTry: the statements are inside a try body of
   their function; inLoop: inside a loop of that try body.                   *)
RECURSIVE JumpsOut(_, _, _)
JumpsOut(stmts, inTry, inLoop) ==
  \E i \in DOMAIN stmts : LET st == stmts[i] IN
    \/ inTry /\ st[1] = "return"
    \/ inTry /\ ~inLoop /\ st[1] \in {"break", "continue"}
    \/ inTry /\ contains_yield(<<st>>)
    \/ st[1] \in {"def", "class"} /\ JumpsOut(Last(st), FALSE, FALSE)
    \/ st[1] \in {"while", "for"} /\ JumpsOut(Last(st), inTry, TRUE)
    \/ st[1] = "if" /\ (JumpsOut(st[3], inTry, inLoop) \/ JumpsOut(st[4], inTry, inLoop))
    \/ st[1] = "try" /\ \/ JumpsOut(st[2], TRUE, FALSE)
                        \/ \E b \in 2..Len(Blocks(st)) : JumpsOut(Blocks(st)[b], inTry, inLoop)

(* The operands each address of a code object finds, if control gets there from
   the address before it.                                                    *)
Heights(c) ==
  LET height[k \in DOMAIN code_objects[c].instructions] ==
        IF k = 1 THEN 0
        ELSE height[k - 1] - Pops(OpAt(c, k - 1), InstrAt(c, k - 1)[2]) + Puts(OpAt(c, k - 1))
  IN  height

(* The compiler keeps its side, on which the proofs about the interpreter rest:
   operands are of the kind their opcode takes; compile_try, the loops and the
   functions make balanced code of every script that never jumps or yields out
   of a try body; and the code of statements uses up the operands it leaves.   *)
CompilesBalanced ==
  /\ frames # << >> /\ frames[1].ip = 1
  /\ \A b \in DOMAIN source : ~JumpsOut(source[b], FALSE, FALSE)
  => IsProgram(code_objects) /\ Balanced /\ Sized([c \in DOMAIN code_objects |-> Heights(c)])

=============================================================================
