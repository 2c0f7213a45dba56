------------------------------- MODULE MCFindings -----------------------------
(***************************************************************************)
(* Scripts of a few lines on which the interpreter does not do what a       *)
(* comment or a design document of the repository says of it.               *)
(***************************************************************************)
EXTENDS Interpreter

Reference == INSTANCE Python

MCNames == {"f", "g", "i", "m", "__iter_i__"}

Say(n)    == ExprStmt(Call("print", <<IntLit(n)>>))
Throw     == Raise(Name("KeyError"))
Trying(body) == Try(body, <<Except(Name("KeyError"), "", <<Say(1)>>)>>, << >>, << >>)

-------------------------------------------------------------------------------
(* A function that returns from a try body; an exception afterwards, outside
   of any try statement.                                                     *)
ReturnInTry ==
  {<<<<Def("f", << >>, <<Trying(<<Return(IntLit(2))>>)>>), ExprStmt(Call("f", << >>)), Throw>>>>}

(* The documentation of raise_exception: "Returns Err if no handler was found".
   No try statement of a live frame is around the second raise, so there is no
   handler to be found; the process must not abort instead.                  *)
UncaughtIsAnErr == status # "panic"

(* A module whose body raises, imported inside a try statement. *)
FailingImport == {<<<<Trying(<<Import("m", 2)>>)>>, <<Throw>>>>}

(* The design of imports: when a file raises at load, "exception propagates;
   `foo` NOT cached in `sys.modules`".  The loop of an import that returns
   without having come to the body's HALT is one whose body raised.          *)
FailedImportNotCached ==
  Returned({"import"}) /\ ~Halted => sys_modules[modules[Activation.module].code] = 0

(* A generator that raises half-way, and a second loop over it. *)
RaisingGenerator ==
  {<<<<Def("f", << >>, <<Assign("i", Yield(IntLit(1))), Throw>>), Assign("g", Call("f", << >>)),
      Trying(<<For("i", Name("g"), <<Say(2)>>)>>), For("i", Name("g"), <<Say(3)>>)>>>>}

(* A finally clause behind handlers that do not match. *)
UnmatchedWithFinally ==
  {<<<<Try(<<Throw>>, <<Except(Name("ValueError"), "", <<Say(1)>>)>>, << >>, <<Say(2)>>)>>>>}

(* The comment on END_FINALLY: "exceptions are handled by the compiler's inline
   code": the finally clause runs on the exceptional path too, so the script
   prints all that it means to before it ends.                               *)
FinallyRuns == status # "running" => output = Reference!Meaning(source[1]).output

===============================================================================
