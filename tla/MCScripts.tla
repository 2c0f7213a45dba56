------------------------------- MODULE MCScripts ------------------------------
(***************************************************************************)
(* Every small script of a grammar of try statements, calls and loops.      *)
(***************************************************************************)
EXTENDS Interpreter

Reference == INSTANCE Python

MCNames == {"f", "g", "i", "x", "e", "__iter_i__"}

-------------------------------------------------------------------------------
P(v)     == ExprStmt(Call("print", <<v>>))
Say(n)   == P(IntLit(n))
Throw(t) == Raise(Name(t))
CallF    == ExprStmt(Call("f", << >>))
Divide   == ExprStmt(BinOp("FLOOR_DIV", IntLit(1), IntLit(0)))

(* Exceptions: what a body does, what a handler takes and does, with and
   without finally, across a call.                                          *)
Types    == {NoType, Name("ValueError"), Name("Exception")}
Atoms   == {Say(1), Throw("ValueError"), Throw("KeyError"), CallF}
Simple(b, t, h) == Try(<<b>>, <<Except(t, "", <<h>>)>>, << >>, << >>)
FBodies == {<<a>> : a \in {Say(5), Throw("ValueError"), Divide}}
           \cup {<<Simple(Throw("ValueError"), t, b), Say(5)>> :
                   b \in {Say(6), Throw("KeyError"), Reraise}, t \in Types}
TryScripts ==
  {<<Def("f", << >>, fb), Try(<<a, Say(2)>>, <<Except(t, "", <<b>>)>>, <<Say(3)>>, fin), Say(4)>> :
     fb \in FBodies, a \in Atoms, b \in {Say(1), Throw("KeyError"), CallF}, t \in Types,
     fin \in {<< >>, <<Say(7)>>}}

(* A try statement in the handler, the else part or the finally clause of
   another, a named exception, and exceptions that operators raise.          *)
Errors == {BinOp("ADD", IntLit(1), NoneLit), BinOp("FLOOR_DIV", IntLit(1), IntLit(0)),
           Name("x"), BinOp("FLOOR_DIV", IntLit(-3), IntLit(2))}
NestedScripts ==
  {<<Try(<<ExprStmt(e)>>, <<Except(Name("TypeError"), "e", <<P(Name("e")), inner>>),
                            Except(Name("Exception"), "x", <<inner, P(Name("x"))>>)>>,
         orelse, fin), Say(4)>> :
     e \in Errors, inner \in {Simple(Throw("KeyError"), Name("KeyError"), Say(1)), Reraise},
     orelse \in {<< >>, <<Simple(Throw("KeyError"), NoType, Say(2))>>},
     fin \in {<< >>, <<Simple(Throw("KeyError"), NoType, Say(3))>>}}

(* Loops and conditions: how a round ends, in a while and in a for, at the
   module level and in a function that returns from inside its loop.         *)
Ifs(n, leave) == If(Eq(Name("i"), IntLit(n)), <<leave>>, << >>)
Rounds ==
  {<<If(Eq(Name("i"), IntLit(1)), <<a>>, b), Say(5)>> :
     a \in {Break, Continue, Pass}, b \in {<< >>, <<Say(6)>>, <<Continue>>}}
  \cup {<<Simple(t, Name("ValueError"), h), P(Name("i"))>> :
          t \in {Throw("ValueError"), AssertStmt(Eq(Name("i"), IntLit(0))), Say(8)},
          h \in {Break, Continue, Say(9)}}
Loops(body) ==
  {<<For("i", Call("range", <<IntLit(2)>>), body)>>,
   <<Assign("i", IntLit(3)),
     While(Name("i"), <<Assign("i", BinOp("ADD", Name("i"), IntLit(-1)))>> \o body)>>}
LoopScripts ==
  UNION {{l \o <<Say(1)>>,
          <<Def("f", << >>, l \o <<Return(IntLit(2))>>), P(Call("f", << >>))>>,
          <<Def("f", <<"x">>, <<Global("g"), Assign("g", Name("x"))>> \o l),
            ExprStmt(Call("f", <<IntLit(7)>>)), P(Name("g"))>>}
         : l \in UNION {Loops(b) : b \in Rounds}}
ReturnScripts ==
  {<<Def("f", <<"x">>, <<For("i", Call("range", <<Name("x")>>), <<Ifs(1, Return(r)), Say(5)>>)>>),
     P(Call("f", <<IntLit(n)>>)), P(Eq(Name("f"), NoneLit))>> :
     r \in {NoneLit, Name("i"), Call("f", <<BinOp("ADD", Name("x"), IntLit(-1))>>)}, n \in 0..3}

(* A loop inside a try body, left by an exception. *)
EscapeScripts ==
  {<<Def("f", << >>, <<Raise(e)>>),
     Try(<<For("i", Call("range", <<IntLit(2)>>), <<Ifs(n, c), P(Name("i"))>>)>>,
         <<Except(Name("RuntimeError"), "e", <<P(Name("e"))>>)>>, <<Say(6)>>, << >>)>> :
     e \in {Name("ValueError"), Call("RuntimeError", << >>)}, n \in 0..2,
     c \in {CallF, Simple(CallF, NoType, Say(5)), Continue, Break}}

MCSources == {<<s>> : s \in TryScripts \cup NestedScripts \cup LoopScripts
                            \cup ReturnScripts \cup EscapeScripts}

(* Whatever way control takes through try statements, loops and calls, the
   script prints what it means and ends as it should: compile_try, the loops
   and raise_exception together implement the language, for every script that
   does not use one of the three constructs compiled otherwise.             *)
AgreesWithPython ==
  LET m == Reference!Meaning(source[1]) IN
  status # "running" /\ ~m.beyond => status = m.status /\ output = m.output

===============================================================================
