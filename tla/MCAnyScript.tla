------------------------------ MODULE MCAnyScript -----------------------------
(***************************************************************************)
(* Scripts that leave try bodies by return, break, continue and yield, let  *)
(* exceptions cross generators, imports and __str__ calls, and fail in the  *)
(* ways no handler sees: what must hold of every script is checked on them. *)
(***************************************************************************)
EXTENDS Interpreter

MCNames == {"f", "g", "h", "i", "x", "self", "m", "n",
            "__iter_i__", "__init__", "__str__"}

P(v)      == ExprStmt(Call("print", <<v>>))
Say(n)    == P(IntLit(n))
CallF     == Call("f", << >>)
Throw     == Raise(Name("KeyError"))
OneYield  == ExprStmt(Yield(IntLit(1)))
Trying(body, h) == Try(body, <<Except(Name("KeyError"), "", h)>>, << >>, << >>)
LoopOn(e, body) == For("i", e, body)
Twice(body)     == LoopOn(Call("range", <<IntLit(2)>>), body)

-------------------------------------------------------------------------------
(* A handler left behind, and what may run into it: an exception in the same
   frame, in a shorter function, in a deeper call, or in no frame at all.    *)
Leaving ==
  {<<Trying(<<Return(IntLit(1))>>, <<Say(5)>>)>>,
   <<Twice(<<Trying(<<Break>>, <<Say(5)>>)>>)>>,
   <<Twice(<<Trying(<<Continue>>, <<Say(5)>>)>>), Throw>>,
   <<Twice(<<Trying(<<Return(IntLit(1))>>, << >>)>>), Return(IntLit(2))>>}
Afterwards ==
  {<<Throw>>, <<ExprStmt(Call("g", << >>)), Say(1)>>,
   <<Trying(<<ExprStmt(Call("h", << >>))>>, <<Say(2)>>), Throw>>,
   <<Trying(<<Throw>>, <<Say(3)>>)>>}
LeakScripts ==
  {<<<<Def("f", << >>, l), Def("g", << >>, <<Throw>>), Def("h", << >>, <<ExprStmt(Call("g", << >>))>>),
      ExprStmt(CallF)>> \o a>> : l \in Leaving, a \in Afterwards}
  \cup {<<l \o a>> : l \in {<<Twice(<<Trying(<<Break>>, <<Say(5)>>)>>)>>}, a \in {<<Throw>>}}

(* Generators that yield inside a try body, raise, or resume themselves. *)
GeneratorScripts ==
  {<<<<Def("f", << >>, b), Assign("g", CallF), Trying(<<LoopOn(Name("g"), u)>>, <<Say(4)>>),
      LoopOn(Name("g"), <<P(Name("i"))>>)>>>> :
     b \in {<<Trying(<<OneYield>>, <<Say(5)>>), OneYield>>, <<OneYield, Throw>>, <<Throw, OneYield>>,
            <<OneYield, LoopOn(Name("g"), <<Say(6)>>), OneYield>>},
     u \in {<<Say(1)>>, <<Throw>>}}

(* Exceptions out of __str__ and __init__, and methods of the wrong kind. *)
ClassScripts ==
  {<<<<ClassDef("f", <<Def("__init__", params, init), Def("__str__", <<"self">>, str)>>)>> \o use,
     <<Throw>>>> :
     params \in {<<"self">>, <<"self", "x">>}, init \in {<<Say(1)>>, <<Throw>>},
     str \in {<<Throw>>, <<Return(IntLit(1))>>, <<OneYield>>,
              <<Trying(<<Import("m", 2)>>, <<Say(3)>>)>>},
     use \in {<<P(CallF)>>, <<Trying(<<P(CallF)>>, <<Say(7)>>)>>,
              <<Try(<<P(Call("str", <<CallF>>))>>, <<Except(NoType, "", << >>)>>, << >>, << >>), Say(6)>>}}
OtherClasses ==
  {<<<<ClassDef("f", <<Def("__str__", ps, <<Return(IntLit(1))>>)>>), P(CallF)>>>> :
     ps \in {<< >>, <<"self", "x">>}}

(* Imports that fail, in a try and outside, and are tried again. *)
ImportScripts ==
  {<<a, b, c>> :
     a \in {<<Trying(<<Import("m", 2)>>, <<Say(1)>>), Import("m", 2), Import("n", 3)>>,
            <<Trying(<<Import("n", 3)>>, <<Import("m", 2)>>), P(Attribute(Name("m"), "x"))>>,
            <<Def("f", << >>, <<Import("n", 3)>>), Trying(<<ExprStmt(CallF)>>, << >>), Import("n", 3)>>},
     b \in {<<Throw>>, <<Assign("x", IntLit(1)), Import("n", 3), Throw>>, <<Import("h", 0)>>},
     c \in {<<Throw>>, <<Import("m", 2), Throw>>,
            <<Trying(<<Import("m", 2)>>, <<Say(8)>>), P(Attribute(Name("m"), "x"))>>}}

(* Failures that are no exceptions, and operand stacks that are too small. *)
Sums(n)  == [k \in 1..n |-> IntLit(k)]
Failing ==
  {ExprStmt(Call("f", <<IntLit(1)>>)), ExprStmt(Call("x", << >>)), ExprStmt(Yield(IntLit(1))),
   ExprStmt(BinOp("LSHIFT", IntLit(1), IntLit(-1))), P(BinOp("LSHIFT", IntLit(1), IntLit(2))),
   ExprStmt(Call("f", Sums(4))), LoopOn(IntLit(1), <<Say(1)>>), Raise(IntLit(3)),
   ExprStmt(Call("range", <<NoneLit>>)), Break,
   Twice(<<Assign("__iter_i__", IntLit(1))>>)}
FailScripts ==
  {<<<<Def("f", << >>, <<Return(NoneLit)>>), Assign("x", IntLit(1)),
      Try(<<s>>, <<Except(Name("RuntimeError"), "", <<Say(1)>>)>>, << >>, fin)>>>> :
     s \in Failing \ {Break}, fin \in {<< >>, <<Say(2)>>}}
  \cup {<<<<Def("f", << >>, <<s>>), Assign("x", IntLit(1)), ExprStmt(CallF)>>>> : s \in Failing}

MCSources == LeakScripts \cup GeneratorScripts \cup ClassScripts \cup OtherClasses
             \cup ImportScripts \cup FailScripts
===============================================================================
