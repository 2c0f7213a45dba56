------------------------------- MODULE MCNested -------------------------------
(***************************************************************************)
(* Scripts whose frames and activations of the dispatch loop nest: loops    *)
(* over generators, imports that import one another, and __init__ and       *)
(* __str__ methods, each of which may start the others.                     *)
(***************************************************************************)
EXTENDS Interpreter

MCNames == {"f", "g", "h", "i", "j", "x", "self", "m", "n",
            "__iter_i__", "__iter_j__", "__iter_x__", "__init__", "__str__"}

P(v)     == ExprStmt(Call("print", <<v>>))
Say(n)   == P(IntLit(n))
CallF    == Call("f", << >>)
GetYield == ExprStmt(Yield(IntLit(1)))
Caught1(body) == Try(body, <<Except(NoType, "", <<Say(9)>>)>>, << >>, << >>)

-------------------------------------------------------------------------------
(* Generators: what their bodies do, and how their callers use them up. *)
GeneratorBodies ==
  {<<GetYield, GetYield>>,
   <<For("i", Call("range", <<IntLit(2)>>), <<ExprStmt(Yield(Name("i")))>>)>>,
   <<Assign("x", Yield(IntLit(1))), P(Name("x"))>>,
   <<GetYield, Return(IntLit(2)), GetYield>>,
   <<Caught1(<<Raise(Name("KeyError"))>>), GetYield>>,
   <<If(BoolLit(FALSE), <<GetYield>>, << >>)>>}
Use == <<For("i", Name("g"), <<P(Name("i"))>>)>>
Uses ==
  {Use, Use \o Use,
   <<For("i", Name("g"), <<P(Name("i")), Break>>)>> \o Use,
   <<For("i", Name("g"), <<For("j", Name("g"), <<P(Name("j"))>>)>>)>>,
   <<For("i", Name("g"), <<For("j", CallF, <<P(Name("j")), Continue>>)>>)>>,
   <<Caught1(<<For("i", Name("g"), <<Raise(Name("KeyError"))>>)>>)>> \o Use}
GeneratorScripts ==
  UNION {LET d == <<Def("f", << >>, b)>> IN
         {<<d \o <<Assign("g", CallF)>> \o u>>,
          <<d \o <<Def("h", <<"g">>, u), ExprStmt(Call("h", <<CallF>>))>>>>,
          <<d \o <<Def("h", <<"g">>, u \o <<ExprStmt(Yield(NoneLit))>>),
                   For("x", Call("h", <<CallF>>), <<P(Name("x"))>>)>>>>}
         : b \in GeneratorBodies, u \in Uses}

(* Instances: what __init__ and __str__ do; a __str__ may format another
   instance, run a generator or import a module.                            *)
Method1(name, body) == IF body = << >> THEN << >> ELSE <<Def(name, <<"self">>, body)>>
Instances ==
  {<<Def("f", << >>, <<GetYield, GetYield>>),
     ClassDef("h", Method1("__init__", init) \o Method1("__str__", str)),
     Assign("x", Call("h", << >>)), P(Name("x")), P(Call("str", <<Name("x")>>)),
     P(Eq(Name("x"), Name("x")))>> :
     init \in {<< >>, <<Say(1)>>, <<For("j", CallF, <<Return(NoneLit)>>)>>},
     str \in {<< >>, <<Return(IntLit(1))>>, <<Caught1(<<Raise(Name("KeyError"))>>), Say(2)>>,
              <<For("j", CallF, <<P(Name("j"))>>), Return(IntLit(3))>>,
              <<Import("m", 2), Return(Attribute(Name("m"), "x"))>>}}
Chained ==     \* __str__ of one class prints an instance of another
  <<ClassDef("f", Method1("__str__", <<Return(IntLit(1))>>)),
    ClassDef("g", Method1("__init__", <<P(Call("f", << >>))>>)
                  \o Method1("__str__", <<P(Call("f", << >>)), Return(Call("str", <<Call("f", << >>)>>))>>)),
    P(Call("g", << >>))>>
ClassScripts == {<<s, <<Assign("x", IntLit(5))>>>> : s \in Instances \cup {Chained}}

(* Imports: the script and two files that import one another in every way. *)
Export == Def("f", << >>, <<Global("x"), Assign("x", IntLit(2)), Return(Name("x"))>>)
CallM  == P(Attribute(Name("m"), "x"))
ImportScripts ==
  {<<a, b, c>> :
     a \in {<<Import("m", 2), CallM, Import("n", 3), Import("m", 2)>>,
            <<Import("n", 3), Import("m", 2), CallM>>,
            <<Def("g", << >>, <<Import("m", 2), CallM, Import("m", 2)>>), ExprStmt(Call("g", << >>)),
              Import("n", 3), ExprStmt(Call("g", << >>))>>},
     b \in {<<Assign("x", IntLit(1))>>,
            <<Import("n", 3), Assign("x", IntLit(1))>>,
            <<Assign("x", IntLit(1)), Import("n", 3), Import("m", 2)>>,
            <<Export, P(Call("f", << >>)), Assign("x", IntLit(1)), Import("n", 3)>>},
     c \in {<<Say(8)>>, <<Import("m", 2), Say(7)>>, <<Import("n", 3), Import("m", 2)>>,
            <<Def("h", << >>, <<Import("m", 2), GetYield>>),
              For("i", Call("h", << >>), <<Say(6)>>)>>}}

MCSources == GeneratorScripts \cup ClassScripts \cup ImportScripts
=============================================================================
