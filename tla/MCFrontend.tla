------------------------------ MODULE MCFrontend -------------------------------
(***************************************************************************)
(* Texts for module Frontend: every operator inside every other, every        *)
(* statement, every compound statement inside every other, in many layouts,   *)
(* and texts with one mistake.                                                *)
(***************************************************************************)
EXTENDS Frontend, Grammar

MCIdentifiers == {"a", "b", "f", "x"}
MCStrings == {"'s'"}
MCWords == Keywords \cup MCIdentifiers \cup MCStrings \cup {"1", "None"}

a == Name("a")
b == Name("b")
f == Name("f")
x == Name("x")
One == Literal("1")
Ops == {"or", "and", "|", "^", "&", "<<", "+", "-", "*", "//", "**"}

(* The expressions that have e for a part. *)
Around(e) ==
  {Binary(op, e, b) : op \in Ops} \cup {Binary(op, a, e) : op \in Ops} \cup
  {Unary(op, e) : op \in {"-", "not"}} \cup
  {Compare(e, <<"<">>, <<b>>), Compare(a, <<"is not">>, <<e>>), Compare(a, <<"==", "not in">>, <<e, b>>),
   Compare(a, <<"in", "is", ">=">>, <<b, x, e>>)} \cup
  {Call(e, << >>), Call(f, <<e, b>>), Call(f, <<a, Starred(e)>>), Attribute(e, "x"), Subscript(e, One),
   Subscript(a, e), Subscript(a, Slice(e, Absent, b)), Subscript(a, Slice(Absent, e, Absent))} \cup
  {Tuple(<<e>>), Tuple(<<a, e>>), ListOf(<<e, b>>), SetOf(<<a, e>>),
   DictOf(<< <<e, a>>, <<b, e>> >>), Lambda(<< >>, e), Lambda(<<"a", "b">>, e)} \cup
  {IfExpr(e, a, b), IfExpr(a, e, b), IfExpr(a, b, e), Yield(e)} \cup
  {Comp("listcomp", e, <<Clause(x, a, << >>)>>),
   Comp("setcomp", x, <<Clause(x, e, <<a, b>>), Clause(Tuple(<<a, b>>), x, << >>)>>),
   Comp("dictcomp", <<x, e>>, <<Clause(Tuple(<<x>>), a, <<e>>)>>)}
Empty == {Tuple(<< >>), ListOf(<< >>), DictOf(<< >>), Yield(Absent), Text_(<<"'s'", "'s'">>),
          Subscript(a, Slice(Absent, Absent, Absent))}
Deep == UNION {Around(e) : e \in Around(a)} \cup Empty

(* Statements of one line, and those around others. *)
Simple ==
  {ExprStmt(Tuple(<<a, b>>)), ExprStmt(Tuple(<<a>>)), ExprStmt(Yield(Absent)),
   Assign(a, Tuple(<<b>>)), Assign(Tuple(<<a, b>>), Tuple(<<b, a>>)), Assign(x, Yield(a)),
   Assign(Tuple(<<a, Tuple(<<b, x>>)>>), f), Assign(Attribute(a, "x"), Lambda(<<"a">>, a)),
   Assign(Subscript(a, One), Text_(<<"'s'">>)), Return(Absent), Return(IfExpr(a, b, x)),
   Raise(Absent), Raise(Call(f, <<a>>)), Assert_(Compare(a, <<"<=">>, <<b>>), Absent),
   Assert_(a, Text_(<<"'s'">>)), Delete(Subscript(a, Slice(One, Absent, Absent))),
   Names("global", <<"a">>), Names("nonlocal", <<"a", "b">>),
   Plain("pass"), Plain("break"), Plain("continue"),
   Import(<< <<<<"a">>, Absent>> >>), Import(<< <<<<"a", "b">>, <<"x">>>>, <<<<"f", "x", "a">>, Absent>> >>),
   ImportFrom(0, <<"a", "b">>, Star), ImportFrom(1, << >>, << <<"a", Absent>>, <<"b", <<"x">>>> >>),
   ImportFrom(2, <<"x">>, << <<"a", <<"b">>>> >>), ImportFrom(3, << >>, Star)}
  \cup {AugAssign(op, a, Binary("+", a, b)) : op \in Augmented}
Plainly == <<Plain("pass")>>
Compound(body) ==
  {If(a, body, << >>, << >>), If(a, Plainly, << <<b, body>>, <<x, Plainly>> >>, body),
   While(a, body), For(x, a, body), For(Tuple(<<a, Tuple(<<b, x>>)>>), f, body),
   Def("f", <<"a", "b">>, body, << >>), Def("f", << >>, body, <<a, Call(f, <<b>>)>>),
   ClassDef("x", << >>, body, << >>), ClassDef("x", <<a, b>>, body, <<f>>),
   Try(body, <<Except(a, <<"x">>, body), Except(Absent, Absent, body)>>, body, Plainly),
   Try(Plainly, << >>, << >>, body)}

Deeper == UNION {Compound(<<c, ExprStmt(b)>>) : c \in Compound(<<ExprStmt(a)>>)}

-------------------------------------------------------------------------------
Tight == [width |-> 1, gap |-> << >>, before |-> << >>, after |-> << >>, last |-> << >>, broken |-> FALSE]
Wide  == [Tight EXCEPT !.width = 2, !.gap = <<" ">>, !.after = <<" ", "#", "x">>, !.last = <<"\n">>]
Programs ==
  {<< <<ExprStmt(e)>>, Tight>> : e \in Deep} \cup
  {<< <<ExprStmt(e)>>, [Tight EXCEPT !.broken = TRUE]>> : e \in Around(a)} \cup
  {<< <<st, ExprStmt(a)>>, layout>> : st \in Simple \cup Compound(Plainly), layout \in Layouts} \cup
  {<< <<st, ExprStmt(a)>>, layout>> : st \in Deeper, layout \in {Tight, Wide}}

(* Texts with one mistake: a line that is indented like none before it, one that
   is indented for no reason, a body that is missing, a colon that is, a string
   and a bracket that stay open, a character that begins no token.            *)
Nest == Source(<<While(a, <<While(b, <<ExprStmt(a)>>), ExprStmt(b)>>), ExprStmt(x)>>)
Flaws == {<<"while", "a">>, <<"'">>, <<"f", "(", "a">>, <<"a", "!">>, <<"a", "$">>, <<")">>, <<"a", "=">>,
          <<"1", "=", "a">>, <<"else", ":">>}
Mistakes ==
  {<< <<" ">>, Nest, << >> >>, << << >>, SubSeq(Nest, 1, 3), <<" ", "x">> >>, << << >>, SubSeq(Nest, 1, 1), << >> >>,
   << << >>, SubSeq(Nest, 1, 3), <<" ", " ", " ", "x">> >>, << << >>, SubSeq(Nest, 1, 2), << >> >>}
  \cup {<< << >>, [Nest EXCEPT ![i].tokens = ts], << >> >> : i \in DOMAIN Nest, ts \in Flaws}

(* A function in a function in a function, each with its way of using the name a,
   which is a name of the module too; the innermost also uses b of the outermost.
   Left out are an inner `nonlocal` where the function between has no use for the
   name, and a use of a name that the function between declares global: the
   analysis looks through the function between.                               *)
Ways ==
  [none   |-> << >>,
   uses   |-> <<ExprStmt(a)>>,
   param  |-> << >>,
   binds  |-> <<Assign(Tuple(<<a>>), One)>>,
   adds   |-> <<AugAssign("+=", a, One)>>,
   loop   |-> <<For(a, One, Plainly)>>,
   branch |-> <<If(One, <<While(One, <<Assign(a, One)>>)>>, << >>, << >>)>>,
   comp   |-> <<Return(Comp("listcomp", Attribute(a, "x"), <<Clause(a, One, <<Binary("or", a, b)>>)>>))>>,
   global |-> <<Names("global", <<"a">>), Assign(a, One)>>,
   nonlocal |-> <<Names("nonlocal", <<"a">>), Assign(a, Compare(a, <<"is">>, <<One>>))>>]
Binding == {"param", "binds", "adds", "loop", "branch", "comp"}
Function(name, way, params, rest) ==
  Def(name, params \o (IF way = "param" THEN <<"a">> ELSE << >>), Ways[way] \o rest, << >>)
Triples == {w \in (DOMAIN Ways \ {"nonlocal"}) \X (DOMAIN Ways) \X (DOMAIN Ways) :
  /\ w[2] = "nonlocal" => w[1] \in Binding
  /\ w[3] = "nonlocal" => w[2] \in Binding \cup {"nonlocal"} \/ (w[2] = "uses" /\ w[1] \in Binding)
  /\ ~(w[1] \in Binding /\ w[2] = "global" /\ w[3] = "uses")}
Inner(way) == Function("f", way, << >>, <<ExprStmt(b)>>)
Outer(w, body) ==
  <<Assign(a, One), Function("f", w[1], <<"b">>, <<Function("x", w[2], << >>, body), ExprStmt(a)>>), ExprStmt(a)>>

(* The innermost function in every block of every statement that has blocks. *)
Spread(def) ==
  {<<If(One, <<def>>, << <<b, <<def>>>> >>, <<def>>)>>, <<While(One, <<def>>), def>>,
   <<For(Tuple(<<Name("x"), b>>), One, <<def>>), def>>,
   <<Try(<<def>>, <<Except(Absent, Absent, <<def>>)>>, << >>, <<def>>), def>>,
   <<Try(<<def>>, << >>, <<def>>, <<def>>), def>>}
Closures ==
  {Outer(w, <<Inner(w[3])>>) : w \in Triples}
  \cup UNION {{Outer(w, body) : body \in Spread(Inner(w[3]))} :
                w \in {"binds", "param"} \X {"none", "uses"} \X {"uses", "binds"}}

Text_of(program, layout) == Laid(Source(program), layout, Spelling)
MCSources ==
  {[tree |-> p[1], text |-> Text_of(p[1], p[2]), loaded |-> 0, closures |-> FALSE] : p \in Programs} \cup
  {[tree |-> Rejected, text |-> m[1] \o Laid(m[2], Wide, Spelling) \o m[3], loaded |-> 0, closures |-> FALSE] :
     m \in Mistakes} \cup
  {[tree |-> p, text |-> Text_of(p, Tight), loaded |-> 0, closures |-> TRUE] : p \in Closures}

(* The file of an import, a lambda in front of a function, and functions in the
   else of a try statement and in its handler.                                *)
Closure == Outer(<<"binds", "none", "uses">>, <<Inner("uses")>>)
MCMisaligned ==
  {[tree |-> p[1], text |-> Text_of(p[1], Tight), loaded |-> p[2], closures |-> FALSE] :
     p \in {<<Closure, 1>>, << <<Assign(x, Lambda(<< >>, One))>> \o Closure, 0>>,
            << <<Try(Plainly, <<Except(Absent, Absent, <<Inner("uses")>>)>>, Closure, << >>)>>, 0>>}}
=============================================================================
