-------------------------------- MODULE Python --------------------------------
(***************************************************************************)
(* What a script means: a reference semantics of the fragment of Ast that   *)
(* has no generators, classes or modules, written over the syntax and       *)
(* without code, frames or handlers, as the Python language defines it.     *)
(* The interpreter is checked against it.                                   *)
(*                                                                          *)
(* A world w is what running code may change; running a block returns the   *)
(* world and how control leaves the block.  w.beyond records that the       *)
(* script used something src/compiler.rs compiles otherwise than Python: it *)
(* left a try body by a jump, left a try statement that has a finally       *)
(* clause other than at its end, or re-raised an exception that was not the *)
(* last one raised.                                                         *)
(***************************************************************************)
EXTENDS Ast, FiniteSets, SequencesExt

LOCAL None == <<"none", 0>>
LOCAL ExcNames == {"BaseException", "Exception", "TypeError", "ValueError", "NameError",
                   "KeyError", "ZeroDivisionError", "RuntimeError", "AssertionError"}

(* How control leaves a block. *)
Normal    == <<"normal">>
Raising(t) == <<"raise", t>>
Raised(r) == r.how[1] = "raise"

Raised_(w, t) == [w |-> [w EXCEPT !.last = t], how |-> Raising(t)]
Value(w, v)   == [w |-> w, how |-> <<"value", v>>]

Subtype(s, t) == s = t \/ t = "BaseException" \/ (t = "Exception" /\ s # "BaseException")

(* The names a function body binds are its locals. *)
RECURSIVE BoundIn(_)
BoundIn(stmts) ==
  UNION {LET st == stmts[i] IN
         (IF st[1] \in {"assign", "for", "def"} THEN {st[2]} ELSE {})
         \union (IF st[1] = "try" THEN {st[3][h].name : h \in DOMAIN st[3]} ELSE {})
         \union UNION {BoundIn(Blocks(st)[b]) : b \in DOMAIN Blocks(st)}
         : i \in DOMAIN stmts}
DeclaredGlobal(stmts) == {stmts[i][2] : i \in {j \in DOMAIN stmts : stmts[j][1] = "global"}}

With(f, n, v) == [x \in DOMAIN f \union {n} |-> IF x = n THEN v ELSE f[x]]
Store(w, n, v) == IF n \in w.scope THEN [w EXCEPT !.locals = With(@, n, v)]
                  ELSE [w EXCEPT !.globals = With(@, n, v)]
Load(w, n) ==
  IF n \in w.scope
  THEN IF n \in DOMAIN w.locals THEN Value(w, w.locals[n]) ELSE Raised_(w, "NameError")
  ELSE IF n \in DOMAIN w.globals THEN Value(w, w.globals[n])
  ELSE IF n \in ExcNames THEN Value(w, <<"exctype", n>>)
  ELSE IF n \in {"print", "range"} THEN Value(w, <<"builtin", n>>)
  ELSE Raised_(w, "NameError")

Num(v) == IF v[1] = "bool" THEN (IF v[2] THEN 1 ELSE 0) ELSE v[2]
IsNum(v) == v[1] \in {"int", "bool"}
Truth(v) == ~(v = None \/ (IsNum(v) /\ Num(v) = 0))
Arith(w, op, l, r) ==
  IF ~(IsNum(l) /\ IsNum(r)) THEN Raised_(w, "TypeError")
  ELSE IF op = "ADD" THEN Value(w, <<"int", Num(l) + Num(r)>>)
  ELSE IF Num(r) = 0 THEN Raised_(w, "ZeroDivisionError")
  ELSE Value(w, <<"int", Num(l) \div Num(r)>>)

-------------------------------------------------------------------------------
RECURSIVE Eval(_, _), EvalAll(_, _, _), Run(_, _), RunAll(_, _),
          Loop(_, _, _, _, _), Repeat(_, _, _)

(* What needs a value goes on with it, unless an exception was raised. *)
Then(r0, K(_, _)) == On(r0, LAMBDA r : IF Raised(r) THEN r ELSE K(r.w, r.how[2]))
Done(w) == [w |-> w, how |-> Normal]

(* Expressions from left to right, their values after those in vs. *)
EvalAll(w, es, vs) ==
  IF es = << >> THEN Value(w, vs)
  ELSE Then(Eval(w, Head(es)), LAMBDA u, v : EvalAll(u, Tail(es), Append(vs, v)))

Enter(w, f, args) ==
  [w EXCEPT !.scope = (ToSet(f[3]) \union BoundIn(f[4])) \ DeclaredGlobal(f[4]),
            !.locals = [n \in ToSet(f[3]) |-> args[CHOOSE i \in DOMAIN f[3] : f[3][i] = n]]]
Leave(w, r) ==
  [w |-> [r.w EXCEPT !.scope = w.scope, !.locals = w.locals],
   how |-> CASE Raised(r) -> r.how
             [] r.how[1] = "return" -> <<"value", r.how[2]>>
             [] OTHER -> <<"value", None>>]
Apply(w, f, args) ==
  CASE f = <<"builtin", "print">> -> Value([w EXCEPT !.out = Append(@, args[1])], None)
    [] f = <<"builtin", "range">> -> Value(w, <<"range", args[1][2]>>)
    [] f[1] = "exctype"           -> Value(w, <<"exc", f[2]>>)
    [] f[1] = "def"               -> On(RunAll(Enter(w, f, args), f[4]),
                                        LAMBDA r : Leave(w, r))

Eval(w, e) ==
  CASE e[1] = "const" -> Value(w, e[2])
    [] e[1] = "name"  -> Load(w, e[2])
    [] e[1] = "binop" -> Then(EvalAll(w, <<e[3], e[4]>>, << >>), LAMBDA u, vs :
                              Arith(u, e[2], vs[1], vs[2]))
    [] e[1] = "eq"    -> Then(EvalAll(w, <<e[2], e[3]>>, << >>), LAMBDA u, vs :
                              Value(u, <<"bool", vs[1] = vs[2]>>))
    [] e[1] = "call"  -> Then(EvalAll(w, <<e[2]>> \o e[3], << >>), LAMBDA u, vs :
                              Apply(u, Head(vs), Tail(vs)))

-------------------------------------------------------------------------------
RunAll(w, stmts) ==
  IF stmts = << >> THEN Done(w)
  ELSE On(Run(w, Head(stmts)), LAMBDA r :
          IF r.how = Normal THEN RunAll(r.w, Tail(stmts)) ELSE r)

(* A try statement: the clause that takes the exception, then the finally. *)
Matching(w, t, handlers) ==
  {h \in DOMAIN handlers : \/ handlers[h].type = NoType
                           \/ Subtype(t, Eval(w, handlers[h].type).how[2][2])}
Handled(r, handlers) ==
  LET t       == r.how[2]
      matches == Matching(r.w, t, handlers)
      h       == handlers[CHOOSE i \in matches : \A j \in matches : i <= j]
      bound   == IF h.name = "" THEN r.w ELSE Store(r.w, h.name, <<"exc", t>>)
  IN  IF matches = {} THEN r
      ELSE On(RunAll([bound EXCEPT !.handling = Append(@, t)], h.body), LAMBDA done :
              [done EXCEPT !.w.handling = r.w.handling])
Finally(r, final) ==
  IF final = << >> THEN r
  ELSE On(RunAll(r.w, final), LAMBDA f :
          [w |-> [f.w EXCEPT !.beyond = @ \/ r.how # Normal],
           how |-> IF f.how = Normal THEN r.how ELSE f.how])
RunTry(w, body, handlers, orelse, final) ==
  On(On(RunAll(w, body), LAMBDA r : CASE r.how = Normal -> RunAll(r.w, orelse)
                                      [] Raised(r) -> Handled(r, handlers)
                                      [] OTHER -> [r EXCEPT !.w.beyond = TRUE]),
     LAMBDA r : Finally(r, final))

(* A loop goes on after a round that ended normally or with continue; rounds k
   to n of a for loop over a range are left.                                *)
After(round, Again(_)) ==
  On(round, LAMBDA r : CASE r.how[1] \in {"return", "raise"} -> r
                         [] r.how[1] = "break" -> Done(r.w)
                         [] OTHER -> Again(r.w))
Loop(w, target, k, n, body) ==
  IF k >= n THEN Done(w)
  ELSE After(RunAll(Store(w, target, <<"int", k>>), body), LAMBDA u :
             Loop(u, target, k + 1, n, body))
Repeat(w, cond, body) ==
  Then(Eval(w, cond), LAMBDA u, v :
       IF Truth(v) THEN After(RunAll(u, body), LAMBDA x : Repeat(x, cond, body)) ELSE Done(u))

Run(w, st) ==
  CASE st[1] \in {"pass", "global"} -> Done(w)
    [] st[1] = "expr"     -> Then(Eval(w, st[2]), LAMBDA u, v : Done(u))
    [] st[1] = "assign"   -> Then(Eval(w, st[3]), LAMBDA u, v : Done(Store(u, st[2], v)))
    [] st[1] = "def"      -> Done(Store(w, st[2], st))
    [] st[1] = "return"   -> Then(Eval(w, st[2]), LAMBDA u, v : [w |-> u, how |-> <<"return", v>>])
    [] st[1] \in {"break", "continue"} -> [w |-> w, how |-> <<st[1]>>]
    [] st[1] = "if"       -> Then(Eval(w, st[2]), LAMBDA u, v :
                                  RunAll(u, IF Truth(v) THEN st[3] ELSE st[4]))
    [] st[1] = "while"    -> Repeat(w, st[2], st[3])
    [] st[1] = "for"      -> Then(Eval(w, st[3]), LAMBDA u, v : Loop(u, st[2], 0, v[2], st[4]))
    [] st[1] = "try"      -> RunTry(w, st[2], st[3], st[4], st[5])
    [] st[1] = "raise"    -> Then(Eval(w, st[2]), LAMBDA u, v :
                                  Raised_(u, IF v[1] \in {"exc", "exctype"} THEN v[2] ELSE "TypeError"))
    [] st[1] = "assert"   -> Then(Eval(w, st[2]), LAMBDA u, v :
                                  IF Truth(v) THEN Done(u) ELSE Raised_(u, "AssertionError"))
    [] st[1] = "reraise"  ->
         IF w.handling = << >> THEN [Raised_(w, "RuntimeError") EXCEPT !.w.beyond = TRUE]
         ELSE LET t == Last(w.handling) IN
              [Raised_(w, t) EXCEPT !.w.beyond = @ \/ t # w.last]

(* The meaning of a script: what it prints, and whether it ends normally. *)
Meaning(stmts) ==
  LET r == RunAll([out |-> << >>, globals |-> << >>, locals |-> << >>, scope |-> {},
                   handling |-> << >>, last |-> "", beyond |-> FALSE], stmts)
  IN  [status |-> IF r.how = Normal THEN "done" ELSE "error",
       output |-> r.w.out, beyond |-> r.w.beyond]

=============================================================================
