--------------------------------- MODULE Ast ----------------------------------
(***************************************************************************)
(* The part of src/ast.rs that the model of the compiler knows: statements  *)
(* and expressions as tuples that begin with their kind.  Line numbers are  *)
(* left out; a target is a name.  An import names its file by the place it  *)
(* has in the source, or 0 where there is no such file.                     *)
(***************************************************************************)
EXTENDS Integers, Sequences

(* Expressions. *)
Const(v)        == <<"const", v>>
Name(n)         == <<"name", n>>
BinOp(op, l, r) == <<"binop", op, l, r>>
Eq(l, r)        == <<"eq", l, r>>
Call(f, args)   == <<"call", Name(f), args>>
Attribute(e, n) == <<"attr", e, n>>
Yield(e)        == <<"yield", e>>
NoneLit         == Const(<<"none", 0>>)
IntLit(n)       == Const(<<"int", n>>)
BoolLit(b)      == Const(<<"bool", b>>)
StrLit          == Const(<<"str", 0>>)     \* which string does not matter

(* Statements. *)
ExprStmt(e)               == <<"expr", e>>
Assign(n, e)              == <<"assign", n, e>>
If(e, body, orelse)       == <<"if", e, body, orelse>>
While(e, body)            == <<"while", e, body>>
For(n, e, body)           == <<"for", n, e, body>>
Def(n, params, body)      == <<"def", n, params, body>>
ClassDef(n, body)         == <<"class", n, body>>
Return(e)                 == <<"return", e>>
Pass                      == <<"pass">>
Break                     == <<"break">>
Continue                  == <<"continue">>
Try(body, handlers, orelse, final) == <<"try", body, handlers, orelse, final>>
Raise(e)                  == <<"raise", e>>
Reraise                   == <<"reraise">>
AssertStmt(e)             == <<"assert", e>>
Import(n, file)           == <<"import", n, file>>
Global(n)                 == <<"global", n>>

(* An except clause: a type or NoType for a bare one, a name or "". *)
NoType == <<"notype">>
Except(type, name, body) == [type |-> type, name |-> name, body |-> body]

(* The blocks of statements directly inside a statement of the same scope. *)
Blocks(st) ==
  CASE st[1] = "if"    -> <<st[3], st[4]>>
    [] st[1] = "while" -> <<st[3]>>
    [] st[1] = "for"   -> <<st[4]>>
    [] st[1] = "try"   -> <<st[2]>> \o [i \in DOMAIN st[3] |-> st[3][i].body]
                          \o <<st[4], st[5]>>
    [] OTHER           -> << >>

(* op(x), for the walks over a tree that pass a state through: x is worked out
   before op, which TLC would else put off and do once for each use of x.     *)
On(x, op(_)) == CHOOSE r \in {op(v) : v \in {x}} : TRUE

=============================================================================
