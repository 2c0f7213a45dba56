--------------------------------- MODULE Syntax --------------------------------
(***************************************************************************)
(* The whole tree of src/ast.rs, as the parser makes it: a node is a tuple   *)
(* that begins with its kind.  (Module Ast has the smaller and simpler tree   *)
(* of the fragment that module Compiler compiles.)  Line numbers are left    *)
(* out, and operators keep the spelling of their token.                      *)
(***************************************************************************)
EXTENDS Integers, Sequences

Absent == << >>      \* an Option that is None; an optional name x is <<x>>

(* Expressions. *)
Name(x)                 == <<"name", x>>
Literal(w)              == <<"literal", w>>          \* a number, True, False, None
Text_(parts)            == <<"text", parts>>         \* adjacent strings, joined
Binary(op, l, r)        == <<"binary", op, l, r>>    \* BinOp and BoolOp
Unary(op, e)            == <<"unary", op, e>>
Compare(l, ops, rs)     == <<"compare", l, ops, rs>>
Call(f, args)           == <<"call", f, args>>
Subscript(v, i)         == <<"subscript", v, i>>
Slice(start, stop, by)  == <<"slice", start, stop, by>>
Attribute(v, x)         == <<"attribute", v, x>>
Tuple(es)               == <<"tuple", es>>
ListOf(es)              == <<"list", es>>
SetOf(es)               == <<"set", es>>
DictOf(pairs)           == <<"dict", pairs>>         \* pairs of key and value
Comp(kind, elt, cs)     == <<kind, elt, cs>>         \* "listcomp", "setcomp", "dictcomp"
Clause(t, e, conds)     == <<t, e, conds>>
Lambda(params, e)       == <<"lambda", params, e>>
IfExpr(e, test, orelse) == <<"ifexpr", e, test, orelse>>
Yield(e)                == <<"yield", e>>
Starred(e)              == <<"starred", e>>

(* Statements. *)
ExprStmt(e)             == <<"expr", e>>
Assign(t, e)            == <<"assign", t, e>>
AugAssign(op, t, e)     == <<"augassign", op, t, e>>
If(c, body, elifs, els) == <<"if", c, body, elifs, els>>   \* elifs: <<condition, body>>
While(c, body)          == <<"while", c, body>>
For(t, e, body)         == <<"for", t, e, body>>
Def(x, ps, body, decs)  == <<"def", x, ps, body, decs>>
ClassDef(x, bases, body, decs)     == <<"class", x, bases, body, decs>>
Try(body, handlers, els, final)    == <<"try", body, handlers, els, final>>
Except(type, x, body)   == <<type, x, body>>
Return(e)               == <<"return", e>>
Raise(e)                == <<"raise", e>>
Assert_(e, msg)         == <<"assert", e, msg>>
Delete(t)               == <<"del", t>>
Names(kind, xs)         == <<kind, xs>>              \* "global", "nonlocal"
Plain(kind)             == <<kind>>                  \* "pass", "break", "continue"
Import(aliases)         == <<"import", aliases>>     \* <<dotted name, asname>>
ImportFrom(level, m, aliases) == <<"from", level, m, aliases>>
Star                    == << <<"*", Absent>> >>
=============================================================================
