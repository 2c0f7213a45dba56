--------------------------------- MODULE Parser --------------------------------
(***************************************************************************)
(* The recursive-descent parser of src/parser.rs, over the tokens of module  *)
(* Lexer: one operator per function, from the place of its first token to     *)
(* the node it makes and the place behind it.                                *)
(***************************************************************************)
EXTENDS Lexer, Syntax

CONSTANTS Identifiers, Strings    \* the words that are neither keywords nor other literals
ASSUME WordsAssumption == Identifiers \cup Strings \subseteq Words

Keywords == {"if", "elif", "else", "for", "in", "while", "def", "return", "and", "or", "not",
  "pass", "break", "continue", "class", "try", "except", "finally", "raise", "as", "with",
  "assert", "del", "global", "nonlocal", "lambda", "yield", "is", "from", "import"}
Literals == Words \ (Keywords \cup Identifiers \cup Strings)

(* An Err is the place 0.  No token is there, so a function that goes on from
   the place a call returned is itself an Err where the call was one.        *)
Got(node, i) == [node |-> node, next |-> i]
Err == Got(Absent, 0)
peek(i) == IF i = 0 THEN "Err" ELSE IF i > Len(tokens) THEN "EOF" ELSE tokens[i]
expect(t, i) == IF peek(i) = t THEN i + 1 ELSE 0
expect_ident(i) == IF peek(i) \in Identifiers THEN i + 1 ELSE 0
LineEnd(i) == IF peek(i) = "NEWLINE" THEN i + 1 ELSE i

RECURSIVE eat_newlines(_)
eat_newlines(i) == IF peek(i) = "NEWLINE" THEN eat_newlines(i + 1) ELSE i

-------------------------------------------------------------------------------
(* One function calls another through parse, which takes its name. *)
RECURSIVE parse(_, _)

(* Items up to a closing bracket, a comma after each but perhaps the last. *)
parse_pair(i) ==
  LET k == parse("expr", i)
      v == parse("expr", expect(":", k.next))
  IN  Got(<<k.node, v.node>>, v.next)
RECURSIVE parse_items(_, _, _, _)
parse_items(rule, close, i, acc) ==
  LET r == parse(rule, i) IN
  CASE peek(i) = close    -> Got(acc, i + 1)
    [] peek(r.next) = "," -> parse_items(rule, close, r.next + 1, Append(acc, r.node))
    [] OTHER              -> Got(Append(acc, r.node), expect(close, r.next))

(* The tower of operators that take two operands, weakest first: the symbols of
   each level, and the rule of its operands.                 *)
Tower ==
  [or       |-> [ops |-> {"or"}, operand |-> "and"],
   and      |-> [ops |-> {"and"}, operand |-> "not"],
   bitor    |-> [ops |-> {"|"}, operand |-> "bitxor"],
   bitxor   |-> [ops |-> {"^"}, operand |-> "bitand"],
   bitand   |-> [ops |-> {"&"}, operand |-> "shift"],
   shift    |-> [ops |-> {"<<", ">>"}, operand |-> "addition"],
   addition |-> [ops |-> {"+", "-"}, operand |-> "multiplication"],
   multiplication |-> [ops |-> {"*", "/", "//", "%"}, operand |-> "unary"]]

RECURSIVE parse_right(_, _)
parse_right(level, l) ==
  LET r == parse(level.operand, l.next + 1) IN
  IF peek(l.next) \in level.ops
  THEN parse_right(level, Got(Binary(peek(l.next), l.node, r.node), r.next)) ELSE l
parse_left(rule, i) ==
  LET l == parse(Tower[rule].operand, i) IN IF l.next = 0 THEN Err ELSE parse_right(Tower[rule], l)

(* A chain of comparisons; `is not` and `not in` are two tokens. *)
Comparison(i) ==
  CASE peek(i) = "is" /\ peek(i + 1) = "not"  -> Got("is not", i + 2)
    [] peek(i) = "not" /\ peek(i + 1) = "in"  -> Got("not in", i + 2)
    [] peek(i) \in {"==", "!=", "<", "<=", ">", ">=", "in", "is"} -> Got(peek(i), i + 1)
    [] OTHER                                  -> Err
RECURSIVE parse_chain(_, _, _)
parse_chain(l, ops, rights) ==
  LET op == Comparison(l.next)
      r  == parse("bitor", op.next)
  IN  CASE op.next > 0   -> parse_chain(Got(l.node, r.next), Append(ops, op.node), Append(rights, r.node))
        [] ops = << >>   -> l
        [] OTHER         -> Got(Compare(l.node, ops, rights), l.next)
parse_comparison(i) ==
  LET l == parse("bitor", i) IN IF l.next = 0 THEN Err ELSE parse_chain(l, << >>, << >>)

parse_not(i) ==
  LET e == parse("not", i + 1) IN
  IF peek(i) = "not" THEN Got(Unary("not", e.node), e.next) ELSE parse("comparison", i)

-------------------------------------------------------------------------------
(* Attributes, calls and subscripts behind an atom; a slice has up to two colons. *)
parse_bound(i) == IF peek(i) \in {":", "]"} THEN Got(Absent, i) ELSE parse("expr", i)
parse_step(i)  == IF peek(i) = "]" THEN Got(Absent, i) ELSE parse("expr", i)
parse_subscript_index(i) ==
  LET start == parse_bound(i)
      stop  == parse_bound(start.next + 1)
      step  == parse_step(stop.next + 1)
  IN  CASE peek(start.next) # ":" -> IF peek(i) = "]" THEN Err ELSE start
        [] peek(stop.next) # ":"  -> Got(Slice(start.node, stop.node, Absent), stop.next)
        [] OTHER                  -> Got(Slice(start.node, stop.node, step.node), step.next)

RECURSIVE parse_trailers(_)
parse_trailers(e) ==
  LET args  == parse_items("expr", ")", e.next + 1, << >>)
      index == parse_subscript_index(e.next + 1)
  IN  CASE peek(e.next) = "(" -> parse_trailers(Got(Call(e.node, args.node), args.next))
        [] peek(e.next) = "[" -> parse_trailers(Got(Subscript(e.node, index.node), expect("]", index.next)))
        [] peek(e.next) = "." -> parse_trailers(Got(Attribute(e.node, peek(e.next + 1)), expect_ident(e.next + 1)))
        [] OTHER              -> e
parse_postfix(i) == LET e == parse("atom", i) IN IF e.next = 0 THEN Err ELSE parse_trailers(e)

Exponent_faulty_left(i) == parse_postfix(i)
Exponent(i) == parse("unary", i)
parse_power(i) ==
  LET base == parse_postfix(i)
      e    == Exponent(base.next + 1)
  IN  IF base.next = 0 THEN Err
      ELSE IF peek(base.next) = "**" THEN Got(Binary("**", base.node, e.node), e.next) ELSE base
parse_unary(i) ==
  LET e == parse("unary", i + 1) IN
  IF peek(i) \in {"-", "+", "~"} THEN Got(Unary(peek(i), e.node), e.next) ELSE parse("power", i)

(* The clauses of a comprehension, and displays, which begin like them. *)
RECURSIVE parse_conditions(_, _)
parse_conditions(i, acc) ==
  LET c == parse("or", i + 1) IN
  IF peek(i) = "if" THEN parse_conditions(c.next, Append(acc, c.node)) ELSE Got(acc, i)
RECURSIVE parse_comprehension_clauses(_, _)
parse_comprehension_clauses(i, acc) ==
  LET t     == parse("target", i + 1)
      e     == parse("or", expect("in", t.next))
      conds == parse_conditions(e.next, << >>)
  IN  IF peek(i) = "for"
      THEN parse_comprehension_clauses(conds.next, Append(acc, Clause(t.node, e.node, conds.node)))
      ELSE Got(acc, i)

(* The display whose first item is r, of this kind, or the comprehension. *)
parse_display(r, rule, close, kind, comp) ==
  LET clauses == parse_comprehension_clauses(r.next, << >>)
      items   == parse_items(rule, close, r.next + 1, <<r.node>>)
  IN  CASE peek(r.next) = "for" -> Got(Comp(comp, r.node, clauses.node), expect(close, clauses.next))
        [] peek(r.next) = ","   -> Got(<<kind, items.node>>, items.next)
        [] OTHER                -> Got(<<kind, <<r.node>> >>, expect(close, r.next))

parse_paren(i) ==
  LET e     == parse("expr", i)
      items == parse_items("expr", ")", e.next + 1, <<e.node>>)
  IN  CASE peek(i) = ")"      -> Got(Tuple(<< >>), i + 1)
        [] peek(e.next) = "," -> Got(Tuple(items.node), items.next)
        [] OTHER              -> Got(e.node, expect(")", e.next))
parse_bracket(i) == IF peek(i) = "]" THEN Got(ListOf(<< >>), i + 1)
                    ELSE parse_display(parse("expr", i), "expr", "]", "list", "listcomp")
parse_brace(i) ==
  LET e == parse("expr", i) IN
  CASE peek(i) = "}"      -> Got(DictOf(<< >>), i + 1)
    [] peek(e.next) = ":" -> parse_display(parse("pair", i), "pair", "}", "dict", "dictcomp")
    [] OTHER              -> parse_display(e, "expr", "}", "set", "setcomp")

RECURSIVE parse_strings(_, _)
parse_strings(i, acc) ==
  IF peek(i) \in Strings THEN parse_strings(i + 1, Append(acc, peek(i))) ELSE Got(Text_(acc), i)
parse_starred(i) == LET e == parse("expr", i) IN Got(Starred(e.node), e.next)

parse_atom(i) ==
  CASE peek(i) \in Identifiers -> Got(Name(peek(i)), i + 1)
    [] peek(i) \in Literals    -> Got(Literal(peek(i)), i + 1)
    [] peek(i) \in Strings     -> parse_strings(i, << >>)
    [] peek(i) = "("           -> parse_paren(i + 1)
    [] peek(i) = "["           -> parse_bracket(i + 1)
    [] peek(i) = "{"           -> parse_brace(i + 1)
    [] peek(i) = "*"           -> parse_starred(i + 1)
    [] OTHER                   -> Err

-------------------------------------------------------------------------------
parse_lambda(i) ==
  LET ps == parse_items("ident", ":", i, << >>)
      e  == parse("expr", IF ps.next = 0 \/ peek(ps.next - 2) = "," THEN 0 ELSE ps.next)
  IN  Got(Lambda(ps.node, e.node), e.next)
parse_yield_expr(i) ==
  LET e == IF peek(i) \in {"NEWLINE", "EOF", ")", "]", "}", ",", ";"} THEN Got(Absent, i) ELSE parse("expr", i)
  IN  Got(Yield(e.node), e.next)
parse_ternary(i) ==
  LET e    == parse("or", i)
      test == parse("or", e.next + 1)
      else == parse("expr", expect("else", test.next))
  IN  IF e.next = 0 THEN Err
      ELSE IF peek(e.next) = "if" THEN Got(IfExpr(e.node, test.node, else.node), else.next) ELSE e
parse_expr(i) ==
  CASE peek(i) = "lambda" -> parse_lambda(i + 1)
    [] peek(i) = "yield"  -> parse_yield_expr(i + 1)
    [] OTHER              -> parse_ternary(i)

(* A tuple without parentheses, which may end in a comma. *)
RECURSIVE parse_commas(_, _)
parse_commas(i, acc) ==
  LET e == parse("expr", i + 1) IN
  CASE peek(i) # ","   -> Got(Tuple(acc), i)
    [] peek(i + 1) \in {"NEWLINE", ":", ")", "]", "EOF", "=", "+=", "-=", "*="} -> Got(Tuple(acc), i + 1)
    [] OTHER           -> parse_commas(e.next, Append(acc, e.node))
parse_expr_maybe_tuple(i) ==
  LET e == parse("expr", i) IN IF peek(e.next) = "," THEN parse_commas(e.next, <<e.node>>) ELSE e

(* Targets: of a for, and what expr_to_target makes of an expression. *)
parse_single_target(i) ==
  LET t == parse("target", i + 1) IN
  IF peek(i) = "(" THEN Got(t.node, expect(")", t.next)) ELSE Got(Name(peek(i)), expect_ident(i))
RECURSIVE parse_targets(_, _)
parse_targets(i, acc) ==
  LET t == parse_single_target(i + 1) IN
  CASE peek(i) # ","      -> Got(Tuple(acc), i)
    [] peek(i + 1) = "in" -> Got(Tuple(acc), i + 1)
    [] OTHER              -> parse_targets(t.next, Append(acc, t.node))
parse_target_for(i) ==
  LET t == parse_single_target(i) IN IF peek(t.next) = "," THEN parse_targets(t.next, <<t.node>>) ELSE t

RECURSIVE IsTarget(_)
IsTarget(e) == \/ e[1] \in {"name", "attribute", "subscript"}
               \/ e[1] = "tuple" /\ \A i \in DOMAIN e[2] : IsTarget(e[2][i])
expr_to_target(e, i) == IF i > 0 /\ IsTarget(e) THEN i ELSE 0      \* the place, or an Err

-------------------------------------------------------------------------------
RECURSIVE parse_stmts(_, _, _)
parse_stmts(i, ends, acc) ==
  LET st == parse("stmt", i) IN
  CASE peek(i) \in ends -> Got(acc, i)
    [] st.next = 0      -> Err
    [] OTHER            -> parse_stmts(eat_newlines(st.next), ends, Append(acc, st.node))
parse_module == parse_stmts(eat_newlines(1), {"EOF"}, << >>)

parse_block(i) ==
  LET body == parse_stmts(expect("INDENT", expect("NEWLINE", i)), {"DEDENT", "EOF"}, << >>)
  IN  IF peek(body.next) = "DEDENT" THEN Got(body.node, body.next + 1) ELSE body
Suite(i) == parse("block", expect(":", i))
Optionally(t, i) == IF peek(i) = t THEN Suite(i + 1) ELSE Got(<< >>, i)

RECURSIVE parse_elifs(_, _)
parse_elifs(i, acc) ==
  LET c    == parse("expr", eat_newlines(i) + 1)
      body == Suite(c.next)
  IN  IF peek(eat_newlines(i)) = "elif" THEN parse_elifs(body.next, Append(acc, <<c.node, body.node>>))
      ELSE Got(acc, eat_newlines(i))
parse_if(i) ==
  LET c     == parse("expr", i)
      body  == Suite(c.next)
      elifs == parse_elifs(body.next, << >>)
      else  == Optionally("else", elifs.next)
  IN  Got(If(c.node, body.node, elifs.node, else.node), else.next)
parse_while(i) ==
  LET c    == parse("expr", i)
      body == Suite(c.next)
  IN  Got(While(c.node, body.node), body.next)
parse_for(i) ==
  LET t    == parse("target", i)
      e    == parse("expr", expect("in", t.next))
      body == Suite(e.next)
  IN  Got(For(t.node, e.node, body.node), body.next)

parse_function_def(i, decorators) ==
  LET params == parse_items("ident", ")", expect("(", expect_ident(i)), << >>)
      body   == Suite(params.next)
  IN  Got(Def(peek(i), params.node, body.node, decorators), body.next)
parse_class_def(i, decorators) ==
  LET j     == expect_ident(i)
      bases == IF peek(j) = "(" THEN parse_items("expr", ")", j + 1, << >>) ELSE Got(<< >>, j)
      body  == Suite(bases.next)
  IN  Got(ClassDef(peek(i), bases.node, body.node, decorators), body.next)
RECURSIVE parse_decorated(_, _)
parse_decorated(i, decorators) ==
  LET d == parse("expr", i + 1) IN
  CASE peek(i) = "@"     -> parse_decorated(LineEnd(d.next), Append(decorators, d.node))
    [] peek(i) = "def"   -> parse_function_def(i + 1, decorators)
    [] peek(i) = "class" -> parse_class_def(i + 1, decorators)
    [] OTHER             -> Err

parse_asname(i) == IF peek(i) = "as" THEN Got(<<peek(i + 1)>>, expect_ident(i + 1)) ELSE Got(Absent, i)
RECURSIVE parse_handlers(_, _)
parse_handlers(i, acc) ==
  LET j    == eat_newlines(i)
      type == IF peek(j + 1) = ":" THEN Got(Absent, j + 1) ELSE parse("expr", j + 1)
      x    == IF peek(j + 1) = ":" THEN type ELSE parse_asname(type.next)
      body == Suite(x.next)
  IN  IF peek(j) = "except"
      THEN parse_handlers(body.next, Append(acc, Except(type.node, x.node, body.node))) ELSE Got(acc, j)
parse_try(i) ==
  LET body     == Suite(i)
      handlers == parse_handlers(body.next, << >>)
      else     == Optionally("else", handlers.next)
      final    == Optionally("finally", eat_newlines(else.next))
  IN  Got(Try(body.node, handlers.node, else.node, final.node), final.next)

-------------------------------------------------------------------------------
(* Statements of one line. *)
parse_value(i) == IF peek(i) \in {"NEWLINE", "EOF"} THEN Got(Absent, i) ELSE parse("expr", i)
parse_raise(i)  == LET e == parse_value(i) IN Got(Raise(e.node), LineEnd(e.next))
parse_return(i) == LET e == parse_value(i) IN Got(Return(e.node), LineEnd(e.next))
parse_assert(i) ==
  LET e   == parse("expr", i)
      msg == IF peek(e.next) = "," THEN parse("expr", e.next + 1) ELSE Got(Absent, e.next)
  IN  Got(Assert_(e.node, msg.node), LineEnd(msg.next))
parse_delete(i) == LET e == parse("expr", i) IN Got(Delete(e.node), LineEnd(expr_to_target(e.node, e.next)))

(* One or more names or aliases, with commas between. *)
RECURSIVE parse_names(_, _)
parse_names(i, acc) ==
  IF peek(expect_ident(i)) = "," THEN parse_names(i + 2, Append(acc, peek(i)))
  ELSE Got(Append(acc, peek(i)), expect_ident(i))
parse_scoping(kind, i) ==      \* parse_global and parse_nonlocal
  LET xs == parse_names(i, << >>) IN Got(Names(kind, xs.node), LineEnd(xs.next))
RECURSIVE parse_dotted_name(_, _)
parse_dotted_name(i, acc) ==
  IF peek(i) = "." /\ peek(i + 1) \in Identifiers
  THEN parse_dotted_name(i + 2, Append(acc, peek(i + 1))) ELSE Got(acc, i)
parse_alias(dotted, i) ==
  LET name == IF dotted THEN parse_dotted_name(expect_ident(i), <<peek(i)>>) ELSE Got(peek(i), expect_ident(i))
      x    == parse_asname(name.next)
  IN  Got(<<name.node, x.node>>, x.next)
RECURSIVE parse_aliases(_, _, _, _)
parse_aliases(dotted, parenthesized, i, acc) ==
  LET alias == parse_alias(dotted, i)
      all   == Append(acc, alias.node)
  IN  CASE peek(alias.next) # ","                           -> Got(all, alias.next)
        [] parenthesized /\ peek(alias.next + 1) = ")"      -> Got(all, alias.next + 1)
        [] OTHER                -> parse_aliases(dotted, parenthesized, alias.next + 1, all)
parse_import(i) == LET all == parse_aliases(TRUE, FALSE, i, << >>) IN Got(Import(all.node), LineEnd(all.next))

(* Dots first, then ellipses: a dot behind an ellipsis is not looked for. *)
RECURSIVE parse_level(_, _, _)
parse_level(i, dot, level) ==
  CASE dot /\ peek(i) = "."   -> parse_level(i + 1, TRUE, level + 1)
    [] peek(i) = "..."        -> parse_level(i + 1, FALSE, level + 3)
    [] OTHER                  -> Got(level, i)
parse_imported(i) ==
  LET all == parse_aliases(FALSE, TRUE, i + 1, << >>) IN
  CASE peek(i) = "*" -> Got(Star, i + 1)
    [] peek(i) = "(" -> Got(all.node, expect(")", all.next))
    [] OTHER         -> parse_aliases(FALSE, FALSE, i, << >>)
parse_from_import(i) ==
  LET level  == parse_level(i, TRUE, 0)
      module == IF level.node > 0 /\ peek(level.next) \notin Identifiers THEN Got(<< >>, level.next)
                ELSE parse_dotted_name(expect_ident(level.next), <<peek(level.next)>>)
      names  == parse_imported(expect("import", module.next))
  IN  Got(ImportFrom(level.node, module.node, names.node), LineEnd(names.next))

Augmented == {"+=", "-=", "*=", "/=", "//=", "%=", "**=", "&=", "|=", "^=", "<<=", ">>="}
parse_assign_or_expr(i) ==
  LET e == parse_expr_maybe_tuple(i)
      v == parse_expr_maybe_tuple(e.next + 1)
      next == LineEnd(expr_to_target(e.node, v.next))
  IN  CASE peek(e.next) = "="         -> Got(Assign(e.node, v.node), next)
        [] peek(e.next) \in Augmented -> Got(AugAssign(peek(e.next), e.node, v.node), next)
        [] OTHER                      -> Got(ExprStmt(e.node), LineEnd(e.next))

parse_stmt(i) ==
  CASE peek(i) = "@"        -> parse_decorated(i, << >>)
    [] peek(i) = "if"       -> parse_if(i + 1)
    [] peek(i) = "while"    -> parse_while(i + 1)
    [] peek(i) = "for"      -> parse_for(i + 1)
    [] peek(i) = "def"      -> parse_function_def(i + 1, << >>)
    [] peek(i) = "class"    -> parse_class_def(i + 1, << >>)
    [] peek(i) = "try"      -> parse_try(i + 1)
    [] peek(i) = "return"   -> parse_return(i + 1)
    [] peek(i) = "raise"    -> parse_raise(i + 1)
    [] peek(i) = "assert"   -> parse_assert(i + 1)
    [] peek(i) = "del"      -> parse_delete(i + 1)
    [] peek(i) = "import"   -> parse_import(i + 1)
    [] peek(i) = "from"     -> parse_from_import(i + 1)
    [] peek(i) \in {"pass", "break", "continue"} -> Got(Plain(peek(i)), LineEnd(i + 1))
    [] peek(i) \in {"global", "nonlocal"}        -> parse_scoping(peek(i), i + 1)
    [] OTHER                -> parse_assign_or_expr(i)

parse(rule, i) ==
  CASE rule = "expr"        -> parse_expr(i)
    [] rule \in DOMAIN Tower -> parse_left(rule, i)
    [] rule = "not"         -> parse_not(i)
    [] rule = "comparison"  -> parse_comparison(i)
    [] rule = "unary"       -> parse_unary(i)
    [] rule = "power"       -> parse_power(i)
    [] rule = "atom"        -> parse_atom(i)
    [] rule = "pair"        -> parse_pair(i)
    [] rule = "ident"       -> Got(peek(i), expect_ident(i))
    [] rule = "target"      -> parse_target_for(i)
    [] rule = "stmt"        -> parse_stmt(i)
    [] rule = "block"       -> parse_block(i)
=============================================================================
