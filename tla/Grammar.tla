-------------------------------- MODULE Grammar --------------------------------
(***************************************************************************)
(* What the parser must undo: how Python writes a tree of module Syntax down. *)
(* Source is the list of lines of a program, each a depth and its tokens;     *)
(* a Layout turns them into a text.  The levels and the parentheses are those *)
(* of the grammar of the language, and not read off the parser.               *)
(***************************************************************************)
EXTENDS Syntax, SequencesExt

Each(es, write(_)) == [i \in DOMAIN es |-> write(es[i])]
Commas(seqs) == FlattenSeq([i \in DOMAIN seqs |-> IF i = 1 THEN seqs[i] ELSE <<",">> \o seqs[i]])
Closed(open, ts, close) == <<open>> \o ts \o <<close>>

(* How tightly an expression holds together; 16 stands on its own. *)
BinaryLevel(op) ==
  CASE op = "or" -> 3 [] op = "and" -> 4 [] op = "|" -> 7 [] op = "^" -> 8 [] op = "&" -> 9
    [] op \in {"<<", ">>"} -> 10 [] op \in {"+", "-"} -> 11
    [] op \in {"*", "/", "//", "%"} -> 12 [] op = "**" -> 14
Level(e) ==
  CASE e[1] = "yield"   -> 0
    [] e[1] \in {"lambda", "starred", "slice"} -> 1
    [] e[1] = "ifexpr"  -> 2
    [] e[1] = "binary"  -> BinaryLevel(e[2])
    [] e[1] = "unary"   -> IF e[2] = "not" THEN 5 ELSE 13
    [] e[1] = "compare" -> 6
    [] OTHER            -> 16

(* The lines of a statement at a depth, or the tokens of an expression where one
   of a level is wanted.                                                       *)
RECURSIVE Write(_, _, _)
Operand(e, level) == Write("expression", e, level)
Item(e) == Operand(e, 1)
Items(es) == Commas(Each(es, Item))
Pair(p) == Item(p[1]) \o <<":">> \o Item(p[2])
Optional(e) == IF e = Absent THEN << >> ELSE Item(e)
Elements(es) == IF Len(es) = 1 THEN Item(es[1]) \o <<",">> ELSE Items(es)

(* A tuple without parentheses of its own. *)
Loose(e) == IF e[1] = "tuple" /\ e[2] # << >> THEN Elements(e[2]) ELSE Operand(e, 0)
Comparison_(op) == CASE op = "is not" -> <<"is", "not">>
                     [] op = "not in" -> <<"not", "in">>
                     [] OTHER         -> <<op>>
Clauses(cs) == FlattenSeq(Each(cs, LAMBDA c :
  <<"for">> \o Loose(c[1]) \o <<"in">> \o Operand(c[2], 3)
    \o FlattenSeq(Each(c[3], LAMBDA cond : <<"if">> \o Operand(cond, 3)))))

Tokens(e) ==
  CASE e[1] \in {"name", "literal"} -> <<e[2]>>
    [] e[1] = "text"      -> e[2]
    [] e[1] = "binary"    -> Operand(e[3], IF e[2] = "**" THEN 15 ELSE Level(e)) \o <<e[2]>>
                               \o Operand(e[4], IF e[2] = "**" THEN 13 ELSE Level(e) + 1)
    [] e[1] = "unary"     -> <<e[2]>> \o Operand(e[3], Level(e))
    [] e[1] = "compare"   -> Operand(e[2], 7) \o FlattenSeq([i \in DOMAIN e[3] |->
                               Comparison_(e[3][i]) \o Operand(e[4][i], 7)])
    [] e[1] = "call"      -> Operand(e[2], 15) \o Closed("(", Items(e[3]), ")")
    [] e[1] = "subscript" -> Operand(e[2], 15) \o Closed("[", Item(e[3]), "]")
    [] e[1] = "attribute" -> Operand(e[2], 15) \o <<".", e[3]>>
    [] e[1] = "slice"     -> Optional(e[2]) \o <<":">> \o Optional(e[3])
                               \o (IF e[4] = Absent THEN << >> ELSE <<":">> \o Item(e[4]))
    [] e[1] = "tuple"     -> Closed("(", Elements(e[2]), ")")
    [] e[1] = "list"      -> Closed("[", Items(e[2]), "]")
    [] e[1] = "set"       -> Closed("{", Items(e[2]), "}")
    [] e[1] = "dict"      -> Closed("{", Commas(Each(e[2], Pair)), "}")
    [] e[1] = "listcomp"  -> Closed("[", Item(e[2]) \o Clauses(e[3]), "]")
    [] e[1] = "setcomp"   -> Closed("{", Item(e[2]) \o Clauses(e[3]), "}")
    [] e[1] = "dictcomp"  -> Closed("{", Pair(e[2]) \o Clauses(e[3]), "}")
    [] e[1] = "lambda"    -> <<"lambda">> \o Commas(Each(e[2], LAMBDA x : <<x>>)) \o <<":">> \o Item(e[3])
    [] e[1] = "ifexpr"    -> Operand(e[2], 3) \o <<"if">> \o Operand(e[3], 3)
                               \o <<"else">> \o Item(e[4])
    [] e[1] = "yield"     -> <<"yield">> \o Optional(e[2])
    [] e[1] = "starred"   -> <<"*">> \o Operand(e[2], 7)

-------------------------------------------------------------------------------
(* Statements, as lines. *)
Body(sts, depth) == FlattenSeq(Each(sts, LAMBDA st : Write("statement", st, depth)))
At_(depth, ts) == << [depth |-> depth, tokens |-> ts] >>
Block(depth, ts, sts) == At_(depth, ts \o <<":">>) \o Body(sts, depth + 1)
MaybeBlock(depth, t, sts) == IF sts = << >> THEN << >> ELSE Block(depth, <<t>>, sts)
Decorators(ds, depth) == FlattenSeq(Each(ds, LAMBDA d : At_(depth, <<"@">> \o Item(d))))
Dotted(xs) == FlattenSeq([i \in DOMAIN xs |-> IF i = 1 THEN <<xs[i]>> ELSE <<".", xs[i]>>])
AsName(x) == IF x = Absent THEN << >> ELSE <<"as">> \o x
Dots(level) == IF level = 3 THEN <<"...">> ELSE [i \in 1..level |-> "."]

Lines(st, depth) ==
  CASE st[1] = "expr"      -> At_(depth, Loose(st[2]))
    [] st[1] = "assign"    -> At_(depth, Loose(st[2]) \o <<"=">> \o Loose(st[3]))
    [] st[1] = "augassign" -> At_(depth, Loose(st[3]) \o <<st[2]>> \o Loose(st[4]))
    [] st[1] = "if"        -> Block(depth, <<"if">> \o Item(st[2]), st[3])
                                \o FlattenSeq(Each(st[4], LAMBDA c :
                                     Block(depth, <<"elif">> \o Item(c[1]), c[2])))
                                \o MaybeBlock(depth, "else", st[5])
    [] st[1] = "while"     -> Block(depth, <<"while">> \o Item(st[2]), st[3])
    [] st[1] = "for"       -> Block(depth, <<"for">> \o Loose(st[2]) \o <<"in">> \o Item(st[3]), st[4])
    [] st[1] = "def"       -> Decorators(st[5], depth) \o Block(depth, <<"def", st[2]>>
                                \o Closed("(", Commas(Each(st[3], LAMBDA x : <<x>>)), ")"), st[4])
    [] st[1] = "class"     -> Decorators(st[5], depth) \o Block(depth, <<"class", st[2]>>
                                \o (IF st[3] = << >> THEN << >> ELSE Closed("(", Items(st[3]), ")")), st[4])
    [] st[1] = "try"       -> Block(depth, <<"try">>, st[2])
                                \o FlattenSeq(Each(st[3], LAMBDA h :
                                     Block(depth, <<"except">> \o Optional(h[1]) \o AsName(h[2]), h[3])))
                                \o MaybeBlock(depth, "else", st[4])
                                \o MaybeBlock(depth, "finally", st[5])
    [] st[1] \in {"return", "raise"} -> At_(depth, <<st[1]>> \o Optional(st[2]))
    [] st[1] = "assert"    -> At_(depth, <<"assert">> \o Item(st[2])
                                \o (IF st[3] = Absent THEN << >> ELSE <<",">> \o Item(st[3])))
    [] st[1] = "del"       -> At_(depth, <<"del">> \o Item(st[2]))
    [] st[1] \in {"global", "nonlocal"} ->
                              At_(depth, <<st[1]>> \o Commas(Each(st[2], LAMBDA x : <<x>>)))
    [] st[1] = "import"    -> At_(depth, <<"import">> \o Commas(Each(st[2], LAMBDA a :
                                Dotted(a[1]) \o AsName(a[2]))))
    [] st[1] = "from"      -> At_(depth, <<"from">> \o Dots(st[2]) \o Dotted(st[3]) \o <<"import">>
                                \o Commas(Each(st[4], LAMBDA a : <<a[1]>> \o AsName(a[2]))))
    [] OTHER               -> At_(depth, <<st[1]>>)

Write(sort, node, k) ==
  IF sort = "statement" THEN Lines(node, k)
  ELSE IF Level(node) >= k THEN Tokens(node) ELSE Closed("(", Tokens(node), ")")
Source(program) == Body(program, 0)

-------------------------------------------------------------------------------
(* A layout: how wide an indentation is, what stands between tokens that could
   touch, in front of a line, behind it and at the end of the text, and whether
   lines are broken inside brackets.                                          *)
Comment_ == <<"#", "\n">>
Layouts == {[width |-> width, gap |-> gap, before |-> before, after |-> end[1], last |-> end[2],
             broken |-> FALSE] :
  width \in 1..2, gap \in {<< >>, <<" ">>},
  before \in {<< >>, <<"\n">>, <<" ", " ", " ">> \o Comment_},
  end \in {<< << >>, << >> >>, << << >>, <<"\n">> >>, << <<"\t", "#", "x">>, <<"\n">> >>,
           << <<"\r">>, <<"\n", " ">> >>}}

(* The characters of a token, and of a line of tokens. *)
Written(t, spelling) == IF t \in DOMAIN spelling THEN spelling[t] ELSE <<t>>
Line_(ts, layout, spelling) == FlattenSeq([i \in DOMAIN ts |->
  Written(ts[i], spelling)
    \o (IF i = Len(ts) THEN << >>
        ELSE IF {ts[i], ts[i + 1]} \cap DOMAIN spelling = {} THEN <<" ">> ELSE layout.gap)
    \o (IF layout.broken /\ ts[i] \in {"(", "[", "{"} THEN <<"\n">> ELSE << >>)])
Laid(lines, layout, spelling) == FlattenSeq([i \in DOMAIN lines |->
  layout.before \o [k \in 1..lines[i].depth * layout.width |-> " "]
    \o Line_(lines[i].tokens, layout, spelling) \o layout.after
    \o (IF i < Len(lines) THEN <<"\n">> ELSE layout.last)])
=============================================================================
