--------------------------------- MODULE Scopes --------------------------------
(***************************************************************************)
(* Where the compiler puts a name: the scope analysis that runs before the   *)
(* code is emitted, the code objects in the order in which they are made,     *)
(* and the place that a load or a store of a name in one of them goes to.    *)
(*                                                                          *)
(* The table of scopes and the table of code objects are two lists that are  *)
(* made in two passes over the tree, and the code takes an index into the    *)
(* one for an index into the other.                                          *)
(***************************************************************************)
EXTENDS Syntax, SequencesExt

Some(e) == IF e = Absent THEN << >> ELSE <<e>>
Kind(sts, kinds) == {st \in sts : st[1] \in kinds}

(* The parts of an expression, in the order in which they are compiled.  A
   lambda is a scope of its own; its body is none of its parts.               *)
Comprehensions == {"listcomp", "setcomp", "dictcomp"}
Results(e) == IF e[1] = "dictcomp" THEN Reverse(e[2]) ELSE <<e[2]>>
Parts(e) ==
  CASE e[1] = "binary"                   -> <<e[3], e[4]>>
    [] e[1] = "unary"                    -> <<e[3]>>
    [] e[1] = "compare"                  -> <<e[2]>> \o e[4]
    [] e[1] = "call"                     -> <<e[2]>> \o e[3]
    [] e[1] = "subscript"                -> <<e[2], e[3]>>
    [] e[1] = "slice"                    -> Some(e[2]) \o Some(e[3]) \o Some(e[4])
    [] e[1] \in {"attribute", "starred"} -> <<e[2]>>
    [] e[1] \in {"tuple", "list", "set"} -> e[2]
    [] e[1] = "dict"                     -> FlattenSeq(e[2])
    [] e[1] = "ifexpr"                   -> <<e[3], e[2], e[4]>>
    [] e[1] = "yield"                    -> Some(e[2])
    [] e[1] \in Comprehensions           ->
         FlattenSeq([i \in DOMAIN e[3] |-> <<e[3][i][2]>> \o e[3][i][3]]) \o Results(e)
    [] OTHER                             -> << >>
RECURSIVE Whole(_)
Whole(e) == {e} \cup UNION {Whole(p) : p \in Range(Parts(e))}
NamesIn(es) == {e[2] : e \in {p \in UNION {Whole(e) : e \in es} : p[1] = "name"}}

(* The blocks inside a statement, and the expressions it takes the value of. *)
Blocks(st) ==
  CASE st[1] = "if"    -> <<st[3]>> \o [i \in DOMAIN st[4] |-> st[4][i][2]] \o <<st[5]>>
    [] st[1] = "while" -> <<st[3]>>
    [] st[1] = "for"   -> <<st[4]>>
    [] st[1] = "try"   -> <<st[2]>> \o [i \in DOMAIN st[3] |-> st[3][i][3]] \o <<st[4], st[5]>>
    [] OTHER           -> << >>
Operands(st) ==
  CASE st[1] \in {"expr", "return", "raise"} -> Some(st[2])
    [] st[1] = "assign"                      -> <<st[3]>>
    [] st[1] = "augassign"                   -> <<st[4]>>
    [] st[1] = "if"     -> <<st[2]>> \o [i \in DOMAIN st[4] |-> st[4][i][1]]
    [] st[1] = "while"  -> <<st[2]>>
    [] st[1] = "for"    -> <<st[3]>>
    [] st[1] = "assert" -> <<st[2]>> \o Some(st[3])
    [] st[1] = "try"    -> FlattenSeq([i \in DOMAIN st[3] |-> Some(st[3][i][1])])
    [] OTHER            -> << >>
ValuesOf(sts) == UNION {Range(Operands(st)) : st \in sts}

RECURSIVE Inside(_, _)      \* through the blocks of statements of these kinds
Inside(body, kinds) ==
  Range(body) \cup UNION {Inside(b, kinds) : b \in UNION {Range(Blocks(st)) : st \in Kind(Range(body), kinds)}}
Flow == {"if", "while", "for"}
Everywhere(body) == Inside(body, Flow \cup {"try"})

-------------------------------------------------------------------------------
(* The scope of a function or a class: what its body declares, binds and refers
   to.  A comprehension binds its targets in the scope around it.             *)
RECURSIVE collect_target_names(_)
collect_target_names(t) ==
  CASE t[1] = "name"  -> {t[2]}
    [] t[1] = "tuple" -> UNION {collect_target_names(u) : u \in Range(t[2])}
    [] OTHER          -> {}
TargetsOf(sts) == {st[2] : st \in Kind(sts, {"assign", "for"})} \cup {st[3] : st \in Kind(sts, {"augassign"})}
ClausesIn(es) == UNION {Range(e[3]) : e \in Kind(UNION {Whole(e) : e \in es}, Comprehensions)}
Assigned(sts, es) == UNION {collect_target_names(t) : t \in TargetsOf(sts) \cup {c[1] : c \in ClausesIn(es)}}
Made(sts) == {st[2] : st \in Kind(sts, {"def", "class"})}
Declared(kind, sts) == UNION {Range(st[2]) : st \in Kind(sts, {kind})}

Params(node) == CASE node[1] = "def"    -> Range(node[3])
                  [] node[1] = "lambda" -> Range(node[2])
                  [] OTHER              -> {}

collect_locals(node) ==
  LET flow == Inside(node[4], Flow)
      declared == Declared("global", Range(node[4])) \cup Declared("nonlocal", Range(node[4]))
  IN  (Assigned(flow, ValuesOf(flow \ Kind(flow, {"assert", "try"}))) \ declared)
      \cup Made(flow) \cup Params(node)
collect_name_refs(body) == NamesIn(ValuesOf(Everywhere(body)))

(* Node 1 of each table is the module. *)
Module(body) == <<"module", << >>, << >>, body>>
ScopeInfo(node, parent) ==
  IF node[1] = "module"
  THEN [node |-> node, parent |-> parent, globals |-> {}, nonlocals |-> {}, locals |-> {}, refs |-> {}]
  ELSE [node |-> node, parent |-> parent,
        globals |-> Declared("global", Range(node[4])), nonlocals |-> Declared("nonlocal", Range(node[4])),
        locals |-> collect_locals(node), refs |-> collect_name_refs(node[4])]

RECURSIVE analyze_scope_stmts(_, _, _)
analyze_scope_stmts(st, parent, scopes) ==
  LET own == st[1] \in {"module", "def", "class"} IN
  FoldLeft(LAMBDA made, sub : analyze_scope_stmts(sub, IF own THEN Len(scopes) + 1 ELSE parent, made),
           IF own THEN Append(scopes, ScopeInfo(st, parent)) ELSE scopes,
           IF own THEN st[4] ELSE FlattenSeq(Blocks(st)))
analyze_all_scopes(body) == analyze_scope_stmts(Module(body), 0, << >>)

(* The nearest scope around s, below the module, that has n for a local, or 1;
   and the scopes on the way there that must hand its cell on.                *)
RECURSIVE Owner(_, _, _)
Owner(scopes, s, n) ==
  LET p == scopes[s].parent IN IF p = 1 \/ n \in scopes[p].locals THEN p ELSE Owner(scopes, p, n)
Way_faulty_short(scopes, s, n) == {s}
RECURSIVE Way(_, _, _)
Way(scopes, s, n) ==
  LET p == scopes[s].parent IN
  IF p = 1 \/ n \in scopes[p].locals THEN {s} ELSE {s} \cup Way(scopes, p, n)

Captures(scopes, s) ==
  IF s = 1 THEN {}
  ELSE {n \in scopes[s].refs \ (scopes[s].locals \cup scopes[s].globals \cup scopes[s].nonlocals) :
          Owner(scopes, s, n) > 1}
cell_vars(scopes, s) ==
  UNION {{n \in Captures(scopes, c) \cup scopes[c].nonlocals : Owner(scopes, c, n) = s}
         : c \in DOMAIN scopes \ {1}}
free_vars(scopes, s) ==
  scopes[s].nonlocals
  \cup UNION {{n \in Captures(scopes, c) : s \in Way(scopes, c, n)} : c \in DOMAIN scopes}

-------------------------------------------------------------------------------
(* The code objects in the order in which they are made.  An item is a node, a
   block, or the code of a node; the handlers of a try stand behind its else.  *)
BlockOf(body) == <<"block", body>>
CodeOf(node)  == <<"code", node>>
InOrder(item) ==
  CASE item[1] = "block"           -> item[2]
    [] item[1] = "code"            -> IF item[2][1] = "lambda" THEN <<item[2][3]>> ELSE item[2][4]
    [] item[1] \in {"def", "lambda"} -> <<CodeOf(item)>>
    [] item[1] = "class"           -> <<CodeOf(item)>> \o item[3]
    [] item[1] = "assign"          -> <<item[3], item[2]>>
    [] item[1] = "augassign"       -> <<item[3], item[4], item[3]>>
    [] item[1] = "if"              -> <<item[2], BlockOf(item[3])>>
         \o FlattenSeq([i \in DOMAIN item[4] |-> <<item[4][i][1], BlockOf(item[4][i][2])>>]) \o <<BlockOf(item[5])>>
    [] item[1] = "while"           -> <<item[2], BlockOf(item[3])>>
    [] item[1] = "for"             -> <<item[3], item[2], BlockOf(item[4])>>
    [] item[1] = "try"             -> <<BlockOf(item[2]), BlockOf(item[4])>>
         \o FlattenSeq([i \in DOMAIN item[3] |-> Some(item[3][i][1]) \o <<BlockOf(item[3][i][3])>>])
         \o <<BlockOf(item[5])>>
    [] item[1] \in {"expr", "return", "raise", "assert"} -> Operands(item)
    [] OTHER                       -> Parts(item)
RECURSIVE compile_item(_, _, _)
compile_item(item, k, codes) ==
  LET own == item[1] = "code" IN
  FoldLeft(LAMBDA made, sub : compile_item(sub, IF own THEN Len(codes) + 1 ELSE k, made),
           IF own THEN Append(codes, [node |-> item[2], parent |-> k]) ELSE codes,
           InOrder(item))
compile_module(body) == compile_item(CodeOf(Module(body)), 0, << >>)

(* What code object k, with this many others made before the module, gets from
   the table of scopes; a class and a lambda take no cells, whatever is there.  *)
Scoped(scopes, codes, loaded, k) ==
  LET here  == loaded + k \in DOMAIN scopes
      cells == here /\ codes[k].node[1] = "def"
  IN  [globals |-> IF here THEN scopes[loaded + k].globals ELSE {},
       cells   |-> IF cells THEN cell_vars(scopes, loaded + k) ELSE {},
       frees   |-> IF cells THEN free_vars(scopes, loaded + k) ELSE {}]

(* The uses of names in a code object in the order in which they are compiled:
   a def, a class and an import bind a name without asking compile_store_name;
   a function inside is a code object of its own.                             *)
Imported(st) == CASE st[1] = "import" -> [i \in DOMAIN st[2] |->
                                            LET a == st[2][i] IN a[IF a[2] = Absent THEN 1 ELSE 2][1]]
                  [] st[1] = "from"   -> [i \in DOMAIN st[4] |->
                                            LET a == st[4][i] IN IF a[2] = Absent THEN a[1] ELSE a[2][1]]
All(use, names) == [i \in DOMAIN names |-> <<use, names[i]>>]
RECURSIVE UsesOf(_), Storing(_)
AllUses(items) == FlattenSeq([i \in DOMAIN items |-> UsesOf(items[i])])
Storing(t) ==
  CASE t[1] = "name"  -> All("store", <<t[2]>>)
    [] t[1] = "tuple" -> FlattenSeq([i \in DOMAIN t[2] |-> Storing(t[2][i])])
    [] OTHER          -> UsesOf(t)
Handling(h) == AllUses(Some(h[1])) \o All("store", h[2]) \o AllUses(h[3])
UsesOf(item) ==
  CASE item[1] = "name"              -> All("load", <<item[2]>>)
    [] item[1] \in {"code", "lambda"} -> << >>
    [] item[1] = "def"               -> All("bind", <<item[2]>>)
    [] item[1] = "class"             -> AllUses(item[3]) \o All("bind", <<item[2]>>)
    [] item[1] \in {"import", "from"} -> All("bind", Imported(item))
    [] item[1] = "assign"            -> UsesOf(item[3]) \o Storing(item[2])
    [] item[1] = "augassign"         -> AllUses(<<item[3], item[4]>>) \o Storing(item[3])
    [] item[1] = "for"               -> UsesOf(item[3]) \o Storing(item[2]) \o AllUses(item[4])
    [] item[1] = "try"               -> AllUses(item[2] \o item[4])
         \o FlattenSeq([i \in DOMAIN item[3] |-> Handling(item[3][i])]) \o AllUses(item[5])
    [] item[1] \in Comprehensions    ->
         FlattenSeq([i \in DOMAIN item[3] |->
           LET c == item[3][i] IN UsesOf(c[2]) \o Storing(c[1]) \o AllUses(c[3])])
         \o AllUses(Results(item))
    [] OTHER                         -> AllUses(InOrder(item))

(* Slots of the frame before any code is compiled: only a def looks ahead, and
   not for imports and comprehensions.                                        *)
Statements(node) == IF node[1] = "lambda" THEN {} ELSE Everywhere(node[4])
prescan_locals(node) ==
  Params(node) \cup
  IF node[1] # "def" THEN {}
  ELSE LET sts == Statements(node) IN
       Assigned(sts, {}) \cup Made(sts)
       \cup UNION {UNION {Range(h[2]) : h \in Range(st[3])} : st \in Kind(sts, {"try"})}

(* A load misses a name that has no slot yet, where find_local comes too early. *)
Uses(node) ==
  LET uses == AllUses(InOrder(CodeOf(node)))
      Missed(i) == /\ uses[i][1] = "load" /\ uses[i][2] \notin prescan_locals(node)
                   /\ \A j \in 1 .. i - 1 : uses[j][1] = "load" \/ uses[j][2] # uses[i][2]
  IN  {IF Missed(i) THEN <<"miss", uses[i][2]>> ELSE uses[i] : i \in DOMAIN uses}
      \cup ({"param"} \X Params(node))
Bound(node) == {u[2] : u \in {v \in Uses(node) : v[1] \in {"store", "bind", "param"}}}

(* The place a use of n in code k goes to: the module's names, a slot of the
   frame, or the cell that the functions around it handed down, if they did.   *)
RECURSIVE find_deref(_, _, _)
find_deref(table, k, n) ==
  CASE n \in table[k].cells -> <<"cell", k>>
    [] n \in table[k].frees -> find_deref(table, table[k].parent, n)
    [] OTHER                -> <<"no cell", k>>
Place(table, k, use, n) ==
  CASE k = 1                                                     -> <<"global">>
    [] use # "bind" /\ n \in table[k].cells \cup table[k].frees  -> find_deref(table, k, n)
    [] use \in {"load", "store"} /\ n \in table[k].globals       -> <<"global">>
    [] use = "miss"                                              -> <<"global">>
    [] OTHER                                                     -> <<"slot", k>>

-------------------------------------------------------------------------------
(* The rules of the language: the code object whose variable n is, seen from k. *)
RECURSIVE FunctionAround(_, _)
FunctionAround(table, k) ==
  LET p == table[k].parent IN IF table[p].node[1] = "class" THEN FunctionAround(table, p) ELSE p
RECURSIVE Meant(_, _, _)
Meant(table, k, n) ==
  LET node == table[k].node IN
  CASE k = 1 \/ n \in Declared("global", Statements(node)) -> 1
    [] n \in Bound(node) \ Declared("nonlocal", Statements(node)) -> k
    [] OTHER -> Meant(table, FunctionAround(table, k), n)

(* Two uses of a name go to one place exactly when they mean one variable. *)
Resolved(table) ==
  \A k, j \in DOMAIN table : \A u \in Uses(table[k].node), v \in Uses(table[j].node) :
    u[2] = v[2] => ((Place(table, k, u[1], u[2]) = Place(table, j, v[1], v[2]))
                    <=> (Meant(table, k, u[2]) = Meant(table, j, v[2])))

(* Every function finds its own scope under the index of its code. *)
Aligned(scopes, codes, loaded) ==
  \A k \in DOMAIN codes : codes[k].node[1] = "def" =>
    loaded + k \in DOMAIN scopes /\ scopes[loaded + k].node = codes[k].node
=============================================================================
