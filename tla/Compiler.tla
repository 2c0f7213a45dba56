------------------------------- MODULE Compiler -------------------------------
(***************************************************************************)
(* src/compiler.rs: from the statements of a module to code objects.  The   *)
(* compiler's state s is passed through, as `&mut self` is in the code.     *)
(* The fragment is the one of Ast, over code whose names are global or      *)
(* local to the function that uses them: no closures, decorators, elif,     *)
(* with or del.                                                             *)
(***************************************************************************)
EXTENDS Ast, SequencesExt

(* The code object under construction is the last of code_stack. *)
current(s) == Last(s.code_stack)
offset(s)  == Len(s.code_objects[current(s)].instructions) + 1
emit(s0, op, arg) == On(s0, LAMBDA s :
  [s EXCEPT !.code_objects[current(s)].instructions = Append(@, <<op, arg>>)])

(* Forward jumps.  The code keeps the offset of a jump in a local variable until
   it patches the operand; here the last of s.jumps is the one kept last, and
   land(s, n) patches the n-th from the end to the offset that comes next.    *)
patch_jump(s, at) == [s EXCEPT !.code_objects[current(s)].instructions[at][2] = offset(s)]
Placeholder == 1        \* the operand of a jump that nothing patches: the start
jump(s0, op) == On(s0, LAMBDA s :
  emit([s EXCEPT !.jumps = Append(@, offset(s))], op, Placeholder))
land(s0, n) == On(s0, LAMBDA s :
  LET k == Len(s.jumps) + 1 - n
  IN  [patch_jump(s, s.jumps[k]) EXCEPT !.jumps = RemoveAt(@, k)])

is_module_level(s) == Len(s.code_stack) = 1
is_global_decl(s, n) ==
  current(s) <= Len(s.scope_info) /\ n \in s.scope_info[current(s)]
add_local(s, n) == [s EXCEPT !.code_objects[current(s)].local_names = @ \union {n}]

load_name(s, n) ==
  IF ~is_module_level(s) /\ ~is_global_decl(s, n)
     /\ n \in s.code_objects[current(s)].local_names
  THEN emit(s, "LOAD_FAST", n) ELSE emit(s, "LOAD_GLOBAL", n)
store_local(s0, n) == On(s0, LAMBDA s :  \* store_name: ignores global declarations
  IF is_module_level(s) THEN emit(s, "STORE_GLOBAL", n)
  ELSE emit(add_local(s, n), "STORE_FAST", n))
store_name(s0, n) == On(s0, LAMBDA s :   \* compile_store_name
  IF is_global_decl(s, n) /\ ~is_module_level(s) THEN emit(s, "STORE_GLOBAL", n)
  ELSE store_local(s, n))

iter_name(n) == "__iter_" \o n \o "__"

-------------------------------------------------------------------------------
(* Walks over statements. *)

RECURSIVE expr_contains_yield(_)
expr_contains_yield(e) ==
  CASE e[1] = "yield" -> TRUE
    [] e[1] = "call"  -> expr_contains_yield(e[2])
                         \/ \E i \in DOMAIN e[3] : expr_contains_yield(e[3][i])
    [] e[1] = "binop" -> expr_contains_yield(e[3]) \/ expr_contains_yield(e[4])
    [] e[1] = "eq"    -> expr_contains_yield(e[2]) \/ expr_contains_yield(e[3])
    [] e[1] = "attr"  -> expr_contains_yield(e[2])
    [] OTHER          -> FALSE

(* The conditions, iterables and raised values of statements are not searched. *)
RECURSIVE contains_yield(_)
contains_yield(stmts) ==
  \E i \in DOMAIN stmts : LET st == stmts[i] IN
     \/ st[1] \in {"expr", "assign", "return"} /\ expr_contains_yield(Last(st))
     \/ \E b \in DOMAIN Blocks(st) : contains_yield(Blocks(st)[b])

RECURSIVE prescan_locals(_)
prescan_locals(stmts) ==
  UNION {LET st == stmts[i] IN
         (CASE st[1] \in {"assign", "def", "class"} -> {st[2]}
            [] st[1] = "for" -> {st[2], iter_name(st[2])}
            [] st[1] = "try" -> {st[3][h].name : h \in DOMAIN st[3]} \ {""}
            [] OTHER -> {})
         \union UNION {prescan_locals(Blocks(st)[b]) : b \in DOMAIN Blocks(st)}
         : i \in DOMAIN stmts}

(* The names each scope declares global, scopes in the order of their headers.
   A declaration inside an if, a loop or a try is not collected.            *)
declarations(stmts) == {stmts[i][2] : i \in {j \in DOMAIN stmts : stmts[j][1] = "global"}}
RECURSIVE analyze_scopes(_)
analyze_scopes(stmts) ==
  FlattenSeq([i \in DOMAIN stmts |-> LET st == stmts[i] IN
    IF st[1] \in {"def", "class"}
    THEN <<declarations(Last(st))>> \o analyze_scopes(Last(st))
    ELSE FlattenSeq([b \in DOMAIN Blocks(st) |-> analyze_scopes(Blocks(st)[b])])])

-------------------------------------------------------------------------------
RECURSIVE compile_expr(_, _), compile_exprs(_, _)
compile_exprs(s, es) == IF es = << >> THEN s
                        ELSE compile_exprs(compile_expr(s, Head(es)), Tail(es))
compile_expr(s0, e) == On(s0, LAMBDA s :
  CASE e[1] = "const" -> emit(s, "LOAD_CONST", e[2])
    [] e[1] = "name"  -> load_name(s, e[2])
    [] e[1] = "attr"  -> emit(compile_expr(s, e[2]), "LOAD_ATTR", e[3])
    [] e[1] = "binop" -> emit(compile_exprs(s, <<e[3], e[4]>>), e[2], 0)
    [] e[1] = "eq"    -> emit(compile_exprs(s, <<e[2], e[3]>>), "COMPARE_EQ", 0)
    [] e[1] = "call"  -> emit(compile_exprs(s, <<e[2]>> \o e[3]), "CALL_FUNCTION", Len(e[3]))
    [] e[1] = "yield" -> emit(compile_expr(s, e[2]), "YIELD_VALUE", 0))

RECURSIVE compile_stmt(_, _), compile_stmts(_, _)
compile_stmts(s0, stmts) == On(s0, LAMBDA s :
  IF stmts = << >> THEN s ELSE compile_stmts(compile_stmt(s, Head(stmts)), Tail(stmts)))

compile_if(s, cond, body, orelse) ==
  LET then == compile_stmts(jump(compile_expr(s, cond), "JUMP_IF_FALSE"), body)
  IN  IF orelse = << >> THEN land(then, 1)
      ELSE land(compile_stmts(land(jump(then, "JUMP"), 2), orelse), 1)

(* Loops: break leaves its jump in the loop's context, to be patched last. *)
open_loop(s0) == On(s0, LAMBDA s :
  [s EXCEPT !.loop_stack =
     Append(@, [break_patches |-> << >>, continue_target |-> offset(s)])])
close_loop_faulty_breaks(s0) == On(s0, LAMBDA s :   \* breaks are not patched
  LET back == land(emit(s, "JUMP", Last(s.loop_stack).continue_target), 1)
  IN  [back EXCEPT !.loop_stack = Front(@)])
close_loop_faulty_order(s0) == On(s0, LAMBDA s :    \* the exit is the jump back
  LET loop == Last(s.loop_stack)
      back == emit(land(s, 1), "JUMP", loop.continue_target)
  IN  [FoldLeft(patch_jump, back, loop.break_patches) EXCEPT !.loop_stack = Front(@)])
close_loop(s0) == On(s0, LAMBDA s :
  LET loop == Last(s.loop_stack)
      back == land(emit(s, "JUMP", loop.continue_target), 1)
  IN  [FoldLeft(patch_jump, back, loop.break_patches) EXCEPT !.loop_stack = Front(@)])

compile_while(s, cond, body) ==
  close_loop(compile_stmts(jump(compile_expr(open_loop(s), cond), "JUMP_IF_FALSE"), body))

compile_for(s, target, iter, body) ==
  LET slot == iter_name(target)
      loop == open_loop(store_local(emit(compile_expr(s, iter), "GET_ITER", 0), slot))
      next == jump(emit(loop, IF is_module_level(s) THEN "LOAD_GLOBAL" ELSE "LOAD_FAST", slot),
                   "FOR_ITER")
  IN  close_loop(compile_stmts(store_name(next, target), body))

(* A body gets a code object of its own, numbered before those nested in it. *)
in_body_faulty_bare(s, co, body) ==   \* no None for the return at the end
  LET c == Len(s.code_objects) + 1
      inside == [s EXCEPT !.code_objects = Append(@, co), !.code_stack = Append(@, c)]
  IN  On(emit(compile_stmts(inside, body), "RETURN_VALUE", 0),
         LAMBDA t : [t EXCEPT !.code_stack = s.code_stack])
in_body(s, co, body) ==
  LET c == Len(s.code_objects) + 1
      inside == [s EXCEPT !.code_objects = Append(@, co), !.code_stack = Append(@, c)]
      done == emit(compile_expr(compile_stmts(inside, body), NoneLit), "RETURN_VALUE", 0)
  IN  On(done, LAMBDA t : [t EXCEPT !.code_stack = s.code_stack])

compile_function_def(s, name, params, body) ==
  LET co == [instructions |-> << >>, params |-> params,
             is_generator |-> contains_yield(body),
             local_names |-> ToSet(params) \union prescan_locals(body)]
  IN  store_local(emit(in_body(s, co, body), "MAKE_FUNCTION", Len(s.code_objects) + 1), name)

compile_class_def(s, name, body) ==
  LET c  == Len(s.code_objects) + 1
      co == [instructions |-> << >>, params |-> << >>, is_generator |-> FALSE,
             local_names |-> {}]
      padded == [s EXCEPT !.scope_info =
                   IF Len(@) < c THEN @ \o [i \in 1..c - Len(@) |-> {}] ELSE @]
      operands == compile_exprs(in_body(padded, co, body), <<StrLit, IntLit(c)>>)
  IN  store_local(emit(operands, "BUILD_CLASS", c), name)

(* One except clause; its jump to the end of the statement is kept last. *)
compile_handler(s, h) ==
  LET test(t) == jump(emit(compile_expr(emit(t, "LOAD_EXCEPTION", 0), h.type),
                           "COMPARE_EQ", 0), "JUMP_IF_FALSE")
      bind(t) == IF h.name = "" THEN t
                 ELSE store_name(emit(t, "LOAD_EXCEPTION", 0), h.name)
      leave(t) == jump(compile_stmts(bind(t), h.body), "JUMP")
  IN  IF h.type = NoType THEN leave(s) ELSE land(leave(test(s)), 2)

(* The finally block is compiled once, where the other paths join. *)
compile_try(s, body, handlers, orelse, final) ==
  LET start   == IF final = << >> THEN s ELSE jump(s, "SETUP_FINALLY")
      tried   == emit(compile_stmts(jump(start, "SETUP_EXCEPT"), body), "POP_EXCEPT", 0)
      no_exc  == land(jump(compile_stmts(tried, orelse), "JUMP"), 2)
      unmatched == emit(FoldLeft(compile_handler, no_exc, handlers), "RAISE", 0)
      joined  == FoldLeft(land, unmatched, [h \in 1..Len(handlers) + 1 |-> 1])
  IN  IF final = << >> THEN joined
      ELSE emit(compile_stmts(land(joined, 1), final), "END_FINALLY", 0)

compile_break(s) ==
  IF s.loop_stack = << >> THEN emit(s, "JUMP", Placeholder)
  ELSE emit([s EXCEPT !.loop_stack[Len(s.loop_stack)].break_patches = Append(@, offset(s))],
            "JUMP", Placeholder)
compile_continue(s) ==
  IF s.loop_stack = << >> THEN s ELSE emit(s, "JUMP", Last(s.loop_stack).continue_target)

compile_assert(s, e) ==
  LET checked == jump(compile_expr(s, e), "JUMP_IF_TRUE")
  IN  land(emit(compile_expr(checked, StrLit), "RAISE", 2), 1)

compile_import(s, n, file) ==
  store_local(emit(compile_exprs(s, <<IntLit(0), NoneLit>>), "IMPORT_NAME", file), n)

compile_stmt(s, st) ==
  CASE st[1] = "expr"     -> emit(compile_expr(s, st[2]), "POP_TOP", 0)
    [] st[1] = "assign"   -> store_name(compile_expr(s, st[3]), st[2])
    [] st[1] = "if"       -> compile_if(s, st[2], st[3], st[4])
    [] st[1] = "while"    -> compile_while(s, st[2], st[3])
    [] st[1] = "for"      -> compile_for(s, st[2], st[3], st[4])
    [] st[1] = "def"      -> compile_function_def(s, st[2], st[3], st[4])
    [] st[1] = "class"    -> compile_class_def(s, st[2], st[3])
    [] st[1] = "return"   -> emit(compile_expr(s, st[2]), "RETURN_VALUE", 0)
    [] st[1] = "break"    -> compile_break(s)
    [] st[1] = "continue" -> compile_continue(s)
    [] st[1] = "try"      -> compile_try(s, st[2], st[3], st[4], st[5])
    [] st[1] = "raise"    -> emit(compile_expr(s, st[2]), "RAISE", 1)
    [] st[1] = "reraise"  -> emit(s, "RAISE", 0)
    [] st[1] = "assert"   -> compile_assert(s, st[2])
    [] st[1] = "import"   -> compile_import(s, st[2], st[3])
    [] st[1] \in {"pass", "global"} -> s

(* compile_extending: one module's code objects appended to those there are. *)
compile_extending(code_objects, stmts) ==
  LET c  == Len(code_objects) + 1
      s  == [code_objects |-> Append(code_objects,
               [instructions |-> << >>, params |-> << >>, is_generator |-> FALSE,
                local_names |-> {}]),
             code_stack |-> <<c>>, loop_stack |-> << >>, jumps |-> << >>,
             scope_info |-> <<{}>> \o analyze_scopes(stmts)]
  IN  emit(compile_stmts(s, stmts), "HALT", 0).code_objects

(* The code table of a script and of the files it may import: what finding the
   file by its name comes to, an import refers to the code of its body.      *)
link(code_objects, body_of) ==
  LET linked(instr) == IF instr[1] = "IMPORT_NAME" /\ instr[2] # 0
                       THEN <<instr[1], body_of[instr[2]]>> ELSE instr
  IN  [c \in DOMAIN code_objects |->
         [code_objects[c] EXCEPT !.instructions = [k \in DOMAIN @ |-> linked(@[k])]]]
compile(bodies) ==
  LET file(t, body) == [code |-> compile_extending(t.code, body),
                        body_of |-> Append(t.body_of, Len(t.code) + 1)]
      table == FoldLeft(file, [code |-> << >>, body_of |-> << >>], bodies)
  IN  link(table.code, table.body_of)

=============================================================================
