---------------------------------- MODULE VM ----------------------------------
(***************************************************************************)
(* The bytecode interpreter of src/vm.rs: an explicit stack of frames, one  *)
(* exception-handler stack shared by all frames, generators, the import     *)
(* cache, and the nested activations of the dispatch loop                   *)
(* (`execute_until_depth`) that an import and a `__str__` call start from   *)
(* inside an opcode.                                                        *)
(*                                                                          *)
(* One step executes one instruction, or lets the innermost activation of   *)
(* the dispatch loop return to the Rust code that started it.  Any code     *)
(* table is initial and none ever changes: what `compile_extending` appends *)
(* on import is there from the start, and a module is named by the index of *)
(* its body's code object.  Indices are 1-based; 0 stands for `None` in a   *)
(* frame's gen and module.                                                  *)
(*                                                                          *)
(* An operator whose name ends in _faulty, with a hint, is not part of the  *)
(* model: it is what the definition behind it would be with a plausible bug *)
(* in the code, and shows which property notices.                           *)
(***************************************************************************)
EXTENDS Integers, Sequences

CONSTANTS
  Names,      \* names that code may bind: globals, locals and attributes
  MAX_STACK   \* slots of a frame's operand stack

VARIABLES
  source,             \* the script, as run_and_capture keeps it; not read here
  code_objects,       \* Seq of code objects; [1] is the main script
  frames,             \* Seq of frames; the last one executes
  exception_stack,    \* Seq of handlers; the last one is tried first
  current_exception,  \* the exception raised last, or Unset
  activations,        \* Seq of running calls of execute_until_depth
  generators,         \* heap: generator objects
  iters,              \* heap: range iterators
  modules,            \* heap: module objects
  sys_modules,        \* import cache: code of a module's body -> module, or 0
  globals,            \* namespace of the main script
  output,             \* values printed
  status              \* "running", "done", "error" (an Err) or "panic"

program == <<source, code_objects>>
heap == <<generators, iters, modules, sys_modules>>
vars == <<program, frames, exception_stack, current_exception, activations, heap,
          globals, output, status>>

-------------------------------------------------------------------------------
(* Values: a tag and what it refers to. *)

ExcTypes == {"BaseException", "Exception", "TypeError", "ValueError", "NameError",
             "IndexError", "KeyError", "ZeroDivisionError", "RuntimeError",
             "AssertionError"}
BuiltinFns == {"str", "print", "range"}

None        == <<"none", 0>>
Str_        == <<"str", 0>>           \* some non-empty string
Unset       == <<"unset", 0>>         \* Rust's None where a Value may be missing
Int_(n)     == <<"int", n>>
Bool_(b)    == <<"bool", b>>
Exc(t)      == <<"exc", t>>           \* an exception object of type t
ExcType(t)  == <<"exctype", t>>       \* the constructor of exceptions of type t
Builtin(b)  == <<"builtin", b>>
Func(c, m)  == <<"func", c, m>>       \* code object, defining module
Class(i, s, m) == <<"class", i, s, m>> \* code of __init__ and of __str__, or 0
Inst(s, m)  == <<"inst", s, m>>       \* an instance whose __str__ has code s, or 0
Gen(g)      == <<"gen", g>>
Iter(i)     == <<"iter", i>>
Module(m)   == <<"module", m>>

BuiltinOf(n) == IF n \in ExcTypes THEN ExcType(n)
                ELSE IF n \in BuiltinFns THEN Builtin(n) ELSE Unset

is_subtype(s, t) == \/ s = t
                    \/ t = "BaseException"
                    \/ t = "Exception" /\ s # "BaseException"

is_truthy(v) == v \notin {None, Bool_(FALSE), Int_(0)}

IsInt(v) == v[1] \in {"int", "bool"}
AsInt(v) == IF v[1] = "bool" THEN (IF v[2] THEN 1 ELSE 0) ELSE v[2]

values_equal(l, r) ==
  \/ l = r
  \/ IsInt(l) /\ IsInt(r) /\ AsInt(l) = AsInt(r)
  \/ l[1] = "exc" /\ r[1] \in {"exc", "exctype"} /\ is_subtype(l[2], r[2])
  \/ l[1] = "exctype" /\ r[1] = "exc" /\ is_subtype(r[2], l[2])

(* An Err, as the exception type `try_handle_error` reads off its message. *)
Err(t) == <<"err", t>>

binary_add(l, r) ==
  IF IsInt(l) /\ IsInt(r) THEN Int_(AsInt(l) + AsInt(r))
  ELSE IF l = Str_ /\ r = Str_ THEN Str_ ELSE Err("TypeError")
binary_floor_div(l, r) ==
  IF ~(IsInt(l) /\ IsInt(r)) THEN Err("TypeError")
  ELSE IF AsInt(r) = 0 THEN Err("ZeroDivisionError")
  ELSE IF AsInt(r) > 0 THEN Int_(AsInt(l) \div AsInt(r))
  ELSE Int_((-AsInt(l)) \div (-AsInt(r)))

(* Code as the compiler emits it: operands of the kind their opcode takes. *)
Literals == {None, Str_} \cup ({"int"} \X Int) \cup ({"bool"} \X BOOLEAN)
Operand(op, arg, n) ==
  CASE op = "LOAD_CONST" -> arg \in Literals
    [] op \in {"LOAD_FAST", "STORE_FAST", "STORE_GLOBAL", "LOAD_ATTR"} -> arg \in Names
    [] op = "LOAD_GLOBAL" -> arg \in Names \cup ExcTypes \cup BuiltinFns
    [] op \in {"JUMP", "JUMP_IF_FALSE", "JUMP_IF_TRUE", "FOR_ITER", "SETUP_EXCEPT"}
         -> arg \in Nat \ {0}
    [] op \in {"MAKE_FUNCTION", "BUILD_CLASS"} -> arg \in 1..n
    [] op = "IMPORT_NAME" -> arg \in 0..n
    [] OTHER -> arg \in Nat
IsProgram(p) ==
  /\ p \in Seq({p[c] : c \in DOMAIN p}) /\ p # << >>
  /\ \A c \in DOMAIN p :
       /\ p[c].instructions \in Seq({p[c].instructions[k] : k \in DOMAIN p[c].instructions})
       /\ \A k \in DOMAIN p[c].instructions :
            Operand(p[c].instructions[k][1], p[c].instructions[k][2], Len(p))
       /\ p[c].params \in Seq(Names)
       /\ p[c].is_generator \in BOOLEAN

-------------------------------------------------------------------------------
(* Frames.  An operand stack is its MAX_STACK slots and the number sp of those
   in use; what a pop leaves above sp stays there, as in the boxed array.    *)

frame == frames[Len(frames)]
Instructions == code_objects[frame.code].instructions
Instr == Instructions[frame.ip]
Arg   == Instr[2]
Top(n) == frame.stack[frame.sp - n]             \* n = 0 is the top
Activation == activations[Len(activations)]

EmptyStack == [i \in 1..MAX_STACK |-> None]
NoLocals   == [n \in Names |-> None]

NewFrame(c, locals, module, init) ==
  [code |-> c, ip |-> 1, stack |-> EmptyStack, sp |-> 0, locals |-> locals,
   gen |-> 0, init |-> init, module |-> module]

arity(c) == Len(code_objects[c].params)
Bind_faulty_uninitialized(c, args) ==   \* only the parameters get a value
  LET params == code_objects[c].params IN
  [n \in Names |-> IF \E i \in DOMAIN params : params[i] = n
                   THEN args[CHOOSE i \in DOMAIN params : params[i] = n]
                   ELSE Unset]
Bind(c, args) ==
  LET params == code_objects[c].params IN
  [n \in Names |-> IF \E i \in DOMAIN params : params[i] = n
                   THEN args[CHOOSE i \in DOMAIN params : params[i] = n]
                   ELSE None]

AllButLast(s) == SubSeq(s, 1, Len(s) - 1)
SetTop(f) == [frames EXCEPT ![Len(frames)] = f]
Popped(n) == [frame EXCEPT !.ip = @ + 1, !.sp = @ - n]
Pushed(n, v) == [frame EXCEPT !.ip = @ + 1, !.sp = @ - n + 1,
                              !.stack[frame.sp - n + 1] = v]    \* pop n, push v
PushOn(f, v) == [f EXCEPT !.sp = @ + 1, !.stack[f.sp + 1] = v]

(* What an opcode takes off the operand stack, and what it may put there. *)
Pops(op, arg) ==
  CASE op \in {"STORE_FAST", "STORE_GLOBAL", "JUMP_IF_FALSE", "JUMP_IF_TRUE",
               "RETURN_VALUE", "GET_ITER", "FOR_ITER", "POP_TOP", "LOAD_ATTR",
               "YIELD_VALUE"}                                         -> 1
    [] op \in {"ADD", "FLOOR_DIV", "LSHIFT", "COMPARE_EQ", "IMPORT_NAME",
               "BUILD_CLASS"}                                         -> 2
    [] op = "CALL_FUNCTION"                                           -> arg + 1
    [] op = "RAISE"                                                   -> IF arg = 0 THEN 0 ELSE 1
    [] OTHER                                                          -> 0
Grows(op) == op \in {"LOAD_CONST", "LOAD_FAST", "LOAD_GLOBAL", "LOAD_EXCEPTION",
                     "MAKE_FUNCTION"}
Delivers(op) == op \in {"RETURN_VALUE", "YIELD_VALUE"} /\ Len(frames) > 1

StackFits ==
  /\ frame.sp >= Pops(Instr[1], Arg)
  /\ Grows(Instr[1]) => frame.sp < MAX_STACK
  /\ Delivers(Instr[1]) => frames[Len(frames) - 1].sp < MAX_STACK

(* The loop top: the frame stack is above the activation's target depth, and
   the next instruction is fetched.                                         *)
Dispatching == status = "running" /\ Len(frames) > Activation.target
InCode      == frame.ip \in DOMAIN Instructions
Fetch(op)   == Dispatching /\ InCode /\ StackFits /\ Instr[1] = op

(* The ways an instruction ends. *)
Goto(fs) == /\ frames' = fs
            /\ UNCHANGED <<program, exception_stack, current_exception,
                           activations, heap, globals, output, status>>
Advance(f) == Goto(SetTop(f))

(* An Err that no Python handler sees: every activation passes it on. *)
Fail == /\ status' = "error"
        /\ UNCHANGED <<program, frames, exception_stack, current_exception,
                       activations, heap, globals, output>>

(* raise_exception: the last handler is popped, the frames above its frame are
   dropped, and its frame goes on at the handler.  A handler may outlive its
   frame: then the index is out of bounds and the process aborts.           *)
Handler_faulty_outermost == exception_stack[1]
Handler == exception_stack[Len(exception_stack)]

UnwindTo_faulty_operands(h) ==   \* the operand stack is not cut back
  [SubSeq(frames, 1, h.frame_index) EXCEPT ![h.frame_index].ip = h.handler_ip]
UnwindTo_faulty_late(h) ==       \* a frame too many stays
  [(IF Len(frames) > h.frame_index THEN SubSeq(frames, 1, h.frame_index + 1) ELSE frames)
     EXCEPT ![h.frame_index].ip = h.handler_ip, ![h.frame_index].sp = h.stack_depth]
UnwindTo(h) ==
  [SubSeq(frames, 1, h.frame_index)
     EXCEPT ![h.frame_index].ip = h.handler_ip, ![h.frame_index].sp = h.stack_depth]

Caught   == /\ exception_stack # << >>
            /\ Handler.frame_index <= Len(frames)
            /\ frames' = UnwindTo(Handler)
            /\ exception_stack' = AllButLast(exception_stack)
            /\ UNCHANGED status
Dangling == /\ exception_stack # << >>
            /\ Handler.frame_index > Len(frames)
            /\ status' = "panic"
            /\ exception_stack' = AllButLast(exception_stack)
            /\ UNCHANGED frames
Uncaught == /\ exception_stack = << >>
            /\ status' = "error"
            /\ UNCHANGED <<frames, exception_stack>>

raise_exception(exc) ==
  /\ current_exception' = exc
  /\ Caught \/ Dangling \/ Uncaught
  /\ UNCHANGED <<program, activations, heap, globals, output>>

(* An Err becomes an exception only where a handler waits for it. *)
try_handle_error(t) == IF exception_stack = << >> THEN Fail ELSE raise_exception(Exc(t))

Deliver_faulty_unchecked(n, result) == Advance(Pushed(n, result))
Deliver(n, result) == IF result[1] = "err" THEN try_handle_error(result[2])
                      ELSE Advance(Pushed(n, result))

-------------------------------------------------------------------------------
(* Names and operands. *)

LOAD_CONST == Fetch("LOAD_CONST") /\ Advance(Pushed(0, Arg))
LOAD_FAST  == Fetch("LOAD_FAST") /\ Advance(Pushed(0, frame.locals[Arg]))
STORE_FAST == Fetch("STORE_FAST")
              /\ Advance([Popped(1) EXCEPT !.locals[Arg] = Top(0)])

frame_globals_get(n) ==
  LET own == IF frame.module = 0 THEN globals ELSE modules[frame.module].globals
  IN  IF n \in Names /\ own[n] # Unset THEN own[n] ELSE BuiltinOf(n)

LOAD_GLOBAL ==
  /\ Fetch("LOAD_GLOBAL")
  /\ LET v == frame_globals_get(Arg) IN
     IF v = Unset THEN try_handle_error("NameError") ELSE Advance(Pushed(0, v))

STORE_GLOBAL ==
  /\ Fetch("STORE_GLOBAL")
  /\ frames' = SetTop(Popped(1))
  /\ \/ /\ frame.module = 0
        /\ globals' = [globals EXCEPT ![Arg] = Top(0)]
        /\ UNCHANGED modules
     \/ /\ frame.module # 0
        /\ modules' = [modules EXCEPT ![frame.module].globals[Arg] = Top(0)]
        /\ UNCHANGED globals
  /\ UNCHANGED <<program, exception_stack, current_exception, activations,
                 generators, iters, sys_modules, output, status>>

ADD == Fetch("ADD") /\ Deliver(2, binary_add(Top(1), Top(0)))
FLOOR_DIV == Fetch("FLOOR_DIV") /\ Deliver(2, binary_floor_div(Top(1), Top(0)))
LSHIFT ==
  /\ Fetch("LSHIFT")
  /\ IF IsInt(Top(0)) /\ IsInt(Top(1)) /\ AsInt(Top(0)) >= 0
     THEN Advance(Pushed(2, Int_(AsInt(Top(1)) * 2 ^ AsInt(Top(0)))))
     ELSE Fail

COMPARE_EQ == Fetch("COMPARE_EQ")
              /\ Advance(Pushed(2, Bool_(values_equal(Top(1), Top(0)))))

POP_TOP == Fetch("POP_TOP") /\ Advance(Popped(1))

LOAD_ATTR ==
  /\ Fetch("LOAD_ATTR")
  /\ Deliver(1, IF Top(0)[1] = "module" /\ modules[Top(0)[2]].globals[Arg] # Unset
                THEN modules[Top(0)[2]].globals[Arg]
                ELSE Err("RuntimeError"))

JUMP == Fetch("JUMP") /\ Advance([frame EXCEPT !.ip = Arg])
JUMP_IF_FALSE ==
  /\ Fetch("JUMP_IF_FALSE")
  /\ Advance([Popped(1) EXCEPT !.ip = IF is_truthy(Top(0)) THEN @ ELSE Arg])
JUMP_IF_TRUE ==
  /\ Fetch("JUMP_IF_TRUE")
  /\ Advance([Popped(1) EXCEPT !.ip = IF is_truthy(Top(0)) THEN Arg ELSE @])

-------------------------------------------------------------------------------
(* Calls. *)

MAKE_FUNCTION == Fetch("MAKE_FUNCTION")
                 /\ Advance(Pushed(0, Func(Arg, frame.module)))

(* The class body is run by a loop of its own that knows a few opcodes; of the
   attributes it leaves, the model keeps the functions bound to a dunder.  The
   operand stands for the body's code object, which the code pops.           *)
Method(c, name) ==
  LET body   == code_objects[c].instructions
      Defines(k) == body[k] = <<"STORE_FAST", name>> /\ body[k - 1][1] = "MAKE_FUNCTION"
      stores == {k \in 2..Len(body) : Defines(k)}
  IN  IF stores = {} THEN 0
      ELSE body[(CHOOSE k \in stores : \A j \in stores : j <= k) - 1][2]
BUILD_CLASS ==
  Fetch("BUILD_CLASS")
  /\ Advance(Pushed(2, Class(Method(Arg, "__init__"), Method(Arg, "__str__"), frame.module)))

Callee == Top(Arg)
Args   == [i \in 1..Arg |-> frame.stack[frame.sp - Arg + i]]
Calling(tag) == Fetch("CALL_FUNCTION") /\ Callee[1] = tag
Enter_faulty_repeats(f) ==   \* the caller's ip still at the call
  Goto(Append(SetTop([frame EXCEPT !.sp = @ - (Arg + 1)]), f))
Enter(f) == Goto(Append(SetTop(Popped(Arg + 1)), f))

(* A nested call of execute_until_depth, down to the depth there is now. *)
Activate_faulty_index(kind, module) ==   \* the caller's index for the depth
  activations' = Append(activations,
                        [kind |-> kind, target |-> Len(frames) - 1, module |-> module])
Activate(kind, module) ==
  activations' = Append(activations,
                        [kind |-> kind, target |-> Len(frames), module |-> module])

CallFunction ==
  /\ Calling("func") /\ arity(Callee[2]) = Arg
  /\ ~code_objects[Callee[2]].is_generator
  /\ Enter(NewFrame(Callee[2], Bind(Callee[2], Args), Callee[3], Unset))

CallGeneratorFunction ==
  /\ Calling("func") /\ arity(Callee[2]) = Arg
  /\ code_objects[Callee[2]].is_generator
  /\ generators' = Append(generators,
       [code |-> Callee[2], ip |-> 1, stack |-> EmptyStack, sp |-> 0,
        locals |-> Bind(Callee[2], Args), state |-> "Created"])
  /\ frames' = SetTop(Pushed(Arg + 1, Gen(Len(generators) + 1)))
  /\ UNCHANGED <<program, exception_stack, current_exception, activations,
                 iters, modules, sys_modules, globals, output, status>>

(* call_class: __init__ runs in a frame tagged with the new instance; a wrong
   number of arguments is an exception here and an Err in every other call.  *)
CallClass ==
  /\ Calling("class")
  /\ LET inst == Inst(Callee[3], Callee[4])
         init == Callee[2]
         args == [i \in 1..Arg + 1 |-> IF i = 1 THEN inst ELSE Args[i - 1]]
     IN  IF init = 0 THEN Advance(Pushed(Arg + 1, inst))
         ELSE IF arity(init) # Arg + 1 THEN try_handle_error("RuntimeError")
         ELSE Enter(NewFrame(init, Bind(init, args), Callee[4], inst))

CallException == /\ Fetch("CALL_FUNCTION") /\ Callee[1] \in {"exc", "exctype"}
                 /\ Advance(Pushed(Arg + 1, Exc(Callee[2])))

(* Builtins get one argument.  str and print of an instance with a __str__ run
   it in a nested activation of the loop; the operands are already popped.   *)
HasStr(v) == v[1] = "inst" /\ v[2] # 0
Formats   == Callee[2] \in {"str", "print"} /\ Arg = 1

CallRange ==
  /\ Calling("builtin") /\ Callee[2] = "range" /\ Arg = 1
  /\ IF Top(0)[1] # "int" THEN try_handle_error("RuntimeError")
     ELSE /\ iters' = Append(iters, [current |-> 0, stop |-> Top(0)[2]])
          /\ frames' = SetTop(Pushed(2, Iter(Len(iters) + 1)))
          /\ UNCHANGED <<program, exception_stack, current_exception, activations,
                         generators, modules, sys_modules, globals, output, status>>

CallFormat ==
  /\ Calling("builtin") /\ Formats /\ ~HasStr(Top(0))
  /\ frames' = SetTop(Pushed(2, IF Callee[2] = "print" THEN None ELSE Str_))
  /\ output' = IF Callee[2] = "print" THEN Append(output, Top(0)) ELSE output
  /\ UNCHANGED <<program, exception_stack, current_exception, activations,
                 heap, globals, status>>

CallDunder ==
  /\ Calling("builtin") /\ Formats /\ HasStr(Top(0))
  /\ LET inst == Top(0)
         method == inst[2]
     IN  IF arity(method) # 1 THEN Fail
         ELSE /\ frames' = Append(SetTop(Popped(2)),
                                  NewFrame(method, Bind(method, <<inst>>), inst[3], Unset))
              /\ Activate(Callee[2], 0)
              /\ UNCHANGED <<program, exception_stack, current_exception,
                             heap, globals, output, status>>

CallError ==
  /\ Fetch("CALL_FUNCTION")
  /\ \/ Callee[1] = "func" /\ arity(Callee[2]) # Arg
     \/ Callee[1] \notin {"func", "class", "exc", "exctype", "builtin"}
  /\ Fail

(* A generator's frame leaves no value: the caller goes back two instructions,
   to the LOAD before its FOR_ITER, which will find the generator Completed. *)
RETURN_VALUE ==
  /\ Fetch("RETURN_VALUE")
  /\ LET below  == AllButLast(frames)
         caller == below[Len(below)]
         back   == IF frame.gen # 0
                   THEN [caller EXCEPT !.ip = IF @ > 2 THEN @ - 2 ELSE 1]
                   ELSE PushOn(caller, IF frame.init # Unset THEN frame.init ELSE Top(0))
     IN  frames' = IF below = << >> THEN below ELSE [below EXCEPT ![Len(below)] = back]
  /\ generators' = IF frame.gen = 0 THEN generators
                   ELSE [generators EXCEPT ![frame.gen].state = "Completed"]
  /\ UNCHANGED <<program, exception_stack, current_exception, activations,
                 iters, modules, sys_modules, globals, output, status>>

-------------------------------------------------------------------------------
(* Iteration and generators. *)

GET_ITER == Fetch("GET_ITER")
            /\ IF Top(0)[1] \in {"iter", "gen"} THEN Advance(Pushed(1, Top(0))) ELSE Fail

FOR_ITER_range ==
  /\ Fetch("FOR_ITER") /\ Top(0)[1] = "iter"
  /\ LET i == Top(0)[2] IN
     IF iters[i].current >= iters[i].stop
     THEN Advance([Popped(1) EXCEPT !.ip = Arg])
     ELSE /\ frames' = SetTop(Pushed(1, Int_(iters[i].current)))
          /\ iters' = [iters EXCEPT ![i].current = @ + 1]
          /\ UNCHANGED <<program, exception_stack, current_exception, activations,
                         generators, modules, sys_modules, globals, output, status>>

Resumable_faulty_always(gen) == TRUE
Resumable(gen) == gen.state # "Completed"

FOR_ITER_completed ==
  /\ Fetch("FOR_ITER") /\ Top(0)[1] = "gen"
  /\ ~Resumable(generators[Top(0)[2]])
  /\ Advance([Popped(1) EXCEPT !.ip = Arg])

(* resume_generator: the frame is rebuilt, its globals those of the main
   script; a resumed one finds None on its stack as the value of the yield.
   Nothing stops the resumption of a generator that is Running.             *)
resume_generator ==
  /\ Fetch("FOR_ITER") /\ Top(0)[1] = "gen"
  /\ LET g   == Top(0)[2]
         gen == generators[g]
         f   == [code |-> gen.code, ip |-> gen.ip, stack |-> gen.stack, sp |-> gen.sp,
                 locals |-> gen.locals, gen |-> g, init |-> Unset, module |-> 0]
     IN  /\ Resumable(gen)
         /\ frames' = Append(SetTop(Popped(1)),
                             IF gen.state = "Suspended" THEN PushOn(f, None) ELSE f)
         /\ generators' = [generators EXCEPT ![g].state = "Running"]
  /\ UNCHANGED <<program, exception_stack, current_exception, activations,
                 iters, modules, sys_modules, globals, output, status>>

FOR_ITER_error == Fetch("FOR_ITER") /\ Top(0)[1] \notin {"iter", "gen"} /\ Fail

(* What a yield keeps of its frame in the generator object. *)
Kept(f, state) ==
  [code |-> f.code, ip |-> f.ip, sp |-> f.sp, locals |-> f.locals,
   stack |-> [i \in 1..MAX_STACK |-> IF i <= f.sp THEN f.stack[i] ELSE None],
   state |-> state]
Saved_faulty_again(f)   == [Kept(f, "Suspended") EXCEPT !.ip = @ - 1]
Saved_faulty_running(f) == Kept(f, "Running")
Saved_faulty_created(f) == Kept(f, "Created")
Saved(f) == Kept(f, "Suspended")

(* The handlers that the generator's frame has installed stay behind. *)
YIELD_VALUE ==
  /\ Fetch("YIELD_VALUE") /\ frame.gen # 0
  /\ LET below == AllButLast(frames)
         f     == Popped(1)
     IN  /\ frames' = IF below = << >> THEN below
                      ELSE [below EXCEPT ![Len(below)] = PushOn(below[Len(below)], Top(0))]
         /\ generators' = [generators EXCEPT ![frame.gen] = Saved(f)]
  /\ UNCHANGED <<program, exception_stack, current_exception, activations,
                 iters, modules, sys_modules, globals, output, status>>

YIELD_outside == Fetch("YIELD_VALUE") /\ frame.gen = 0 /\ Fail

-------------------------------------------------------------------------------
(* Exceptions. *)

NewHandler_faulty_length(depth) ==   \* the 0-based index and the length mixed up
  [handler_ip |-> Arg, frame_index |-> depth + 1, stack_depth |-> frame.sp]
NewHandler(depth) == [handler_ip |-> Arg, frame_index |-> depth, stack_depth |-> frame.sp]

SETUP_EXCEPT ==
  /\ Fetch("SETUP_EXCEPT")
  /\ exception_stack' = Append(exception_stack, NewHandler(Len(frames)))
  /\ frames' = SetTop(Popped(0))
  /\ UNCHANGED <<program, current_exception, activations, heap, globals, output, status>>

POP_EXCEPT_faulty_keeps == Fetch("POP_EXCEPT") /\ Advance(Popped(0))
POP_EXCEPT ==
  /\ Fetch("POP_EXCEPT")
  /\ exception_stack' = AllButLast(exception_stack)
  /\ frames' = SetTop(Popped(0))
  /\ UNCHANGED <<program, current_exception, activations, heap, globals, output, status>>

FinallyMarker == /\ Fetch("SETUP_FINALLY") \/ Fetch("END_FINALLY")
                 /\ Advance(Popped(0))

LOAD_EXCEPTION ==
  Fetch("LOAD_EXCEPTION")
  /\ Advance(Pushed(0, IF current_exception = Unset THEN None ELSE current_exception))

RAISE_again == /\ Fetch("RAISE") /\ Arg = 0
               /\ IF current_exception = Unset THEN Fail ELSE raise_exception(current_exception)
RAISE_value ==
  /\ Fetch("RAISE") /\ Arg = 1
  /\ raise_exception(IF Top(0)[1] \in {"exc", "exctype"} THEN Exc(Top(0)[2])
                     ELSE Exc("RuntimeError"))
RAISE_assertion == Fetch("RAISE") /\ Arg = 2 /\ raise_exception(Exc("AssertionError"))

-------------------------------------------------------------------------------
(* Imports of undotted names.  The operand of IMPORT_NAME is the code of the
   module's body, or 0 where sys.path has no such file.                     *)

IMPORT_cached ==
  /\ Fetch("IMPORT_NAME") /\ Arg # 0 /\ sys_modules[Arg] # 0
  /\ Advance(Pushed(2, Module(sys_modules[Arg])))

IMPORT_missing == Fetch("IMPORT_NAME") /\ Arg = 0 /\ Fail

NewModule_faulty_ready(c) == [code |-> c, initialized |-> TRUE,
                              globals |-> [n \in Names |-> Unset]]
NewModule(c) == [code |-> c, initialized |-> FALSE,
                 globals |-> [n \in Names |-> Unset]]
Cache_faulty_never(c, m) == UNCHANGED sys_modules
Cache(c, m) == sys_modules' = [sys_modules EXCEPT ![c] = m]

(* compile_and_execute_module, up to its execute_until_depth: the module is in
   the cache before its body runs.                                          *)
IMPORT_load ==
  /\ Fetch("IMPORT_NAME") /\ Arg # 0 /\ sys_modules[Arg] = 0
  /\ LET m == Len(modules) + 1 IN
     /\ modules' = Append(modules, NewModule(Arg))
     /\ Cache(Arg, m)
     /\ frames' = Append(SetTop(Popped(2)), NewFrame(Arg, NoLocals, m, Unset))
     /\ Activate("import", m)
  /\ UNCHANGED <<program, exception_stack, current_exception, generators, iters,
                 globals, output, status>>

-------------------------------------------------------------------------------
(* The innermost activation of the loop returns Ok: at a HALT, which leaves its
   frame, or because the frame stack fell to the target depth or below it.   *)

Halted   == Len(frames) > Activation.target /\ InCode /\ Instr[1] = "HALT"
Returned_faulty_below(kinds) ==   \* only once below the target depth
  /\ status = "running" /\ Activation.kind \in kinds
  /\ Len(frames) < Activation.target \/ Halted
Returned(kinds) == /\ status = "running" /\ Activation.kind \in kinds
                   /\ Len(frames) <= Activation.target \/ Halted

run_returns == /\ Returned({"run"})
               /\ status' = "done"
               /\ UNCHANGED <<program, frames, exception_stack, current_exception,
                              activations, heap, globals, output>>

(* The rest of compile_and_execute_module and of IMPORT_NAME.  That the body
   ended with an exception caught further down does not show: the loop has
   returned Ok.                                                             *)
import_returns ==
  /\ Returned({"import"})
  /\ LET importer == frames[Activation.target] IN
     IF Len(frames) < Activation.target \/ importer.sp >= MAX_STACK
     THEN status' = "panic" /\ UNCHANGED <<frames, modules, activations>>
     ELSE /\ frames' = [SubSeq(frames, 1, Activation.target)
                          EXCEPT ![Activation.target] = PushOn(importer, Module(Activation.module))]
          /\ modules' = [modules EXCEPT ![Activation.module].initialized = TRUE]
          /\ activations' = AllButLast(activations)
          /\ UNCHANGED status
  /\ UNCHANGED <<program, exception_stack, current_exception, generators, iters,
                 sys_modules, globals, output>>

(* call_and_get_result pops the result off the caller's stack, wherever the
   loop stopped; str pushes it again, print prints it and pushes None.       *)
dunder_returns ==
  /\ Returned({"str", "print"})
  /\ LET caller == frames[Activation.target] IN
     IF Len(frames) < Activation.target \/ caller.sp = 0
     THEN status' = "panic" /\ UNCHANGED <<frames, output, activations>>
     ELSE /\ IF Activation.kind = "print"
             THEN /\ frames' = [frames EXCEPT ![Activation.target].stack[caller.sp] = None]
                  /\ output' = Append(output, caller.stack[caller.sp])
             ELSE UNCHANGED <<frames, output>>
          /\ activations' = AllButLast(activations)
          /\ UNCHANGED status
  /\ UNCHANGED <<program, exception_stack, current_exception, heap, globals>>

(* The operand stack under- or overflows: an index out of the boxed array. *)
StackPanic == /\ Dispatching /\ InCode /\ ~StackFits
              /\ status' = "panic"
              /\ UNCHANGED <<program, frames, exception_stack, current_exception,
                             activations, heap, globals, output>>

OutOfBounds == Dispatching /\ ~InCode /\ Fail

-------------------------------------------------------------------------------
Start ==      \* VM::new and run
  /\ frames = <<NewFrame(1, NoLocals, 0, Unset)>>
  /\ exception_stack = << >>
  /\ current_exception = Unset
  /\ activations = <<[kind |-> "run", target |-> 0, module |-> 0]>>
  /\ generators = << >>
  /\ iters = << >>
  /\ modules = << >>
  /\ sys_modules = [c \in DOMAIN code_objects |-> 0]
  /\ globals = [n \in Names |-> Unset]
  /\ output = << >>
  /\ status = "running"
Init == IsProgram(code_objects) /\ Start

Namespaces == LOAD_CONST \/ LOAD_FAST \/ STORE_FAST \/ LOAD_GLOBAL \/ STORE_GLOBAL
Operands  == ADD \/ FLOOR_DIV \/ LSHIFT \/ COMPARE_EQ \/ POP_TOP \/ LOAD_ATTR
Jumps     == JUMP \/ JUMP_IF_FALSE \/ JUMP_IF_TRUE
Calls     == \/ MAKE_FUNCTION \/ BUILD_CLASS \/ CallFunction \/ CallGeneratorFunction
             \/ CallClass \/ CallException \/ CallRange \/ CallFormat \/ CallDunder
             \/ CallError \/ RETURN_VALUE
Iteration == \/ GET_ITER \/ FOR_ITER_range \/ FOR_ITER_completed \/ resume_generator
             \/ FOR_ITER_error \/ YIELD_VALUE \/ YIELD_outside
Exceptions == \/ SETUP_EXCEPT \/ POP_EXCEPT \/ FinallyMarker \/ LOAD_EXCEPTION
              \/ RAISE_again \/ RAISE_value \/ RAISE_assertion
Imports   == IMPORT_cached \/ IMPORT_missing \/ IMPORT_load
Returns   == run_returns \/ import_returns \/ dunder_returns
Aborts    == StackPanic \/ OutOfBounds

Step == \/ Namespaces \/ Operands \/ Jumps \/ Calls \/ Iteration \/ Exceptions
        \/ Imports \/ Returns \/ Aborts

Terminated == status # "running" /\ UNCHANGED vars
Next == Step \/ Terminated

Spec     == Init /\ [][Next]_vars
FairSpec == Spec /\ WF_vars(Step)

=============================================================================
