---------------------------- MODULE VMProperties ------------------------------
(***************************************************************************)
(* What the interpreter of VM promises.  The first part holds of every code *)
(* table, the second of those that are Balanced, which is what compile_try  *)
(* makes of scripts that never jump out of a try body; the last part holds  *)
(* of the scripts of a run, as the run says.                                *)
(***************************************************************************)
EXTENDS VM, FiniteSets

ASSUME StackAssumption == MAX_STACK \in Nat

-------------------------------------------------------------------------------
(* The code objects of functions: what some MAKE_FUNCTION names. *)
FunctionCode ==
  {c \in 1..Len(code_objects) :
     \E d \in DOMAIN code_objects : \E k \in DOMAIN code_objects[d].instructions :
       code_objects[d].instructions[k][1] = "MAKE_FUNCTION"
       /\ code_objects[d].instructions[k][2] = c}

(* The values there are: those that refer to the heap refer to what is there,
   and what can be called has the code of a function.                        *)
Value ==
  Literals
  \cup ({"exc", "exctype"} \X ExcTypes)
  \cup ({"builtin"} \X BuiltinFns)
  \cup ({"func"} \X FunctionCode \X (0..Len(modules)))
  \cup ({"class"} \X (FunctionCode \cup {0}) \X (FunctionCode \cup {0}) \X (0..Len(modules)))
  \cup ({"inst"} \X (FunctionCode \cup {0}) \X (0..Len(modules)))
  \cup ({"gen"} \X (1..Len(generators)))
  \cup ({"iter"} \X (1..Len(iters)))
  \cup ({"module"} \X (1..Len(modules)))

Frames ==
  [code : 1..Len(code_objects), ip : Nat \ {0},
   stack : [1..MAX_STACK -> Value], sp : 0..MAX_STACK, locals : [Names -> Value],
   gen : 0..Len(generators), init : Value \cup {Unset}, module : 0..Len(modules)]
Handlers == [handler_ip : Nat \ {0}, frame_index : Nat \ {0}, stack_depth : 0..MAX_STACK]
Activations == [kind : {"run", "import", "str", "print"}, target : Nat,
                module : 0..Len(modules)]
ActivationOK(a) ==
  LET act == activations[a] IN
  /\ act.kind = "run" <=> a = 1
  /\ act.kind # "run" => act.target # 0
  /\ act.kind = "import" => act.module # 0
GeneratorObjects ==
  [code : 1..Len(code_objects), ip : Nat \ {0}, stack : [1..MAX_STACK -> Value],
   sp : 0..MAX_STACK, locals : [Names -> Value],
   state : {"Created", "Suspended", "Running", "Completed"}]
Generators ==     \* one that is suspended has room for the value of its yield
  {gen \in GeneratorObjects : gen.state = "Suspended" => gen.sp < MAX_STACK}
Modules == [code : 1..Len(code_objects), initialized : BOOLEAN,
            globals : [Names -> Value \cup {Unset}]]

(* No reference dangles: every value in a frame, a namespace, a suspended
   generator or the output refers to an object the heap holds.              *)
TypeOK ==
  /\ IsProgram(code_objects)
  /\ frames \in Seq(Frames)
  /\ exception_stack \in Seq(Handlers)
  /\ current_exception \in ({"exc"} \X ExcTypes) \cup {Unset}
  /\ activations \in Seq(Activations) /\ activations # << >>
  /\ \A a \in 1..Len(activations) : ActivationOK(a)
  /\ generators \in Seq(Generators)
  /\ iters \in Seq([current : Int, stop : Int])
  /\ modules \in Seq(Modules)
  /\ sys_modules \in [1..Len(code_objects) -> 0..Len(modules)]
  /\ globals \in [Names -> Value \cup {Unset}]
  /\ output \in Seq(Value)
  /\ status \in {"running", "done", "error", "panic"}

-------------------------------------------------------------------------------
(* True of every code table. *)

InstrAt(c, k) == code_objects[c].instructions[k]
OpAt(c, k)    == InstrAt(c, k)[1]
WaitsAt(f, ops) == /\ f.ip - 1 \in DOMAIN code_objects[f.code].instructions
                   /\ OpAt(f.code, f.ip - 1) \in ops

Pushers(gen) == IF gen # 0 THEN {"FOR_ITER"} ELSE {"CALL_FUNCTION", "IMPORT_NAME"}

(* Every frame but the last waits right behind the instruction that pushed the
   frame above it: a generator's behind the FOR_ITER that resumed it, which is
   what lets RETURN_VALUE send the caller two instructions back.            *)
CallersWait ==
  \A i \in 1..Len(frames) - 1 : WaitsAt(frames[i], Pushers(frames[i + 1].gen))

(* The calls of execute_until_depth nest as their frames do, and one that has
   not fallen to its target depth still has its caller waiting at the opcode
   that started it.                                                         *)
ActivationsNested ==
  \A a \in 2..Len(activations) :
    LET act == activations[a] IN
    /\ activations[a - 1].target < act.target
    /\ act.target < Len(frames) =>
         WaitsAt(frames[act.target], IF act.kind = "import" THEN {"IMPORT_NAME"}
                                     ELSE {"CALL_FUNCTION"})

(* A module's body is code of its own: compile_extending makes it anew, and no
   MAKE_FUNCTION names it.                                                   *)
ModuleCode ==
  {c \in 1..Len(code_objects) :
     \E d \in DOMAIN code_objects : \E k \in DOMAIN code_objects[d].instructions :
       code_objects[d].instructions[k][1] = "IMPORT_NAME"
       /\ code_objects[d].instructions[k][2] = c}
BodiesApart == ModuleCode \cap (FunctionCode \cup {1}) = {}

(* A module is loaded once: whatever order imports come in, and whether or not
   a body failed, there is one module object for a file, the cache knows it
   and at most one frame runs its body.                                     *)
BodyFrames(m) == {i \in 1..Len(frames) : frames[i].code = modules[m].code}
LoadedOnce ==
  /\ BodiesApart
  /\ \A m \in 1..Len(modules) :
       /\ sys_modules[modules[m].code] = m
       /\ Cardinality(BodyFrames(m)) <= 1
       /\ \A i \in BodyFrames(m) : frames[i].module = m

(* The flag of a module says whether its import is still under way. *)
InitializedAfterImport ==
  \A m \in 1..Len(modules) :
    modules[m].initialized <=> \A a \in 1..Len(activations) :
      activations[a].kind = "import" => activations[a].module # m

-------------------------------------------------------------------------------
(* Balanced code.  The try depth of an address is the number of try bodies
   around it, counted as the instructions stand in the code.                *)
Before(c, k, op) == {j \in 1..k - 1 : OpAt(c, j) = op}
TryDepth(c, k) == Cardinality(Before(c, k, "SETUP_EXCEPT")) - Cardinality(Before(c, k, "POP_EXCEPT"))

Targets == {"JUMP", "JUMP_IF_FALSE", "JUMP_IF_TRUE", "FOR_ITER", "SETUP_EXCEPT"}
Leaves  == {"RETURN_VALUE", "YIELD_VALUE", "HALT"}
NoHalt(c) == \A k \in DOMAIN code_objects[c].instructions : OpAt(c, k) # "HALT"

(* Jumps stay at their depth, no try body is left but by its POP_EXCEPT, a
   FOR_ITER follows the load of its iterator, functions do not end in HALT. *)
BalancedAt(c, k) ==
  LET op == OpAt(c, k)  arg == InstrAt(c, k)[2]  size == Len(code_objects[c].instructions) IN
  /\ TryDepth(c, k) >= IF op = "POP_EXCEPT" THEN 1 ELSE 0
  /\ op \in Leaves => TryDepth(c, k) = 0
  /\ op \in Targets => arg \in 1..size /\ TryDepth(c, arg) = TryDepth(c, k)
  /\ op = "FOR_ITER" => k > 1 /\ OpAt(c, k - 1) \in {"LOAD_FAST", "LOAD_GLOBAL"}
  /\ op \in {"MAKE_FUNCTION", "BUILD_CLASS"} => NoHalt(arg)
  /\ op \notin {"RETURN_VALUE", "HALT", "JUMP", "RAISE"} => k < size
Balanced == \A c \in DOMAIN code_objects :
              /\ Len(code_objects[c].instructions) > 0
              /\ \A k \in DOMAIN code_objects[c].instructions : BalancedAt(c, k)

(* Sized code: each address has a height, the number of operands on the stack
   whenever control gets there.  An instruction finds what it pops, falls
   through or jumps to an address of the height it leaves, a function returns
   the only operand, and try bodies and the ends of modules are between
   statements; the body of a module has no return.                           *)
Puts(op) == IF \/ op \in {"ADD", "FLOOR_DIV", "LSHIFT", "COMPARE_EQ", "LOAD_ATTR", "BUILD_CLASS",
                          "CALL_FUNCTION", "GET_ITER", "FOR_ITER", "YIELD_VALUE", "IMPORT_NAME"}
               \/ Grows(op)
            THEN 1 ELSE 0
NoReturn(c) == \A k \in DOMAIN code_objects[c].instructions : OpAt(c, k) # "RETURN_VALUE"

SizedAt(c, k, height) ==
  LET op == OpAt(c, k)  arg == InstrAt(c, k)[2] IN
  /\ height[k] >= Pops(op, arg)
  /\ op \notin {"RETURN_VALUE", "HALT", "JUMP", "RAISE"}
       => height[k + 1] = height[k] - Pops(op, arg) + Puts(op)
  /\ op \in {"JUMP", "SETUP_EXCEPT"} => height[arg] = height[k]
  /\ op \in {"JUMP_IF_FALSE", "JUMP_IF_TRUE", "FOR_ITER"} => height[arg] = height[k] - 1
  /\ op = "RETURN_VALUE" => height[k] = 1
  /\ op \in {"SETUP_EXCEPT", "POP_EXCEPT", "HALT"} => height[k] = 0
  /\ op = "IMPORT_NAME" /\ arg # 0 => NoReturn(arg)
Sized(heights) ==
  \A c \in DOMAIN code_objects :
    /\ heights[c] \in [DOMAIN code_objects[c].instructions -> 0..MAX_STACK]
    /\ heights[c][1] = 0
    /\ \A k \in DOMAIN code_objects[c].instructions : SizedAt(c, k, heights[c])

HandlerDepth(h) == TryDepth(frames[h.frame_index].code, h.handler_ip)
FrameDepth(i)   == TryDepth(frames[i].code, frames[i].ip)

(* The handler stack is the try bodies the running frames are in, outermost
   first: each handler belongs to a live frame that is still inside its try
   body, they are in the order of frames and of nesting, and none is missing.
   So raise_exception goes to the innermost try statement and POP_EXCEPT pops
   the handler of its own.                                                  *)
HandlersLive ==
  \A h \in 1..Len(exception_stack) :
    /\ exception_stack[h].frame_index <= Len(frames)
    /\ HandlerDepth(exception_stack[h]) < FrameDepth(exception_stack[h].frame_index)
HandlersInOrder ==
  \A g, h \in 1..Len(exception_stack) : g < h =>
    LET outer == exception_stack[g]  inner == exception_stack[h] IN
    \/ outer.frame_index < inner.frame_index
    \/ /\ outer.frame_index = inner.frame_index
       /\ HandlerDepth(outer) < HandlerDepth(inner)
HandlersComplete ==
  \A i \in 1..Len(frames) : \A d \in 0..FrameDepth(i) - 1 :
    \E h \in 1..Len(exception_stack) :
      exception_stack[h].frame_index = i /\ HandlerDepth(exception_stack[h]) = d
HandlerDiscipline == HandlersLive /\ HandlersInOrder /\ HandlersComplete

(* Every address the interpreter gets to in balanced code is in the code. *)
InBounds == \A i \in 1..Len(frames) : frames[i].ip \in DOMAIN code_objects[frames[i].code].instructions

-------------------------------------------------------------------------------
(* True of the scripts of the runs that check it. *)

(* No index in the interpreter goes out of bounds: no operand stack under- or
   overflows, and no handler or activation outlives its frame.              *)
NoPanic == status # "panic"

(* A statement leaves the operand stack as it found it: nothing is below the
   value a function returns, and a try statement or the end of a module finds
   the stack empty.                                                         *)
StackUsedUp ==
  status = "running" /\ Len(frames) > Activation.target /\ InCode =>
    /\ Instr[1] = "RETURN_VALUE" => frame.sp = 1
    /\ Instr[1] \in {"SETUP_EXCEPT", "POP_EXCEPT", "HALT"} => frame.sp = 0

(* A generator has a frame only while it is Running, and only one; and one that
   is suspended will go on right behind a yield.                            *)
GeneratorFrames ==
  /\ \A i \in 1..Len(frames) : frames[i].gen # 0 =>
       /\ generators[frames[i].gen].state = "Running"
       /\ \A j \in 1..i - 1 : frames[j].gen # frames[i].gen
  /\ \A g \in 1..Len(generators) : generators[g].state = "Suspended" =>
       OpAt(generators[g].code, generators[g].ip - 1) = "YIELD_VALUE"

(* A generator that is Running has a frame: none is lost half-way. *)
RunningHasFrame ==
  \A g \in 1..Len(generators) : generators[g].state = "Running" =>
    \E i \in 1..Len(frames) : frames[i].gen = g

(* A Completed generator stays so. *)
CompletedForGood ==
  [][\A g \in 1..Len(generators) : generators[g].state = "Completed" =>
       generators'[g].state = "Completed"]_vars

(* Code behind a yield finds the value of the yield expression on its stack. *)
ResumeContract ==
  status = "running" /\ frames # << >> /\ frame.gen # 0 /\ WaitsAt(frame, {"YIELD_VALUE"})
    => frame.sp > 0

(* What goes wrong elsewhere does not happen: no exception leaves the call of
   the dispatch loop that it is raised in, or a generator, and no generator is
   resumed that is Running, be it by its own body or after an exception.     *)
NoneCrossed   == Caught => Handler.frame_index > Activation.target
NoneAbandoned == Caught => \A i \in Handler.frame_index + 1..Len(frames) : frames[i].gen = 0
NoneReentered == resume_generator => generators[Top(0)[2]].state # "Running"
Contained     == [][NoneCrossed /\ NoneAbandoned /\ NoneReentered]_vars

(* Every script comes to an end. *)
Termination == <>(status # "running")

=============================================================================
