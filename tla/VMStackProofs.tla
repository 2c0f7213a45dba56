----------------------------- MODULE VMStackProofs ----------------------------
(***************************************************************************)
(* Generators and operand stacks.  A step moves the last frame inside its   *)
(* code, enters a new frame, leaves one by a return, a yield or a caught    *)
(* exception, or ends a call of the dispatch loop.                          *)
(*                                                                          *)
(* From this follow, first, what generators promise in any code as long as  *)
(* none is resumed that is Running, and, second, that in code where every   *)
(* address has a height the operand stacks are of that height, so that no   *)
(* index into one goes out of bounds.                                       *)
(***************************************************************************)
EXTENDS VMHandlerProofs

(* An instruction that stays in its frame goes on behind itself with what it
   leaves on the operand stack, or jumps and leaves nothing.                 *)
Falls(f) ==
  /\ Instr[1] \notin {"RETURN_VALUE", "HALT", "JUMP", "RAISE"}
  /\ f.ip = frame.ip + 1
  /\ f.sp = frame.sp - Pops(Instr[1], Arg) + Puts(Instr[1])
Leaps(f) ==
  /\ Instr[1] \in {"JUMP", "JUMP_IF_FALSE", "JUMP_IF_TRUE", "FOR_ITER"}
  /\ f.ip = Arg /\ f.sp = frame.sp - Pops(Instr[1], Arg)
Moves(f) == Continues(f, frame) /\ (Falls(f) \/ Leaps(f))

Executes == Dispatching /\ InCode /\ StackFits /\ frames # << >> /\ frame \in Frames
Shifts == /\ Executes /\ UNCHANGED code_objects
          /\ \E f : frames' = SetTop(f) /\ Moves(f)

(* The frame that a call or an import starts, and that of a generator. *)
Starts(f) == Instr[1] \in {"CALL_FUNCTION", "IMPORT_NAME"} /\ f.gen = 0 /\ f.ip = 1 /\ f.sp = 0
Resumes(f) ==
  LET gen == generators[f.gen] IN
  /\ resume_generator /\ Instr[1] = "FOR_ITER"
  /\ f.gen = Top(0)[2] /\ f.gen \in 1..Len(generators)
  /\ f.code = gen.code /\ f.ip = gen.ip
  /\ f.sp = gen.sp + IF gen.state = "Suspended" THEN 1 ELSE 0
Enters == /\ Executes /\ Pushes
          /\ frames'[Len(frames)].sp = frame.sp - Pops(Instr[1], Arg)
          /\ Starts(frames'[Len(frames) + 1]) \/ Resumes(frames'[Len(frames) + 1])

-------------------------------------------------------------------------------
(* What a step does to the frames. *)

(* Stack pointers of the frames that instructions make. *)
LEMMA PoppedSize ==
  ASSUME frame \in Frames, NEW n \in Int
  PROVE  Popped(n).sp = frame.sp - n /\ Popped(n).sp \in Int
  BY DEF Popped, Frames

LEMMA PushedSize ==
  ASSUME frame \in Frames, NEW n \in Int, NEW v
  PROVE  Pushed(n, v).sp = frame.sp - n + 1
  BY DEF Pushed, Frames

(* What the opcodes take off the stack, and whether they leave something. *)
Stays(op)    == op \notin {"RETURN_VALUE", "HALT", "JUMP", "RAISE"}
Takes(op, n) == Stays(op) /\ Pops(op, Arg) = n /\ n \in Int /\ Puts(op) = 1
Drops(op, n) == Stays(op) /\ Pops(op, Arg) = n /\ n \in Int /\ Puts(op) = 0

LEMMA Effects ==
  /\ Takes("LOAD_CONST", 0) /\ Takes("LOAD_FAST", 0) /\ Takes("LOAD_GLOBAL", 0)
  /\ Takes("LOAD_EXCEPTION", 0) /\ Takes("MAKE_FUNCTION", 0)
  /\ Takes("LOAD_ATTR", 1) /\ Takes("GET_ITER", 1) /\ Takes("FOR_ITER", 1)
  /\ Takes("ADD", 2) /\ Takes("FLOOR_DIV", 2) /\ Takes("LSHIFT", 2) /\ Takes("COMPARE_EQ", 2)
  /\ Takes("BUILD_CLASS", 2) /\ Takes("IMPORT_NAME", 2)
  /\ Arg \in Nat => Takes("CALL_FUNCTION", Arg + 1)
  /\ Drops("STORE_FAST", 1) /\ Drops("STORE_GLOBAL", 1) /\ Drops("POP_TOP", 1)
  /\ Drops("JUMP_IF_FALSE", 1) /\ Drops("JUMP_IF_TRUE", 1)
  /\ Drops("SETUP_EXCEPT", 0) /\ Drops("POP_EXCEPT", 0)
  /\ Drops("SETUP_FINALLY", 0) /\ Drops("END_FINALLY", 0)
  /\ Pops("JUMP", Arg) = 0 /\ Pops("RETURN_VALUE", Arg) = 1 /\ Pops("YIELD_VALUE", Arg) = 1
  BY DEF Stays, Takes, Drops, Pops, Puts, Grows

LEMMA SetTopLength ==
  ASSUME TypeOK, frames # << >>, NEW f
  PROVE  /\ Len(SetTop(f)) = Len(frames)
         /\ \A i \in 1..Len(frames) : SetTop(f)[i] = IF i = Len(frames) THEN f ELSE frames[i]
<1>1. frames \in Seq(Frames) /\ Len(frames) \in 1..Len(frames)
  BY EmptySeq, LenProperties DEF TypeOK
<1>2. QED
  BY <1>1, Replaced DEF SetTop

LEMMA Fetched ==
  ASSUME TypeOK, NEW op, Fetch(op)
  PROVE  Executes /\ Instr[1] = op
  BY FetchFacts DEF Fetch, Executes

(* A push, a pop and a jump of what the opcode takes are shifts. *)
LEMMA PushShifts ==
  ASSUME TypeOK, NEW op, Fetch(op), NEW n, Takes(op, n), NEW v,
         frames' = SetTop(Pushed(n, v)), UNCHANGED code_objects
  PROVE  Shifts
<1>1. Executes /\ Instr[1] = op /\ frame \in Frames
  BY Fetched DEF Executes
<1>2. PICK f : f = Pushed(n, v)
  OBVIOUS
<1>3. Continues(f, frame) /\ f.ip = frame.ip + 1 /\ f.sp = frame.sp - n + 1
  BY <1>1, <1>2, PushedFields, PushedSize DEF Takes
<1>4. Moves(f) /\ frames' = SetTop(f)
  BY <1>1, <1>2, <1>3 DEF Moves, Falls, Takes, Stays
<1>5. QED
  BY <1>1, <1>4 DEF Shifts

LEMMA DropShifts ==
  ASSUME TypeOK, NEW op, Fetch(op), NEW n, Drops(op, n),
         NEW f, Continues(f, frame), f.ip = frame.ip + 1, f.sp = frame.sp - n, f.sp \in Int,
         frames' = SetTop(f), UNCHANGED code_objects
  PROVE  Shifts
<1>1. Executes /\ Instr[1] = op
  BY Fetched
<1>2. f.sp = frame.sp - Pops(op, Arg) + Puts(op)
  BY DEF Drops
<1>3. QED
  BY <1>1, <1>2 DEF Shifts, Moves, Falls, Drops, Stays

LEMMA PopShifts ==
  ASSUME TypeOK, NEW op, Fetch(op), NEW n, Drops(op, n),
         frames' = SetTop(Popped(n)), UNCHANGED code_objects
  PROVE  Shifts
<1>1. frame \in Frames
  BY FetchFacts
<1>2. /\ Continues(Popped(n), frame) /\ Popped(n).ip = frame.ip + 1
      /\ Popped(n).sp = frame.sp - n /\ Popped(n).sp \in Int
  BY <1>1, PoppedFields, PoppedSize DEF Drops
<1>3. QED
  BY <1>2, DropShifts

LEMMA JumpShifts ==
  ASSUME TypeOK, NEW op \in {"JUMP", "JUMP_IF_FALSE", "JUMP_IF_TRUE", "FOR_ITER"}, Fetch(op),
         NEW f, Continues(f, frame), f.ip = Arg, f.sp = frame.sp - Pops(op, Arg),
         frames' = SetTop(f), UNCHANGED code_objects
  PROVE  Shifts
  BY Fetched DEF Shifts, Moves, Leaps

(* What else may come of an instruction: an error, or an exception. *)
Stands == UNCHANGED <<code_objects, frames>>
LEMMA FailStands ==
  ASSUME Fail
  PROVE  Stands
  BY DEF Fail, Stands, program

LEMMA RaiseStands ==
  ASSUME NEW exc, raise_exception(exc)
  PROVE  Stands \/ Caught
  BY DEF raise_exception, Dangling, Uncaught, Stands, program

LEMMA HandleErrorStands ==
  ASSUME NEW t, try_handle_error(t)
  PROVE  Stands \/ Caught
  BY FailStands, RaiseStands DEF try_handle_error

LEMMA AdvancePushes ==
  ASSUME TypeOK, NEW op, Fetch(op), NEW n, Takes(op, n), NEW v, Advance(Pushed(n, v))
  PROVE  Shifts
  BY PushShifts DEF Advance, Goto, program

LEMMA DeliverShifts ==
  ASSUME TypeOK, NEW op, Fetch(op), NEW n, Takes(op, n), NEW result, Deliver(n, result)
  PROVE  Shifts \/ Stands \/ Caught
  BY HandleErrorStands, AdvancePushes DEF Deliver

LEMMA NamespacesShift ==
  ASSUME TypeOK, Namespaces
  PROVE  Shifts \/ Stands \/ Caught
<1>1. CASE LOAD_CONST
  BY <1>1, Effects, AdvancePushes DEF LOAD_CONST
<1>2. CASE LOAD_FAST
  BY <1>2, Effects, AdvancePushes DEF LOAD_FAST
<1>3. CASE STORE_FAST
  <2>1. /\ Fetch("STORE_FAST") /\ frame \in Frames
        /\ frames' = SetTop([Popped(1) EXCEPT !.locals[Arg] = Top(0)]) /\ UNCHANGED code_objects
    BY <1>3, FetchFacts DEF STORE_FAST, Advance, Goto, program
  <2>2. PICK f : f = [Popped(1) EXCEPT !.locals[Arg] = Top(0)]
    OBVIOUS
  <2>3. /\ Continues(f, frame) /\ f.ip = frame.ip + 1 /\ f.sp = frame.sp - 1
        /\ f.sp \in Int
    BY <2>1, <2>2 DEF Popped, Frames, Continues
  <2>4. QED
    BY <2>1, <2>2, <2>3, Effects, DropShifts
<1>4. CASE LOAD_GLOBAL
  BY <1>4, Effects, AdvancePushes, HandleErrorStands DEF LOAD_GLOBAL
<1>5. CASE STORE_GLOBAL
  BY <1>5, Effects, PopShifts DEF STORE_GLOBAL, program
<1>6. QED
  BY <1>1, <1>2, <1>3, <1>4, <1>5 DEF Namespaces

LEMMA OperandsShift ==
  ASSUME TypeOK, Operands
  PROVE  Shifts \/ Stands \/ Caught
<1>1. CASE ADD
  BY <1>1, Effects, DeliverShifts DEF ADD
<1>2. CASE FLOOR_DIV
  BY <1>2, Effects, DeliverShifts DEF FLOOR_DIV
<1>3. CASE LSHIFT
  BY <1>3, Effects, AdvancePushes, FailStands DEF LSHIFT
<1>4. CASE COMPARE_EQ
  BY <1>4, Effects, AdvancePushes DEF COMPARE_EQ
<1>5. CASE POP_TOP
  BY <1>5, Effects, PopShifts DEF POP_TOP, Advance, Goto, program
<1>6. CASE LOAD_ATTR
  BY <1>6, Effects, DeliverShifts DEF LOAD_ATTR
<1>7. QED
  BY <1>1, <1>2, <1>3, <1>4, <1>5, <1>6 DEF Operands

LEMMA JumpsShift ==
  ASSUME TypeOK, Jumps
  PROVE  Shifts
<1>1. CASE JUMP
  <2>1. /\ Fetch("JUMP") /\ frame \in Frames
        /\ frames' = SetTop([frame EXCEPT !.ip = Arg]) /\ UNCHANGED code_objects
    BY <1>1, FetchFacts DEF JUMP, Advance, Goto, program
  <2>2. PICK f : f = [frame EXCEPT !.ip = Arg]
    OBVIOUS
  <2>3. Continues(f, frame) /\ f.ip = Arg /\ f.sp = frame.sp /\ frame.sp - 0 = frame.sp
    BY <2>1, <2>2 DEF Frames, Continues
  <2>4. QED
    BY <2>1, <2>2, <2>3, Effects, JumpShifts
<1>2. ASSUME NEW op \in {"JUMP_IF_FALSE", "JUMP_IF_TRUE"}, Fetch(op), NEW ip,
             ip \in {Arg, Popped(1).ip}, Advance([Popped(1) EXCEPT !.ip = ip])
      PROVE  Shifts
  <2>1. PICK f : f = [Popped(1) EXCEPT !.ip = ip]
    OBVIOUS
  <2>2. frame \in Frames /\ frames' = SetTop(f) /\ UNCHANGED code_objects
    BY <1>2, <2>1, FetchFacts DEF Advance, Goto, program
  <2>3. /\ Continues(f, frame) /\ f.ip = ip /\ f.sp = frame.sp - 1 /\ f.sp \in Int
        /\ Popped(1).ip = frame.ip + 1
    BY <2>1, <2>2 DEF Popped, Frames, Continues
  <2>4. Drops(op, 1) /\ Pops(op, Arg) = 1
    BY Effects DEF Drops
  <2>5. CASE ip = Arg
    BY <1>2, <2>2, <2>3, <2>4, <2>5, JumpShifts
  <2>6. CASE ip = Popped(1).ip
    BY <1>2, <2>2, <2>3, <2>4, <2>6, DropShifts
  <2>7. QED
    BY <1>2, <2>5, <2>6
<1>3. CASE JUMP_IF_FALSE
  <2> DEFINE ip == IF is_truthy(Top(0)) THEN Popped(1).ip ELSE Arg
  <2>1. Fetch("JUMP_IF_FALSE") /\ Advance([Popped(1) EXCEPT !.ip = ip]) /\ ip \in {Arg, Popped(1).ip}
    BY <1>3 DEF JUMP_IF_FALSE
  <2> HIDE DEF ip
  <2>2. QED
    BY <1>2, <2>1
<1>4. CASE JUMP_IF_TRUE
  <2> DEFINE ip == IF is_truthy(Top(0)) THEN Arg ELSE Popped(1).ip
  <2>1. Fetch("JUMP_IF_TRUE") /\ Advance([Popped(1) EXCEPT !.ip = ip]) /\ ip \in {Arg, Popped(1).ip}
    BY <1>4 DEF JUMP_IF_TRUE
  <2> HIDE DEF ip
  <2>2. QED
    BY <1>2, <2>1
<1>5. QED
  BY <1>1, <1>3, <1>4 DEF Jumps

LEMMA ExceptionsShift ==
  ASSUME TypeOK, Exceptions
  PROVE  Shifts \/ Stands \/ Caught
<1>1. CASE SETUP_EXCEPT
  BY <1>1, Effects, PopShifts DEF SETUP_EXCEPT, program
<1>2. CASE POP_EXCEPT
  BY <1>2, Effects, PopShifts DEF POP_EXCEPT, program
<1>3. CASE FinallyMarker
  BY <1>3, Effects, PopShifts DEF FinallyMarker, Advance, Goto, program
<1>4. CASE LOAD_EXCEPTION
  BY <1>4, Effects, AdvancePushes DEF LOAD_EXCEPTION
<1>5. CASE RAISE_again \/ RAISE_value \/ RAISE_assertion
  BY <1>5, FailStands, RaiseStands DEF RAISE_again, RAISE_value, RAISE_assertion
<1>6. QED
  BY <1>1, <1>2, <1>3, <1>4, <1>5 DEF Exceptions

(* A frame that is pushed. *)
LEMMA PushEnters ==
  ASSUME TypeOK, NEW op, Fetch(op), NEW n \in Int, n = Pops(op, Arg), NEW f,
         Starts(f) \/ Resumes(f), Entered(f),
         frames' = Append(SetTop(Popped(n)), f), UNCHANGED code_objects
  PROVE  Enters
<1>1. /\ Executes /\ Instr[1] = op /\ frame \in Frames
      /\ frames \in Seq(Frames) /\ Len(frames) \in 1..Len(frames)
  BY Fetched, FetchFacts, LenProperties DEF TypeOK
<1>2. Pushes
  BY FrameIsPushed
<1> DEFINE below == SetTop(Popped(n))
<1>3. /\ Len(below) = Len(frames) /\ below \in Seq(Frames \cup {Popped(n)})
      /\ below[Len(frames)] = Popped(n)
  BY <1>1, Replaced DEF SetTop
<1>4. frames' = Append(below, f)
  OBVIOUS
<1> HIDE DEF below
<1>5. frames'[Len(frames)] = Popped(n) /\ frames'[Len(frames) + 1] = f
  BY <1>1, <1>3, <1>4, Appended
<1>6. Popped(n).sp = frame.sp - n
  BY <1>1, PoppedSize
<1>7. QED
  BY <1>1, <1>2, <1>5, <1>6 DEF Enters

LEMMA CallEnters ==
  ASSUME TypeOK, NEW op, Fetch(op), NEW n \in Int, n = Pops(op, Arg),
         NEW c, NEW locals, NEW m, NEW init, UNCHANGED code_objects,
         \/ op = "CALL_FUNCTION" /\ c \in FunctionCode
         \/ op = "IMPORT_NAME" /\ c = Arg /\ m = Len(modules) + 1,
         frames' = Append(SetTop(Popped(n)), NewFrame(c, locals, m, init))
  PROVE  Enters
<1> DEFINE f == NewFrame(c, locals, m, init)
<1>1. f.gen = 0 /\ f.code = c /\ f.ip = 1 /\ f.sp = 0 /\ f.module = m
  BY DEF NewFrame
<1> HIDE DEF f
<1>2. Entered(f) /\ Starts(f)
  BY <1>1 DEF Entered, Starts, Fetch
<1>3. frames' = Append(SetTop(Popped(n)), f)
  BY DEF f
<1>4. QED
  BY <1>2, <1>3, PushEnters

LEMMA CallPops ==
  ASSUME TypeOK, Fetch("CALL_FUNCTION")
  PROVE  /\ Arg \in Nat /\ Arg + 1 \in Int /\ Pops("CALL_FUNCTION", Arg) = Arg + 1
         /\ Takes("CALL_FUNCTION", Arg + 1)
         /\ Arg = 1 => Takes("CALL_FUNCTION", 2) /\ Pops("CALL_FUNCTION", Arg) = 2
<1>1. Arg \in Nat
  BY CallFacts
<1>2. Takes("CALL_FUNCTION", Arg + 1)
  BY <1>1, Effects
<1>3. QED
  BY <1>1, <1>2 DEF Takes

LEMMA CallsShift ==
  ASSUME TypeOK, Calls
  PROVE  Shifts \/ Stands \/ Caught \/ Enters \/ RETURN_VALUE
<1>1. CASE MAKE_FUNCTION
  BY <1>1, Effects, AdvancePushes DEF MAKE_FUNCTION
<1>2. CASE BUILD_CLASS
  BY <1>2, Effects, AdvancePushes DEF BUILD_CLASS
<1>3. CASE CallFunction
  <2>1. Fetch("CALL_FUNCTION") /\ Callee[2] \in FunctionCode
    BY <1>3, CallFacts, ValueElim DEF CallFunction, Calling
  <2>2. QED
    BY <1>3, <2>1, CallPops, CallEnters DEF CallFunction, Enter, Goto, program
<1>4. CASE CallGeneratorFunction
  BY <1>4, CallPops, PushShifts DEF CallGeneratorFunction, Calling, program
<1>5. CASE CallClass
  <2> DEFINE inst == Inst(Callee[3], Callee[4])
             init == Callee[2]
             args == [i \in 1..Arg + 1 |-> IF i = 1 THEN inst ELSE Args[i - 1]]
             locals == Bind(init, args)
  <2>1. /\ Fetch("CALL_FUNCTION")
        /\ \/ Advance(Pushed(Arg + 1, inst))
           \/ try_handle_error("RuntimeError")
           \/ init # 0 /\ Enter(NewFrame(init, locals, Callee[4], inst))
    BY <1>5 DEF CallClass, Calling
  <2>2. init # 0 => init \in FunctionCode
    BY <1>5, CallFacts, ValueElim DEF CallClass, Calling
  <2> HIDE DEF inst, init, locals
  <2>3. CASE Advance(Pushed(Arg + 1, inst))
    BY <2>1, <2>3, CallPops, AdvancePushes
  <2>4. CASE init # 0 /\ Enter(NewFrame(init, locals, Callee[4], inst))
    BY <2>1, <2>2, <2>4, CallPops, CallEnters DEF Enter, Goto, program
  <2>5. QED
    BY <2>1, <2>3, <2>4, HandleErrorStands
<1>6. CASE CallException
  BY <1>6, CallPops, AdvancePushes DEF CallException
<1>7. CASE CallRange
  <2>1. /\ Fetch("CALL_FUNCTION") /\ Arg = 1
        /\ \/ try_handle_error("RuntimeError")
           \/ frames' = SetTop(Pushed(2, Iter(Len(iters) + 1))) /\ UNCHANGED code_objects
    BY <1>7 DEF CallRange, Calling, program
  <2>2. QED
    BY <2>1, CallPops, PushShifts, HandleErrorStands
<1>8. CASE CallFormat
  <2> DEFINE v == IF Callee[2] = "print" THEN None ELSE Str_
  <2>1. /\ Fetch("CALL_FUNCTION") /\ Arg = 1 /\ UNCHANGED code_objects
        /\ frames' = SetTop(Pushed(2, v))
    BY <1>8 DEF CallFormat, Calling, Formats, program
  <2> HIDE DEF v
  <2>2. QED
    BY <2>1, CallPops, PushShifts
<1>9. CASE CallDunder
  <2> DEFINE inst == Top(0)
             method == inst[2]
             locals == Bind(method, <<inst>>)
  <2>1. /\ Fetch("CALL_FUNCTION") /\ Arg = 1
        /\ \/ Fail
           \/ /\ frames' = Append(SetTop(Popped(2)), NewFrame(method, locals, inst[3], Unset))
              /\ UNCHANGED code_objects
    BY <1>9 DEF CallDunder, Calling, Formats, program
  <2>2. method \in FunctionCode
    BY <1>9, CallFacts, ValueElim DEF CallDunder, Calling, HasStr
  <2> HIDE DEF inst, method, locals
  <2>3. QED
    BY <2>1, <2>2, CallPops, FailStands, CallEnters
<1>10. CASE CallError
  BY <1>10, FailStands DEF CallError
<1>11. QED
  BY <1>1, <1>2, <1>3, <1>4, <1>5, <1>6, <1>7, <1>8, <1>9, <1>10 DEF Calls

LEMMA ImportsShift ==
  ASSUME TypeOK, Imports
  PROVE  Shifts \/ Stands \/ Enters
<1>1. CASE IMPORT_cached
  BY <1>1, Effects, AdvancePushes DEF IMPORT_cached
<1>2. CASE IMPORT_missing
  BY <1>2, FailStands DEF IMPORT_missing
<1>3. CASE IMPORT_load
  <2>1. Pops("IMPORT_NAME", Arg) = 2
    BY Effects DEF Takes
  <2>2. QED
    BY <1>3, <2>1, CallEnters DEF IMPORT_load, program
<1>4. QED
  BY <1>1, <1>2, <1>3 DEF Imports

LEMMA ResumeEnters ==
  ASSUME TypeOK, resume_generator
  PROVE  Enters /\ Resumes(frames'[Len(frames) + 1])
<1> DEFINE g   == Top(0)[2]
           gen == generators[g]
           f   == [code |-> gen.code, ip |-> gen.ip, stack |-> gen.stack, sp |-> gen.sp,
                   locals |-> gen.locals, gen |-> g, init |-> Unset, module |-> 0]
           new == IF gen.state = "Suspended" THEN PushOn(f, None) ELSE f
<1>1. /\ Fetch("FOR_ITER") /\ Top(0)[1] = "gen" /\ UNCHANGED code_objects
      /\ frames' = Append(SetTop(Popped(1)), new)
  BY DEF resume_generator, program
<1>2. g \in 1..Len(generators) /\ Instr[1] = "FOR_ITER"
  BY <1>1, ForIterFacts, ValueElim DEF Fetch
<1>3. gen \in Generators
  BY <1>2, ElementOfSeq DEF TypeOK
<1>4. /\ new.gen = g /\ new.code = gen.code /\ new.ip = gen.ip
      /\ new.sp = gen.sp + IF gen.state = "Suspended" THEN 1 ELSE 0
  BY <1>3 DEF PushOn, Generators, GeneratorObjects
<1> HIDE DEF new
<1>5. Entered(new) /\ Resumes(new)
  BY <1>1, <1>2, <1>4 DEF Entered, Resumes
<1>6. Pops("FOR_ITER", Arg) = 1 /\ 1 \in Int
  BY Effects DEF Takes
<1>7. Enters
  BY <1>1, <1>5, <1>6, PushEnters
<1>8. frames'[Len(frames) + 1] = new
  <2>1. /\ frames \in Seq(Frames) /\ Len(frames) \in 1..Len(frames)
    BY <1>1, FetchFacts, LenProperties DEF TypeOK
  <2>2. /\ Len(SetTop(Popped(1))) = Len(frames)
        /\ SetTop(Popped(1)) \in Seq(Frames \cup {Popped(1)})
    BY <2>1, Replaced DEF SetTop
  <2>3. QED
    BY <1>1, <2>2, Appended
<1>9. QED
  BY <1>5, <1>7, <1>8

LEMMA IterationShifts ==
  ASSUME TypeOK, Iteration
  PROVE  Shifts \/ Stands \/ Enters \/ YIELD_VALUE
<1>1. CASE GET_ITER
  BY <1>1, Effects, AdvancePushes, FailStands DEF GET_ITER
<1>2. ASSUME Fetch("FOR_ITER"), Advance([Popped(1) EXCEPT !.ip = Arg])
      PROVE  Shifts
  <2>1. PICK f : f = [Popped(1) EXCEPT !.ip = Arg]
    OBVIOUS
  <2>2. frame \in Frames /\ frames' = SetTop(f) /\ UNCHANGED code_objects
    BY <1>2, <2>1, FetchFacts DEF Advance, Goto, program
  <2>3. Continues(f, frame) /\ f.ip = Arg /\ f.sp = frame.sp - 1
    BY <2>1, <2>2 DEF Popped, Frames, Continues
  <2>4. Pops("FOR_ITER", Arg) = 1
    BY Effects DEF Takes
  <2>5. QED
    BY <1>2, <2>2, <2>3, <2>4, JumpShifts
<1>3. CASE FOR_ITER_range
  <2> DEFINE i == Top(0)[2]
  <2>1. /\ Fetch("FOR_ITER")
        /\ \/ Advance([Popped(1) EXCEPT !.ip = Arg])
           \/ frames' = SetTop(Pushed(1, Int_(iters[i].current))) /\ UNCHANGED code_objects
    BY <1>3 DEF FOR_ITER_range, program
  <2> HIDE DEF i
  <2>2. QED
    BY <1>2, <2>1, Effects, PushShifts
<1>4. CASE FOR_ITER_completed
  BY <1>2, <1>4 DEF FOR_ITER_completed
<1>5. CASE FOR_ITER_error \/ YIELD_outside
  BY <1>5, FailStands DEF FOR_ITER_error, YIELD_outside
<1>6. QED
  BY <1>1, <1>3, <1>4, <1>5, ResumeEnters DEF Iteration

LEMMA StepKinds ==
  ASSUME TypeOK, [Next]_vars
  PROVE  \/ Stands \/ Shifts \/ Enters \/ Caught \/ RETURN_VALUE \/ YIELD_VALUE
         \/ import_returns \/ dunder_returns
<1>1. Aborts \/ run_returns \/ UNCHANGED vars => Stands
  BY FailStands DEF Aborts, StackPanic, OutOfBounds, run_returns, vars, program, Stands
<1>2. QED
  BY <1>1, NamespacesShift, OperandsShift, JumpsShift, CallsShift, IterationShifts,
     ExceptionsShift, ImportsShift DEF Next, Step, Returns, Terminated

-------------------------------------------------------------------------------
(* Leaving a frame. *)

LEMMA LeftFrames ==
  ASSUME TypeOK, Len(frames) \in Nat \ {0}, NEW back,
         frames' = IF AllButLast(frames) = << >> THEN AllButLast(frames)
                   ELSE [AllButLast(frames) EXCEPT ![Len(AllButLast(frames))] = back]
  PROVE  /\ Len(frames') = Len(frames) - 1
         /\ \A i \in 1..Len(frames) - 1 :
              frames'[i] = IF i = Len(frames) - 1 THEN back ELSE frames[i]
<1> DEFINE below == AllButLast(frames)
<1>1. /\ below \in Seq(Frames) /\ Len(below) = Len(frames) - 1
      /\ \A i \in 1..Len(frames) - 1 : below[i] = frames[i]
  BY EmptySeq, AllButLastType DEF TypeOK
<1>2. frames' = IF below = << >> THEN below ELSE [below EXCEPT ![Len(below)] = back]
  OBVIOUS
<1> HIDE DEF below
<1>3. CASE below = << >>
  <2>1. Len(frames') = 0 /\ Len(frames) = 1
    BY <1>1, <1>2, <1>3
  <2>2. 1..Len(frames) - 1 = {}
    BY <2>1
  <2>3. QED
    BY <2>1, <2>2
<1>4. CASE below # << >>
  <2>1. Len(below) \in 1..Len(below)
    BY <1>1, <1>4, EmptySeq
  <2>2. /\ Len(frames') = Len(below)
        /\ \A i \in 1..Len(below) : frames'[i] = IF i = Len(below) THEN back ELSE below[i]
    BY <1>1, <1>2, <1>4, <2>1, Replaced
  <2>3. QED
    BY <1>1, <2>2
<1>5. QED
  BY <1>3, <1>4

(* A return or a yield drops the last frame, and hands on to the one below. *)
Hands(f) == LET caller == frames[Len(frames) - 1] IN
  IF frame.gen # 0 /\ Instr[1] = "RETURN_VALUE"
  THEN Continues(f, caller) /\ f.ip = (IF caller.ip > 2 THEN caller.ip - 2 ELSE 1) /\ f.sp = caller.sp
  ELSE Continues(f, caller) /\ f.ip = caller.ip /\ f.sp = caller.sp + 1
LeavesFrame ==
  /\ Executes /\ Instr[1] \in {"RETURN_VALUE", "YIELD_VALUE"} /\ UNCHANGED code_objects
  /\ Instr[1] = "YIELD_VALUE" => frame.gen # 0
  /\ Len(frames) \in Nat \ {0} /\ Len(frames') = Len(frames) - 1
  /\ \A i \in 1..Len(frames) - 2 : frames'[i] = frames[i]
  /\ Len(frames) > 1 => Hands(frames'[Len(frames) - 1])
  /\ UNCHANGED <<exception_stack, activations, status>>

LEMMA ReturnLeaves ==
  ASSUME TypeOK, RETURN_VALUE
  PROVE  LeavesFrame /\ Instr[1] = "RETURN_VALUE"
<1> DEFINE below  == AllButLast(frames)
           caller == below[Len(below)]
           v      == IF frame.init # Unset THEN frame.init ELSE Top(0)
           ip     == IF caller.ip > 2 THEN caller.ip - 2 ELSE 1
           back   == IF frame.gen # 0 THEN [caller EXCEPT !.ip = ip] ELSE PushOn(caller, v)
<1>1. /\ Fetch("RETURN_VALUE") /\ UNCHANGED <<code_objects, exception_stack, activations, status>>
      /\ frames' = IF below = << >> THEN below ELSE [below EXCEPT ![Len(below)] = back]
  BY DEF RETURN_VALUE, program
<1>2. Len(frames) \in Nat \ {0} /\ Executes /\ Instr[1] = "RETURN_VALUE"
  BY <1>1, FetchFacts, Fetched
<1>3. ASSUME Len(frames) > 1  PROVE Hands(back)
  <2>1. caller = frames[Len(frames) - 1] /\ caller \in Frames
    BY <1>3, CallerBelow
  <2>2. ip = IF caller.ip > 2 THEN caller.ip - 2 ELSE 1
    OBVIOUS
  <2> HIDE DEF caller, v, ip
  <2>3. /\ Continues([caller EXCEPT !.ip = ip], caller) /\ [caller EXCEPT !.ip = ip].ip = ip
        /\ [caller EXCEPT !.ip = ip].sp = caller.sp
    BY <2>1 DEF Frames, Continues
  <2>4. /\ Continues(PushOn(caller, v), caller) /\ PushOn(caller, v).ip = caller.ip
        /\ PushOn(caller, v).sp = caller.sp + 1
    BY <2>1 DEF PushOn, Frames, Continues
  <2>5. QED
    BY <1>2, <2>1, <2>2, <2>3, <2>4 DEF Hands
<1> HIDE DEF back
<1>4. /\ Len(frames') = Len(frames) - 1
      /\ \A i \in 1..Len(frames) - 1 :
           frames'[i] = IF i = Len(frames) - 1 THEN back ELSE frames[i]
  BY <1>1, <1>2, LeftFrames
<1>5. QED
  BY <1>1, <1>2, <1>3, <1>4 DEF LeavesFrame

LEMMA YieldLeaves ==
  ASSUME TypeOK, YIELD_VALUE
  PROVE  LeavesFrame /\ Instr[1] = "YIELD_VALUE"
<1> DEFINE below == AllButLast(frames)
           back  == PushOn(below[Len(below)], Top(0))
<1>1. /\ Fetch("YIELD_VALUE") /\ frame.gen # 0
      /\ UNCHANGED <<code_objects, exception_stack, activations, status>>
      /\ frames' = IF below = << >> THEN below ELSE [below EXCEPT ![Len(below)] = back]
  BY DEF YIELD_VALUE, program
<1>2. Len(frames) \in Nat \ {0} /\ Executes /\ Instr[1] = "YIELD_VALUE"
  BY <1>1, FetchFacts, Fetched
<1>3. ASSUME Len(frames) > 1  PROVE Hands(back)
  <2> DEFINE caller == frames[Len(frames) - 1]
             v == Top(0)
  <2>1. below[Len(below)] = caller /\ caller \in Frames
    BY <1>3, CallerBelow
  <2>2. back = PushOn(caller, v)
    BY <2>1
  <2> HIDE DEF back, caller, v
  <2>3. Continues(back, caller) /\ back.ip = caller.ip /\ back.sp = caller.sp + 1
    BY <2>1, <2>2 DEF PushOn, Frames, Continues
  <2>4. QED
    BY <1>2, <2>3 DEF Hands, caller
<1> HIDE DEF back
<1>4. /\ Len(frames') = Len(frames) - 1
      /\ \A i \in 1..Len(frames) - 1 :
           frames'[i] = IF i = Len(frames) - 1 THEN back ELSE frames[i]
  BY <1>1, <1>2, LeftFrames
<1>5. QED
  BY <1>1, <1>2, <1>3, <1>4 DEF LeavesFrame

-------------------------------------------------------------------------------
(* What a step does to the generators. *)

OnlyChanges(g) == /\ g \in 1..Len(generators) /\ Len(generators') = Len(generators)
                  /\ \A k \in 1..Len(generators) : k # g => generators'[k] = generators[k]
Creates == LET new == Len(generators) + 1 IN
           /\ Len(generators') = new
           /\ \A k \in 1..Len(generators) : generators'[k] = generators[k]
           /\ generators'[new].state = "Created"
           /\ generators'[new].ip = 1 /\ generators'[new].sp = 0
Completes == LeavesFrame /\ OnlyChanges(frame.gen) /\ generators'[frame.gen].state = "Completed"
Suspends ==
  LET gen == generators'[frame.gen] IN
  /\ LeavesFrame /\ Instr[1] = "YIELD_VALUE" /\ OnlyChanges(frame.gen)
  /\ gen.state = "Suspended" /\ gen.code = frame.code
  /\ gen.ip = frame.ip + 1 /\ gen.sp = frame.sp - 1
Reenters ==
  /\ resume_generator /\ Enters /\ Resumes(frames'[Len(frames) + 1])
  /\ OnlyChanges(Top(0)[2]) /\ generators'[Top(0)[2]].state = "Running"

LEMMA GeneratorSteps ==
  ASSUME TypeOK, [Next]_vars
  PROVE  \/ /\ UNCHANGED generators /\ ~resume_generator /\ ~YIELD_VALUE
            /\ RETURN_VALUE => frame.gen = 0
         \/ CallGeneratorFunction /\ Creates
         \/ RETURN_VALUE /\ frame.gen # 0 /\ Completes
         \/ YIELD_VALUE /\ Suspends
         \/ Reenters
<1>1. generators \in Seq(Generators) /\ Len(generators) \in Nat
  BY LenProperties DEF TypeOK
<1>2. ASSUME NEW g \in 1..Len(generators), NEW new,
             generators' = [generators EXCEPT ![g] = new]
      PROVE  OnlyChanges(g) /\ generators'[g] = new
  BY <1>1, <1>2, Replaced DEF OnlyChanges
<1>3. ASSUME NEW g \in 1..Len(generators), NEW state,
             generators' = [generators EXCEPT ![g].state = state]
      PROVE  OnlyChanges(g) /\ generators'[g].state = state
  <2> DEFINE new == [generators[g] EXCEPT !.state = state]
  <2>1. generators' = [generators EXCEPT ![g] = new]
    BY <1>3
  <2>2. new.state = state
    BY <1>1, ElementOfSeq DEF Generators, GeneratorObjects
  <2> HIDE DEF new
  <2>3. QED
    BY <1>2, <2>1, <2>2
<1>4. ASSUME Fetch("RETURN_VALUE") \/ Fetch("YIELD_VALUE"), frame.gen # 0
      PROVE  frame.gen \in 1..Len(generators) /\ frame \in Frames
  <2>1. frame \in Frames
    BY <1>4, FetchFacts
  <2>2. frame.gen \in 0..Len(generators)
    BY <2>1 DEF Frames
  <2>3. QED
    BY <1>1, <1>4, <2>1, <2>2
<1>5. CASE CallGeneratorFunction
  <2> DEFINE new == [code |-> Callee[2], ip |-> 1, stack |-> EmptyStack, sp |-> 0,
                     locals |-> Bind(Callee[2], Args), state |-> "Created"]
  <2>1. generators' = Append(generators, new)
    BY <1>5 DEF CallGeneratorFunction
  <2>2. new.state = "Created" /\ new.ip = 1 /\ new.sp = 0
    OBVIOUS
  <2> HIDE DEF new
  <2>3. /\ Len(generators') = Len(generators) + 1 /\ generators'[Len(generators) + 1] = new
        /\ \A k \in 1..Len(generators) : generators'[k] = generators[k]
    BY <1>1, <2>1, Appended
  <2>4. QED
    BY <1>5, <2>2, <2>3 DEF Creates
<1>6. CASE RETURN_VALUE /\ frame.gen # 0
  <2>1. PICK g : g = frame.gen
    OBVIOUS
  <2>2. /\ g \in 1..Len(generators)
        /\ generators' = [generators EXCEPT ![g].state = "Completed"]
    BY <1>4, <1>6, <2>1 DEF RETURN_VALUE
  <2>3. OnlyChanges(g) /\ generators'[g].state = "Completed"
    BY <1>3, <2>2
  <2>4. QED
    BY <1>6, <2>1, <2>3, ReturnLeaves DEF Completes
<1>7. CASE YIELD_VALUE
  <2> DEFINE f == Popped(1)
  <2>1. Fetch("YIELD_VALUE") /\ frame.gen # 0
        /\ generators' = [generators EXCEPT ![frame.gen] = Saved(f)]
    BY <1>7 DEF YIELD_VALUE
  <2>2. f.code = frame.code /\ f.ip = frame.ip + 1 /\ f.sp = frame.sp - 1
    BY <1>4, <2>1, PoppedFields, PoppedSize DEF Continues
  <2>3. PICK new : new = Saved(f)
    OBVIOUS
  <2>4. new.code = f.code /\ new.ip = f.ip /\ new.sp = f.sp /\ new.state = "Suspended"
    BY <2>3 DEF Saved, Kept
  <2> HIDE DEF f
  <2>5. PICK g : g = frame.gen
    OBVIOUS
  <2>6. OnlyChanges(g) /\ generators'[g] = new
    BY <1>2, <1>4, <2>1, <2>3, <2>5
  <2>7. QED
    BY <1>7, <2>2, <2>4, <2>5, <2>6, YieldLeaves DEF Suspends
<1>8. CASE resume_generator
  <2>1. PICK g : g = Top(0)[2]
    OBVIOUS
  <2>2. g \in 1..Len(generators)
    BY <1>8, <2>1, ForIterFacts, ValueElim DEF resume_generator
  <2>3. generators' = [generators EXCEPT ![g].state = "Running"]
    BY <1>8, <2>1 DEF resume_generator
  <2>4. OnlyChanges(g) /\ generators'[g].state = "Running"
    BY <1>3, <2>2, <2>3
  <2>5. QED
    BY <1>8, <2>1, <2>4, ResumeEnters DEF Reenters
<1>9. RETURN_VALUE /\ frame.gen = 0 => UNCHANGED generators /\ ~YIELD_VALUE /\ ~resume_generator
  BY DEF RETURN_VALUE, YIELD_VALUE, resume_generator, Fetch
<1>10. QED
  BY <1>5, <1>6, <1>7, <1>8, <1>9, GeneratorsStay

-------------------------------------------------------------------------------
(* What becomes of the generators, in any code. *)

LEMMA CaughtFrames ==
  ASSUME TypeOK, Caught
  PROVE  LET n == Handler.frame_index IN
         /\ Handler \in Handlers /\ n \in 1..Len(frames) /\ n \in Nat \ {0}
         /\ Len(frames') = n /\ \A i \in 1..n - 1 : frames'[i] = frames[i]
         /\ Continues(frames'[n], frames[n])
         /\ frames'[n].ip = Handler.handler_ip /\ frames'[n].sp = Handler.stack_depth
<1>1. Handler \in Handlers
  BY EmptySeq, ElementOfSeq DEF Caught, TypeOK, Handler
<1>2. Handler.frame_index \in Nat \ {0} /\ Handler.frame_index <= Len(frames)
  BY <1>1 DEF Handlers, Caught
<1>3. Len(frames) \in Nat
  BY LenProperties DEF TypeOK
<1>4. QED
  BY <1>1, <1>2, <1>3, UnwindType DEF Caught

(* The frame of a generator that comes with a step is that of the one resumed. *)
LEMMA FrameComes ==
  ASSUME TypeOK, [Next]_vars, NEW i \in 1..Len(frames'), frames'[i].gen # 0
  PROVE  \/ i \in 1..Len(frames) /\ frames'[i].gen = frames[i].gen
         \/ resume_generator /\ i = Len(frames) + 1 /\ frames'[i].gen = Top(0)[2]
<1>1. /\ Len(frames) \in Nat /\ Len(frames') \in Nat
      /\ \/ i \in 1..Len(frames) /\ Continues(frames'[i], frames[i])
         \/ i = Len(frames) + 1
  BY StepFrame
<1>2. CASE i = Len(frames) + 1
  <2>1. ~Trims
    BY <1>1, <1>2 DEF Trims
  <2>2. ~Stands /\ ~Shifts /\ ~RETURN_VALUE /\ ~YIELD_VALUE /\ ~import_returns /\ ~dunder_returns
    BY <2>1, SameTrims, TopTrims, ReturnTrims, YieldTrims, ImportReturnsTrims, DunderReturnsTrims
       DEF Stands, Shifts, Executes, Moves
  <2>3. ~Caught
    BY <1>1, <1>2, CaughtFrames
  <2>4. Enters
    BY <2>2, <2>3, StepKinds
  <2>5. QED
    BY <1>2, <2>4 DEF Enters, Starts, Resumes
<1>3. QED
  BY <1>1, <1>2 DEF Continues

GeneratorInv == TypeOK /\ GeneratorFrames

(* A suspended generator stays behind its yield. *)
LEMMA StepSuspended ==
  ASSUME GeneratorInv, [Next]_vars, NEW g \in 1..Len(generators'),
         generators'[g].state = "Suspended"
  PROVE  OpAt(generators'[g].code, generators'[g].ip - 1) = "YIELD_VALUE"
<1>1. Len(generators) \in Nat
  BY LenProperties DEF GeneratorInv, TypeOK
<1>2. CASE g \in 1..Len(generators) /\ generators'[g] = generators[g]
  BY <1>2 DEF GeneratorInv, GeneratorFrames
<1>3. CASE Suspends /\ g = frame.gen
  <2>1. /\ generators'[g].code = frame.code /\ generators'[g].ip = frame.ip + 1
        /\ Instr[1] = "YIELD_VALUE" /\ frame.ip \in Nat
    BY <1>3 DEF Suspends, LeavesFrame, Executes, Frames
  <2>2. generators'[g].ip - 1 = frame.ip
    BY <2>1
  <2>3. QED
    BY <2>1, <2>2 DEF OpAt, InstrAt, Instr, Instructions
<1>4. QED
  BY <1>1, <1>2, <1>3, GeneratorSteps
     DEF GeneratorInv, Creates, Completes, Suspends, Reenters, OnlyChanges

(* The frames of generators stay those of Running ones, one for each. *)
LEMMA StepRunning ==
  ASSUME GeneratorInv, [Next]_vars, [NoneReentered]_vars,
         NEW i \in 1..Len(frames'), frames'[i].gen # 0
  PROVE  /\ generators'[frames'[i].gen].state = "Running"
         /\ \A j \in 1..i - 1 : frames'[j].gen # frames'[i].gen
<1>1. /\ TypeOK /\ Len(frames) \in Nat /\ Len(frames') \in Nat
      /\ \A k \in 1..Len(frames) : frames[k].gen # 0 =>
           /\ generators[frames[k].gen].state = "Running" /\ frames[k].gen \in 1..Len(generators)
           /\ \A j \in 1..k - 1 : frames[j].gen # frames[k].gen
  <2>1. ASSUME NEW k \in 1..Len(frames), frames[k].gen # 0
        PROVE  frames[k].gen \in 1..Len(generators)
    <3>1. frames[k] \in Frames /\ Len(generators) \in Nat
      BY ElementOfSeq, LenProperties DEF GeneratorInv, TypeOK
    <3>2. frames[k].gen \in 0..Len(generators)
      BY <3>1 DEF Frames
    <3>3. QED
      BY <2>1, <3>1, <3>2
  <2>2. QED
    BY <2>1, StepFrame DEF GeneratorInv, GeneratorFrames
<1>2. \A j \in 1..i - 1 : j \in 1..Len(frames')
  BY <1>1
<1>3. CASE resume_generator
  <2>1. PICK g : g = Top(0)[2]
    OBVIOUS
  <2>2. Reenters
    BY <1>1, <1>3, GeneratorSteps DEF resume_generator, CallGeneratorFunction, Calling,
          RETURN_VALUE, YIELD_VALUE, Fetch
  <2>3. /\ OnlyChanges(g) /\ generators'[g].state = "Running" /\ Len(frames') = Len(frames) + 1
    BY <2>1, <2>2 DEF Reenters, Enters, Pushes
  <2>4. generators[g].state # "Running"
    BY <1>1, <1>3, <2>1, <2>3 DEF NoneReentered, vars
  <2>5. \A k \in 1..Len(frames) : frames[k].gen # g
    BY <1>1, <2>3, <2>4 DEF OnlyChanges
  <2>6. CASE i \in 1..Len(frames) /\ frames'[i].gen = frames[i].gen
    <3>1. \A j \in 1..i - 1 : j \in 1..Len(frames) /\ frames'[j].gen = frames[j].gen
      BY <1>1, <1>2, <2>6, StepFrame DEF Continues
    <3>2. QED
      BY <1>1, <2>3, <2>5, <2>6, <3>1 DEF OnlyChanges
  <2>7. CASE i = Len(frames) + 1 /\ frames'[i].gen = g
    <3>1. \A j \in 1..i - 1 : j \in 1..Len(frames) /\ frames'[j].gen = frames[j].gen
      BY <1>1, <1>2, <2>7, StepFrame DEF Continues
    <3>2. QED
      BY <2>3, <2>5, <2>7, <3>1
  <2>8. QED
    BY <1>1, <2>1, <2>6, <2>7, FrameComes
<1>4. CASE ~resume_generator
  <2>1. /\ i \in 1..Len(frames) /\ frames'[i].gen = frames[i].gen
    BY <1>1, <1>4, FrameComes
  <2>2. \A j \in 1..i - 1 : j \in 1..Len(frames) /\ frames'[j].gen = frames[j].gen
    BY <1>1, <1>2, <2>1, StepFrame DEF Continues
  <2>3. CASE LeavesFrame /\ OnlyChanges(frame.gen) /\ frame.gen # 0
    <3>1. Len(frames') = Len(frames) - 1
      BY <2>3 DEF LeavesFrame
    <3>2. i \in 1..Len(frames) - 1 /\ Len(frames) \in 1..Len(frames)
      BY <1>1, <2>1, <3>1
    <3>3. frames[i].gen # frame.gen
      BY <1>1, <2>3, <3>2 DEF frame
    <3>4. QED
      BY <1>1, <2>1, <2>2, <2>3, <3>3 DEF OnlyChanges
  <2>4. CASE \A g \in 1..Len(generators) : generators'[g] = generators[g]
    BY <1>1, <2>1, <2>2, <2>4
  <2>5. YIELD_VALUE => frame.gen # 0
    BY DEF YIELD_VALUE
  <2>6. QED
    BY <1>1, <1>4, <2>3, <2>4, <2>5, GeneratorSteps DEF Creates, Completes, Suspends, Reenters
<1>5. QED
  BY <1>3, <1>4

LEMMA StepGeneratorFrames ==
  GeneratorInv /\ [Next]_vars /\ [NoneReentered]_vars => GeneratorFrames'
<1> SUFFICES ASSUME GeneratorInv, [Next]_vars, [NoneReentered]_vars
             PROVE  GeneratorFrames'
  OBVIOUS
<1>1. code_objects' = code_objects
  BY StepTrimsOrPushes DEF GeneratorInv, Trims, Pushes
<1>2. QED
  BY <1>1, StepSuspended, StepRunning DEF GeneratorFrames, OpAt, InstrAt

LEMMA InitGeneratorFrames == Init => GeneratorFrames
<1> SUFFICES ASSUME Init  PROVE GeneratorFrames
  OBVIOUS
<1>1. /\ Len(frames) = 1 /\ frames[1].gen = 0 /\ Len(generators) = 0
  BY DEF Init, Start, NewFrame
<1>2. QED
  BY <1>1 DEF GeneratorFrames

(* In any code, as long as no generator is resumed that is Running, a generator
   has a frame only while it is Running, and only one, and one that is
   suspended goes on right behind a yield.                                   *)
THEOREM GeneratorFramesRight == Spec /\ [][NoneReentered]_vars => []GeneratorFrames
<1>1. Init => GeneratorInv
  BY InitType, InitGeneratorFrames DEF GeneratorInv
<1>2. GeneratorInv /\ [Next]_vars /\ [NoneReentered]_vars => GeneratorInv'
  BY StepType, StepGeneratorFrames DEF GeneratorInv
<1>3. GeneratorInv => GeneratorFrames
  BY DEF GeneratorInv
<1>4. QED
  BY <1>1, <1>2, <1>3, PTL DEF Spec

(* Under the same condition a generator that is Completed stays so: the frame
   that yields or returns is that of a generator that is Running.            *)
LEMMA StepCompleted ==
  ASSUME GeneratorInv, [Next]_vars, NEW g \in 1..Len(generators),
         generators[g].state = "Completed"
  PROVE  generators'[g].state = "Completed"
<1>1. ASSUME LeavesFrame, frame.gen # 0  PROVE generators[frame.gen].state = "Running"
  <2>1. Len(frames) \in 1..Len(frames)
    BY <1>1 DEF LeavesFrame
  <2>2. QED
    BY <1>1, <2>1 DEF GeneratorInv, GeneratorFrames, frame
<1>2. YIELD_VALUE => frame.gen # 0
  BY DEF YIELD_VALUE
<1>3. resume_generator => generators[Top(0)[2]].state # "Completed"
  BY DEF resume_generator, Resumable
<1>4. QED
  BY <1>1, <1>2, <1>3, GeneratorSteps
     DEF GeneratorInv, Creates, Completes, Suspends, Reenters, OnlyChanges

THEOREM CompletedStays == Spec /\ [][NoneReentered]_vars => CompletedForGood
<1>1. Init => GeneratorInv
  BY InitType, InitGeneratorFrames DEF GeneratorInv
<1>2. GeneratorInv /\ [Next]_vars /\ [NoneReentered]_vars => GeneratorInv'
  BY StepType, StepGeneratorFrames DEF GeneratorInv
<1>3. GeneratorInv /\ [Next]_vars
        => [\A g \in 1..Len(generators) : generators[g].state = "Completed" =>
              generators'[g].state = "Completed"]_vars
  BY StepCompleted
<1>4. QED
  BY <1>1, <1>2, <1>3, PTL DEF Spec, CompletedForGood

-------------------------------------------------------------------------------
(* A generator that is Running has a frame, as long as no exception is caught
   below one: a frame that goes otherwise returns, yields, or ran the code of a
   module to its HALT.                                                       *)

(* A frame that goes: what took it. *)
LEMMA FrameGoes ==
  ASSUME TypeOK, [Next]_vars, NEW i \in 1..Len(frames), i > Len(frames')
  PROVE  \/ i = Len(frames) /\ (RETURN_VALUE \/ YIELD_VALUE)
         \/ Caught /\ i > Handler.frame_index
         \/ import_returns /\ i > Activation.target
<1>1. Len(frames) \in Nat
  BY LenProperties DEF TypeOK
<1>2. ~Stands /\ ~Shifts /\ ~Enters
  <2>1. ~Stands
    BY <1>1 DEF Stands
  <2>2. ~Shifts
    BY <1>1, SetTopLength DEF Shifts, Executes
  <2>3. ~Enters
    BY <1>1 DEF Enters, Pushes
  <2>4. QED
    BY <2>1, <2>2, <2>3
<1>3. RETURN_VALUE \/ YIELD_VALUE => i = Len(frames)
  BY <1>1, ReturnLeaves, YieldLeaves DEF LeavesFrame
<1>4. Caught => i > Handler.frame_index
  BY CaughtFrames
<1>5. import_returns => i > Activation.target
  BY <1>1, ImportReturnsStay DEF StayUpTo
<1>6. ~dunder_returns
  BY <1>1, DunderReturnsStay DEF StayUpTo
<1>7. QED
  BY <1>2, <1>3, <1>4, <1>5, <1>6, StepKinds

(* An import ends with the frame of its module or with none. *)
LEMMA ImportDrops ==
  ASSUME HandlerInv, import_returns, NEW i \in 1..Len(frames), i > Activation.target
  PROVE  i = Len(frames) /\ frames[i].gen = 0 /\ Halted
<1>1. TypeOK /\ Balanced /\ GeneratorsRunFunctions
  BY DEF HandlerInv, NestingInv
<1>2. Len(frames) \in Nat /\ Activation.target \in Nat
  BY <1>1, CallsThere, CallFactsOf, LenProperties DEF TypeOK
<1>3. Halted
  BY <1>2 DEF import_returns, Returned
<1>4. i = Len(frames)
  BY <1>2, <1>3, HaltAlone
<1>5. ~NoHalt(frame.code)
  BY <1>3 DEF Halted, InCode, NoHalt, OpAt, InstrAt, Instructions, Instr
<1>6. frame.code \notin FunctionCode
  BY <1>1, <1>5, FunctionsReturn
<1>7. QED
  BY <1>1, <1>3, <1>4, <1>6 DEF GeneratorsRunFunctions, frame

LEMMA StepRunningHasFrame ==
  HandlerInv /\ RunningHasFrame /\ [Next]_vars /\ [NoneAbandoned]_vars => RunningHasFrame'
<1> SUFFICES ASSUME HandlerInv, RunningHasFrame, [Next]_vars, [NoneAbandoned]_vars,
                    NEW g \in 1..Len(generators'), generators'[g].state = "Running"
             PROVE  \E i \in 1..Len(frames') : frames'[i].gen = g
  BY DEF RunningHasFrame
<1>1. /\ TypeOK /\ Len(frames) \in Nat /\ Len(generators) \in Nat
      /\ Len(frames') \in Nat
  <2>1. TypeOK
    BY DEF HandlerInv, NestingInv
  <2>2. TypeOK'
    BY <2>1, StepType
  <2>3. QED
    BY <2>1, <2>2, LenProperties DEF TypeOK
<1>2. CASE Reenters /\ g = Top(0)[2]
  <2>1. Len(frames') = Len(frames) + 1 /\ frames'[Len(frames) + 1].gen = g
    BY <1>2 DEF Reenters, Enters, Pushes, Resumes
  <2>2. Len(frames) + 1 \in 1..Len(frames')
    BY <1>1, <2>1
  <2>3. QED
    BY <2>1, <2>2
<1>3. CASE /\ g \in 1..Len(generators) /\ generators[g].state = "Running"
           /\ RETURN_VALUE \/ YIELD_VALUE => g # frame.gen
  <2>1. PICK i \in 1..Len(frames) : frames[i].gen = g
    BY <1>3 DEF RunningHasFrame
  <2>2. CASE i \in 1..Len(frames')
    <3>1. frames'[i].gen = frames[i].gen
      BY <1>1, <2>2, StepFrame DEF Continues
    <3>2. QED
      BY <2>1, <2>2, <3>1
  <2>3. CASE i > Len(frames')
    <3>1. ~ (i = Len(frames) /\ (RETURN_VALUE \/ YIELD_VALUE))
      BY <1>3, <2>1 DEF frame
    <3>2. ~ (import_returns /\ i > Activation.target)
      BY <1>3, <2>1, ImportDrops
    <3>3. Caught /\ i > Handler.frame_index /\ Handler.frame_index \in Nat
      BY <1>1, <2>3, <3>1, <3>2, FrameGoes, CaughtFrames
    <3>4. NoneAbandoned
      BY <1>1, <2>3 DEF vars
    <3>5. i \in Handler.frame_index + 1..Len(frames)
      BY <1>1, <3>3
    <3>6. QED
      BY <1>3, <2>1, <3>3, <3>4, <3>5 DEF NoneAbandoned
  <2>4. QED
    BY <1>1, <2>2, <2>3
<1>4. /\ RETURN_VALUE => ~YIELD_VALUE /\ ~resume_generator /\ ~CallGeneratorFunction
      /\ YIELD_VALUE => ~resume_generator /\ ~CallGeneratorFunction
  BY DEF RETURN_VALUE, YIELD_VALUE, resume_generator, CallGeneratorFunction, Calling, Fetch
<1>5. CASE UNCHANGED generators /\ ~YIELD_VALUE /\ (RETURN_VALUE => frame.gen = 0)
  BY <1>1, <1>3, <1>5
<1>6. CASE CallGeneratorFunction /\ Creates
  BY <1>1, <1>3, <1>4, <1>6 DEF Creates
<1>7. CASE (RETURN_VALUE /\ Completes) \/ (YIELD_VALUE /\ Suspends)
  BY <1>3, <1>7 DEF Completes, Suspends, OnlyChanges
<1>8. CASE Reenters
  <2>1. ~RETURN_VALUE /\ ~YIELD_VALUE
    BY <1>4, <1>8 DEF Reenters
  <2>2. QED
    BY <1>2, <1>3, <1>8, <2>1 DEF Reenters, OnlyChanges
<1>9. QED
  BY <1>1, <1>5, <1>6, <1>7, <1>8, GeneratorSteps

LEMMA InitRunningHasFrame == Init => RunningHasFrame
  BY DEF Init, Start, RunningHasFrame

(* In balanced code, as long as no exception passes through a generator, every
   generator that is Running has a frame: it will return or yield to the loop
   that resumed it.                                                          *)
THEOREM RunningAlwaysHasFrame ==
  Spec /\ Balanced /\ [][NoneAbandoned]_vars => []RunningHasFrame
<1>1. Init /\ Balanced => HandlerInv /\ RunningHasFrame
  BY InitHandlers, InitRunningHasFrame
<1>2. HandlerInv /\ RunningHasFrame /\ [Next]_vars /\ [NoneAbandoned]_vars
        => (HandlerInv /\ RunningHasFrame)'
  BY StepHandlers, StepRunningHasFrame
<1>3. QED
  BY <1>1, <1>2, PTL DEF Spec

-------------------------------------------------------------------------------
(* Operand stacks.  In sized code every frame has as many operands as its
   address says; one that waits for the frame above it still lacks the value
   that this one will leave.  A suspended generator lacks the value of its
   yield, and a handler cuts the stack back to what its address finds.       *)

FramesLeveled(height) ==
  \A i \in 1..Len(frames) :
    frames[i].sp = height[frames[i].code][frames[i].ip] - IF i < Len(frames) THEN 1 ELSE 0
GeneratorsLeveled(height) ==
  \A g \in 1..Len(generators) : LET gen == generators[g] IN
    /\ gen.state = "Created" => gen.ip = 1 /\ gen.sp = 0
    /\ gen.state = "Suspended" => gen.sp = height[gen.code][gen.ip] - 1
HandlersLeveled(height) ==
  \A h \in 1..Len(exception_stack) : LET hd == exception_stack[h] IN
    hd.stack_depth = height[frames[hd.frame_index].code][hd.handler_ip]

(* A call of the loop finds what it is to end with: that of an import runs the
   frame of a module until the HALT, that of a __str__ finds its caller.     *)
CallHolds(act) ==
  /\ act.target <= Len(frames)
  /\ IF act.kind = "import"
     THEN act.target < Len(frames) /\ NoReturn(frames[act.target + 1].code)
     ELSE WaitsAt(frames[act.target], {"CALL_FUNCTION"})
CallsHold == \A a \in 2..Len(activations) : CallHolds(activations[a])

LevelInv(height) ==
  /\ HandlerInv /\ Sized(height)
  /\ FramesLeveled(height) /\ GeneratorsLeveled(height) /\ HandlersLeveled(height)
  /\ CallsHold

(* What sized code says of an address. *)
LEMMA HeightFacts ==
  ASSUME NEW height, TypeOK, Sized(height), NEW c \in 1..Len(code_objects),
         NEW k \in DOMAIN code_objects[c].instructions
  PROVE  /\ height[c][k] \in 0..MAX_STACK /\ height[c][k] \in Nat /\ height[c][1] = 0
         /\ SizedAt(c, k, height[c])
<1>1. c \in DOMAIN code_objects
  BY LenProperties DEF TypeOK, IsProgram
<1>2. /\ height[c] \in [DOMAIN code_objects[c].instructions -> 0..MAX_STACK]
      /\ height[c][1] = 0 /\ SizedAt(c, k, height[c])
  BY <1>1 DEF Sized
<1>3. height[c][k] \in 0..MAX_STACK
  BY <1>2
<1>4. QED
  BY <1>2, <1>3, StackAssumption

LEMMA FrameHeight ==
  ASSUME NEW height, LevelInv(height), NEW i \in 1..Len(frames)
  PROVE  /\ TypeOK /\ frames[i] \in Frames
         /\ height[frames[i].code][frames[i].ip] \in 0..MAX_STACK
         /\ height[frames[i].code][frames[i].ip] \in Nat
         /\ SizedAt(frames[i].code, frames[i].ip, height[frames[i].code])
<1>1. TypeOK /\ Sized(height) /\ HandlerInv
  BY DEF LevelInv, HandlerInv, NestingInv
<1>2. /\ frames[i] \in Frames /\ frames[i].code \in 1..Len(code_objects)
      /\ frames[i].ip \in DOMAIN code_objects[frames[i].code].instructions
  BY <1>1, FrameFacts DEF Within
<1>3. QED
  BY <1>1, <1>2, HeightFacts

(* The last frame has what its instruction takes, and room for what it puts. *)
LEMMA TopHeight ==
  ASSUME NEW height, LevelInv(height), frames # << >>
  PROVE  /\ TypeOK /\ frame \in Frames /\ Len(frames) \in Nat \ {0}
         /\ frame.sp = height[frame.code][frame.ip] /\ frame.sp \in Nat
         /\ SizedAt(frame.code, frame.ip, height[frame.code])
         /\ OpAt(frame.code, frame.ip) = Instr[1] /\ InstrAt(frame.code, frame.ip)[2] = Arg
<1>1. TypeOK /\ FramesLeveled(height)
  BY DEF LevelInv, HandlerInv, NestingInv
<1>2. Len(frames) \in 1..Len(frames) /\ Len(frames) \in Nat \ {0}
  BY <1>1, EmptySeq, LenProperties DEF TypeOK
<1>3. frame = frames[Len(frames)]
  BY DEF frame
<1>4. frames[Len(frames)].sp = height[frames[Len(frames)].code][frames[Len(frames)].ip] - 0
  BY <1>1, <1>2 DEF FramesLeveled
<1>5. QED
  BY <1>1, <1>2, <1>3, <1>4, FrameHeight DEF OpAt, InstrAt, Instr, Arg, Instructions

(* The next address, where the instruction falls through. *)
LEMMA NextHeight ==
  ASSUME NEW height, LevelInv(height), frames # << >>,
         Instr[1] \notin {"RETURN_VALUE", "HALT", "JUMP", "RAISE"}
  PROVE  /\ height[frame.code][frame.ip + 1] = frame.sp - Pops(Instr[1], Arg) + Puts(Instr[1])
         /\ height[frame.code][frame.ip + 1] \in 0..MAX_STACK
<1>1. /\ TypeOK /\ frame \in Frames /\ Len(frames) \in Nat \ {0}
      /\ frame.sp = height[frame.code][frame.ip]
      /\ SizedAt(frame.code, frame.ip, height[frame.code])
      /\ OpAt(frame.code, frame.ip) = Instr[1] /\ InstrAt(frame.code, frame.ip)[2] = Arg
  BY TopHeight
<1>2. HandlerInv /\ Sized(height)
  BY DEF LevelInv
<1>3. /\ frame.code \in 1..Len(code_objects)
      /\ frame.ip \in DOMAIN code_objects[frame.code].instructions
  <2>1. Len(frames) \in 1..Len(frames)
    BY <1>1
  <2>2. QED
    BY <1>2, <2>1, FrameFacts DEF Within, frame
<1>4. frame.ip + 1 \in DOMAIN code_objects[frame.code].instructions
  <2>1. /\ BalancedAt(frame.code, frame.ip)
        /\ frame.ip < Len(code_objects[frame.code].instructions)
             => frame.ip + 1 \in DOMAIN code_objects[frame.code].instructions
    BY <1>1, <1>2, <1>3, BalancedInstr DEF HandlerInv
  <2>2. QED
    BY <1>1, <2>1 DEF BalancedAt
<1>5. height[frame.code][frame.ip + 1] \in 0..MAX_STACK
  BY <1>1, <1>2, <1>3, <1>4, HeightFacts
<1>6. QED
  BY <1>1, <1>5 DEF SizedAt

(* So no access to the operand stack is out of bounds. *)
LEMMA StackAlwaysFits ==
  ASSUME NEW height, LevelInv(height), frames # << >>
  PROVE  StackFits
<1>1. /\ TypeOK /\ Len(frames) \in Nat \ {0}
      /\ frame.sp = height[frame.code][frame.ip] /\ frame.sp \in Nat
      /\ SizedAt(frame.code, frame.ip, height[frame.code])
      /\ OpAt(frame.code, frame.ip) = Instr[1] /\ InstrAt(frame.code, frame.ip)[2] = Arg
  BY TopHeight
<1>2. frame.sp >= Pops(Instr[1], Arg)
  BY <1>1 DEF SizedAt
<1>3. ASSUME Grows(Instr[1])  PROVE frame.sp < MAX_STACK
  <2>1. PICK op : op = Instr[1]
    OBVIOUS
  <2>2. Pops(op, Arg) = 0 /\ Puts(op) = 1 /\ op \notin {"RETURN_VALUE", "HALT", "JUMP", "RAISE"}
    BY <1>3, <2>1 DEF Grows, Pops, Puts
  <2>3. frame.sp - 0 + 1 \in 0..MAX_STACK
    BY <2>1, <2>2, NextHeight
  <2>4. QED
    BY <1>1, <2>3, StackAssumption
<1>4. ASSUME Len(frames) > 1  PROVE frames[Len(frames) - 1].sp < MAX_STACK
  <2>1. PICK i : i = Len(frames) - 1
    OBVIOUS
  <2>2. i \in 1..Len(frames) /\ i < Len(frames)
    BY <1>1, <1>4, <2>1
  <2>3. frames[i].sp = height[frames[i].code][frames[i].ip] - 1
    BY <2>2 DEF LevelInv, FramesLeveled
  <2>4. height[frames[i].code][frames[i].ip] \in 0..MAX_STACK
    BY <2>2, FrameHeight
  <2>5. QED
    BY <2>1, <2>3, <2>4, StackAssumption
<1>5. QED
  BY <1>2, <1>3, <1>4 DEF StackFits, Delivers

-------------------------------------------------------------------------------
(* Frames stay level. *)

LEMMA SameLevels ==
  ASSUME NEW height, LevelInv(height), Stands
  PROVE  FramesLeveled(height)'
  BY DEF LevelInv, FramesLeveled, Stands

LEMMA ShiftLevels ==
  ASSUME NEW height, LevelInv(height), Shifts
  PROVE  FramesLeveled(height)'
<1>1. PICK f : /\ frames # << >> /\ frames' = SetTop(f) /\ Moves(f)
  BY DEF Shifts, Executes
<1>2. /\ TypeOK /\ Len(frames) \in Nat \ {0} /\ frame.sp \in Nat
      /\ frame.sp = height[frame.code][frame.ip]
      /\ SizedAt(frame.code, frame.ip, height[frame.code])
      /\ OpAt(frame.code, frame.ip) = Instr[1] /\ InstrAt(frame.code, frame.ip)[2] = Arg
  BY <1>1, TopHeight
<1>3. f.code = frame.code
  BY <1>1 DEF Moves, Continues
<1>4. f.sp = height[f.code][f.ip] /\ f.sp \in Int
  <2>1. CASE Falls(f)
    <3>1. f.sp = height[f.code][f.ip] /\ f.sp \in 0..MAX_STACK
      BY <1>1, <1>3, <2>1, NextHeight DEF Falls
    <3>2. QED
      BY <3>1, StackAssumption
  <2>2. CASE Leaps(f)
    <3>1. /\ Instr[1] \in {"JUMP", "JUMP_IF_FALSE", "JUMP_IF_TRUE", "FOR_ITER"}
          /\ f.ip = Arg /\ f.sp = frame.sp - Pops(Instr[1], Arg)
      BY <2>2 DEF Leaps
    <3>2. Pops(Instr[1], Arg) = IF Instr[1] = "JUMP" THEN 0 ELSE 1
      BY <3>1 DEF Pops
    <3>3. QED
      BY <1>2, <1>3, <3>1, <3>2 DEF SizedAt
  <2>3. QED
    BY <1>1, <2>1, <2>2 DEF Moves
<1>5. /\ Len(frames') = Len(frames)
      /\ \A i \in 1..Len(frames) : frames'[i] = IF i = Len(frames) THEN f ELSE frames[i]
  BY <1>1, <1>2, SetTopLength
<1>6. f.sp - 0 = f.sp
  BY <1>4
<1>7. ASSUME NEW i \in 1..Len(frames')
      PROVE  frames'[i].sp = height[frames'[i].code][frames'[i].ip]
                               - IF i < Len(frames') THEN 1 ELSE 0
  <2>1. CASE i = Len(frames)
    BY <1>2, <1>4, <1>5, <1>6, <2>1
  <2>2. CASE i # Len(frames)
    BY <1>5, <2>2 DEF LevelInv, FramesLeveled
  <2>3. QED
    BY <2>1, <2>2
<1>8. QED
  BY <1>7 DEF FramesLeveled

LEMMA EnterLevels ==
  ASSUME NEW height, LevelInv(height), TypeOK', Enters,
         resume_generator => generators[Top(0)[2]].state # "Running"
  PROVE  FramesLeveled(height)'
<1> DEFINE n == Len(frames)
           caller == frames'[n]
           new == frames'[n + 1]
<1>1. /\ frames # << >> /\ UNCHANGED code_objects /\ Len(frames') = n + 1
      /\ \A i \in 1..n - 1 : frames'[i] = frames[i]
      /\ caller.code = frame.code /\ caller.ip = frame.ip + 1
      /\ caller.sp = frame.sp - Pops(Instr[1], Arg)
      /\ Starts(new) \/ Resumes(new)
  BY DEF Enters, Executes, Pushes, Continues
<1>2. TypeOK /\ n \in Nat \ {0} /\ frame.sp \in Nat
  BY <1>1, TopHeight
<1>3. Puts(Instr[1]) = 1 /\ Instr[1] \notin {"RETURN_VALUE", "HALT", "JUMP", "RAISE"}
  BY <1>1 DEF Starts, Resumes, Puts, Grows
<1>4. caller.sp = height[caller.code][caller.ip] - 1
  <2>1. /\ height[frame.code][frame.ip + 1] = frame.sp - Pops(Instr[1], Arg) + 1
        /\ height[frame.code][frame.ip + 1] \in 0..MAX_STACK
    BY <1>1, <1>3, NextHeight
  <2>2. Pops(Instr[1], Arg) \in Int
    <3>1. CASE Instr[1] = "CALL_FUNCTION"
      <4>1. Fetch("CALL_FUNCTION")
        BY <3>1 DEF Enters, Executes, Fetch
      <4>2. QED
        BY <1>2, <3>1, <4>1, CallPops
    <3>2. CASE Instr[1] # "CALL_FUNCTION"
      BY <1>1, <3>2 DEF Starts, Resumes, Pops
    <3>3. QED
      BY <3>1, <3>2
  <2>3. QED
    BY <1>1, <1>2, <2>1, <2>2
<1>5. new.code \in 1..Len(code_objects) /\ new.sp \in Int
  <2>1. n + 1 \in 1..Len(frames')
    BY <1>1, <1>2
  <2>2. frames' \in Seq(Frames') /\ code_objects' = code_objects
    BY <1>1 DEF TypeOK
  <2>3. frames'[n + 1] \in Frames'
    BY <2>1, <2>2, ElementOfSeq
  <2>4. PICK f : f = frames'[n + 1]
    OBVIOUS
  <2>5. f.code \in 1..Len(code_objects') /\ f.sp \in 0..MAX_STACK
    BY <2>3, <2>4 DEF Frames
  <2>6. f.sp \in Int
    BY <2>5, StackAssumption
  <2>7. QED
    BY <2>2, <2>4, <2>5, <2>6
<1>6. new.sp = height[new.code][new.ip]
  <2>1. CASE Starts(new)
    <3>1. 1 \in DOMAIN code_objects[new.code].instructions
      BY <1>2, <1>5, FirstInstr DEF LevelInv, HandlerInv
    <3>2. height[new.code][1] = 0
      BY <1>2, <1>5, <3>1, HeightFacts DEF LevelInv
    <3>3. QED
      BY <2>1, <3>2 DEF Starts
  <2>2. CASE Resumes(new)
    <3> DEFINE g == new.gen
               gen == generators[g]
    <3>1. /\ g \in 1..Len(generators) /\ g = Top(0)[2] /\ resume_generator
          /\ new.code = gen.code /\ new.ip = gen.ip
          /\ new.sp = gen.sp + IF gen.state = "Suspended" THEN 1 ELSE 0
      BY <2>2 DEF Resumes
    <3>2. gen \in Generators
      BY <1>2, <3>1, ElementOfSeq DEF TypeOK
    <3>3. gen.state # "Completed" /\ gen.state # "Running"
      BY <3>1 DEF resume_generator, Resumable
    <3>4. gen.state \in {"Created", "Suspended"} /\ gen.code \in 1..Len(code_objects)
      BY <3>2, <3>3 DEF Generators, GeneratorObjects
    <3>5. /\ gen.state = "Created" => gen.ip = 1 /\ gen.sp = 0
          /\ gen.state = "Suspended" => gen.sp = height[gen.code][gen.ip] - 1
      BY <3>1 DEF LevelInv, GeneratorsLeveled
    <3>6. gen.ip \in DOMAIN code_objects[gen.code].instructions
      BY <3>1 DEF LevelInv, HandlerInv, GeneratorsAtRest, Within
    <3>7. height[gen.code][gen.ip] \in Nat /\ height[gen.code][1] = 0
      BY <1>2, <3>4, <3>6, HeightFacts DEF LevelInv
    <3> HIDE DEF gen, g
    <3>8. CASE gen.state = "Suspended"
      BY <3>1, <3>5, <3>7, <3>8
    <3>9. CASE gen.state = "Created"
      BY <3>1, <3>5, <3>7, <3>9
    <3>10. QED
      BY <3>4, <3>8, <3>9
  <2>3. QED
    BY <1>1, <2>1, <2>2
<1>7. ASSUME NEW i \in 1..Len(frames')
      PROVE  frames'[i].sp = height[frames'[i].code][frames'[i].ip]
                               - IF i < Len(frames') THEN 1 ELSE 0
  <2>1. CASE i = n + 1
    <3>1. new.sp - 0 = new.sp
      BY <1>5
    <3>2. QED
      BY <1>1, <1>2, <1>6, <2>1, <3>1
  <2>2. CASE i = n
    BY <1>1, <1>2, <1>4, <2>2
  <2>3. CASE i \in 1..n - 1
    <3>1. /\ frames'[i] = frames[i] /\ i < n /\ i < Len(frames') /\ i \in 1..n
      BY <1>1, <1>2, <2>3
    <3>2. QED
      BY <3>1 DEF LevelInv, FramesLeveled
  <2>4. QED
    BY <1>1, <1>2, <2>1, <2>2, <2>3
<1>8. QED
  BY <1>7 DEF FramesLeveled

(* The load before the FOR_ITER of a generator finds what the caller has. *)
LEMMA LoadHeight ==
  ASSUME NEW height, TypeOK, Balanced, Sized(height), NEW c \in 1..Len(code_objects),
         NEW ip \in Nat \ {0}, ip \in DOMAIN code_objects[c].instructions,
         ip - 1 \in DOMAIN code_objects[c].instructions, OpAt(c, ip - 1) = "FOR_ITER"
  PROVE  ip > 2 /\ height[c][ip - 2] = height[c][ip] - 1
<1>1. PICK k : k = ip - 1
  OBVIOUS
<1>2. PICK l : l = ip - 2
  OBVIOUS
<1>3. /\ ip > 2 /\ l \in DOMAIN code_objects[c].instructions
      /\ k \in DOMAIN code_objects[c].instructions
      /\ l + 1 = k /\ k + 1 = ip /\ k - 1 = l
  <2>1. ip > 2 /\ ip - 2 \in DOMAIN code_objects[c].instructions
    BY BeforeLoad
  <2>2. l + 1 = k /\ k + 1 = ip /\ k - 1 = l
    BY <1>1, <1>2
  <2>3. QED
    BY <1>1, <1>2, <2>1, <2>2
<1>4. OpAt(c, l) \in {"LOAD_FAST", "LOAD_GLOBAL"} /\ OpAt(c, k) = "FOR_ITER"
  BY <1>1, <1>3, BalancedInstr DEF BalancedAt
<1>5. /\ SizedAt(c, l, height[c]) /\ SizedAt(c, k, height[c])
      /\ height[c][l] \in Nat /\ height[c][k] \in Nat /\ height[c][ip] \in Nat
  BY <1>3, HeightFacts
<1>6. height[c][l + 1] = height[c][l] - 0 + 1
  <2>1. Pops(OpAt(c, l), InstrAt(c, l)[2]) = 0 /\ Puts(OpAt(c, l)) = 1
    BY <1>4 DEF Pops, Puts, Grows
  <2>2. QED
    BY <1>4, <1>5, <2>1 DEF SizedAt
<1>7. height[c][k + 1] = height[c][k] - 1 + 1
  <2>1. Pops(OpAt(c, k), InstrAt(c, k)[2]) = 1 /\ Puts(OpAt(c, k)) = 1
    BY <1>4 DEF Pops, Puts, Grows
  <2>2. QED
    BY <1>4, <1>5, <2>1 DEF SizedAt
<1>8. QED
  BY <1>2, <1>3, <1>5, <1>6, <1>7

LEMMA LeaveLevels ==
  ASSUME NEW height, LevelInv(height), LeavesFrame
  PROVE  FramesLeveled(height)'
<1> DEFINE n == Len(frames)
<1>1. /\ TypeOK /\ n \in Nat \ {0} /\ Len(frames') = n - 1 /\ frame = frames[n]
      /\ \A i \in 1..n - 2 : frames'[i] = frames[i]
      /\ n > 1 => Hands(frames'[n - 1])
      /\ Balanced /\ Sized(height) /\ CallersWait
  BY DEF LeavesFrame, LevelInv, HandlerInv, NestingInv, frame
<1>2. ASSUME n > 1
      PROVE  LET f == frames'[n - 1] IN f.sp = height[f.code][f.ip] - 0
  <2> DEFINE caller == frames[n - 1]
             f == frames'[n - 1]
  <2>1. n - 1 \in 1..n /\ n - 1 \in 1..n - 1 /\ n - 1 < n
    BY <1>1, <1>2
  <2>2. /\ caller \in Frames /\ height[caller.code][caller.ip] \in Nat
        /\ caller.code \in 1..Len(code_objects) /\ caller.ip \in Nat \ {0}
        /\ caller.ip \in DOMAIN code_objects[caller.code].instructions
    BY <2>1, FrameHeight, FrameFacts DEF LevelInv, Within
  <2>3. caller.sp = height[caller.code][caller.ip] - 1
    BY <2>1 DEF LevelInv, FramesLeveled
  <2>4. Hands(f)
    BY <1>1, <1>2
  <2>5. CASE frame.gen # 0 /\ Instr[1] = "RETURN_VALUE"
    <3>1. /\ f.code = caller.code /\ f.ip = (IF caller.ip > 2 THEN caller.ip - 2 ELSE 1)
          /\ f.sp = caller.sp
      BY <2>4, <2>5 DEF Hands, Continues
    <3>2. WaitsAt(caller, {"FOR_ITER"})
      <4>1. WaitsAt(frames[n - 1], Pushers(frames[n - 1 + 1].gen)) /\ n - 1 + 1 = n
        BY <1>1, <2>1 DEF CallersWait
      <4>2. QED
        BY <1>1, <2>5, <4>1 DEF Pushers
    <3> HIDE DEF caller, f
    <3>3. caller.ip > 2 /\ height[caller.code][caller.ip - 2] = height[caller.code][caller.ip] - 1
      BY <1>1, <2>2, <3>2, LoadHeight DEF WaitsAt
    <3>4. QED
      BY <2>2, <2>3, <3>1, <3>3 DEF f
  <2>6. CASE ~(frame.gen # 0 /\ Instr[1] = "RETURN_VALUE")
    <3>1. f.code = caller.code /\ f.ip = caller.ip /\ f.sp = caller.sp + 1
      BY <2>4, <2>6 DEF Hands, Continues
    <3>2. QED
      BY <2>2, <2>3, <3>1
  <2>7. QED
    BY <2>5, <2>6
<1>3. ASSUME NEW i \in 1..Len(frames')
      PROVE  frames'[i].sp = height[frames'[i].code][frames'[i].ip]
                               - IF i < Len(frames') THEN 1 ELSE 0
  <2>1. CASE i = n - 1
    BY <1>1, <1>2, <2>1
  <2>2. CASE i \in 1..n - 2
    <3>1. frames'[i] = frames[i] /\ i < n /\ i < Len(frames') /\ i \in 1..n
      BY <1>1, <2>2
    <3>2. QED
      BY <3>1 DEF LevelInv, FramesLeveled
  <2>3. QED
    BY <1>1, <2>1, <2>2
<1>4. QED
  BY <1>3 DEF FramesLeveled

LEMMA CaughtLevels ==
  ASSUME NEW height, LevelInv(height), Caught
  PROVE  FramesLeveled(height)'
<1> DEFINE n == Handler.frame_index
<1>1. TypeOK /\ FramesLeveled(height) /\ HandlersLeveled(height) /\ HandlerInv /\ Sized(height)
  BY DEF LevelInv, HandlerInv, NestingInv
<1>2. /\ n \in 1..Len(frames) /\ n \in Nat \ {0} /\ Len(frames') = n
      /\ \A i \in 1..n - 1 : frames'[i] = frames[i]
      /\ frames'[n].code = frames[n].code
      /\ frames'[n].ip = Handler.handler_ip /\ frames'[n].sp = Handler.stack_depth
  BY <1>1, CaughtFrames DEF Continues
<1>3. Len(exception_stack) \in 1..Len(exception_stack)
  BY <1>1, EmptySeq, LenProperties DEF Caught, TypeOK
<1>4. /\ Handler.stack_depth = height[frames[n].code][Handler.handler_ip]
      /\ Handler.handler_ip \in DOMAIN code_objects[frames[n].code].instructions
  BY <1>1, <1>3, HandlerFacts DEF HandlersLeveled, Handler
<1>5. height[frames[n].code][Handler.handler_ip] \in Nat
  <2>1. frames[n].code \in 1..Len(code_objects)
    BY <1>1, <1>2, FrameFacts
  <2>2. QED
    BY <1>1, <1>4, <2>1, HeightFacts
<1>6. ASSUME NEW i \in 1..Len(frames')
      PROVE  frames'[i].sp = height[frames'[i].code][frames'[i].ip]
                               - IF i < Len(frames') THEN 1 ELSE 0
  <2>1. CASE i = n
    BY <1>2, <1>4, <1>5, <2>1
  <2>2. CASE i \in 1..n - 1
    <3>1. frames'[i] = frames[i] /\ i < n /\ i < Len(frames) /\ i \in 1..Len(frames)
      <4>1. Len(frames) \in Nat
        BY <1>1, LenProperties DEF TypeOK
      <4>2. QED
        BY <1>2, <2>2, <4>1
    <3>2. QED
      BY <1>1, <1>2, <3>1 DEF FramesLeveled
  <2>3. QED
    BY <1>2, <2>1, <2>2
<1>7. QED
  BY <1>6 DEF FramesLeveled

(* The innermost call of the loop has a frame it goes back to. *)
LEMMA InnermostHolds ==
  ASSUME NEW height, LevelInv(height), Activation.kind # "run"
  PROVE  /\ CallHolds(Activation) /\ Activation.target \in 1..Len(frames)
         /\ Activation = activations[Len(activations)] /\ Len(activations) \in 2..Len(activations)
<1>1. TypeOK /\ CallsHold
  BY DEF LevelInv, HandlerInv, NestingInv
<1>2. Len(activations) \in Nat \ {0} /\ Activation = activations[Len(activations)]
  BY <1>1, CallsThere
<1>3. Len(activations) \in 1..Len(activations)
  BY <1>2
<1>4. Len(activations) # 1
  <2>1. PICK a : a = Len(activations)
    OBVIOUS
  <2>2. ActivationOK(a) /\ Activation = activations[a]
    BY <1>1, <1>2, <1>3, <2>1 DEF TypeOK
  <2>3. QED
    BY <2>1, <2>2 DEF ActivationOK
<1>5. Len(activations) \in 2..Len(activations)
  <2>1. \A n \in Nat : n # 0 /\ n # 1 => n \in 2..n
    OBVIOUS
  <2>2. QED
    BY <1>2, <1>4, <2>1
<1>6. CallHolds(Activation)
  BY <1>1, <1>2, <1>5 DEF CallsHold
<1>7. Activation.target \in Nat /\ Activation.target # 0 /\ Len(frames) \in Nat
  BY <1>1, <1>2, <1>3, <1>4, CallFactsOf, LenProperties DEF TypeOK
<1>8. Activation.target <= Len(frames)
  BY <1>6 DEF CallHolds
<1>9. QED
  BY <1>2, <1>5, <1>6, <1>7, <1>8

(* An import ends with the HALT of its body, and its importer has the room the
   module needs: the panic of import_returns is out of reach.                *)
LEMMA ImportFinds ==
  ASSUME NEW height, LevelInv(height), Returned({"import"})
  PROVE  /\ Activation.kind = "import" /\ Halted
         /\ Activation.target = Len(frames) - 1 /\ Activation.target \in 1..Len(frames)
         /\ Len(frames) \in Nat
         /\ ~(Len(frames) < Activation.target) /\ ~(frames[Activation.target].sp >= MAX_STACK)
<1>1. Activation.kind = "import" /\ TypeOK /\ HandlerInv
  BY DEF Returned, LevelInv, HandlerInv, NestingInv
<1>2. /\ CallHolds(Activation) /\ Activation.target \in 1..Len(frames)
      /\ Len(frames) \in Nat
  BY <1>1, InnermostHolds, LenProperties DEF TypeOK
<1>3. Activation.target < Len(frames)
  BY <1>1, <1>2 DEF CallHolds
<1>4. Halted
  BY <1>2, <1>3 DEF Returned
<1>5. Activation.target = Len(frames) - 1
  BY <1>1, <1>4, HaltAlone
<1>6. PICK n : n = Activation.target
  OBVIOUS
<1>7. frames[n].sp = height[frames[n].code][frames[n].ip] - 1
  BY <1>2, <1>3, <1>6 DEF LevelInv, FramesLeveled
<1>8. height[frames[n].code][frames[n].ip] \in 0..MAX_STACK
  BY <1>2, <1>6, FrameHeight
<1>9. ~(frames[n].sp >= MAX_STACK)
  BY <1>7, <1>8, StackAssumption
<1>10. QED
  BY <1>1, <1>2, <1>3, <1>4, <1>5, <1>6, <1>9

(* A __str__ ends with its frame gone and a result on the stack of the caller. *)
LEMMA DunderFinds ==
  ASSUME NEW height, LevelInv(height), Returned({"str", "print"})
  PROVE  /\ Activation.target = Len(frames) /\ Activation.target \in 1..Len(frames)
         /\ Len(frames) \in Nat
         /\ ~(Len(frames) < Activation.target) /\ ~(frames[Activation.target].sp = 0)
<1>1. Activation.kind \in {"str", "print"} /\ TypeOK /\ HandlerInv
  BY DEF Returned, LevelInv, HandlerInv, NestingInv
<1>2. /\ CallHolds(Activation) /\ Activation.target \in 1..Len(frames)
      /\ Len(frames) \in Nat
  BY <1>1, InnermostHolds, LenProperties DEF TypeOK
<1>3. ~Halted
  BY <1>1, HaltAlone
<1>4. Activation.target = Len(frames)
  BY <1>2, <1>3 DEF Returned
<1>5. WaitsAt(frames[Activation.target], {"CALL_FUNCTION"})
  BY <1>1, <1>2 DEF CallHolds
<1>6. PICK n : n = Activation.target
  OBVIOUS
<1>7. PICK c : c = frames[n].code
  OBVIOUS
<1>8. PICK k : k = frames[n].ip - 1
  OBVIOUS
<1>9. /\ c \in 1..Len(code_objects) /\ k \in DOMAIN code_objects[c].instructions
      /\ OpAt(c, k) = "CALL_FUNCTION" /\ frames[n].ip \in Nat \ {0}
  BY <1>1, <1>2, <1>5, <1>6, <1>7, <1>8, FrameFacts DEF WaitsAt
<1>10. SizedAt(c, k, height[c]) /\ height[c][k] >= Pops(OpAt(c, k), InstrAt(c, k)[2])
  BY <1>1, <1>9, HeightFacts DEF LevelInv, SizedAt
<1>11. Operand("CALL_FUNCTION", InstrAt(c, k)[2], Len(code_objects))
  <2>1. c \in DOMAIN code_objects
    BY <1>1, <1>9, LenProperties DEF TypeOK, IsProgram
  <2>2. QED
    BY <1>1, <1>9, <2>1 DEF TypeOK, IsProgram, OpAt, InstrAt
<1>12. InstrAt(c, k)[2] \in Nat
  BY <1>11 DEF Operand
<1>13. /\ Pops("CALL_FUNCTION", InstrAt(c, k)[2]) = InstrAt(c, k)[2] + 1
       /\ Puts("CALL_FUNCTION") = 1
  BY DEF Pops, Puts
<1>14. height[c][k] \in Nat
  BY <1>1, <1>9, HeightFacts DEF LevelInv
<1>15. height[c][k + 1] >= 1
  BY <1>9, <1>10, <1>12, <1>13, <1>14 DEF SizedAt
<1>16. k + 1 = frames[n].ip
  BY <1>8, <1>9
<1>17. frames[n].sp = height[c][frames[n].ip] - 0
  BY <1>2, <1>4, <1>6, <1>7 DEF LevelInv, FramesLeveled
<1>18. height[c][frames[n].ip] \in Nat
  BY <1>2, <1>6, <1>7, FrameHeight
<1>19. frames[n].sp # 0
  BY <1>15, <1>16, <1>17, <1>18
<1>20. QED
  BY <1>2, <1>4, <1>6, <1>19

LEMMA ImportLevels ==
  ASSUME NEW height, LevelInv(height), import_returns
  PROVE  /\ FramesLeveled(height)' /\ UNCHANGED status
         /\ StayUpTo(Activation.target) /\ activations' = AllButLast(activations)
<1>1. PICK n : n = Activation.target
  OBVIOUS
<1>2. PICK importer : importer = frames[n]
  OBVIOUS
<1>3. PICK top : top = PushOn(importer, Module(Activation.module))
  OBVIOUS
<1>4. TypeOK /\ Returned({"import"})
  BY DEF LevelInv, HandlerInv, NestingInv, import_returns
<1>5. /\ n = Len(frames) - 1 /\ n \in 1..Len(frames)
      /\ Len(frames) \in Nat /\ ~(Len(frames) < n) /\ ~(importer.sp >= MAX_STACK)
  BY <1>1, <1>2, <1>4, ImportFinds
<1>6. /\ frames' = [SubSeq(frames, 1, n) EXCEPT ![n] = top]
      /\ activations' = AllButLast(activations) /\ UNCHANGED <<status, code_objects>>
  BY <1>1, <1>2, <1>3, <1>5 DEF import_returns, program
<1>7. importer \in Frames
  BY <1>2, <1>4, <1>5, ElementOfSeq DEF TypeOK
<1>8. Continues(top, importer) /\ top.ip = importer.ip /\ top.sp = importer.sp + 1
  BY <1>3, <1>7, PushOnFields DEF PushOn, Frames
<1>9. PICK kept : kept = SubSeq(frames, 1, n)
  OBVIOUS
<1>10. kept \in Seq(Frames) /\ Len(kept) = n /\ \A i \in 1..n : kept[i] = frames[i]
  BY <1>4, <1>5, <1>9, PrefixType DEF TypeOK
<1>11. /\ Len(frames') = n
       /\ \A i \in 1..n : frames'[i] = IF i = n THEN top ELSE frames[i]
  <2>1. n \in 1..Len(kept) /\ frames' = [kept EXCEPT ![n] = top]
    BY <1>5, <1>6, <1>9, <1>10
  <2>2. QED
    BY <1>10, <2>1, Replaced
<1>12. \A i \in 1..n : Continues(frames'[i], frames[i]) /\ frames'[i].ip = frames[i].ip
  BY <1>2, <1>8, <1>11 DEF Continues
<1>13. StayUpTo(n)
  BY <1>5, <1>6, <1>11, <1>12 DEF StayUpTo
<1>14. ASSUME NEW i \in 1..Len(frames')
       PROVE  frames'[i].sp = height[frames'[i].code][frames'[i].ip]
                                - IF i < Len(frames') THEN 1 ELSE 0
  <2>1. i \in 1..n /\ i \in 1..Len(frames) /\ i < Len(frames)
    BY <1>5, <1>11
  <2>2. frames[i].sp = height[frames[i].code][frames[i].ip] - 1
    BY <2>1 DEF LevelInv, FramesLeveled
  <2>3. height[frames[i].code][frames[i].ip] \in Nat
    BY <2>1, FrameHeight
  <2>4. frames'[i].code = frames[i].code /\ frames'[i].ip = frames[i].ip
    BY <1>12, <2>1 DEF Continues
  <2>5. CASE i = n
    BY <1>2, <1>8, <1>11, <2>1, <2>2, <2>3, <2>4, <2>5
  <2>6. CASE i # n
    BY <1>5, <1>11, <2>1, <2>2, <2>6
  <2>7. QED
    BY <2>5, <2>6
<1>15. QED
  BY <1>1, <1>6, <1>13, <1>14 DEF FramesLeveled

LEMMA DunderLevels ==
  ASSUME NEW height, LevelInv(height), dunder_returns
  PROVE  /\ FramesLeveled(height)' /\ UNCHANGED status
         /\ StayUpTo(Len(frames)) /\ activations' = AllButLast(activations)
<1> DEFINE n == Activation.target
<1>1. TypeOK /\ Returned({"str", "print"})
  BY DEF LevelInv, HandlerInv, NestingInv, dunder_returns
<1>2. /\ n = Len(frames) /\ n \in 1..Len(frames)
      /\ Len(frames) \in Nat /\ ~(Len(frames) < n) /\ ~(frames[n].sp = 0)
  BY <1>1, DunderFinds
<1>3. /\ \/ \E i : frames' = [frames EXCEPT ![n].stack[i] = None]
         \/ UNCHANGED frames
      /\ activations' = AllButLast(activations) /\ UNCHANGED <<status, code_objects>>
  BY <1>2 DEF dunder_returns, program
<1>4. StayUpTo(Len(frames))
  BY <1>1, DunderReturnsStay
<1>5. ASSUME NEW i \in 1..Len(frames)
      PROVE  frames'[i].sp = frames[i].sp
  <2>1. frames[i] \in Frames /\ frames \in Seq(Frames)
    BY <1>1, ElementOfSeq DEF TypeOK
  <2>2. frames[n] \in Frames
    BY <1>1, <1>2, ElementOfSeq DEF TypeOK
  <2>3. ASSUME NEW k, frames' = [frames EXCEPT ![n].stack[k] = None]
        PROVE  frames'[i].sp = frames[i].sp
    <3> DEFINE f == [frames[n] EXCEPT !.stack[k] = None]
    <3>1. f.sp = frames[n].sp
      BY <2>2 DEF Frames
    <3>2. frames' = [frames EXCEPT ![n] = f]
      BY <2>3
    <3> HIDE DEF f, n
    <3>3. frames'[i] = IF i = n THEN f ELSE frames[i]
      BY <1>2, <2>1, <3>2, Replaced
    <3>4. QED
      BY <3>1, <3>3
  <2>4. QED
    BY <1>3, <2>3
<1>6. QED
  BY <1>3, <1>4, <1>5 DEF LevelInv, FramesLeveled, StayUpTo, Continues

(* A generator keeps the height it waits at. *)
LEMMA StepGeneratorLevels ==
  ASSUME NEW height, LevelInv(height), [Next]_vars
  PROVE  GeneratorsLeveled(height)'
<1>1. TypeOK /\ GeneratorsLeveled(height) /\ Len(generators) \in Nat
  BY LenProperties DEF LevelInv, HandlerInv, NestingInv, TypeOK
<1>2. SUFFICES ASSUME NEW g \in 1..Len(generators')
               PROVE  LET gen == generators'[g] IN
                      /\ gen.state = "Created" => gen.ip = 1 /\ gen.sp = 0
                      /\ gen.state = "Suspended" => gen.sp = height[gen.code][gen.ip] - 1
  BY DEF GeneratorsLeveled
<1>3. CASE g \in 1..Len(generators) /\ generators'[g] = generators[g]
  BY <1>1, <1>3 DEF GeneratorsLeveled
<1>4. CASE UNCHANGED generators
  BY <1>3, <1>4
<1>5. CASE Creates
  <2>1. CASE g = Len(generators) + 1
    BY <1>5, <2>1 DEF Creates
  <2>2. CASE g # Len(generators) + 1
    BY <1>1, <1>3, <1>5, <2>2 DEF Creates
  <2>3. QED
    BY <2>1, <2>2
<1>6. CASE Completes
  BY <1>1, <1>3, <1>6 DEF Completes, OnlyChanges
<1>7. CASE Suspends
  <2>1. CASE g # frame.gen
    BY <1>1, <1>3, <1>7, <2>1 DEF Suspends, OnlyChanges
  <2>2. CASE g = frame.gen
    <3>1. /\ frames # << >> /\ Instr[1] = "YIELD_VALUE"
          /\ generators'[g].state = "Suspended" /\ generators'[g].code = frame.code
          /\ generators'[g].ip = frame.ip + 1 /\ generators'[g].sp = frame.sp - 1
      BY <1>7, <2>2 DEF Suspends, LeavesFrame, Executes
    <3>2. height[frame.code][frame.ip + 1] = frame.sp - 1 + 1 /\ frame.sp \in Nat
      <4>1. Pops("YIELD_VALUE", Arg) = 1 /\ Puts("YIELD_VALUE") = 1
        BY DEF Pops, Puts
      <4>2. QED
        BY <3>1, <4>1, NextHeight, TopHeight
    <3>3. QED
      BY <3>1, <3>2
  <2>3. QED
    BY <2>1, <2>2
<1>8. CASE Reenters
  BY <1>1, <1>3, <1>8 DEF Reenters, OnlyChanges
<1>9. QED
  BY <1>1, <1>4, <1>5, <1>6, <1>7, <1>8, GeneratorSteps

(* A handler keeps the height of its address: its frame goes on in its code. *)
LEMMA KeptLevel ==
  ASSUME NEW height, LevelInv(height), TypeOK', [Next]_vars,
         NEW h \in 1..Len(exception_stack'), NEW g \in 1..Len(exception_stack),
         exception_stack'[h] = exception_stack[g]
  PROVE  LET hd == exception_stack'[h] IN
         hd.stack_depth = height[frames'[hd.frame_index].code][hd.handler_ip]
<1>1. PICK i : i = exception_stack[g].frame_index
  OBVIOUS
<1>2. HandlerInv /\ TypeOK /\ HandlersLeveled(height)
  BY DEF LevelInv, HandlerInv, NestingInv
<1>3. i \in 1..Len(frames)
  BY <1>1, <1>2, HandlerFacts
<1>4. i <= Len(frames')
  BY <1>1, <1>2, StepDiscipline DEF HandlerDiscipline, HandlersLive
<1>5. Len(frames) \in Nat /\ Len(frames') \in Nat
  BY <1>2, Lengths
<1>6. i \in 1..Len(frames')
  BY <1>3, <1>4, <1>5
<1>7. frames'[i].code = frames[i].code
  BY <1>2, <1>3, <1>5, <1>6, StepFrame DEF Continues
<1>8. QED
  BY <1>1, <1>2, <1>7 DEF HandlersLeveled

(* A POP_EXCEPT finds a handler. *)
LEMMA PopFinds ==
  ASSUME HandlerInv, POP_EXCEPT
  PROVE  exception_stack # << >>
<1>1. PICK m : m = Len(frames)
  OBVIOUS
<1>2. m \in 1..m /\ OpAt(frames[m].code, frames[m].ip) = "POP_EXCEPT"
  BY <1>1, LastFacts DEF POP_EXCEPT
<1>3. BalancedAt(frames[m].code, frames[m].ip) /\ DepthOf(frames[m]) \in Nat
  BY <1>1, <1>2, FrameFacts
<1>4. DepthOf(frames[m]) >= 1
  BY <1>2, <1>3 DEF BalancedAt, DepthOf
<1>5. DepthOf(frames[m]) - 1 \in 0..DepthOf(frames[m]) - 1
  BY <1>3, <1>4
<1>6. PICK h \in 1..Len(exception_stack) : exception_stack[h].frame_index = m
  BY <1>1, <1>2, <1>5, DisciplineElim
<1>7. Len(exception_stack) # 0
  BY <1>6
<1>8. QED
  BY <1>7

LEMMA StepHandlerLevels ==
  ASSUME NEW height, LevelInv(height), TypeOK', [Next]_vars
  PROVE  HandlersLeveled(height)'
<1>1. HandlerInv /\ TypeOK /\ exception_stack \in Seq(Handlers) /\ Len(exception_stack) \in Nat
  BY LenProperties DEF LevelInv, HandlerInv, NestingInv, TypeOK
<1>2. SUFFICES ASSUME NEW h \in 1..Len(exception_stack')
               PROVE  LET hd == exception_stack'[h] IN
                      hd.stack_depth = height[frames'[hd.frame_index].code][hd.handler_ip]
  BY DEF HandlersLeveled
<1>3. CASE Calm
  BY <1>3, KeptLevel DEF Calm
<1>4. CASE exception_stack # << >> /\ exception_stack' = AllButLast(exception_stack)
  <2>1. /\ Len(exception_stack') = Len(exception_stack) - 1
        /\ \A g \in 1..Len(exception_stack) - 1 : exception_stack'[g] = exception_stack[g]
    BY <1>1, <1>4, AllButLastType
  <2>2. h \in 1..Len(exception_stack) /\ exception_stack'[h] = exception_stack[h]
    BY <1>1, <2>1
  <2>3. QED
    BY <2>2, KeptLevel
<1>5. CASE SETUP_EXCEPT
  <2>1. /\ Fetch("SETUP_EXCEPT") /\ frames' = SetTop(Popped(0))
        /\ exception_stack' = Append(exception_stack, NewHandler(Len(frames)))
    BY <1>5 DEF SETUP_EXCEPT
  <2>2. PICK n : n = Len(exception_stack)
    OBVIOUS
  <2>3. /\ Len(exception_stack') = n + 1 /\ exception_stack'[n + 1] = NewHandler(Len(frames))
        /\ \A g \in 1..n : exception_stack'[g] = exception_stack[g]
    BY <1>1, <2>1, <2>2, Appended
  <2>4. CASE h = n + 1
    <3>1. PICK m : m = Len(frames)
      OBVIOUS
    <3>2. /\ m \in 1..m /\ frame = frames[m] /\ frames # << >> /\ Instr[1] = "SETUP_EXCEPT"
          /\ frame \in Frames
      BY <1>1, <2>1, <3>1, LastFacts, EmptySeq DEF Fetch
    <3>3. frames'[m].code = frame.code
      <4>1. frames'[m] = Popped(0)
        BY <1>1, <2>1, <3>1, <3>2, SetTopLength
      <4>2. QED
        BY <3>2, <4>1, PoppedFields DEF Continues
    <3>4. /\ exception_stack'[h].handler_ip = Arg /\ exception_stack'[h].frame_index = m
          /\ exception_stack'[h].stack_depth = frame.sp
      BY <2>3, <2>4, <3>1 DEF NewHandler
    <3>5. height[frame.code][Arg] = height[frame.code][frame.ip]
      BY <3>2, TopHeight DEF SizedAt
    <3>6. frame.sp = height[frame.code][frame.ip]
      BY <3>2, TopHeight
    <3>7. QED
      BY <3>3, <3>4, <3>5, <3>6
  <2>5. CASE h # n + 1
    <3>1. h \in 1..Len(exception_stack) /\ exception_stack'[h] = exception_stack[h]
      BY <1>1, <2>2, <2>3, <2>5
    <3>2. QED
      BY <3>1, KeptLevel
  <2>6. QED
    BY <2>4, <2>5
<1>6. CASE POP_EXCEPT
  BY <1>1, <1>4, <1>6, PopFinds DEF POP_EXCEPT
<1>7. CASE Unwinds
  BY <1>4, <1>7 DEF Unwinds, Caught
<1>8. QED
  BY <1>1, <1>3, <1>5, <1>6, <1>7, StepCalm

-------------------------------------------------------------------------------
(* The calls of the loop keep what they are to end with. *)

Keeps(act) ==
  /\ UNCHANGED code_objects /\ act.target <= Len(frames')
  /\ act.kind = "import" => /\ act.target < Len(frames')
                            /\ frames'[act.target + 1].code = frames[act.target + 1].code
  /\ act.kind # "import" => /\ frames'[act.target].code = frames[act.target].code
                            /\ frames'[act.target].ip = frames[act.target].ip

HoldsNext(act) ==
  /\ UNCHANGED code_objects /\ act.target <= Len(frames')
  /\ act.kind = "import" => act.target < Len(frames') /\ NoReturn(frames'[act.target + 1].code)
  /\ act.kind # "import" => WaitsAt(frames'[act.target], {"CALL_FUNCTION"})

LEMMA KeptHolds ==
  ASSUME NEW act, CallHolds(act), Keeps(act)
  PROVE  HoldsNext(act)
<1>1. CASE act.kind = "import"
  BY <1>1 DEF CallHolds, Keeps, HoldsNext
<1>2. CASE act.kind # "import"
  BY <1>2 DEF CallHolds, Keeps, HoldsNext, WaitsAt
<1>3. QED
  BY <1>1, <1>2

LEMMA HoldsThen ==
  ASSUME NEW a, HoldsNext(activations'[a])
  PROVE  CallHolds(activations[a])'
<1>1. CASE activations'[a].kind = "import"
  BY <1>1 DEF CallHolds, HoldsNext, NoReturn, OpAt, InstrAt
<1>2. CASE activations'[a].kind # "import"
  BY <1>2 DEF CallHolds, HoldsNext, WaitsAt, OpAt, InstrAt
<1>3. QED
  BY <1>1, <1>2

(* The frames up to a target below the last stay, and so does the next one's code. *)
LEMMA BelowKeeps ==
  ASSUME UNCHANGED code_objects, NEW act, act.target \in Nat,
         act.target < Len(frames'), Len(frames') \in Nat,
         frames'[act.target].code = frames[act.target].code,
         frames'[act.target].ip = frames[act.target].ip,
         frames'[act.target + 1].code = frames[act.target + 1].code
  PROVE  Keeps(act)
  BY DEF Keeps

LEMMA LeaveKeeps ==
  ASSUME NEW height, LevelInv(height), LeavesFrame, NEW a \in 2..Len(activations)
  PROVE  Keeps(activations[a])
<1>1. PICK n : n = Len(frames)
  OBVIOUS
<1>2. PICK act : act = activations[a]
  OBVIOUS
<1>3. PICK t : t = act.target
  OBVIOUS
<1>4. /\ TypeOK /\ Ordered /\ Waiting /\ CallersWait /\ CallHolds(act)
      /\ Len(activations) \in Nat
  BY <1>2, LenProperties DEF LevelInv, CallsHold, HandlerInv, NestingInv, TypeOK
<1>5. /\ n \in Nat /\ Len(frames') = n - 1 /\ frame = frames[n] /\ Dispatching
      /\ \A i \in 1..n - 2 : frames'[i] = frames[i]
      /\ n > 1 => Hands(frames'[n - 1])
      /\ Instr[1] \in {"RETURN_VALUE", "YIELD_VALUE"} /\ UNCHANGED code_objects
      /\ Instr[1] = "YIELD_VALUE" => frame.gen # 0
      /\ InCode
  BY <1>1 DEF LeavesFrame, Executes, frame
<1>6. a \in 1..Len(activations) /\ a # 1
  BY <1>4
<1>7. t \in Nat \ {0} /\ t < n
  <2>1. activations[a].target < Len(frames)
    BY <1>4, <1>5, <1>6, AllAbove
  <2>2. activations[a].target \in Nat /\ activations[a].target # 0
    BY <1>4, <1>6, CallFactsOf
  <2>3. QED
    BY <1>1, <1>2, <1>3, <2>1, <2>2
<1>8. CASE t = n - 1
  <2>1. WaitsAt(frames[t], {Starter(act.kind)}) /\ Starter(act.kind) # "FOR_ITER"
    BY <1>1, <1>2, <1>3, <1>4, <1>7 DEF Waiting, Starter
  <2>2. WaitsAt(frames[t], Pushers(frame.gen))
    <3>1. t \in 1..n - 1 /\ t + 1 = n
      BY <1>5, <1>7, <1>8
    <3>2. QED
      BY <1>1, <1>4, <1>5, <3>1 DEF CallersWait
  <2>3. frame.gen = 0
    BY <2>1, <2>2 DEF WaitsAt, Pushers
  <2>4. Instr[1] = "RETURN_VALUE"
    BY <1>5, <2>3
  <2>5. act.kind # "import"
    <3>1. SUFFICES ASSUME NoReturn(frame.code)  PROVE FALSE
      BY <1>3, <1>4, <1>5, <1>8 DEF CallHolds
    <3>2. frame.ip \in DOMAIN code_objects[frame.code].instructions
          /\ OpAt(frame.code, frame.ip) = "RETURN_VALUE"
      BY <1>5, <2>4 DEF InCode, OpAt, InstrAt, Instr, Instructions
    <3>3. QED
      BY <3>1, <3>2 DEF NoReturn
  <2>6. frames'[t].code = frames[t].code /\ frames'[t].ip = frames[t].ip
    BY <1>1, <1>5, <1>7, <1>8, <2>3 DEF Hands, Continues
  <2>7. QED
    BY <1>2, <1>3, <1>5, <1>8, <2>5, <2>6 DEF Keeps
<1>9. CASE t # n - 1
  <2>1. t \in 1..n - 2 /\ n > 1 /\ t < Len(frames')
    BY <1>5, <1>7, <1>9
  <2>2. frames'[t] = frames[t]
    BY <1>5, <2>1
  <2>3. frames'[t + 1].code = frames[t + 1].code
    <3>1. CASE t + 1 = n - 1
      BY <1>1, <1>5, <2>1, <3>1 DEF Hands, Continues
    <3>2. CASE t + 1 # n - 1
      BY <1>5, <2>1, <3>2
    <3>3. QED
      BY <3>1, <3>2
  <2>4. Keeps(act)
    BY <1>3, <1>5, <1>7, <2>1, <2>2, <2>3, BelowKeeps
  <2>5. QED
    BY <1>2, <2>4
<1>10. QED
  BY <1>8, <1>9

(* The frames that stay, of a step that drops some or none. *)
LEMMA StayKeeps ==
  ASSUME NEW n, StayUpTo(n), NEW act, act.target \in Nat \ {0}, act.target <= n,
         act.kind = "import" => act.target < n
  PROVE  Keeps(act)
<1>1. n \in Nat /\ act.target \in 1..n
  BY DEF StayUpTo
<1>2. act.kind = "import" => act.target + 1 \in 1..n
  BY <1>1
<1>3. QED
  BY <1>1, <1>2 DEF StayUpTo, Keeps, Continues

(* Every call that goes on keeps what it is to end with: a step takes frames
   only from above its target, as no exception is caught further down.       *)
LEMMA CallKept ==
  ASSUME NEW height, LevelInv(height), [Next]_vars, [NoneCrossed]_vars,
         NEW a \in 2..Len(activations), a \in 1..Len(activations')
  PROVE  Keeps(activations[a])
<1>1. PICK n : n = Len(frames)
  OBVIOUS
<1>2. PICK act : act = activations[a]
  OBVIOUS
<1>3. PICK t : t = act.target
  OBVIOUS
<1>4. /\ TypeOK /\ Ordered /\ CallHolds(act) /\ Len(activations) \in Nat /\ n \in Nat
      /\ a \in 1..Len(activations) /\ a # 1
  BY <1>1, <1>2, LenProperties DEF LevelInv, CallsHold, HandlerInv, NestingInv, TypeOK
<1>5. t \in Nat \ {0} /\ t <= n /\ (act.kind = "import" => t < n)
  <2>1. activations[a].target \in Nat /\ activations[a].target # 0
    BY <1>4, CallFactsOf
  <2>2. QED
    BY <1>1, <1>2, <1>3, <1>4, <2>1 DEF CallHolds
<1>6. ASSUME Dispatching
      PROVE  t < n
  BY <1>1, <1>2, <1>3, <1>4, <1>6, AllAbove
<1>7. CASE Stands
  <2>1. StayUpTo(n)
    BY <1>1, <1>4, <1>7, SameStay DEF Stands
  <2>2. QED
    BY <1>2, <1>3, <1>5, <2>1, StayKeeps
<1>8. CASE Shifts
  <2>1. PICK f : frames' = SetTop(f) /\ Continues(f, frame)
    BY <1>8 DEF Shifts, Moves
  <2>2. /\ Len(frames') = n /\ UNCHANGED code_objects /\ frame = frames[n]
        /\ \A i \in 1..n : frames'[i] = IF i = n THEN f ELSE frames[i]
    BY <1>1, <1>4, <1>8, <2>1, SetTopLength DEF Shifts, Executes, frame
  <2>3. t < n
    BY <1>6, <1>8 DEF Shifts, Executes
  <2>4. /\ t \in 1..n /\ t # n /\ t + 1 \in 1..n
    BY <1>4, <1>5, <2>3
  <2>5. frames'[t] = frames[t] /\ frames'[t + 1].code = frames[t + 1].code
    BY <2>1, <2>2, <2>4 DEF Continues
  <2>6. Keeps(act)
    BY <1>3, <1>4, <1>5, <2>2, <2>3, <2>5, BelowKeeps
  <2>7. QED
    BY <1>2, <2>6
<1>9. CASE Enters
  <2>1. /\ Len(frames') = n + 1 /\ UNCHANGED code_objects /\ frame = frames[n]
        /\ \A i \in 1..n - 1 : frames'[i] = frames[i]
        /\ Continues(frames'[n], frame) /\ Dispatching
    BY <1>1, <1>9 DEF Enters, Pushes, frame
  <2>2. t < n
    BY <1>6, <2>1
  <2>3. frames'[t] = frames[t] /\ frames'[t + 1].code = frames[t + 1].code
    <3>1. t \in 1..n - 1
      BY <1>4, <1>5, <2>2
    <3>2. CASE t + 1 = n
      BY <2>1, <3>1, <3>2 DEF Continues
    <3>3. CASE t + 1 # n
      BY <1>4, <2>1, <3>1, <3>3
    <3>4. QED
      BY <3>2, <3>3
  <2>4. Keeps(act)
    BY <1>3, <1>4, <1>5, <2>1, <2>2, <2>3, BelowKeeps
  <2>5. QED
    BY <1>2, <2>4
<1>10. CASE LeavesFrame
  BY <1>10, LeaveKeeps
<1>11. CASE Caught /\ ~UNCHANGED vars
  <2>1. PICK m : m = Handler.frame_index
    OBVIOUS
  <2>2. m > t
    <3>1. m > Activation.target
      BY <1>11, <2>1 DEF NoneCrossed
    <3>2. Activation = activations[Len(activations)] /\ Len(activations) \in 1..Len(activations)
      BY <1>4, CallsThere
    <3>3. activations[Len(activations)].target \in Nat
      BY <1>4, <3>2, CallFactsOf
    <3>4. a < Len(activations) => t < activations[Len(activations)].target
      BY <1>2, <1>3, <1>4, <3>2 DEF Ordered
    <3>5. a = Len(activations) => t = activations[Len(activations)].target
      BY <1>2, <1>3
    <3>6. m \in Nat
      BY <1>4, <1>11, <2>1, CaughtFrames
    <3>7. QED
      BY <1>4, <1>5, <3>1, <3>2, <3>3, <3>4, <3>5, <3>6
  <2>3. /\ m \in 1..n /\ m \in Nat /\ Len(frames') = m
        /\ \A i \in 1..m - 1 : frames'[i] = frames[i]
        /\ Continues(frames'[m], frames[m])
    BY <1>1, <1>4, <1>11, <2>1, CaughtFrames
  <2>4. UNCHANGED code_objects
    BY StepTrimsOrPushes, <1>4 DEF Trims, Pushes
  <2>5. frames'[t] = frames[t] /\ frames'[t + 1].code = frames[t + 1].code
    <3>1. t \in 1..m - 1
      BY <1>5, <2>2, <2>3
    <3>2. CASE t + 1 = m
      BY <2>3, <3>1, <3>2 DEF Continues
    <3>3. CASE t + 1 # m
      BY <2>3, <3>1, <3>3
    <3>4. QED
      BY <3>2, <3>3
  <2>6. Keeps(act)
    BY <1>3, <1>5, <2>2, <2>3, <2>4, <2>5, BelowKeeps
  <2>7. QED
    BY <1>2, <2>6
<1>12. CASE import_returns
  <2>1. PICK m : m = Activation.target
    OBVIOUS
  <2>2. StayUpTo(m) /\ activations' = AllButLast(activations)
    BY <1>12, <2>1, ImportLevels
  <2>3. Len(activations') = Len(activations) - 1
    BY <1>4, <2>2, AllButLastType DEF TypeOK
  <2>4. a < Len(activations) /\ Len(activations) \in 1..Len(activations)
    BY <1>4, <2>3
  <2>5. t < m
    BY <1>2, <1>3, <1>4, <2>1, <2>4, CallsThere DEF Ordered
  <2>6. Keeps(act)
    <3>1. m \in Nat
      BY <2>2 DEF StayUpTo
    <3>2. QED
      BY <1>3, <1>5, <2>2, <2>5, <3>1, StayKeeps
  <2>7. QED
    BY <1>2, <2>6
<1>13. CASE dunder_returns
  <2>1. StayUpTo(n)
    BY <1>1, <1>13, DunderLevels
  <2>2. QED
    BY <1>2, <1>3, <1>5, <2>1, StayKeeps
<1>14. UNCHANGED vars => Stands
  BY DEF vars, program, Stands
<1>15. QED
  BY <1>4, <1>7, <1>8, <1>9, <1>10, <1>11, <1>12, <1>13, <1>14, StepKinds, ReturnLeaves, YieldLeaves

LEMMA StepCalls ==
  ASSUME NEW height, LevelInv(height), [Next]_vars, [NoneCrossed]_vars
  PROVE  CallsHold'
<1>1. TypeOK /\ Sized(height) /\ CallsHold /\ Len(activations) \in Nat \ {0}
  BY CallsThere DEF LevelInv, HandlerInv, NestingInv
<1>2. UNCHANGED code_objects
  BY <1>1, StepTrimsOrPushes DEF Trims, Pushes
<1>3. SUFFICES ASSUME NEW a \in 2..Len(activations')
               PROVE  CallHolds(activations[a])'
  BY DEF CallsHold
<1>4. ASSUME a \in 2..Len(activations), activations'[a] = activations[a]
      PROVE  CallHolds(activations[a])'
  <2>1. CallHolds(activations[a])
    BY <1>1, <1>4 DEF CallsHold
  <2>2. Keeps(activations[a])
    <3>1. a \in 1..Len(activations')
      BY <1>3
    <3>2. QED
      BY <1>4, <3>1, CallKept
  <2>3. QED
    BY <1>4, <2>1, <2>2, KeptHolds, HoldsThen
<1>5. CASE Quiet
  BY <1>3, <1>4, <1>5 DEF Quiet
<1>6. CASE Ends
  <2>1. a \in 2..Len(activations) /\ a \in 1..Len(activations) - 1
    BY <1>1, <1>3, <1>6, LeftCalls
  <2>2. QED
    BY <1>1, <1>4, <1>6, <2>1, LeftCalls
<1>7. ASSUME NEW kind \in {"import", "str", "print"}, NEW m, Begins(kind, m)
      PROVE  CallHolds(activations[a])'
  <2>1. /\ Len(activations') = Len(activations) + 1
        /\ \A b \in 1..Len(activations) : activations'[b] = activations[b]
        /\ activations'[Len(activations) + 1].kind = kind
        /\ activations'[Len(activations) + 1].target = Len(frames)
    BY <1>1, <1>7, BegunCalls
  <2>2. CASE a # Len(activations) + 1
    <3>1. a \in 2..Len(activations) /\ a \in 1..Len(activations)
      BY <1>1, <1>3, <2>1, <2>2
    <3>2. QED
      BY <1>4, <2>1, <3>1
  <2>3. CASE a = Len(activations) + 1
    <3>1. PICK n : n = Len(frames)
      OBVIOUS
    <3>2. activations'[a].kind = kind /\ activations'[a].target = n
      BY <2>1, <2>3, <3>1
    <3>3. /\ Len(frames') = n + 1 /\ n \in Nat /\ Pushes /\ Instr[1] = Starter(kind)
          /\ Entered(frames'[n + 1])
      BY <1>1, <1>7, <3>1, LenProperties DEF Begins, Pushes, TypeOK
    <3>4. CASE kind = "import"
      <4>1. frames'[n + 1].code = Arg /\ Instr[1] = "IMPORT_NAME" /\ Arg # 0
            /\ Fetch("IMPORT_NAME")
        BY <1>7, <3>3, <3>4 DEF Entered, Starter, Begins
      <4>2. frames # << >>
        BY <1>1, <4>1, FetchFacts
      <4>3. NoReturn(Arg)
        BY <4>1, <4>2, TopHeight DEF SizedAt
      <4>4. HoldsNext(activations'[a])
        BY <1>2, <3>2, <3>3, <3>4, <4>1, <4>3 DEF HoldsNext
      <4>5. QED
        BY <4>4, HoldsThen
    <3>5. CASE kind # "import"
      <4>1. WaitsAt(frames'[n], {"CALL_FUNCTION"})
        BY <1>1, <3>1, <3>3, <3>5, NewCallWaits DEF Starter
      <4>2. HoldsNext(activations'[a])
        BY <1>2, <3>2, <3>3, <3>5, <4>1 DEF HoldsNext
      <4>3. QED
        BY <4>2, HoldsThen
    <3>6. QED
      BY <3>4, <3>5
  <2>4. QED
    BY <2>2, <2>3
<1>8. QED
  BY <1>1, <1>5, <1>6, <1>7, StepNests

LEMMA SizesStay ==
  ASSUME UNCHANGED code_objects, NEW height, Sized(height)
  PROVE  Sized(height)'
<1>1. \A c : NoReturn(c)' = NoReturn(c)
  BY DEF NoReturn, OpAt, InstrAt
<1>2. ASSUME NEW c \in DOMAIN code_objects,
             NEW k \in DOMAIN code_objects[c].instructions
      PROVE  SizedAt(c, k, height[c])'
  <2>1. SizedAt(c, k, height[c])
    BY DEF Sized
  <2>2. InstrAt(c, k)' = InstrAt(c, k) /\ OpAt(c, k)' = OpAt(c, k)
    BY DEF OpAt, InstrAt
  <2>3. QED
    BY <1>1, <2>1, <2>2 DEF SizedAt
<1>3. QED
  BY <1>2 DEF Sized

LEMMA StepFrameLevels ==
  ASSUME NEW height, LevelInv(height), TypeOK', [Next]_vars, [NoneReentered]_vars
  PROVE  FramesLeveled(height)'
<1>1. TypeOK
  BY DEF LevelInv, HandlerInv, NestingInv
<1>2. ASSUME Enters
      PROVE  resume_generator => generators[Top(0)[2]].state # "Running"
  <2>1. Len(frames') = Len(frames) + 1 /\ Len(frames) \in Nat
    BY <1>1, <1>2, LenProperties DEF Enters, Pushes, TypeOK
  <2>2. ~UNCHANGED vars
    BY <2>1 DEF vars
  <2>3. QED
    BY <2>2 DEF NoneReentered
<1>3. QED
  BY <1>1, <1>2, StepKinds, SameLevels, ShiftLevels, EnterLevels, CaughtLevels, LeaveLevels,
     ReturnLeaves, YieldLeaves, ImportLevels, DunderLevels

LEMMA StepLevels ==
  ASSUME NEW height
  PROVE  LevelInv(height) /\ [Next]_vars /\ [NoneCrossed /\ NoneReentered]_vars
           => LevelInv(height)'
<1> SUFFICES ASSUME LevelInv(height), [Next]_vars, [NoneCrossed /\ NoneReentered]_vars
             PROVE  LevelInv(height)'
  OBVIOUS
<1>1. HandlerInv /\ TypeOK /\ Sized(height)
  BY DEF LevelInv, HandlerInv, NestingInv
<1>2. HandlerInv' /\ TypeOK'
  BY <1>1, StepHandlers, StepType
<1>3. Sized(height)'
  BY <1>1, StepTrimsOrPushes, SizesStay DEF Trims, Pushes
<1>4. [NoneCrossed]_vars /\ [NoneReentered]_vars
  OBVIOUS
<1>5. FramesLeveled(height)'
  BY <1>2, <1>4, StepFrameLevels
<1>6. GeneratorsLeveled(height)'
  BY StepGeneratorLevels
<1>7. HandlersLeveled(height)'
  BY <1>2, StepHandlerLevels
<1>8. CallsHold'
  BY <1>4, StepCalls
<1>9. QED
  BY <1>2, <1>3, <1>5, <1>6, <1>7, <1>8 DEF LevelInv

LEMMA InitLevels ==
  ASSUME NEW height
  PROVE  Init /\ Balanced /\ Sized(height) => LevelInv(height)
<1> SUFFICES ASSUME Init, Balanced, Sized(height)  PROVE LevelInv(height)
  OBVIOUS
<1>1. /\ frames = <<NewFrame(1, NoLocals, 0, Unset)>> /\ exception_stack = << >>
      /\ activations = <<[kind |-> "run", target |-> 0, module |-> 0]>>
      /\ generators = << >>
  BY DEF Init, Start
<1>2. HandlerInv /\ TypeOK
  BY InitHandlers DEF HandlerInv, NestingInv
<1>3. Len(frames) = 1 /\ frames[1].code = 1 /\ frames[1].ip = 1 /\ frames[1].sp = 0
  BY <1>1 DEF NewFrame
<1>4. height[1][1] = 0
  <2>1. 1 \in 1..Len(frames)
    BY <1>3
  <2>2. frames[1].code \in 1..Len(code_objects)
    BY <1>2, <2>1, FrameFacts
  <2>3. 1 \in DOMAIN code_objects[1].instructions
    BY <1>2, <1>3, <2>2, FirstInstr DEF HandlerInv
  <2>4. QED
    BY <1>2, <1>3, <2>2, <2>3, HeightFacts
<1>5. FramesLeveled(height)
  BY <1>3, <1>4 DEF FramesLeveled
<1>6. GeneratorsLeveled(height) /\ HandlersLeveled(height) /\ CallsHold
  BY <1>1 DEF GeneratorsLeveled, HandlersLeveled, CallsHold
<1>7. QED
  BY <1>2, <1>5, <1>6 DEF LevelInv

-------------------------------------------------------------------------------
(* What may end in a panic. *)

LEMMA PanicSteps ==
  ASSUME [Next]_vars
  PROVE  \/ UNCHANGED status \/ status' \in {"done", "error"}
         \/ StackPanic \/ Dangling \/ import_returns \/ dunder_returns
<1> DEFINE Fine == UNCHANGED status \/ status' \in {"done", "error"} \/ Dangling
<1>1. /\ \A f : Advance(f) => Fine
      /\ Fail => Fine
      /\ \A e : raise_exception(e) => Fine
      /\ \A fs : Goto(fs) => Fine
  BY DEF Advance, Goto, Fail, raise_exception, Caught, Uncaught
<1>2. \A t : try_handle_error(t) => Fine
  BY <1>1 DEF try_handle_error
<1>3. \A n, r : Deliver(n, r) => Fine
  BY <1>1, <1>2 DEF Deliver
<1> HIDE DEF Fine
<1>4. Namespaces => Fine
  <2>1. STORE_GLOBAL => Fine
    BY DEF STORE_GLOBAL, Fine
  <2>2. QED
    BY <1>1, <1>2, <2>1 DEF Namespaces, LOAD_CONST, LOAD_FAST, STORE_FAST, LOAD_GLOBAL
<1>5. Operands => Fine
  BY <1>1, <1>3 DEF Operands, ADD, FLOOR_DIV, LSHIFT, COMPARE_EQ, POP_TOP, LOAD_ATTR
<1>6. Jumps => Fine
  BY <1>1 DEF Jumps, JUMP, JUMP_IF_FALSE, JUMP_IF_TRUE
<1>7. Calls => Fine
  <2>1. MAKE_FUNCTION \/ BUILD_CLASS \/ CallException \/ CallError => Fine
    BY <1>1 DEF MAKE_FUNCTION, BUILD_CLASS, CallException, CallError
  <2>2. CallFunction \/ CallClass => Fine
    BY <1>1, <1>2 DEF CallFunction, CallClass, Enter
  <2>3. CallRange => Fine
    BY <1>2 DEF CallRange, Fine
  <2>4. CallFormat \/ CallDunder => Fine
    BY <1>1 DEF CallFormat, CallDunder, Fine
  <2>5. CallGeneratorFunction \/ RETURN_VALUE => Fine
    BY DEF CallGeneratorFunction, RETURN_VALUE, Fine
  <2>6. QED
    BY <2>1, <2>2, <2>3, <2>4, <2>5 DEF Calls
<1>8. Iteration => Fine
  <2>1. GET_ITER \/ FOR_ITER_completed \/ FOR_ITER_error \/ YIELD_outside => Fine
    BY <1>1 DEF GET_ITER, FOR_ITER_completed, FOR_ITER_error, YIELD_outside
  <2>2. FOR_ITER_range => Fine
    BY <1>1 DEF FOR_ITER_range, Fine
  <2>3. resume_generator \/ YIELD_VALUE => Fine
    BY DEF resume_generator, YIELD_VALUE, Fine
  <2>4. QED
    BY <2>1, <2>2, <2>3 DEF Iteration
<1>9. Exceptions => Fine
  <2>1. SETUP_EXCEPT \/ POP_EXCEPT => Fine
    BY DEF SETUP_EXCEPT, POP_EXCEPT, Fine
  <2>2. FinallyMarker \/ LOAD_EXCEPTION \/ RAISE_again \/ RAISE_value \/ RAISE_assertion => Fine
    BY <1>1 DEF FinallyMarker, LOAD_EXCEPTION, RAISE_again, RAISE_value, RAISE_assertion
  <2>3. QED
    BY <2>1, <2>2 DEF Exceptions
<1>10. Imports => Fine
  BY <1>1 DEF Imports, IMPORT_cached, IMPORT_missing, IMPORT_load, Fine
<1>11. run_returns => Fine
  BY DEF run_returns, Fine
<1>12. OutOfBounds => Fine
  BY <1>1 DEF OutOfBounds
<1>13. UNCHANGED vars => Fine
  BY DEF vars, Fine
<1>14. QED
  BY <1>4, <1>5, <1>6, <1>7, <1>8, <1>9, <1>10, <1>11, <1>12, <1>13
     DEF Next, Step, Terminated, Returns, Aborts, Fine

LEMMA NoneDangles ==
  ASSUME HandlerInv, Dangling
  PROVE  FALSE
<1>1. TypeOK /\ HandlersLive
  BY DEF HandlerInv, NestingInv, HandlerDiscipline
<1>2. Len(exception_stack) \in 1..Len(exception_stack) /\ Len(frames) \in Nat
  BY <1>1, EmptySeq, LenProperties DEF Dangling, TypeOK
<1>3. Handler.frame_index \in Nat /\ Handler.frame_index <= Len(frames)
  <2>1. Handler \in Handlers /\ Handler.frame_index <= Len(frames)
    BY <1>1, <1>2, ElementOfSeq DEF HandlersLive, Handler, TypeOK
  <2>2. QED
    BY <2>1 DEF Handlers
<1>4. QED
  BY <1>2, <1>3 DEF Dangling

LEMMA StepNoPanic ==
  ASSUME NEW height, LevelInv(height), NoPanic, [Next]_vars
  PROVE  NoPanic'
<1>1. HandlerInv /\ TypeOK
  BY DEF LevelInv, HandlerInv, NestingInv
<1>2. ~StackPanic
  <2>1. SUFFICES ASSUME StackPanic  PROVE FALSE
    OBVIOUS
  <2>2. frames # << >>
    BY <1>1, <2>1, DispatchFacts DEF StackPanic
  <2>3. QED
    BY <2>1, <2>2, StackAlwaysFits DEF StackPanic
<1>3. ~Dangling
  BY <1>1, NoneDangles
<1>4. import_returns \/ dunder_returns => UNCHANGED status
  BY ImportLevels, DunderLevels
<1>5. QED
  BY <1>2, <1>3, <1>4, PanicSteps DEF NoPanic

LEMMA InitNoPanic == Init => NoPanic
  BY DEF Init, Start, NoPanic

LEMMA AlwaysLeveled ==
  ASSUME NEW height
  PROVE  Spec /\ Balanced /\ Sized(height) /\ [][NoneCrossed /\ NoneReentered]_vars
           => []LevelInv(height)
<1>1. Init /\ Balanced /\ Sized(height) => LevelInv(height)
  BY InitLevels
<1>2. LevelInv(height) /\ [Next]_vars /\ [NoneCrossed /\ NoneReentered]_vars => LevelInv(height)'
  BY StepLevels
<1>3. QED
  BY <1>1, <1>2, PTL DEF Spec

(* Balanced and sized code never takes the interpreter out of bounds, as long
   as no exception leaves the call of the dispatch loop it is raised in and no
   generator is resumed that is Running: no operand stack under- or overflows,
   whatever code waits below, no handler or call of the loop outlives its
   frame.  So the indices vm.rs does not check need no check.                 *)
THEOREM NeverPanics ==
  ASSUME NEW height
  PROVE  Spec /\ Balanced /\ Sized(height) /\ [][NoneCrossed /\ NoneReentered]_vars => []NoPanic
<1>1. Init => NoPanic
  BY InitNoPanic
<1>2. LevelInv(height) /\ NoPanic /\ [Next]_vars => NoPanic'
  BY StepNoPanic
<1>3. QED
  BY <1>1, <1>2, AlwaysLeveled, PTL DEF Spec

(* A statement leaves the operand stack as it found it: in sized code a function
   returns the only operand there is, and a try statement or the end of a module
   finds none, whatever calls, generators and exceptions came in between.      *)
THEOREM StackAlwaysUsedUp ==
  ASSUME NEW height
  PROVE  Spec /\ Balanced /\ Sized(height) /\ [][NoneCrossed /\ NoneReentered]_vars
           => []StackUsedUp
<1>1. LevelInv(height) => StackUsedUp
  <2> SUFFICES ASSUME LevelInv(height), Dispatching
               PROVE  /\ Instr[1] = "RETURN_VALUE" => frame.sp = 1
                      /\ Instr[1] \in {"SETUP_EXCEPT", "POP_EXCEPT", "HALT"} => frame.sp = 0
    BY DEF StackUsedUp, Dispatching
  <2>1. frames # << >>
    BY DispatchFacts DEF LevelInv, HandlerInv, NestingInv
  <2>2. QED
    BY <2>1, TopHeight DEF SizedAt
<1>2. QED
  BY <1>1, AlwaysLeveled, PTL

(* Code behind a yield finds the value of the yield expression on its stack. *)
THEOREM ResumedWithValue ==
  ASSUME NEW height
  PROVE  Spec /\ Balanced /\ Sized(height) /\ [][NoneCrossed /\ NoneReentered]_vars
           => []ResumeContract
<1>1. LevelInv(height) => ResumeContract
  <2> SUFFICES ASSUME LevelInv(height), frames # << >>, WaitsAt(frame, {"YIELD_VALUE"})
               PROVE  frame.sp > 0
    BY DEF ResumeContract
  <2>1. PICK c : c = frame.code
    OBVIOUS
  <2>2. PICK k : k = frame.ip - 1
    OBVIOUS
  <2>3. /\ TypeOK /\ Sized(height) /\ frame \in Frames
        /\ frame.sp = height[c][frame.ip]
    BY <2>1, TopHeight DEF LevelInv
  <2>4. /\ c \in 1..Len(code_objects) /\ k \in DOMAIN code_objects[c].instructions
        /\ OpAt(c, k) = "YIELD_VALUE" /\ k + 1 = frame.ip
    BY <2>1, <2>2, <2>3 DEF WaitsAt, Frames
  <2>5. Pops("YIELD_VALUE", InstrAt(c, k)[2]) = 1 /\ Puts("YIELD_VALUE") = 1
    BY DEF Pops, Puts
  <2>6. SizedAt(c, k, height[c]) /\ height[c][k] \in Nat
    BY <2>3, <2>4, HeightFacts
  <2>7. height[c][k] >= 1 /\ height[c][k + 1] = height[c][k] - 1 + 1
    BY <2>4, <2>5, <2>6 DEF SizedAt
  <2>8. QED
    BY <2>3, <2>4, <2>6, <2>7
<1>2. QED
  BY <1>1, AlwaysLeveled, PTL

=============================================================================
