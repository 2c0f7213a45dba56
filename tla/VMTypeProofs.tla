----------------------------- MODULE VMTypeProofs -----------------------------
(***************************************************************************)
(* The type invariant of the interpreter, for every code table, every set   *)
(* of names and every size of the operand stack: no value refers to an      *)
(* object that is not there.  One lemma for each group of actions of VM.    *)
(***************************************************************************)
EXTENDS VMProperties, SequenceTheorems, WellFoundedInduction, TLAPS

-------------------------------------------------------------------------------
(* Sequences and numbers. *)

(* The first n elements of a sequence make a sequence of the same kind. *)
LEMMA PrefixType ==
  ASSUME NEW S, NEW s \in Seq(S), NEW n \in 0..Len(s)
  PROVE  /\ SubSeq(s, 1, n) \in Seq(S)
         /\ Len(SubSeq(s, 1, n)) = n
         /\ \A i \in 1..n : SubSeq(s, 1, n)[i] = s[i]
<1>1. \A i \in 1..n : s[i] \in S
  BY ElementOfSeq, LenProperties
<1>2. QED
  BY <1>1, SubSeqProperties, LenProperties

(* AllButLast drops one element and keeps the others. *)
LEMMA AllButLastType ==
  ASSUME NEW S, NEW s \in Seq(S), s # << >>
  PROVE  /\ AllButLast(s) \in Seq(S)
         /\ Len(AllButLast(s)) = Len(s) - 1
         /\ \A i \in 1..Len(s) - 1 : AllButLast(s)[i] = s[i]
<1>1. Len(s) - 1 \in 0..Len(s)
  BY EmptySeq, LenProperties
<1>2. QED
  BY <1>1, PrefixType DEF AllButLast

(* The last element of a sequence may be replaced. *)
LEMMA LastReplaced ==
  ASSUME NEW S, NEW s \in Seq(S), s # << >>, NEW e \in S
  PROVE  [s EXCEPT ![Len(s)] = e] \in Seq(S)
  BY EmptySeq, ExceptSeq, LenProperties

(* A nonempty set of positive numbers up to n has a greatest. *)
LEMMA Greatest ==
  ASSUME NEW n \in Nat, NEW T, T \subseteq 1..n, T # {}
  PROVE  \E k \in T : \A j \in T : j <= k
<1> DEFINE U == {n - k : k \in T}
<1>1. U \subseteq Nat /\ U # {}
  <2>1. U # {}
    <3>1. PICK k : k \in T
      OBVIOUS
    <3>2. n - k \in U
      BY <3>1
    <3>3. QED
      BY <3>2
  <2>2. ASSUME NEW k \in T  PROVE n - k \in Nat
    OBVIOUS
  <2>3. QED
    BY <2>1, <2>2
<1>2. PICK x \in U : \A y \in U : ~ (<<y, x>> \in OpToRel(<, Nat))
  BY <1>1, NatLessThanWellFounded, WFMin
<1>3. PICK k \in T : x = n - k
  OBVIOUS
<1>4. ASSUME NEW j \in T  PROVE j <= k
  <2>1. n - j \in U /\ n - j \in Nat /\ x \in Nat
    BY <1>1
  <2>2. ~ (n - j < x)
    BY <1>2, <2>1 DEF OpToRel
  <2>3. QED
    BY <2>2, <1>3
<1>5. QED
  BY <1>4

-------------------------------------------------------------------------------
(* Values. *)

(* A function's code is code, and numbered from 1. *)
LEMMA FunctionCodes ==
  ASSUME IsProgram(code_objects)
  PROVE  /\ FunctionCode \subseteq 1..Len(code_objects) /\ 0 \notin FunctionCode
         /\ \A c \in DOMAIN code_objects : \A k \in DOMAIN code_objects[c].instructions :
              code_objects[c].instructions[k][1] = "MAKE_FUNCTION" =>
                code_objects[c].instructions[k][2] \in FunctionCode
<1>1. Len(code_objects) \in Nat
  BY LenProperties DEF IsProgram
<1>2. ASSUME NEW c \in DOMAIN code_objects,
             NEW k \in DOMAIN code_objects[c].instructions,
             code_objects[c].instructions[k][1] = "MAKE_FUNCTION"
      PROVE  code_objects[c].instructions[k][2] \in 1..Len(code_objects)
  BY <1>2 DEF IsProgram, Operand
<1>3. QED
  BY <1>1, <1>2 DEF FunctionCode

(* What a value may be made of. *)
LEMMA ValueIntro ==
  /\ Literals \subseteq Value
  /\ None \in Value /\ Str_ \in Value
  /\ \A n \in Int : Int_(n) \in Value
  /\ \A b \in BOOLEAN : Bool_(b) \in Value
  /\ \A t \in ExcTypes : Exc(t) \in Value /\ ExcType(t) \in Value
  /\ \A b \in BuiltinFns : Builtin(b) \in Value
  /\ \A c \in FunctionCode, m \in 0..Len(modules) : Func(c, m) \in Value
  /\ \A i, s \in FunctionCode \cup {0}, m \in 0..Len(modules) :
       Class(i, s, m) \in Value /\ Inst(s, m) \in Value
  /\ \A g \in 1..Len(generators) : Gen(g) \in Value
  /\ \A i \in 1..Len(iters) : Iter(i) \in Value
  /\ \A m \in 1..Len(modules) : Module(m) \in Value
  BY DEF Value, Literals, None, Str_, Int_, Bool_, Exc, ExcType, Builtin, Func,
         Class, Inst, Gen, Iter, Module

(* What a value refers to. *)
LEMMA ValueElim ==
  ASSUME NEW v \in Value
  PROVE  /\ v[1] \in {"exc", "exctype"} => v[2] \in ExcTypes
         /\ v[1] = "int" => v[2] \in Int
         /\ v[1] = "func" => v[2] \in FunctionCode /\ v[3] \in 0..Len(modules)
         /\ v[1] = "class" => /\ v[2] \in FunctionCode \cup {0}
                              /\ v[3] \in FunctionCode \cup {0}
                              /\ v[4] \in 0..Len(modules)
         /\ v[1] = "inst" => v[2] \in FunctionCode \cup {0} /\ v[3] \in 0..Len(modules)
         /\ v[1] = "gen" => v[2] \in 1..Len(generators)
         /\ v[1] = "iter" => v[2] \in 1..Len(iters)
         /\ v[1] = "module" => v[2] \in 1..Len(modules)
         /\ IsInt(v) => AsInt(v) \in Int
  BY DEF Value, Literals, None, Str_, IsInt, AsInt

-------------------------------------------------------------------------------
(* What an instruction finds. *)

(* Where the loop dispatches there is a frame. *)
LEMMA DispatchFacts ==
  ASSUME TypeOK, Dispatching
  PROVE  /\ frames # << >> /\ Len(frames) \in Nat \ {0}
         /\ frame \in Frames
         /\ activations # << >> /\ Len(activations) \in Nat \ {0}
         /\ Activation \in Activations
<1>1. Len(activations) \in Nat \ {0} /\ Activation \in Activations
  BY EmptySeq, ElementOfSeq DEF TypeOK, Activation
<1>2. Len(frames) \in Nat /\ Activation.target \in Nat
  BY <1>1, LenProperties DEF TypeOK, Activations
<1>3. Len(frames) \in Nat \ {0}
  BY <1>2 DEF Dispatching
<1>4. frames # << >>
  BY <1>3, EmptySeq
<1>5. frame \in Frames
  BY <1>3, ElementOfSeq DEF TypeOK, frame
<1>6. QED
  BY <1>1, <1>3, <1>4, <1>5 DEF TypeOK

(* A fetched instruction has an operand of its kind and the stack it needs. *)
LEMMA FetchFacts ==
  ASSUME TypeOK, NEW op, Fetch(op)
  PROVE  /\ frames # << >> /\ Len(frames) \in Nat \ {0}
         /\ frame \in Frames
         /\ Operand(op, Arg, Len(code_objects))
         /\ frame.sp >= Pops(op, Arg)
         /\ Grows(op) => frame.sp < MAX_STACK
         /\ Delivers(op) => frames[Len(frames) - 1].sp < MAX_STACK
<1>1. Dispatching /\ InCode /\ StackFits /\ Instr[1] = op
  BY DEF Fetch
<1>2. frames # << >> /\ Len(frames) \in Nat \ {0} /\ frame \in Frames
  BY <1>1, DispatchFacts
<1>3. frame.code \in DOMAIN code_objects
  BY <1>2, LenProperties DEF TypeOK, Frames, IsProgram
<1>4. Operand(op, Arg, Len(code_objects))
  BY <1>1, <1>3 DEF TypeOK, IsProgram, InCode, Instructions, Instr, Arg
<1>5. QED
  BY <1>1, <1>2, <1>4 DEF StackFits

(* A value in use on the operand stack is a value. *)
LEMMA TopType ==
  ASSUME TypeOK, frame \in Frames, NEW n \in Nat, n < frame.sp
  PROVE  Top(n) \in Value
  BY StackAssumption DEF Top, Frames

(* A store into the operand stack makes an operand stack. *)
LEMMA StackType ==
  ASSUME NEW f \in Frames, NEW k \in 1..MAX_STACK, NEW v \in Value
  PROVE  [f.stack EXCEPT ![k] = v] \in [1..MAX_STACK -> Value]
  BY DEF Frames

(* Putting a value where n have been taken makes a frame. *)
LEMMA PushedType ==
  ASSUME frame \in Frames, NEW n \in Nat, n <= frame.sp, frame.sp - n < MAX_STACK,
         NEW v \in Value
  PROVE  Pushed(n, v) \in Frames
<1> DEFINE ip == frame.ip + 1
           sp == frame.sp - n + 1
           stack == [frame.stack EXCEPT ![sp] = v]
<1>1. ip \in Nat \ {0} /\ sp \in 0..MAX_STACK /\ sp \in 1..MAX_STACK
  BY StackAssumption DEF Frames
<1>2. stack \in [1..MAX_STACK -> Value]
  BY <1>1, StackType
<1> HIDE DEF ip, sp, stack
<1>3. [frame EXCEPT !.ip = ip, !.sp = sp, !.stack = stack] \in Frames
  BY <1>1, <1>2 DEF Frames
<1>4. QED
  BY <1>3 DEF Pushed, ip, sp, stack

(* The same of a value that the step has just allocated. *)
LEMMA GrownPushedType ==
  ASSUME frame \in Frames', NEW n \in Nat, n <= frame.sp, frame.sp - n < MAX_STACK,
         NEW v \in Value'
  PROVE  Pushed(n, v) \in Frames'
<1> DEFINE ip == frame.ip + 1
           sp == frame.sp - n + 1
           stack == [frame.stack EXCEPT ![sp] = v]
<1>1. ip \in Nat \ {0} /\ sp \in 0..MAX_STACK /\ sp \in 1..MAX_STACK
      /\ frame.stack \in [1..MAX_STACK -> Value']
  BY StackAssumption DEF Frames
<1>2. stack \in [1..MAX_STACK -> Value']
  BY <1>1
<1> HIDE DEF ip, sp, stack
<1>3. [frame EXCEPT !.ip = ip, !.sp = sp, !.stack = stack] \in Frames'
  BY <1>1, <1>2 DEF Frames
<1>4. QED
  BY <1>3 DEF Pushed, ip, sp, stack

(* Taking n values makes a frame. *)
LEMMA PoppedType ==
  ASSUME frame \in Frames, NEW n \in Nat, n <= frame.sp
  PROVE  Popped(n) \in Frames /\ Popped(n).sp = frame.sp - n
<1>1. frame.ip + 1 \in Nat \ {0} /\ frame.sp - n \in 0..MAX_STACK
  BY StackAssumption DEF Frames
<1>2. QED
  BY <1>1 DEF Popped, Frames

(* A frame that has a value on its stack gives it up. *)
LEMMA PopOneType ==
  ASSUME TypeOK, frame \in Frames, frame.sp >= 1
  PROVE  Popped(1) \in Frames /\ Top(0) \in Value
<1>1. frame.sp \in Nat /\ 0 < frame.sp /\ 1 <= frame.sp
  BY StackAssumption DEF Frames
<1>2. Popped(1) \in Frames
  BY <1>1, PoppedType
<1>3. Top(0) \in Value
  BY <1>1, TopType
<1> QED BY <1>2, <1>3

(* A frame with room takes a value. *)
LEMMA PushOnType ==
  ASSUME NEW f \in Frames, f.sp < MAX_STACK, NEW v \in Value
  PROVE  PushOn(f, v) \in Frames
<1> DEFINE sp == f.sp + 1
           stack == [f.stack EXCEPT ![sp] = v]
<1>1. sp \in 0..MAX_STACK /\ sp \in 1..MAX_STACK
  BY StackAssumption DEF Frames
<1>2. stack \in [1..MAX_STACK -> Value]
  BY <1>1, StackType
<1> HIDE DEF sp, stack
<1>3. [f EXCEPT !.sp = sp, !.stack = stack] \in Frames
  BY <1>1, <1>2 DEF Frames
<1>4. QED
  BY <1>3 DEF PushOn, sp, stack

(* Replacing the last frame makes a stack of frames. *)
LEMMA SetTopType ==
  ASSUME TypeOK, frames # << >>, NEW f \in Frames
  PROVE  SetTop(f) \in Seq(Frames) /\ SetTop(f) # << >> /\ Len(SetTop(f)) = Len(frames)
<1>1. frames \in Seq(Frames) /\ Len(frames) \in 1..Len(frames)
  BY EmptySeq, LenProperties DEF TypeOK
<1>2. SetTop(f) \in Seq(Frames) /\ Len(SetTop(f)) = Len(frames)
  BY <1>1, ExceptSeq DEF SetTop
<1>3. QED
  BY <1>1, <1>2, EmptySeq

-------------------------------------------------------------------------------
(* How the invariant is kept. *)

(* The kinds of values and frames depend on the sizes of the heap only. *)
LEMMA SameSizes ==
  ASSUME UNCHANGED program, Len(generators') = Len(generators),
         Len(iters') = Len(iters), Len(modules') = Len(modules)
  PROVE  Value' = Value /\ Frames' = Frames /\ Modules' = Modules
<1>1. code_objects' = code_objects
  BY DEF program
<1>2. FunctionCode' = FunctionCode
  BY <1>1 DEF FunctionCode
<1>3. Value' = Value
  BY <1>1, <1>2 DEF Value
<1>4. QED
  BY <1>1, <1>3 DEF Frames, Modules

(* A step that leaves the heap alone keeps the meaning of every reference. *)
LEMMA SameHeap ==
  ASSUME UNCHANGED <<program, heap>>
  PROVE  /\ Value' = Value /\ Frames' = Frames /\ Activations' = Activations
         /\ Generators' = Generators /\ Modules' = Modules
         /\ IsProgram(code_objects)' = IsProgram(code_objects)
  BY DEF program, heap, FunctionCode, Value, Frames, Activations, Generators,
     GeneratorObjects, Modules

(* Such a step keeps the type invariant if it puts values of the right kind
   into the variables it changes.                                           *)
LEMMA ControlStep ==
  ASSUME TypeOK, UNCHANGED <<program, activations, heap>>,
         frames' \in Seq(Frames), exception_stack' \in Seq(Handlers),
         current_exception' \in ({"exc"} \X ExcTypes) \cup {Unset},
         globals' \in [Names -> Value \cup {Unset}], output' \in Seq(Value),
         status' \in {"running", "done", "error", "panic"}
  PROVE  TypeOK'
<1>1. /\ Value' = Value /\ Frames' = Frames /\ Activations' = Activations
      /\ Generators' = Generators /\ Modules' = Modules
      /\ IsProgram(code_objects)' = IsProgram(code_objects)
  BY SameHeap
<1>2. Handlers' = Handlers
  BY DEF Handlers
<1>3. \A a : ActivationOK(a)' = ActivationOK(a)
  BY DEF ActivationOK
<1>4. QED
  BY <1>1, <1>2, <1>3 DEF TypeOK, program, heap

(* A step that adds to the heap, or changes what is there, keeps the meaning of
   every reference too.                                                      *)
HeapGrows == /\ UNCHANGED program
             /\ Len(generators) <= Len(generators') /\ Len(generators') \in Nat
             /\ Len(iters) <= Len(iters') /\ Len(iters') \in Nat
             /\ Len(modules) <= Len(modules') /\ Len(modules') \in Nat

LEMMA ReferencesStay ==
  ASSUME TypeOK, HeapGrows
  PROVE  /\ Value \subseteq Value' /\ Frames \subseteq Frames'
         /\ Activations \subseteq Activations'
         /\ Generators \subseteq Generators' /\ Modules \subseteq Modules'
         /\ Handlers' = Handlers /\ IsProgram(code_objects)' = IsProgram(code_objects)
<1>1. code_objects' = code_objects
  BY DEF HeapGrows, program
<1>2. Len(generators) \in Nat /\ Len(iters) \in Nat /\ Len(modules) \in Nat
  BY LenProperties DEF TypeOK
<1>3. Value \subseteq Value'
  <2>1. FunctionCode' = FunctionCode
    BY <1>1 DEF FunctionCode
  <2>2. QED
    BY <1>1, <1>2, <2>1 DEF Value, Literals, HeapGrows
<1>4. 0..Len(generators) \subseteq 0..Len(generators') /\ 0..Len(modules) \subseteq 0..Len(modules')
  BY <1>2 DEF HeapGrows
<1>5. Frames \subseteq Frames'
  BY <1>1, <1>3, <1>4 DEF Frames
<1>6. Activations \subseteq Activations' /\ Generators \subseteq Generators'
      /\ Modules \subseteq Modules'
  BY <1>1, <1>3, <1>4 DEF Activations, Generators, GeneratorObjects, Modules
<1>7. QED
  BY <1>1, <1>3, <1>5, <1>6 DEF Handlers

LEMMA HeapStep ==
  ASSUME TypeOK, HeapGrows,
         frames' \in Seq(Frames'), activations' \in Seq(Activations'), activations' # << >>,
         \A a \in 1..Len(activations') : ActivationOK(a)',
         generators' \in Seq(Generators'), iters' \in Seq([current : Int, stop : Int]),
         modules' \in Seq(Modules'),
         sys_modules' \in [1..Len(code_objects) -> 0..Len(modules')],
         UNCHANGED <<exception_stack, current_exception, globals, status>>,
         output' \in Seq(Value')
  PROVE  TypeOK'
<1>1. globals \in [Names -> Value' \cup {Unset}]
  BY ReferencesStay DEF TypeOK
<1>2. code_objects' = code_objects
  BY DEF HeapGrows, program
<1>3. QED
  BY <1>1, <1>2, ReferencesStay DEF TypeOK

(* What a step leaves alone stays well typed while the heap grows. *)
LEMMA StaysTyped ==
  ASSUME TypeOK, HeapGrows
  PROVE  /\ \A fs \in Seq(Frames) : fs \in Seq(Frames')
         /\ \A as \in Seq(Activations) : as \in Seq(Activations')
         /\ \A gs \in Seq(Generators) : gs \in Seq(Generators')
         /\ \A ms \in Seq(Modules) : ms \in Seq(Modules')
         /\ \A vs \in Seq(Value) : vs \in Seq(Value')
         /\ sys_modules \in [1..Len(code_objects) -> 0..Len(modules')]
         /\ UNCHANGED activations =>
              /\ activations' \in Seq(Activations') /\ activations' # << >>
              /\ \A a \in 1..Len(activations') : ActivationOK(a)'
<1>1. /\ \A fs \in Seq(Frames) : fs \in Seq(Frames')
      /\ \A as \in Seq(Activations) : as \in Seq(Activations')
      /\ \A gs \in Seq(Generators) : gs \in Seq(Generators')
      /\ \A ms \in Seq(Modules) : ms \in Seq(Modules')
      /\ \A vs \in Seq(Value) : vs \in Seq(Value')
  BY ReferencesStay, SeqMonotonic
<1>2. sys_modules \in [1..Len(code_objects) -> 0..Len(modules')]
  <2>1. 0..Len(modules) \subseteq 0..Len(modules')
    BY LenProperties DEF TypeOK, HeapGrows
  <2>2. QED
    BY <2>1 DEF TypeOK
<1>3. UNCHANGED activations => \A a : ActivationOK(a)' = ActivationOK(a)
  BY DEF ActivationOK
<1>4. QED
  BY <1>1, <1>2, <1>3 DEF TypeOK

(* A step that only moves frames, and one that only ends the run. *)
LEMMA GotoType ==
  ASSUME TypeOK, NEW fs \in Seq(Frames), Goto(fs)
  PROVE  TypeOK'
  BY ControlStep DEF Goto, TypeOK

LEMMA AdvanceType ==
  ASSUME TypeOK, frames # << >>, NEW f \in Frames, Advance(f)
  PROVE  TypeOK'
  BY SetTopType, GotoType DEF Advance

LEMMA FailType ==
  ASSUME TypeOK, Fail
  PROVE  TypeOK'
  BY ControlStep DEF Fail, TypeOK

(* What a frame is of does not change as it runs. *)
Continues(f, g) == f.code = g.code /\ f.gen = g.gen /\ f.module = g.module

(* Unwinding to a handler of a live frame makes a stack of frames. *)
LEMMA UnwindType ==
  ASSUME TypeOK, NEW h \in Handlers, h.frame_index <= Len(frames)
  PROVE  /\ UnwindTo(h) \in Seq(Frames) /\ Len(UnwindTo(h)) = h.frame_index
         /\ \A i \in 1..h.frame_index - 1 : UnwindTo(h)[i] = frames[i]
         /\ Continues(UnwindTo(h)[h.frame_index], frames[h.frame_index])
         /\ UnwindTo(h)[h.frame_index].ip = h.handler_ip
         /\ UnwindTo(h)[h.frame_index].sp = h.stack_depth
<1> DEFINE below == SubSeq(frames, 1, h.frame_index)
           f == [below[h.frame_index] EXCEPT !.ip = h.handler_ip, !.sp = h.stack_depth]
<1>1. h.frame_index \in 1..Len(frames) /\ h.handler_ip \in Nat \ {0}
      /\ h.stack_depth \in 0..MAX_STACK
  BY LenProperties DEF Handlers, TypeOK
<1>2. /\ below \in Seq(Frames) /\ Len(below) = h.frame_index
      /\ \A i \in 1..h.frame_index : below[i] = frames[i]
  BY <1>1, PrefixType DEF TypeOK
<1>3. below[h.frame_index] \in Frames
  BY <1>1, <1>2, ElementOfSeq
<1>4. f \in Frames
  BY <1>1, <1>3 DEF Frames
<1>5. UnwindTo(h) = [below EXCEPT ![h.frame_index] = f]
  BY DEF UnwindTo
<1>6. /\ Continues(f, below[h.frame_index])
      /\ f.ip = h.handler_ip /\ f.sp = h.stack_depth
  <2> HIDE DEF below
  <2>1. \A g \in Frames : \A k, n :
          /\ Continues([g EXCEPT !.ip = k, !.sp = n], g)
          /\ [g EXCEPT !.ip = k, !.sp = n].ip = k
          /\ [g EXCEPT !.ip = k, !.sp = n].sp = n
    <3> TAKE g \in Frames
    <3> TAKE k, n
    <3> DEFINE moved == [g EXCEPT !.ip = k]
    <3>1. /\ {"code", "ip", "sp", "gen", "module"} \subseteq DOMAIN moved
          /\ Continues(moved, g) /\ moved.ip = k
      BY DEF Frames, Continues
    <3>2. [g EXCEPT !.ip = k, !.sp = n] = [moved EXCEPT !.sp = n]
      OBVIOUS
    <3> HIDE DEF moved
    <3>3. /\ Continues([moved EXCEPT !.sp = n], moved) /\ [moved EXCEPT !.sp = n].ip = moved.ip
          /\ [moved EXCEPT !.sp = n].sp = n
      BY <3>1 DEF Continues
    <3>4. QED
      BY <3>1, <3>2, <3>3 DEF Continues
  <2>2. \A k, n : /\ Continues([below[h.frame_index] EXCEPT !.ip = k, !.sp = n], below[h.frame_index])
                  /\ [below[h.frame_index] EXCEPT !.ip = k, !.sp = n].ip = k
                  /\ [below[h.frame_index] EXCEPT !.ip = k, !.sp = n].sp = n
    BY <1>3, <2>1
  <2>3. QED
    BY <2>2
<1> HIDE DEF below, f
<1>7. /\ UnwindTo(h) \in Seq(Frames) /\ Len(UnwindTo(h)) = Len(below)
      /\ \A i \in 1..Len(below) :
           UnwindTo(h)[i] = IF i = h.frame_index THEN f ELSE below[i]
  BY <1>1, <1>2, <1>4, <1>5, ExceptSeq
<1>8. h.frame_index \in 1..Len(below)
  BY <1>1, <1>2
<1>9. /\ Continues(UnwindTo(h)[h.frame_index], frames[h.frame_index])
      /\ UnwindTo(h)[h.frame_index].ip = h.handler_ip
      /\ UnwindTo(h)[h.frame_index].sp = h.stack_depth
  BY <1>2, <1>6, <1>7, <1>8
<1>10. \A i \in 1..h.frame_index - 1 : UnwindTo(h)[i] = frames[i]
  BY <1>1, <1>2, <1>7
<1>11. QED
  BY <1>2, <1>7, <1>9, <1>10

(* Raising an exception, in each of its three outcomes. *)
LEMMA RaiseType ==
  ASSUME TypeOK, NEW t \in ExcTypes, raise_exception(Exc(t))
  PROVE  TypeOK'
<1>1. current_exception' \in ({"exc"} \X ExcTypes) \cup {Unset}
  BY DEF raise_exception, Exc
<1>2. ASSUME exception_stack # << >>
      PROVE  /\ Handler \in Handlers
             /\ AllButLast(exception_stack) \in Seq(Handlers)
  BY <1>2, EmptySeq, ElementOfSeq, AllButLastType DEF TypeOK, Handler
<1>3. CASE Caught
  BY <1>1, <1>2, <1>3, UnwindType, ControlStep DEF raise_exception, Caught, TypeOK
<1>4. CASE Dangling
  BY <1>1, <1>2, <1>4, ControlStep DEF raise_exception, Dangling, TypeOK
<1>5. CASE Uncaught
  BY <1>1, <1>5, ControlStep DEF raise_exception, Uncaught, TypeOK
<1>6. QED
  BY <1>3, <1>4, <1>5 DEF raise_exception

(* An Err, and the result of an operation that may be one. *)
LEMMA HandleErrorType ==
  ASSUME TypeOK, NEW t \in ExcTypes, try_handle_error(t)
  PROVE  TypeOK'
  BY FailType, RaiseType DEF try_handle_error

LEMMA DeliverType ==
  ASSUME TypeOK, frames # << >>, frame \in Frames,
         NEW n \in Nat, n <= frame.sp, frame.sp - n < MAX_STACK,
         NEW result, result[1] = "err" => result[2] \in ExcTypes,
         result[1] # "err" => result \in Value, Deliver(n, result)
  PROVE  TypeOK'
  BY HandleErrorType, PushedType, AdvanceType DEF Deliver

-------------------------------------------------------------------------------
(* Names, operands and jumps. *)

(* The results of arithmetic are values or errors that name an exception. *)
LEMMA ArithmeticType ==
  ASSUME NEW l \in Value, NEW r \in Value, NEW result,
         result \in {binary_add(l, r), binary_floor_div(l, r)}
  PROVE  /\ result[1] = "err" => result[2] \in ExcTypes
         /\ result[1] # "err" => result \in Value
<1>1. \A t : Err(t)[1] = "err" /\ Err(t)[2] = t
  BY DEF Err
<1>2. \A n : Int_(n)[1] = "int"
  BY DEF Int_
<1>3. Str_[1] = "str" /\ {"TypeError", "ZeroDivisionError"} \subseteq ExcTypes
  BY DEF Str_, ExcTypes
<1>4. CASE result = binary_add(l, r)
  BY <1>1, <1>2, <1>3, <1>4, ValueElim, ValueIntro DEF binary_add
<1>5. CASE result = binary_floor_div(l, r)
  BY <1>1, <1>2, <1>3, <1>5, ValueElim, ValueIntro DEF binary_floor_div
<1>6. QED
  BY <1>4, <1>5

(* A name found in a namespace is a value. *)
LEMMA LookupType ==
  ASSUME TypeOK, frame \in Frames, NEW n \in Names \cup ExcTypes \cup BuiltinFns,
         frame_globals_get(n) # Unset
  PROVE  frame_globals_get(n) \in Value
<1> DEFINE own == IF frame.module = 0 THEN globals ELSE modules[frame.module].globals
<1>1. own \in [Names -> Value \cup {Unset}]
  <2>1. CASE frame.module = 0
    BY <2>1 DEF TypeOK
  <2>2. CASE frame.module # 0
    <3>1. frame.module \in 1..Len(modules)
      BY <2>2, LenProperties DEF Frames, TypeOK
    <3>2. modules[frame.module] \in Modules
      BY <3>1, ElementOfSeq DEF TypeOK
    <3>3. QED
      BY <2>2, <3>2 DEF Modules
  <2>3. QED
    BY <2>1, <2>2
<1>2. BuiltinOf(n) # Unset => BuiltinOf(n) \in Value
  BY ValueIntro DEF BuiltinOf
<1> HIDE DEF own
<1>3. frame_globals_get(n) = IF n \in Names /\ own[n] # Unset THEN own[n] ELSE BuiltinOf(n)
  BY DEF frame_globals_get, own
<1>4. QED
  BY <1>1, <1>2, <1>3

LEMMA NamespacesType ==
  ASSUME TypeOK, Namespaces
  PROVE  TypeOK'
<1>1. CASE LOAD_CONST
  <2>1. Fetch("LOAD_CONST") /\ Advance(Pushed(0, Arg))
    BY <1>1 DEF LOAD_CONST
  <2>2. /\ frames # << >> /\ frame \in Frames /\ frame.sp < MAX_STACK
        /\ Arg \in Value
    BY <2>1, FetchFacts, ValueIntro DEF Operand, Grows
  <2>3. Pushed(0, Arg) \in Frames
    BY <2>2, PushedType DEF Frames
  <2>4. QED
    BY <2>1, <2>2, <2>3, AdvanceType
<1>2. CASE LOAD_FAST
  <2>1. Fetch("LOAD_FAST") /\ Advance(Pushed(0, frame.locals[Arg]))
    BY <1>2 DEF LOAD_FAST
  <2>2. /\ frames # << >> /\ frame \in Frames /\ frame.sp < MAX_STACK
        /\ Arg \in Names
    BY <2>1, FetchFacts DEF Operand, Grows
  <2>3. Pushed(0, frame.locals[Arg]) \in Frames
    BY <2>2, PushedType DEF Frames
  <2>4. QED
    BY <2>1, <2>2, <2>3, AdvanceType
<1>3. CASE STORE_FAST
  <2> DEFINE f == [Popped(1) EXCEPT !.locals[Arg] = Top(0)]
  <2>1. Fetch("STORE_FAST") /\ Advance(f)
    BY <1>3 DEF STORE_FAST
  <2>2. /\ frames # << >> /\ frame \in Frames /\ frame.sp >= 1
        /\ Arg \in Names
    BY <2>1, FetchFacts DEF Operand, Pops
  <2>3. Popped(1) \in Frames /\ Top(0) \in Value
    BY <2>2, PopOneType
  <2>4. f \in Frames
    BY <2>2, <2>3 DEF Frames
  <2>5. QED
    BY <2>1, <2>2, <2>4, AdvanceType
<1>4. CASE LOAD_GLOBAL
  <2> DEFINE v == frame_globals_get(Arg)
  <2>1. /\ Fetch("LOAD_GLOBAL")
        /\ IF v = Unset THEN try_handle_error("NameError") ELSE Advance(Pushed(0, v))
    BY <1>4 DEF LOAD_GLOBAL
  <2>2. /\ frames # << >> /\ frame \in Frames /\ frame.sp < MAX_STACK
        /\ Arg \in Names \cup ExcTypes \cup BuiltinFns
    BY <2>1, FetchFacts DEF Operand, Grows
  <2>3. CASE v = Unset
    BY <2>1, <2>3, HandleErrorType DEF ExcTypes
  <2>4. CASE v # Unset
    <3>1. v \in Value
      BY <2>2, <2>4, LookupType
    <3>2. Pushed(0, v) \in Frames
      BY <2>2, <3>1, PushedType DEF Frames
    <3>3. QED
      BY <2>1, <2>2, <2>4, <3>2, AdvanceType
  <2>5. QED
    BY <2>3, <2>4
<1>5. CASE STORE_GLOBAL
  <2>1. /\ Fetch("STORE_GLOBAL") /\ frames' = SetTop(Popped(1))
        /\ UNCHANGED <<program, exception_stack, current_exception, activations,
                       generators, iters, sys_modules, output, status>>
    BY <1>5 DEF STORE_GLOBAL
  <2>2. /\ frames # << >> /\ frame \in Frames /\ frame.sp >= 1
        /\ Arg \in Names
    BY <2>1, FetchFacts DEF Operand, Pops
  <2>3. Popped(1) \in Frames /\ Top(0) \in Value
    BY <2>2, PopOneType
  <2>4. SetTop(Popped(1)) \in Seq(Frames)
    BY <2>2, <2>3, SetTopType
  <2>5. CASE globals' = [globals EXCEPT ![Arg] = Top(0)] /\ UNCHANGED modules
    <3>1. globals' \in [Names -> Value \cup {Unset}]
      BY <2>3, <2>5 DEF TypeOK
    <3>2. UNCHANGED heap
      BY <2>1, <2>5 DEF heap
    <3>3. QED
      BY <2>1, <2>4, <3>1, <3>2, ControlStep DEF TypeOK
  <2>6. CASE /\ frame.module # 0
             /\ modules' = [modules EXCEPT ![frame.module].globals[Arg] = Top(0)]
             /\ UNCHANGED globals
    <3> DEFINE m == [modules[frame.module] EXCEPT !.globals[Arg] = Top(0)]
    <3>1. frame.module \in 1..Len(modules)
      BY <2>2, <2>6, LenProperties DEF Frames, TypeOK
    <3>2. modules[frame.module] \in Modules
      BY <3>1, ElementOfSeq DEF TypeOK
    <3>3. m \in Modules
      BY <2>2, <2>3, <3>2 DEF Modules
    <3>4. modules' = [modules EXCEPT ![frame.module] = m]
      BY <2>6
    <3> HIDE DEF m
    <3>5. modules' \in Seq(Modules) /\ Len(modules') = Len(modules)
      BY <3>1, <3>3, <3>4, ExceptSeq DEF TypeOK
    <3>6. HeapGrows /\ Value' = Value /\ Frames' = Frames /\ Modules' = Modules
      BY <2>1, <3>5, LenProperties, SameSizes DEF HeapGrows, TypeOK
    <3>7. /\ frames' \in Seq(Frames') /\ modules' \in Seq(Modules')
          /\ generators' \in Seq(Generators') /\ output' \in Seq(Value')
          /\ iters' \in Seq([current : Int, stop : Int])
          /\ sys_modules' \in [1..Len(code_objects) -> 0..Len(modules')]
      BY <2>1, <2>4, <3>5, <3>6, StaysTyped DEF TypeOK
    <3>8. QED
      BY <2>1, <2>6, <3>6, <3>7, HeapStep, StaysTyped
  <2>7. QED
    BY <1>5, <2>5, <2>6 DEF STORE_GLOBAL
<1>6. QED
  BY <1>1, <1>2, <1>3, <1>4, <1>5 DEF Namespaces

LEMMA OperandsType ==
  ASSUME TypeOK, Operands
  PROVE  TypeOK'
<1>1. ASSUME NEW op \in {"ADD", "FLOOR_DIV", "LSHIFT", "COMPARE_EQ"}, Fetch(op)
      PROVE  /\ frames # << >> /\ frame \in Frames /\ frame.sp >= 2
             /\ frame.sp - 2 < MAX_STACK /\ Top(0) \in Value /\ Top(1) \in Value
  <2>1. frames # << >> /\ frame \in Frames /\ frame.sp >= 2
    BY <1>1, FetchFacts DEF Pops
  <2>2. QED
    BY <2>1, TopType, StackAssumption DEF Frames
<1>2. CASE ADD
  <2>1. Fetch("ADD") /\ Deliver(2, binary_add(Top(1), Top(0)))
    BY <1>2 DEF ADD
  <2>2. QED
    BY <1>1, <2>1, ArithmeticType, DeliverType DEF Frames
<1>3. CASE FLOOR_DIV
  <2>1. Fetch("FLOOR_DIV") /\ Deliver(2, binary_floor_div(Top(1), Top(0)))
    BY <1>3 DEF FLOOR_DIV
  <2>2. QED
    BY <1>1, <2>1, ArithmeticType, DeliverType DEF Frames
<1>4. CASE LSHIFT
  <2>1. Fetch("LSHIFT")
    BY <1>4 DEF LSHIFT
  <2> DEFINE v == Int_(AsInt(Top(1)) * 2 ^ AsInt(Top(0)))
  <2>2. CASE IsInt(Top(0)) /\ IsInt(Top(1)) /\ AsInt(Top(0)) >= 0 /\ Advance(Pushed(2, v))
    <3>1. v \in Value
      BY <1>1, <2>1, <2>2, ValueElim, ValueIntro
    <3>2. Pushed(2, v) \in Frames
      BY <1>1, <2>1, <3>1, PushedType DEF Frames
    <3>3. QED
      BY <1>1, <2>1, <2>2, <3>2, AdvanceType
  <2>3. CASE Fail
    BY <2>3, FailType
  <2>4. QED
    BY <1>4, <2>2, <2>3 DEF LSHIFT
<1>5. CASE COMPARE_EQ
  <2> DEFINE v == Bool_(values_equal(Top(1), Top(0)))
  <2>1. Fetch("COMPARE_EQ") /\ Advance(Pushed(2, v))
    BY <1>5 DEF COMPARE_EQ
  <2>2. values_equal(Top(1), Top(0)) \in BOOLEAN
    BY Zenon DEF values_equal
  <2>3. v \in Value
    BY <2>2, ValueIntro
  <2>4. Pushed(2, v) \in Frames
    BY <1>1, <2>1, <2>3, PushedType DEF Frames
  <2>5. QED
    BY <1>1, <2>1, <2>4, AdvanceType
<1>6. CASE POP_TOP
  <2>1. Fetch("POP_TOP") /\ Advance(Popped(1))
    BY <1>6 DEF POP_TOP
  <2>2. frames # << >> /\ frame \in Frames /\ frame.sp >= 1
    BY <2>1, FetchFacts DEF Pops
  <2>3. QED
    BY <2>1, <2>2, PoppedType, AdvanceType
<1>7. CASE LOAD_ATTR
  <2> DEFINE namespace == modules[Top(0)[2]].globals
             result == IF Top(0)[1] = "module" /\ namespace[Arg] # Unset
                       THEN namespace[Arg] ELSE Err("RuntimeError")
  <2>1. Fetch("LOAD_ATTR") /\ Deliver(1, result)
    BY <1>7 DEF LOAD_ATTR
  <2>2. /\ frames # << >> /\ frame \in Frames /\ frame.sp >= 1 /\ Arg \in Names
    BY <2>1, FetchFacts DEF Pops, Operand
  <2>3. Top(0) \in Value /\ frame.sp - 1 < MAX_STACK
    BY <2>2, TopType, StackAssumption DEF Frames
  <2>4. ASSUME Top(0)[1] = "module", namespace[Arg] # Unset
        PROVE  namespace[Arg] \in Value
    <3>1. Top(0)[2] \in 1..Len(modules)
      BY <2>3, <2>4, ValueElim
    <3>2. modules[Top(0)[2]] \in Modules
      BY <3>1, ElementOfSeq DEF TypeOK
    <3>3. QED
      BY <2>2, <2>4, <3>2 DEF Modules
  <2>5. ASSUME NEW v \in Value  PROVE v[1] # "err"
    BY DEF Value, Literals, None, Str_
  <2>6. /\ result[1] = "err" => result[2] \in ExcTypes
        /\ result[1] # "err" => result \in Value
    BY <2>4, <2>5 DEF Err, ExcTypes
  <2> HIDE DEF result
  <2>7. QED
    BY <2>1, <2>2, <2>3, <2>6, DeliverType DEF Frames
<1>8. QED
  BY <1>2, <1>3, <1>4, <1>5, <1>6, <1>7 DEF Operands

LEMMA JumpsType ==
  ASSUME TypeOK, Jumps
  PROVE  TypeOK'
<1>1. CASE JUMP
  <2>1. Fetch("JUMP") /\ Advance([frame EXCEPT !.ip = Arg])
    BY <1>1 DEF JUMP
  <2>2. frames # << >> /\ frame \in Frames /\ Arg \in Nat \ {0}
    BY <2>1, FetchFacts DEF Operand
  <2>3. [frame EXCEPT !.ip = Arg] \in Frames
    BY <2>2 DEF Frames
  <2>4. QED
    BY <2>1, <2>2, <2>3, AdvanceType
<1>2. CASE JUMP_IF_FALSE \/ JUMP_IF_TRUE
  <2>1. PICK op \in {"JUMP_IF_FALSE", "JUMP_IF_TRUE"} : Fetch(op)
    BY <1>2 DEF JUMP_IF_FALSE, JUMP_IF_TRUE
  <2>2. frames # << >> /\ frame \in Frames /\ frame.sp >= 1 /\ Arg \in Nat \ {0}
    BY <2>1, FetchFacts DEF Operand, Pops
  <2>3. Popped(1) \in Frames
    BY <2>2, PoppedType
  <2>4. ASSUME NEW ip \in {Arg, Popped(1).ip}
        PROVE  [Popped(1) EXCEPT !.ip = ip] \in Frames
    BY <2>2, <2>3 DEF Frames
  <2>5. \E ip \in {Arg, Popped(1).ip} : Advance([Popped(1) EXCEPT !.ip = ip])
    BY <1>2 DEF JUMP_IF_FALSE, JUMP_IF_TRUE
  <2>6. QED
    BY <2>2, <2>4, <2>5, AdvanceType
<1>3. QED
  BY <1>1, <1>2 DEF Jumps

-------------------------------------------------------------------------------
(* Calls. *)

(* A dunder of a class is the code of a function, or there is none. *)
LEMMA MethodType ==
  ASSUME TypeOK, NEW c \in 1..Len(code_objects), NEW name
  PROVE  Method(c, name) \in FunctionCode \cup {0}
<1> DEFINE body == code_objects[c].instructions
           Defines(k) == body[k] = <<"STORE_FAST", name>> /\ body[k - 1][1] = "MAKE_FUNCTION"
           stores == {k \in 2..Len(body) : Defines(k)}
           last == CHOOSE k \in stores : \A j \in stores : j <= k
<1>1. c \in DOMAIN code_objects /\ Len(code_objects) \in Nat
  BY LenProperties DEF TypeOK, IsProgram
<1>2. Len(body) \in Nat /\ DOMAIN body = 1..Len(body)
  BY <1>1, LenProperties DEF TypeOK, IsProgram
<1>3. CASE stores = {}
  BY <1>1, <1>3 DEF Method
<1>4. CASE stores # {}
  <2>1. stores \subseteq 1..Len(body)
    BY <1>2
  <2>2. last \in stores
    BY <1>2, <1>4, <2>1, Greatest
  <2>3. last - 1 \in DOMAIN body /\ body[last - 1][1] = "MAKE_FUNCTION"
    <3> HIDE DEF body, last
    <3>1. last \in 2..Len(body) /\ Defines(last)
      BY <2>2
    <3>2. QED
      BY <1>2, <3>1
  <2>4. body[last - 1][2] \in FunctionCode
    BY <1>1, <2>3, FunctionCodes DEF TypeOK
  <2>5. Method(c, name) = body[last - 1][2]
    BY <1>4 DEF Method
  <2>6. QED
    BY <1>1, <2>4, <2>5
<1>5. QED
  BY <1>3, <1>4

(* Arguments of the right number fill the locals of a new frame. *)
LEMMA BindType ==
  ASSUME NEW c, NEW args \in [1..arity(c) -> Value],
         IsProgram(code_objects), c \in 1..Len(code_objects)
  PROVE  Bind(c, args) \in [Names -> Value]
<1> DEFINE params == code_objects[c].params
<1>1. DOMAIN params = 1..arity(c)
  BY LenProperties DEF IsProgram, arity
<1>2. ASSUME NEW n \in Names, \E i \in DOMAIN params : params[i] = n
      PROVE  args[CHOOSE i \in DOMAIN params : params[i] = n] \in Value
  BY <1>1, <1>2
<1>3. None \in Value
  BY ValueIntro
<1>4. QED
  BY <1>2, <1>3 DEF Bind

(* A new frame is a frame. *)
LEMMA NewFrameType ==
  ASSUME NEW c \in 1..Len(code_objects), NEW locals \in [Names -> Value],
         NEW m \in 0..Len(modules), NEW init \in Value \cup {Unset},
         generators \in Seq(Generators)
  PROVE  NewFrame(c, locals, m, init) \in Frames
<1>1. EmptyStack \in [1..MAX_STACK -> Value]
  BY ValueIntro DEF EmptyStack
<1>2. 0 \in 0..Len(generators) /\ 0 \in 0..MAX_STACK
  BY LenProperties, StackAssumption
<1>3. QED
  BY <1>1, <1>2 DEF NewFrame, Frames

(* What a call finds on the stack. *)
LEMMA CallFacts ==
  ASSUME TypeOK, Fetch("CALL_FUNCTION")
  PROVE  /\ frames # << >> /\ frame \in Frames /\ Arg \in Nat
         /\ Arg + 1 <= frame.sp /\ frame.sp - (Arg + 1) < MAX_STACK
         /\ Callee \in Value /\ Top(0) \in Value /\ Args \in [1..Arg -> Value]
         /\ Popped(Arg + 1) \in Frames
         /\ \A v \in Value : Pushed(Arg + 1, v) \in Frames
<1>1. frames # << >> /\ frame \in Frames /\ Arg \in Nat /\ frame.sp >= Arg + 1
  BY FetchFacts DEF Operand, Pops
<1>2. frame.sp \in 0..MAX_STACK /\ frame.sp - (Arg + 1) < MAX_STACK
  BY <1>1, StackAssumption DEF Frames
<1>3. Callee \in Value /\ Top(0) \in Value
  BY <1>1, <1>2, TopType DEF Callee
<1>4. ASSUME NEW i \in 1..Arg  PROVE frame.stack[frame.sp - Arg + i] \in Value
  <2>1. frame.sp - Arg + i \in 1..MAX_STACK
    BY <1>1, <1>2, StackAssumption
  <2>2. QED
    BY <1>1, <2>1 DEF Frames
<1>5. Args \in [1..Arg -> Value]
  BY <1>4 DEF Args
<1>6. QED
  BY <1>1, <1>2, <1>3, <1>5, PushedType, PoppedType

(* Entering a function pushes a frame. *)
LEMMA EnterType ==
  ASSUME TypeOK, Fetch("CALL_FUNCTION"), NEW f \in Frames, Enter(f)
  PROVE  TypeOK'
<1>1. SetTop(Popped(Arg + 1)) \in Seq(Frames)
  BY CallFacts, SetTopType
<1>2. Append(SetTop(Popped(Arg + 1)), f) \in Seq(Frames)
  BY <1>1, AppendProperties
<1>3. QED
  BY <1>2, GotoType DEF Enter

(* A step that adds to the heap and otherwise only moves frames. *)
LEMMA AllocType ==
  ASSUME TypeOK, HeapGrows, frames' \in Seq(Frames'),
         generators' \in Seq(Generators'), iters' \in Seq([current : Int, stop : Int]),
         UNCHANGED <<exception_stack, current_exception, activations, modules,
                     sys_modules, globals, output, status>>
  PROVE  TypeOK'
<1>1. modules' \in Seq(Modules') /\ output' \in Seq(Value')
      /\ sys_modules' \in [1..Len(code_objects) -> 0..Len(modules')]
  BY StaysTyped DEF TypeOK
<1>2. QED
  BY <1>1, StaysTyped, HeapStep

LEMMA CallFunctionType == 
  ASSUME TypeOK, CallFunction
  PROVE  TypeOK'
<1> DEFINE c == Callee[2]
           f == NewFrame(c, Bind(c, Args), Callee[3], Unset)
<1>1. /\ Fetch("CALL_FUNCTION") /\ Callee[1] = "func" /\ arity(c) = Arg /\ Enter(f)
  BY DEF CallFunction, Calling
<1>2. Args \in [1..arity(c) -> Value] /\ c \in 1..Len(code_objects)
      /\ Callee[3] \in 0..Len(modules)
  BY <1>1, CallFacts, ValueElim, FunctionCodes DEF TypeOK
<1>3. Bind(c, Args) \in [Names -> Value]
  BY <1>2, BindType DEF TypeOK
<1>4. f \in Frames
  BY <1>2, <1>3, NewFrameType DEF TypeOK
<1>5. QED
  BY <1>1, <1>4, EnterType

LEMMA CallGeneratorFunctionType ==
  ASSUME TypeOK, CallGeneratorFunction
  PROVE  TypeOK'
<1> DEFINE c == Callee[2]
           gen == [code |-> c, ip |-> 1, stack |-> EmptyStack, sp |-> 0,
                   locals |-> Bind(c, Args), state |-> "Created"]
           f == Pushed(Arg + 1, Gen(Len(generators) + 1))
<1>1. /\ Fetch("CALL_FUNCTION") /\ Callee[1] = "func" /\ arity(c) = Arg
      /\ generators' = Append(generators, gen) /\ frames' = SetTop(f)
      /\ UNCHANGED <<program, exception_stack, current_exception, activations,
                     iters, modules, sys_modules, globals, output, status>>
  BY DEF CallGeneratorFunction, Calling
<1>2. Args \in [1..arity(c) -> Value] /\ c \in 1..Len(code_objects)
  BY <1>1, CallFacts, ValueElim, FunctionCodes DEF TypeOK
<1>3. Bind(c, Args) \in [Names -> Value]
  BY <1>2, BindType DEF TypeOK
<1>4. gen \in Generators
  BY <1>2, <1>3, ValueIntro, StackAssumption DEF Generators, GeneratorObjects, EmptyStack
<1>5. generators' \in Seq(Generators) /\ Len(generators') = Len(generators) + 1
      /\ Len(generators) \in Nat
  BY <1>1, <1>4, AppendProperties, LenProperties DEF TypeOK
<1>6. HeapGrows
  BY <1>1, <1>5, LenProperties DEF HeapGrows, TypeOK
<1>7. Gen(Len(generators) + 1) \in Value'
  BY <1>5, <1>6 DEF Value, Gen, HeapGrows
<1>8. frame \in Frames' /\ frames \in Seq(Frames') /\ frames # << >>
  BY <1>1, <1>6, CallFacts, ReferencesStay, StaysTyped DEF TypeOK
<1>9. f \in Frames'
  BY <1>1, <1>7, <1>8, CallFacts, GrownPushedType
<1>10. frames' \in Seq(Frames')
  BY <1>1, <1>8, <1>9, LastReplaced DEF SetTop
<1>11. QED
  BY <1>1, <1>5, <1>6, <1>10, StaysTyped, AllocType DEF TypeOK

LEMMA CallClassType ==
  ASSUME TypeOK, CallClass
  PROVE  TypeOK'
<1> DEFINE inst == Inst(Callee[3], Callee[4])
           init == Callee[2]
           args == [i \in 1..Arg + 1 |-> IF i = 1 THEN inst ELSE Args[i - 1]]
           f == NewFrame(init, Bind(init, args), Callee[4], inst)
<1>1. /\ Fetch("CALL_FUNCTION") /\ Callee[1] = "class"
      /\ IF init = 0 THEN Advance(Pushed(Arg + 1, inst))
         ELSE IF arity(init) # Arg + 1 THEN try_handle_error("RuntimeError")
         ELSE Enter(f)
  BY DEF CallClass, Calling
<1>2. /\ init \in FunctionCode \cup {0} /\ Callee[3] \in FunctionCode \cup {0}
      /\ Callee[4] \in 0..Len(modules)
  BY <1>1, CallFacts, ValueElim
<1>3. inst \in Value
  BY <1>2, ValueIntro
<1>4. CASE init = 0
  BY <1>1, <1>3, <1>4, CallFacts, AdvanceType
<1>5. CASE init # 0 /\ arity(init) # Arg + 1
  BY <1>1, <1>5, HandleErrorType DEF ExcTypes
<1>6. CASE init # 0 /\ arity(init) = Arg + 1
  <2>1. init \in 1..Len(code_objects)
    BY <1>2, <1>6, FunctionCodes DEF TypeOK
  <2>2. args \in [1..arity(init) -> Value]
    <3>1. Arg \in Nat /\ Args \in [1..Arg -> Value]
      BY <1>1, CallFacts
    <3> HIDE DEF inst
    <3>2. ASSUME NEW i \in 1..Arg + 1, i # 1  PROVE Args[i - 1] \in Value
      BY <3>1, <3>2
    <3>3. QED
      BY <1>3, <1>6, <3>2
  <2> HIDE DEF args
  <2>3. Bind(init, args) \in [Names -> Value]
    BY <2>1, <2>2, BindType DEF TypeOK
  <2>4. f \in Frames
    BY <1>2, <1>3, <2>1, <2>3, NewFrameType DEF TypeOK
  <2> HIDE DEF f
  <2>5. Enter(f)
    BY <1>1, <1>6
  <2>6. QED
    BY <1>1, <2>4, <2>5, EnterType
<1>7. QED
  BY <1>4, <1>5, <1>6

LEMMA CallRangeType ==
  ASSUME TypeOK, CallRange
  PROVE  TypeOK'
<1> DEFINE it == [current |-> 0, stop |-> Top(0)[2]]
           f == Pushed(2, Iter(Len(iters) + 1))
<1>1. /\ Fetch("CALL_FUNCTION") /\ Arg = 1
      /\ IF Top(0)[1] # "int" THEN try_handle_error("RuntimeError")
         ELSE /\ iters' = Append(iters, it)
              /\ frames' = SetTop(f)
              /\ UNCHANGED <<program, exception_stack, current_exception, activations,
                             generators, modules, sys_modules, globals, output, status>>
  BY DEF CallRange, Calling
<1>2. Top(0) \in Value
  BY <1>1, CallFacts
<1>3. CASE Top(0)[1] # "int"
  BY <1>1, <1>3, HandleErrorType DEF ExcTypes
<1>4. CASE Top(0)[1] = "int"
  <2>1. it \in [current : Int, stop : Int]
    BY <1>2, <1>4, ValueElim
  <2>2. iters' \in Seq([current : Int, stop : Int]) /\ Len(iters') = Len(iters) + 1
        /\ Len(iters) \in Nat
    <3>1. iters' = Append(iters, it) /\ iters \in Seq([current : Int, stop : Int])
      BY <1>1, <1>4 DEF TypeOK
    <3> HIDE DEF it
    <3>2. QED
      BY <2>1, <3>1, AppendProperties, LenProperties
  <2>3. HeapGrows
    BY <1>1, <1>4, <2>2, LenProperties DEF HeapGrows, TypeOK
  <2>4. Iter(Len(iters) + 1) \in Value'
    BY <2>2, <2>3 DEF Value, Iter, HeapGrows
  <2>5. frame \in Frames' /\ frames \in Seq(Frames') /\ frames # << >>
    BY <1>1, <2>3, CallFacts, ReferencesStay, StaysTyped DEF TypeOK
  <2>6. 2 <= frame.sp /\ frame.sp - 2 < MAX_STACK
    BY <1>1, CallFacts
  <2>7. f \in Frames'
    BY <2>4, <2>5, <2>6, GrownPushedType
  <2>8. frames' \in Seq(Frames')
    BY <1>1, <1>4, <2>5, <2>7, LastReplaced DEF SetTop
  <2>9. QED
    BY <1>1, <1>4, <2>2, <2>3, <2>8, StaysTyped, AllocType DEF TypeOK
<1>5. QED
  BY <1>3, <1>4

LEMMA CallFormatType ==
  ASSUME TypeOK, CallFormat
  PROVE  TypeOK'
<1> DEFINE v == IF Callee[2] = "print" THEN None ELSE Str_
<1>1. /\ Fetch("CALL_FUNCTION") /\ Arg = 1 /\ frames' = SetTop(Pushed(2, v))
      /\ output' = IF Callee[2] = "print" THEN Append(output, Top(0)) ELSE output
      /\ UNCHANGED <<program, exception_stack, current_exception, activations,
                     heap, globals, status>>
  BY DEF CallFormat, Calling, Formats
<1>2. frames # << >> /\ frame \in Frames /\ 2 <= frame.sp /\ frame.sp - 2 < MAX_STACK
      /\ Top(0) \in Value /\ v \in Value
  BY <1>1, CallFacts, ValueIntro
<1>3. frames' \in Seq(Frames)
  BY <1>1, <1>2, PushedType, SetTopType
<1>4. output' \in Seq(Value)
  BY <1>1, <1>2, AppendProperties DEF TypeOK
<1>5. QED
  BY <1>1, <1>3, <1>4, ControlStep DEF TypeOK

(* A nested activation of the loop, for an import or a dunder. *)
LEMMA ActivateType ==
  ASSUME TypeOK, HeapGrows, frames # << >>, NEW kind \in {"import", "str", "print"},
         NEW m \in 0..Len(modules'), kind = "import" => m # 0, Activate(kind, m)
  PROVE  /\ activations' \in Seq(Activations') /\ activations' # << >>
         /\ \A a \in 1..Len(activations') : ActivationOK(a)'
<1> DEFINE act == [kind |-> kind, target |-> Len(frames), module |-> m]
<1>1. Len(frames) \in Nat \ {0}
  BY EmptySeq DEF TypeOK
<1>2. act \in Activations'
  BY <1>1 DEF Activations
<1>3. activations \in Seq(Activations') /\ activations # << >>
      /\ Len(activations) \in Nat \ {0}
  BY StaysTyped, EmptySeq DEF TypeOK
<1> HIDE DEF act
<1>4. activations' = Append(activations, act)
  BY DEF Activate, act
<1>5. /\ activations' \in Seq(Activations') /\ activations' # << >>
      /\ Len(activations') = Len(activations) + 1
      /\ \A a \in 1..Len(activations) : activations'[a] = activations[a]
      /\ activations'[Len(activations) + 1] = act
  BY <1>2, <1>3, <1>4, AppendProperties
<1>6. ASSUME NEW a \in 1..Len(activations')  PROVE ActivationOK(a)'
  <2>1. CASE a \in 1..Len(activations)
    BY <1>3, <1>5, <2>1 DEF TypeOK, ActivationOK
  <2>2. CASE a = Len(activations) + 1
    BY <1>1, <1>3, <1>5, <2>2 DEF ActivationOK, act
  <2>3. QED
    BY <1>3, <1>5, <1>6, <2>1, <2>2
<1>7. QED
  BY <1>5, <1>6

(* A step that starts or ends an activation and leaves the heap alone. *)
LEMMA HeapStays ==
  ASSUME TypeOK, UNCHANGED <<program, heap>>
  PROVE  HeapGrows
  BY LenProperties DEF TypeOK, HeapGrows, heap

LEMMA NestType ==
  ASSUME TypeOK, frames' \in Seq(Frames), output' \in Seq(Value),
         activations' \in Seq(Activations'), activations' # << >>,
         \A a \in 1..Len(activations') : ActivationOK(a)',
         UNCHANGED <<program, heap, exception_stack, current_exception, globals, status>>
  PROVE  TypeOK'
<1>1. HeapGrows
  BY HeapStays
<1>2. /\ generators' \in Seq(Generators') /\ modules' \in Seq(Modules')
      /\ iters' \in Seq([current : Int, stop : Int])
      /\ sys_modules' \in [1..Len(code_objects) -> 0..Len(modules')]
  BY <1>1, StaysTyped DEF TypeOK, heap
<1>3. frames' \in Seq(Frames') /\ output' \in Seq(Value')
  BY SameHeap
<1>4. QED
  BY <1>1, <1>2, <1>3, HeapStep

LEMMA CallDunderType ==
  ASSUME TypeOK, CallDunder
  PROVE  TypeOK'
<1> DEFINE inst == Top(0)
           method == inst[2]
           f == NewFrame(method, Bind(method, <<inst>>), inst[3], Unset)
<1>1. /\ Fetch("CALL_FUNCTION") /\ Arg = 1 /\ inst[1] = "inst" /\ method # 0
      /\ IF arity(method) # 1 THEN Fail
         ELSE /\ frames' = Append(SetTop(Popped(2)), f)
              /\ Activate(Callee[2], 0)
              /\ UNCHANGED <<program, exception_stack, current_exception,
                             heap, globals, output, status>>
      /\ Callee[2] \in {"str", "print"}
  BY DEF CallDunder, Calling, Formats, HasStr
<1>2. inst \in Value
  BY <1>1, CallFacts
<1>3. method \in 1..Len(code_objects) /\ inst[3] \in 0..Len(modules)
  <2>1. inst[1] = "inst" => inst[2] \in FunctionCode \cup {0} /\ inst[3] \in 0..Len(modules)
    BY <1>2, ValueElim
  <2>2. method # 0 /\ inst[1] = "inst"
    BY <1>1
  <2>3. QED
    BY <2>1, <2>2, FunctionCodes DEF TypeOK
<1>4. CASE arity(method) # 1
  BY <1>1, <1>4, FailType
<1>5. CASE arity(method) = 1
  <2>1. <<inst>> \in [1..arity(method) -> Value]
    BY <1>2, <1>5
  <2>2. Bind(method, <<inst>>) \in [Names -> Value]
    BY <1>3, <2>1, BindType DEF TypeOK
  <2>3. f \in Frames
    BY <1>3, <2>2, NewFrameType DEF TypeOK
  <2>4. SetTop(Popped(2)) \in Seq(Frames) /\ frames # << >>
    BY <1>1, CallFacts, PoppedType, SetTopType
  <2> HIDE DEF f, method, inst
  <2>5. frames' \in Seq(Frames)
    BY <1>1, <1>5, <2>3, <2>4, AppendProperties
  <2>6. 0 \in 0..Len(modules')
    BY <1>1, <1>5, LenProperties DEF TypeOK, heap
  <2>7. UNCHANGED <<program, heap, exception_stack, current_exception, globals, status>>
        /\ output' \in Seq(Value) /\ Activate(Callee[2], 0)
    BY <1>1, <1>5 DEF TypeOK
  <2>8. /\ activations' \in Seq(Activations') /\ activations' # << >>
        /\ \A a \in 1..Len(activations') : ActivationOK(a)'
    BY <1>1, <2>4, <2>6, <2>7, HeapStays, ActivateType
  <2>9. QED
    BY <2>5, <2>7, <2>8, NestType
<1>6. QED
  BY <1>4, <1>5

(* A generator object that changes in place. *)
LEMMA GeneratorChanges ==
  ASSUME TypeOK, NEW g \in 1..Len(generators), NEW gen \in Generators,
         generators' = [generators EXCEPT ![g] = gen],
         UNCHANGED <<program, iters, modules, sys_modules>>
  PROVE  /\ generators' \in Seq(Generators') /\ HeapGrows /\ Frames' = Frames
<1>1. generators' \in Seq(Generators) /\ Len(generators') = Len(generators)
  BY ExceptSeq DEF TypeOK
<1>2. HeapGrows
  BY <1>1, LenProperties DEF TypeOK, HeapGrows
<1>3. Frames' = Frames
  BY <1>1, SameSizes
<1>4. QED
  BY <1>1, <1>2, <1>3, StaysTyped

LEMMA ReturnType ==
  ASSUME TypeOK, RETURN_VALUE
  PROVE  TypeOK'
<1> DEFINE below  == AllButLast(frames)
           caller == below[Len(below)]
           v      == IF frame.init # Unset THEN frame.init ELSE Top(0)
           back   == IF frame.gen # 0
                     THEN [caller EXCEPT !.ip = IF @ > 2 THEN @ - 2 ELSE 1]
                     ELSE PushOn(caller, v)
<1>1. /\ Fetch("RETURN_VALUE")
      /\ frames' = IF below = << >> THEN below ELSE [below EXCEPT ![Len(below)] = back]
      /\ generators' = IF frame.gen = 0 THEN generators
                       ELSE [generators EXCEPT ![frame.gen].state = "Completed"]
      /\ UNCHANGED <<program, exception_stack, current_exception, activations,
                     iters, modules, sys_modules, globals, output, status>>
  BY DEF RETURN_VALUE
<1>2. /\ frames # << >> /\ frame \in Frames /\ 1 <= frame.sp /\ Len(frames) \in Nat \ {0}
      /\ Len(frames) > 1 => frames[Len(frames) - 1].sp < MAX_STACK
  BY <1>1, FetchFacts DEF Pops, Delivers
<1>3. /\ below \in Seq(Frames) /\ Len(below) = Len(frames) - 1
      /\ \A i \in 1..Len(frames) - 1 : below[i] = frames[i]
  BY <1>2, AllButLastType DEF TypeOK
<1>4. frames' \in Seq(Frames)
  <2>1. CASE below = << >>
    BY <1>1, <1>3, <2>1
  <2>2. CASE below # << >>
    <3>1. Len(below) \in 1..Len(frames) - 1 /\ caller = frames[Len(frames) - 1]
      BY <1>2, <1>3, <2>2, EmptySeq
    <3>2. caller \in Frames /\ caller.sp < MAX_STACK
      BY <1>2, <1>3, <3>1, ElementOfSeq
    <3>3. v \in Value
      BY <1>2, TopType DEF Frames
    <3> HIDE DEF caller, v
    <3>4. ASSUME frame.gen = 0  PROVE back \in Frames
      BY <3>2, <3>3, <3>4, PushOnType
    <3>5. ASSUME frame.gen # 0  PROVE back \in Frames
      <4> DEFINE ip == IF caller.ip > 2 THEN caller.ip - 2 ELSE 1
      <4>1. ip \in Nat \ {0}
        BY <3>2 DEF Frames
      <4> HIDE DEF ip
      <4>2. [caller EXCEPT !.ip = ip] \in Frames
        BY <3>2, <4>1 DEF Frames
      <4>3. QED
        BY <3>5, <4>2 DEF ip
    <3>6. back \in Frames
      BY <3>4, <3>5
    <3> HIDE DEF back, below
    <3>7. QED
      BY <1>1, <1>3, <2>2, <3>6, LastReplaced
  <2>3. QED
    BY <2>1, <2>2
<1>5. CASE frame.gen = 0
  BY <1>1, <1>4, <1>5, ControlStep DEF TypeOK, heap
<1>6. CASE frame.gen # 0
  <2> DEFINE gen == [generators[frame.gen] EXCEPT !.state = "Completed"]
  <2>1. frame.gen \in 1..Len(generators)
    BY <1>2, <1>6, LenProperties DEF Frames, TypeOK
  <2>2. generators[frame.gen] \in Generators
    BY <2>1, ElementOfSeq DEF TypeOK
  <2>3. gen \in Generators
    BY <2>2 DEF Generators, GeneratorObjects
  <2>4. generators' = [generators EXCEPT ![frame.gen] = gen]
    BY <1>1, <1>6
  <2> HIDE DEF gen, below, back
  <2>5. /\ generators' \in Seq(Generators') /\ HeapGrows /\ Frames' = Frames
    BY <1>1, <2>1, <2>3, <2>4, GeneratorChanges
  <2>6. QED
    BY <1>1, <1>4, <2>5, AllocType DEF TypeOK
<1>7. QED
  BY <1>5, <1>6

LEMMA CallsType ==
  ASSUME TypeOK, Calls
  PROVE  TypeOK'
<1>1. CASE MAKE_FUNCTION
  <2> DEFINE v == Func(Arg, frame.module)
  <2>1. Fetch("MAKE_FUNCTION") /\ Advance(Pushed(0, v))
    BY <1>1 DEF MAKE_FUNCTION
  <2>2. /\ frames # << >> /\ frame \in Frames /\ frame.sp < MAX_STACK
        /\ Arg \in FunctionCode
    <3>1. /\ frames # << >> /\ frame \in Frames /\ frame.sp < MAX_STACK
          /\ frame.code \in DOMAIN code_objects
      BY <2>1, FetchFacts, LenProperties DEF Grows, Frames, TypeOK, IsProgram
    <3>2. frame.ip \in DOMAIN Instructions /\ Instr[1] = "MAKE_FUNCTION"
      BY <2>1 DEF Fetch, InCode
    <3>3. QED
      BY <3>1, <3>2, FunctionCodes DEF TypeOK, Instructions, Instr, Arg
  <2>3. v \in Value
    BY <2>2, ValueIntro DEF Frames
  <2>4. Pushed(0, v) \in Frames
    BY <2>2, <2>3, PushedType DEF Frames
  <2>5. QED
    BY <2>1, <2>2, <2>4, AdvanceType
<1>2. CASE BUILD_CLASS
  <2> DEFINE v == Class(Method(Arg, "__init__"), Method(Arg, "__str__"), frame.module)
  <2>1. Fetch("BUILD_CLASS") /\ Advance(Pushed(2, v))
    BY <1>2 DEF BUILD_CLASS
  <2>2. /\ frames # << >> /\ frame \in Frames /\ 2 <= frame.sp
        /\ Arg \in 1..Len(code_objects)
    BY <2>1, FetchFacts DEF Operand, Pops
  <2>3. v \in Value
    BY <2>2, MethodType, ValueIntro DEF Frames
  <2>4. frame.sp - 2 < MAX_STACK
    BY <2>2, StackAssumption DEF Frames
  <2>5. Pushed(2, v) \in Frames
    BY <2>2, <2>3, <2>4, PushedType
  <2>6. QED
    BY <2>1, <2>2, <2>5, AdvanceType
<1>3. CASE CallException
  <2>1. /\ Fetch("CALL_FUNCTION") /\ Callee[1] \in {"exc", "exctype"}
        /\ Advance(Pushed(Arg + 1, Exc(Callee[2])))
    BY <1>3 DEF CallException
  <2>2. Exc(Callee[2]) \in Value
    BY <2>1, CallFacts, ValueElim, ValueIntro
  <2>3. QED
    BY <2>1, <2>2, CallFacts, AdvanceType
<1>4. CASE CallError
  BY <1>4, FailType DEF CallError
<1>5. QED
  BY <1>1, <1>2, <1>3, <1>4, CallFunctionType, CallGeneratorFunctionType, CallClassType,
     CallRangeType, CallFormatType, CallDunderType, ReturnType DEF Calls

-------------------------------------------------------------------------------
(* Iteration and generators. *)

(* What a FOR_ITER finds on the stack. *)
LEMMA ForIterFacts ==
  ASSUME TypeOK, Fetch("FOR_ITER")
  PROVE  /\ frames # << >> /\ frame \in Frames /\ Arg \in Nat \ {0}
         /\ 1 <= frame.sp /\ frame.sp - 1 < MAX_STACK /\ Top(0) \in Value
         /\ Popped(1) \in Frames /\ [Popped(1) EXCEPT !.ip = Arg] \in Frames
         /\ \A v \in Value : Pushed(1, v) \in Frames
<1>1. frames # << >> /\ frame \in Frames /\ Arg \in Nat \ {0} /\ 1 <= frame.sp
  BY FetchFacts DEF Operand, Pops
<1>2. frame.sp - 1 < MAX_STACK /\ Top(0) \in Value
  BY <1>1, TopType, StackAssumption DEF Frames
<1>3. Popped(1) \in Frames
  BY <1>1, PoppedType
<1>4. [Popped(1) EXCEPT !.ip = Arg] \in Frames
  BY <1>1, <1>3 DEF Frames
<1>5. QED
  BY <1>1, <1>2, <1>3, <1>4, PushedType

LEMMA ForIterRangeType ==
  ASSUME TypeOK, FOR_ITER_range
  PROVE  TypeOK'
<1> DEFINE i == Top(0)[2]
           it == [iters[i] EXCEPT !.current = @ + 1]
<1>1. /\ Fetch("FOR_ITER") /\ Top(0)[1] = "iter"
      /\ IF iters[i].current >= iters[i].stop
         THEN Advance([Popped(1) EXCEPT !.ip = Arg])
         ELSE /\ frames' = SetTop(Pushed(1, Int_(iters[i].current)))
              /\ iters' = [iters EXCEPT ![i] = it]
              /\ UNCHANGED <<program, exception_stack, current_exception, activations,
                             generators, modules, sys_modules, globals, output, status>>
  BY DEF FOR_ITER_range
<1>2. i \in 1..Len(iters)
  BY <1>1, ForIterFacts, ValueElim
<1>3. iters[i] \in [current : Int, stop : Int]
  BY <1>2, ElementOfSeq DEF TypeOK
<1>4. CASE iters[i].current >= iters[i].stop
  BY <1>1, <1>4, ForIterFacts, AdvanceType
<1>5. CASE ~ (iters[i].current >= iters[i].stop)
  <2>1. it \in [current : Int, stop : Int] /\ Int_(iters[i].current) \in Value
    BY <1>3, ValueIntro
  <2>2. frames' \in Seq(Frames)
    BY <1>1, <1>5, <2>1, ForIterFacts, SetTopType
  <2>3. iters' = [iters EXCEPT ![i] = it]
    BY <1>1, <1>5
  <2> HIDE DEF it, i
  <2>4. iters' \in Seq([current : Int, stop : Int]) /\ Len(iters') = Len(iters)
    BY <1>2, <2>1, <2>3, ExceptSeq DEF TypeOK
  <2>5. UNCHANGED <<program, activations, generators, modules, sys_modules, globals, output,
                    exception_stack, current_exception, status>>
    BY <1>1, <1>5
  <2>6. HeapGrows
    BY <2>4, <2>5, LenProperties DEF TypeOK, HeapGrows
  <2>7. Frames' = Frames
    BY <2>4, <2>5, SameSizes
  <2>8. QED
    BY <2>2, <2>4, <2>5, <2>6, <2>7, StaysTyped, AllocType DEF TypeOK
<1>6. QED
  BY <1>4, <1>5

LEMMA ResumeType ==
  ASSUME TypeOK, resume_generator
  PROVE  TypeOK'
<1> DEFINE g   == Top(0)[2]
           gen == generators[g]
           f   == [code |-> gen.code, ip |-> gen.ip, stack |-> gen.stack, sp |-> gen.sp,
                   locals |-> gen.locals, gen |-> g, init |-> Unset, module |-> 0]
           new == IF gen.state = "Suspended" THEN PushOn(f, None) ELSE f
<1>1. /\ Fetch("FOR_ITER") /\ Top(0)[1] = "gen"
      /\ frames' = Append(SetTop(Popped(1)), new)
      /\ generators' = [generators EXCEPT ![g].state = "Running"]
      /\ UNCHANGED <<program, exception_stack, current_exception, activations,
                     iters, modules, sys_modules, globals, output, status>>
  BY DEF resume_generator
<1>2. g \in 1..Len(generators)
  BY <1>1, ForIterFacts, ValueElim
<1>3. gen \in Generators
  BY <1>2, ElementOfSeq DEF TypeOK
<1>4. f \in Frames
  <2>1. 0 \in 0..Len(modules) /\ g \in 0..Len(generators)
    BY <1>2, LenProperties DEF TypeOK
  <2> HIDE DEF g
  <2>2. QED
    BY <1>3, <2>1 DEF Frames, Generators, GeneratorObjects
<1>5. gen.state = "Suspended" => gen.sp < MAX_STACK
  BY <1>3 DEF Generators
<1>6. new \in Frames
  <2>1. f.sp = gen.sp
    OBVIOUS
  <2> HIDE DEF f, gen
  <2>2. QED
    BY <1>4, <1>5, <2>1, PushOnType, ValueIntro
<1>7. frames' \in Seq(Frames)
  <2> HIDE DEF new
  <2>1. SetTop(Popped(1)) \in Seq(Frames)
    BY <1>1, ForIterFacts, SetTopType
  <2>2. QED
    BY <1>1, <1>6, <2>1, AppendProperties
<1>8. [gen EXCEPT !.state = "Running"] \in Generators
  BY <1>3 DEF Generators, GeneratorObjects
<1>9. generators' = [generators EXCEPT ![g] = [gen EXCEPT !.state = "Running"]]
  BY <1>1
<1> HIDE DEF g, gen, f, new
<1>10. generators' \in Seq(Generators') /\ HeapGrows /\ Frames' = Frames
  BY <1>1, <1>2, <1>8, <1>9, GeneratorChanges
<1>11. QED
  BY <1>1, <1>7, <1>10, AllocType DEF TypeOK

LEMMA YieldType ==
  ASSUME TypeOK, YIELD_VALUE
  PROVE  TypeOK'
<1> DEFINE below == AllButLast(frames)
           f     == Popped(1)
           back  == PushOn(below[Len(below)], Top(0))
<1>1. /\ Fetch("YIELD_VALUE") /\ frame.gen # 0
      /\ frames' = IF below = << >> THEN below ELSE [below EXCEPT ![Len(below)] = back]
      /\ generators' = [generators EXCEPT ![frame.gen] = Saved(f)]
      /\ UNCHANGED <<program, exception_stack, current_exception, activations,
                     iters, modules, sys_modules, globals, output, status>>
  BY DEF YIELD_VALUE
<1>2. /\ frames # << >> /\ frame \in Frames /\ 1 <= frame.sp /\ Len(frames) \in Nat \ {0}
      /\ Len(frames) > 1 => frames[Len(frames) - 1].sp < MAX_STACK
  BY <1>1, FetchFacts DEF Pops, Delivers
<1>3. /\ below \in Seq(Frames) /\ Len(below) = Len(frames) - 1
      /\ \A i \in 1..Len(frames) - 1 : below[i] = frames[i]
  BY <1>2, AllButLastType DEF TypeOK
<1>4. frames' \in Seq(Frames)
  <2>1. CASE below = << >>
    BY <1>1, <1>3, <2>1
  <2>2. CASE below # << >>
    <3>1. Len(below) \in 1..Len(frames) - 1 /\ below[Len(below)] = frames[Len(frames) - 1]
      BY <1>2, <1>3, <2>2, EmptySeq
    <3>2. below[Len(below)] \in Frames /\ below[Len(below)].sp < MAX_STACK
      BY <1>2, <1>3, <3>1, ElementOfSeq
    <3>3. Top(0) \in Value
      BY <1>2, TopType DEF Frames
    <3> HIDE DEF below
    <3>4. back \in Frames
      BY <3>2, <3>3, PushOnType
    <3> HIDE DEF back
    <3>5. QED
      BY <1>1, <1>3, <2>2, <3>4, LastReplaced
  <2>3. QED
    BY <2>1, <2>2
<1>5. Saved(f) \in Generators
  <2>1. f \in Frames /\ f.sp < MAX_STACK
    <3>1. f \in Frames /\ f.sp = frame.sp - 1
      BY <1>2, PoppedType
    <3>2. frame.sp \in 0..MAX_STACK
      BY <1>2 DEF Frames
    <3> HIDE DEF f
    <3>3. QED
      BY <3>1, <3>2, StackAssumption
  <2> HIDE DEF f
  <2>2. [i \in 1..MAX_STACK |-> IF i <= f.sp THEN f.stack[i] ELSE None]
          \in [1..MAX_STACK -> Value]
    BY <2>1, ValueIntro DEF Frames
  <2>3. Kept(f, "Suspended") \in Generators
    BY <2>1, <2>2 DEF Kept, Frames, Generators, GeneratorObjects
  <2>4. QED
    BY <2>3 DEF Saved
<1>6. frame.gen \in 1..Len(generators)
  BY <1>1, <1>2, LenProperties DEF Frames, TypeOK
<1> HIDE DEF below, f, back
<1>7. generators' \in Seq(Generators') /\ HeapGrows /\ Frames' = Frames
  BY <1>1, <1>5, <1>6, GeneratorChanges
<1>8. QED
  BY <1>1, <1>4, <1>7, AllocType DEF TypeOK

LEMMA IterationType ==
  ASSUME TypeOK, Iteration
  PROVE  TypeOK'
<1>1. CASE GET_ITER
  <2>1. Fetch("GET_ITER") /\ (Advance(Pushed(1, Top(0))) \/ Fail)
    BY <1>1 DEF GET_ITER
  <2>2. frames # << >> /\ frame \in Frames /\ 1 <= frame.sp
    BY <2>1, FetchFacts DEF Pops
  <2>3. Top(0) \in Value /\ frame.sp - 1 < MAX_STACK
    BY <2>2, TopType, StackAssumption DEF Frames
  <2>4. Pushed(1, Top(0)) \in Frames
    BY <2>2, <2>3, PushedType
  <2>5. QED
    BY <2>1, <2>2, <2>4, AdvanceType, FailType
<1>2. CASE FOR_ITER_completed
  BY <1>2, ForIterFacts, AdvanceType DEF FOR_ITER_completed
<1>3. CASE FOR_ITER_error \/ YIELD_outside
  BY <1>3, FailType DEF FOR_ITER_error, YIELD_outside
<1>4. QED
  BY <1>1, <1>2, <1>3, ForIterRangeType, ResumeType, YieldType DEF Iteration

-------------------------------------------------------------------------------
(* Exceptions. *)

LEMMA ExceptionsType ==
  ASSUME TypeOK, Exceptions
  PROVE  TypeOK'
<1>1. ASSUME NEW op, Fetch(op)
      PROVE  /\ frames # << >> /\ frame \in Frames
             /\ SetTop(Popped(0)) \in Seq(Frames) /\ Popped(0) \in Frames
  <2>1. frames # << >> /\ frame \in Frames /\ 0 <= frame.sp
    BY <1>1, FetchFacts DEF Frames
  <2>2. Popped(0) \in Frames
    BY <2>1, PoppedType
  <2>3. QED
    BY <2>1, <2>2, SetTopType
<1>2. CASE SETUP_EXCEPT
  <2> DEFINE h == NewHandler(Len(frames))
  <2>1. /\ Fetch("SETUP_EXCEPT") /\ frames' = SetTop(Popped(0))
        /\ exception_stack' = Append(exception_stack, h)
        /\ UNCHANGED <<program, current_exception, activations, heap, globals, output, status>>
    BY <1>2 DEF SETUP_EXCEPT
  <2>2. h \in Handlers
    <3>1. Arg \in Nat \ {0} /\ Len(frames) \in Nat \ {0} /\ frame \in Frames
      BY <2>1, FetchFacts DEF Operand
    <3>2. QED
      BY <3>1 DEF NewHandler, Handlers, Frames
  <2> HIDE DEF h
  <2>3. exception_stack' \in Seq(Handlers)
    BY <2>1, <2>2, AppendProperties DEF TypeOK
  <2>4. QED
    BY <1>1, <2>1, <2>3, ControlStep DEF TypeOK
<1>3. CASE POP_EXCEPT
  <2>1. /\ Fetch("POP_EXCEPT") /\ frames' = SetTop(Popped(0))
        /\ exception_stack' = AllButLast(exception_stack)
        /\ UNCHANGED <<program, current_exception, activations, heap, globals, output, status>>
    BY <1>3 DEF POP_EXCEPT
  <2>2. exception_stack' \in Seq(Handlers)
    <3>1. CASE exception_stack = << >>
      BY <2>1, <3>1, SubSeqEmpty, EmptySeq DEF AllButLast
    <3>2. CASE exception_stack # << >>
      BY <2>1, <3>2, AllButLastType DEF TypeOK
    <3>3. QED
      BY <3>1, <3>2
  <2>3. QED
    BY <1>1, <2>1, <2>2, ControlStep DEF TypeOK
<1>4. CASE FinallyMarker
  BY <1>1, <1>4, AdvanceType DEF FinallyMarker
<1>5. CASE LOAD_EXCEPTION
  <2> DEFINE v == IF current_exception = Unset THEN None ELSE current_exception
  <2>1. Fetch("LOAD_EXCEPTION") /\ Advance(Pushed(0, v))
    BY <1>5 DEF LOAD_EXCEPTION
  <2>2. frames # << >> /\ frame \in Frames /\ frame.sp < MAX_STACK
    BY <2>1, FetchFacts DEF Grows
  <2>3. v \in Value
    BY ValueIntro DEF TypeOK, Value
  <2>4. Pushed(0, v) \in Frames
    BY <2>2, <2>3, PushedType DEF Frames
  <2>5. QED
    BY <2>1, <2>2, <2>4, AdvanceType
<1>6. CASE RAISE_again
  <2>1. CASE Fail
    BY <2>1, FailType
  <2>2. CASE current_exception # Unset /\ raise_exception(current_exception)
    <3>1. PICK t \in ExcTypes : current_exception = Exc(t)
      BY <2>2 DEF TypeOK, Exc
    <3>2. QED
      BY <2>2, <3>1, RaiseType
  <2>3. QED
    BY <1>6, <2>1, <2>2 DEF RAISE_again
<1>7. CASE RAISE_value
  <2>1. Fetch("RAISE") /\ Arg = 1
    BY <1>7 DEF RAISE_value
  <2>2. frame \in Frames /\ 1 <= frame.sp
    BY <2>1, FetchFacts DEF Pops
  <2>3. Top(0) \in Value
    BY <2>2, TopType DEF Frames
  <2>4. \E t \in ExcTypes : raise_exception(Exc(t))
    BY <1>7, <2>3, ValueElim DEF RAISE_value, ExcTypes
  <2>5. QED
    BY <2>4, RaiseType
<1>8. CASE RAISE_assertion
  BY <1>8, RaiseType DEF RAISE_assertion, ExcTypes
<1>9. QED
  BY <1>2, <1>3, <1>4, <1>5, <1>6, <1>7, <1>8 DEF Exceptions

-------------------------------------------------------------------------------
(* Imports and the returns of the loop. *)

LEMMA ImportLoadType ==
  ASSUME TypeOK, IMPORT_load
  PROVE  TypeOK'
<1> DEFINE m == Len(modules) + 1
           f == NewFrame(Arg, NoLocals, m, Unset)
<1>1. /\ Fetch("IMPORT_NAME") /\ Arg # 0
      /\ modules' = Append(modules, NewModule(Arg))
      /\ sys_modules' = [sys_modules EXCEPT ![Arg] = m]
      /\ frames' = Append(SetTop(Popped(2)), f)
      /\ Activate("import", m)
      /\ UNCHANGED <<program, exception_stack, current_exception, generators, iters,
                     globals, output, status>>
  BY DEF IMPORT_load, Cache
<1>2. /\ frames # << >> /\ frame \in Frames /\ 2 <= frame.sp
      /\ Arg \in 1..Len(code_objects)
  <2>1. /\ frames # << >> /\ frame \in Frames /\ 2 <= frame.sp
        /\ Arg \in 0..Len(code_objects)
    BY <1>1, FetchFacts DEF Operand, Pops
  <2>2. Len(code_objects) \in Nat
    BY LenProperties DEF TypeOK, IsProgram
  <2>3. QED
    BY <1>1, <2>1, <2>2
<1>3. NewModule(Arg) \in Modules
  BY <1>2 DEF NewModule, Modules
<1>4. modules' \in Seq(Modules) /\ Len(modules') = m /\ Len(modules) \in Nat
  BY <1>1, <1>3, AppendProperties, LenProperties DEF TypeOK
<1>5. HeapGrows
  BY <1>1, <1>4, LenProperties DEF HeapGrows, TypeOK
<1>6. f \in Frames'
  <2>1. m \in 0..Len(modules') /\ 0 \in 0..Len(generators') /\ Arg \in 1..Len(code_objects')
    BY <1>1, <1>2, <1>4, LenProperties DEF TypeOK, program
  <2>2. None \in Value'
    BY ValueIntro, <1>5, ReferencesStay
  <2>3. EmptyStack \in [1..MAX_STACK -> Value'] /\ NoLocals \in [Names -> Value']
    BY <2>2 DEF EmptyStack, NoLocals
  <2> HIDE DEF m
  <2>4. QED
    BY <2>1, <2>3, StackAssumption DEF NewFrame, Frames
<1>7. frames' \in Seq(Frames')
  <2>1. SetTop(Popped(2)) \in Seq(Frames)
    BY <1>2, PoppedType, SetTopType
  <2>2. SetTop(Popped(2)) \in Seq(Frames')
    BY <1>5, <2>1, StaysTyped
  <2> HIDE DEF f
  <2>3. QED
    BY <1>1, <1>6, <2>2, AppendProperties
<1>8. sys_modules' \in [1..Len(code_objects) -> 0..Len(modules')]
  <2>1. sys_modules \in [1..Len(code_objects) -> 0..Len(modules')]
    BY <1>5, StaysTyped
  <2>2. m \in 0..Len(modules')
    BY <1>4
  <2> HIDE DEF m
  <2>3. QED
    BY <1>1, <1>2, <2>1, <2>2
<1>9. /\ activations' \in Seq(Activations') /\ activations' # << >>
      /\ \A a \in 1..Len(activations') : ActivationOK(a)'
  <2>1. m \in 0..Len(modules') /\ m # 0
    BY <1>4
  <2> HIDE DEF m
  <2>2. QED
    BY <1>1, <1>2, <1>5, <2>1, ActivateType
<1>10. /\ generators' \in Seq(Generators') /\ modules' \in Seq(Modules')
       /\ output' \in Seq(Value') /\ iters' \in Seq([current : Int, stop : Int])
  BY <1>1, <1>4, <1>5, StaysTyped DEF TypeOK
<1>11. QED
  BY <1>1, <1>5, <1>7, <1>8, <1>9, <1>10, HeapStep

LEMMA ImportsType ==
  ASSUME TypeOK, Imports
  PROVE  TypeOK'
<1>1. CASE IMPORT_cached
  <2> DEFINE v == Module(sys_modules[Arg])
  <2>1. Fetch("IMPORT_NAME") /\ sys_modules[Arg] # 0 /\ Arg # 0 /\ Advance(Pushed(2, v))
    BY <1>1 DEF IMPORT_cached
  <2>2. /\ frames # << >> /\ frame \in Frames /\ 2 <= frame.sp
        /\ Arg \in 0..Len(code_objects)
    BY <2>1, FetchFacts DEF Operand, Pops
  <2>3. Arg \in 1..Len(code_objects) /\ Len(modules) \in Nat
    BY <2>1, <2>2, LenProperties DEF TypeOK, IsProgram
  <2>4. sys_modules[Arg] \in 1..Len(modules)
    <3>1. sys_modules[Arg] \in 0..Len(modules)
      BY <2>3 DEF TypeOK
    <3>2. QED
      BY <2>1, <2>3, <3>1
  <2>5. v \in Value /\ frame.sp - 2 < MAX_STACK
    BY <2>2, <2>4, ValueIntro, StackAssumption DEF Frames
  <2>6. Pushed(2, v) \in Frames
    BY <2>2, <2>5, PushedType
  <2>7. QED
    BY <2>1, <2>2, <2>6, AdvanceType
<1>2. CASE IMPORT_missing
  BY <1>2, FailType DEF IMPORT_missing
<1>3. QED
  BY <1>1, <1>2, ImportLoadType DEF Imports

(* The activation that returns, if it is a nested one, is not the only one. *)
LEMMA NestedFacts ==
  ASSUME TypeOK, Activation.kind # "run", ~ (Len(frames) < Activation.target)
  PROVE  /\ Activation \in Activations /\ Activation.target \in 1..Len(frames)
         /\ Activation.kind = "import" => Activation.module \in 1..Len(modules)
         /\ frames[Activation.target] \in Frames
         /\ AllButLast(activations) \in Seq(Activations) /\ AllButLast(activations) # << >>
         /\ Len(AllButLast(activations)) = Len(activations) - 1 /\ Len(activations) \in Nat
         /\ \A a \in 1..Len(activations) - 1 : AllButLast(activations)[a] = activations[a]
<1>1. Len(activations) \in Nat \ {0} /\ Activation = activations[Len(activations)]
  BY EmptySeq DEF TypeOK, Activation
<1>2. Activation \in Activations
  BY <1>1, ElementOfSeq DEF TypeOK
<1>3. /\ Len(activations) # 1 /\ Activation.target # 0
      /\ Activation.kind = "import" => Activation.module # 0
  BY <1>1 DEF TypeOK, ActivationOK
<1>4. Activation.target \in 1..Len(frames) /\ Len(modules) \in Nat
  BY <1>2, <1>3, LenProperties DEF TypeOK, Activations
<1>5. frames[Activation.target] \in Frames
  BY <1>4, ElementOfSeq DEF TypeOK
<1>6. /\ AllButLast(activations) \in Seq(Activations)
      /\ Len(AllButLast(activations)) = Len(activations) - 1
      /\ \A a \in 1..Len(activations) - 1 : AllButLast(activations)[a] = activations[a]
  BY AllButLastType DEF TypeOK
<1>7. AllButLast(activations) # << >>
  BY <1>1, <1>3, <1>6, EmptySeq
<1>8. Activation.module \in 0..Len(modules)
  BY <1>2 DEF Activations
<1>9. QED
  BY <1>1, <1>2, <1>3, <1>4, <1>5, <1>6, <1>7, <1>8

LEMMA DeactivateType ==
  ASSUME TypeOK, HeapGrows, Activation.kind # "run", ~ (Len(frames) < Activation.target),
         activations' = AllButLast(activations)
  PROVE  /\ activations' \in Seq(Activations') /\ activations' # << >>
         /\ \A a \in 1..Len(activations') : ActivationOK(a)'
<1>1. activations' \in Seq(Activations') /\ activations' # << >>
  BY NestedFacts, StaysTyped
<1>2. ASSUME NEW a \in 1..Len(activations')  PROVE ActivationOK(a)'
  <2>1. a \in 1..Len(activations) - 1 /\ a \in 1..Len(activations)
    BY NestedFacts
  <2>2. activations'[a] = activations[a]
    BY <2>1, NestedFacts
  <2>3. ActivationOK(a)
    BY <2>1 DEF TypeOK
  <2>4. QED
    BY <2>2, <2>3 DEF ActivationOK
<1>3. QED
  BY <1>1, <1>2

LEMMA ImportReturnsType ==
  ASSUME TypeOK, import_returns
  PROVE  TypeOK'
<1> DEFINE target == Activation.target
           m == Activation.module
           importer == frames[target]
           top == PushOn(importer, Module(m))
           loaded == [modules[m] EXCEPT !.initialized = TRUE]
<1>1. /\ Activation.kind = "import"
      /\ IF Len(frames) < target \/ importer.sp >= MAX_STACK
         THEN status' = "panic" /\ UNCHANGED <<frames, modules, activations>>
         ELSE /\ frames' = [SubSeq(frames, 1, target) EXCEPT ![target] = top]
              /\ modules' = [modules EXCEPT ![m] = loaded]
              /\ activations' = AllButLast(activations)
              /\ UNCHANGED status
      /\ UNCHANGED <<program, exception_stack, current_exception, generators, iters,
                     sys_modules, globals, output>>
  BY DEF import_returns, Returned
<1>2. CASE Len(frames) < target \/ importer.sp >= MAX_STACK
  <2>1. /\ UNCHANGED <<program, activations, heap, frames, exception_stack,
                       current_exception, globals, output>>
        /\ status' = "panic"
    BY <1>1, <1>2 DEF heap
  <2>2. QED
    BY <2>1, ControlStep DEF TypeOK
<1>3. CASE ~ (Len(frames) < target \/ importer.sp >= MAX_STACK)
  <2>1. /\ target \in 1..Len(frames) /\ m \in 1..Len(modules) /\ importer \in Frames
    BY <1>1, <1>3, NestedFacts
  <2>2. importer.sp < MAX_STACK
    <3>1. importer.sp \in 0..MAX_STACK
      <4> HIDE DEF importer
      <4>1. QED
        BY <2>1 DEF Frames
    <3> HIDE DEF importer
    <3>2. QED
      BY <1>3, <3>1, StackAssumption
  <2>3. top \in Frames
    <3> HIDE DEF importer, m
    <3>1. QED
      BY <2>1, <2>2, PushOnType, ValueIntro
  <2>4. modules[m] \in Modules
    BY <2>1, ElementOfSeq DEF TypeOK
  <2>5. loaded \in Modules
    BY <2>4 DEF Modules
  <2>6. /\ frames' = [SubSeq(frames, 1, target) EXCEPT ![target] = top]
        /\ modules' = [modules EXCEPT ![m] = loaded]
        /\ activations' = AllButLast(activations)
        /\ UNCHANGED <<program, exception_stack, current_exception, generators, iters,
                       sys_modules, globals, output, status>>
    BY <1>1, <1>3
  <2> HIDE DEF target, m, importer, top, loaded
  <2>7. modules' \in Seq(Modules) /\ Len(modules') = Len(modules)
    BY <2>1, <2>5, <2>6, ExceptSeq DEF TypeOK
  <2>8. HeapGrows
    BY <2>6, <2>7, LenProperties DEF TypeOK, HeapGrows
  <2>9. frames' \in Seq(Frames)
    <3>1. SubSeq(frames, 1, target) \in Seq(Frames) /\ Len(SubSeq(frames, 1, target)) = target
      BY <2>1, PrefixType DEF TypeOK
    <3>2. QED
      BY <2>1, <2>3, <2>6, <3>1, ExceptSeq
  <2>10. /\ frames' \in Seq(Frames') /\ modules' \in Seq(Modules')
         /\ generators' \in Seq(Generators') /\ output' \in Seq(Value')
         /\ iters' \in Seq([current : Int, stop : Int])
         /\ sys_modules' \in [1..Len(code_objects) -> 0..Len(modules')]
    BY <2>6, <2>7, <2>8, <2>9, StaysTyped DEF TypeOK
  <2>11. /\ activations' \in Seq(Activations') /\ activations' # << >>
         /\ \A a \in 1..Len(activations') : ActivationOK(a)'
    BY <1>1, <1>3, <2>6, <2>8, DeactivateType DEF target
  <2>12. QED
    BY <2>6, <2>8, <2>10, <2>11, HeapStep
<1>4. QED
  BY <1>2, <1>3

LEMMA DunderReturnsType ==
  ASSUME TypeOK, dunder_returns
  PROVE  TypeOK'
<1> DEFINE target == Activation.target
           caller == frames[target]
           k == caller.sp
           f == [caller EXCEPT !.stack = [caller.stack EXCEPT ![k] = None]]
<1>1. /\ Activation.kind \in {"str", "print"}
      /\ IF Len(frames) < target \/ caller.sp = 0
         THEN status' = "panic" /\ UNCHANGED <<frames, output, activations>>
         ELSE /\ IF Activation.kind = "print"
                 THEN /\ frames' = [frames EXCEPT ![target] = f]
                      /\ output' = Append(output, caller.stack[caller.sp])
                 ELSE UNCHANGED <<frames, output>>
              /\ activations' = AllButLast(activations)
              /\ UNCHANGED status
      /\ UNCHANGED <<program, exception_stack, current_exception, heap, globals>>
  BY DEF dunder_returns, Returned
<1>2. CASE Len(frames) < target \/ caller.sp = 0
  <2>1. /\ UNCHANGED <<program, activations, heap, frames, exception_stack,
                       current_exception, globals, output>>
        /\ status' = "panic"
    BY <1>1, <1>2
  <2>2. QED
    BY <2>1, ControlStep DEF TypeOK
<1>3. CASE ~ (Len(frames) < target \/ caller.sp = 0)
  <2>1. target \in 1..Len(frames) /\ caller \in Frames
    BY <1>1, <1>3, NestedFacts
  <2>2. k \in 1..MAX_STACK /\ caller.stack[k] \in Value
    <3> HIDE DEF caller
    <3>1. k \in 0..MAX_STACK /\ caller.stack \in [1..MAX_STACK -> Value]
      BY <2>1 DEF Frames
    <3>2. k # 0
      BY <1>3
    <3> HIDE DEF k
    <3>3. QED
      BY <3>1, <3>2, StackAssumption
  <2>3. f \in Frames
    <3>1. [caller.stack EXCEPT ![k] = None] \in [1..MAX_STACK -> Value]
      BY <2>1, <2>2, ValueIntro, StackType
    <3> HIDE DEF caller, k
    <3>2. QED
      BY <2>1, <3>1 DEF Frames
  <2>4. /\ \/ /\ frames' = [frames EXCEPT ![target] = f]
              /\ output' = Append(output, caller.stack[k])
           \/ UNCHANGED <<frames, output>>
        /\ activations' = AllButLast(activations)
        /\ UNCHANGED <<program, heap, exception_stack, current_exception, globals, status>>
    BY <1>1, <1>3
  <2> HIDE DEF target, caller, k, f
  <2>5. frames' \in Seq(Frames) /\ output' \in Seq(Value)
    <3>1. frames \in Seq(Frames) /\ output \in Seq(Value)
      BY DEF TypeOK
    <3>2. [frames EXCEPT ![target] = f] \in Seq(Frames)
      BY <2>1, <2>3, <3>1, ExceptSeq
    <3>3. Append(output, caller.stack[k]) \in Seq(Value)
      BY <2>2, <3>1, AppendProperties
    <3>4. QED
      BY <2>4, <3>1, <3>2, <3>3
  <2>6. /\ activations' \in Seq(Activations') /\ activations' # << >>
        /\ \A a \in 1..Len(activations') : ActivationOK(a)'
    BY <1>1, <1>3, <2>4, HeapStays, DeactivateType DEF target
  <2>7. QED
    BY <2>4, <2>5, <2>6, NestType
<1>4. QED
  BY <1>2, <1>3

LEMMA ReturnsType ==
  ASSUME TypeOK, Returns
  PROVE  TypeOK'
<1>1. CASE run_returns
  BY <1>1, ControlStep DEF run_returns, TypeOK
<1>2. QED
  BY <1>1, ImportReturnsType, DunderReturnsType DEF Returns

LEMMA AbortsType ==
  ASSUME TypeOK, Aborts
  PROVE  TypeOK'
<1>1. CASE StackPanic
  BY <1>1, ControlStep DEF StackPanic, TypeOK
<1>2. CASE OutOfBounds
  BY <1>2, FailType DEF OutOfBounds
<1>3. QED
  BY <1>1, <1>2 DEF Aborts

-------------------------------------------------------------------------------
(* The type invariant. *)

LEMMA InitType == Init => TypeOK
<1> SUFFICES ASSUME Init  PROVE TypeOK
  OBVIOUS
<1>1. /\ IsProgram(code_objects) /\ Start
      /\ DOMAIN code_objects = 1..Len(code_objects) /\ 1 \in 1..Len(code_objects)
  <2>1. IsProgram(code_objects) /\ Start
    BY DEF Init
  <2>2. code_objects \in Seq({code_objects[c] : c \in DOMAIN code_objects})
        /\ code_objects # << >>
    BY <2>1 DEF IsProgram
  <2>3. Len(code_objects) \in Nat \ {0} /\ DOMAIN code_objects = 1..Len(code_objects)
    BY <2>2, EmptySeq, LenProperties
  <2>4. QED
    BY <2>1, <2>3
<1>2. generators \in Seq(Generators) /\ iters \in Seq([current : Int, stop : Int])
      /\ modules \in Seq(Modules) /\ exception_stack \in Seq(Handlers)
      /\ output \in Seq(Value) /\ Len(modules) = 0
  BY <1>1, EmptySeq DEF Start
<1>3. NoLocals \in [Names -> Value]
  BY ValueIntro DEF NoLocals
<1>4. NewFrame(1, NoLocals, 0, Unset) \in Frames
  <2>1. 0 \in 0..Len(modules) /\ Unset \in Value \cup {Unset}
    BY <1>2
  <2>2. QED
    BY <1>1, <1>2, <1>3, <2>1, NewFrameType
<1>5. frames \in Seq(Frames)
  BY <1>1, <1>4 DEF Start
<1>6. activations \in Seq(Activations) /\ activations # << >>
      /\ \A a \in 1..Len(activations) : ActivationOK(a)
  <2> DEFINE act == [kind |-> "run", target |-> 0, module |-> 0]
  <2>1. act \in Activations
    BY <1>2 DEF Activations
  <2>2. activations = <<act>> /\ act.kind = "run"
    BY <1>1 DEF Start
  <2> HIDE DEF act
  <2>3. activations \in Seq(Activations) /\ Len(activations) = 1 /\ activations[1] = act
    BY <2>1, <2>2
  <2>4. QED
    BY <2>2, <2>3, EmptySeq DEF ActivationOK
<1>7. sys_modules \in [1..Len(code_objects) -> 0..Len(modules)]
  BY <1>1, <1>2 DEF Start
<1>8. QED
  BY <1>1, <1>2, <1>5, <1>6, <1>7 DEF Start, TypeOK

LEMMA StepType == TypeOK /\ [Next]_vars => TypeOK'
<1> SUFFICES ASSUME TypeOK, [Next]_vars  PROVE TypeOK'
  OBVIOUS
<1>1. CASE UNCHANGED vars
  BY <1>1, ControlStep DEF vars, TypeOK
<1>2. CASE Step
  BY <1>2, NamespacesType, OperandsType, JumpsType, CallsType, IterationType,
     ExceptionsType, ImportsType, ReturnsType, AbortsType DEF Step
<1>3. QED
  BY <1>1, <1>2 DEF Next, Terminated

(* Whatever code the interpreter is given, no value it holds refers to an
   object that is not there: the operands, locals and namespaces of frames and
   modules, what generators keep and what has been printed.                  *)
THEOREM TypeCorrect == Spec => []TypeOK
  BY InitType, StepType, PTL DEF Spec

=============================================================================
