---------------------------- MODULE VMNestingProofs ---------------------------
(***************************************************************************)
(* Every frame but the last waits behind the instruction that pushed the    *)
(* next one.  Five actions push a frame; every other step only trims the    *)
(* stack: it drops frames off its end and may move the instruction pointer  *)
(* of the frame that is then the last.                                      *)
(*                                                                         *)
(* The calls of the dispatch loop nest like the frames they run, the flag   *)
(* of a module says whether a call that runs its body is left, and no file  *)
(* is loaded twice.  Two actions begin a call, two end one, and no other    *)
(* touches the calls, the flags or the cache.                               *)
(***************************************************************************)
EXTENDS VMTypeProofs, FiniteSetTheorems

Trims == /\ UNCHANGED code_objects
         /\ Len(frames') \in 0..Len(frames)
         /\ \A i \in 1..Len(frames') :
              /\ Continues(frames'[i], frames[i])
              /\ i < Len(frames') => frames'[i].ip = frames[i].ip

(* The frame that an instruction pushes, and the one below goes on behind it. *)
Entered(f) ==
  \/ Instr[1] = "CALL_FUNCTION" /\ f.gen = 0 /\ f.code \in FunctionCode /\ f.ip = 1
  \/ /\ Instr[1] = "IMPORT_NAME" /\ f.gen = 0 /\ f.code = Arg /\ f.ip = 1
     /\ f.module = Len(modules) + 1
  \/ /\ Instr[1] = "FOR_ITER" /\ f.gen \in 1..Len(generators)
     /\ f.code = generators[f.gen].code /\ f.ip = generators[f.gen].ip
Pushes ==
  LET caller == frames'[Len(frames)] IN
  /\ Dispatching /\ UNCHANGED code_objects
  /\ Len(frames') = Len(frames) + 1
  /\ \A i \in 1..Len(frames) - 1 : frames'[i] = frames[i]
  /\ Continues(caller, frame) /\ caller.ip = frame.ip + 1
  /\ frame.ip \in DOMAIN Instructions /\ Entered(frames'[Len(frames) + 1])

-------------------------------------------------------------------------------
(* Trimming keeps the invariant. *)
LEMMA TrimsKeeps ==
  ASSUME TypeOK, CallersWait, Trims
  PROVE  CallersWait'
<1>1. Len(frames) \in Nat /\ code_objects' = code_objects
  BY LenProperties DEF TypeOK, Trims
<1>2. ASSUME NEW i \in 1..Len(frames') - 1
      PROVE  WaitsAt(frames[i], Pushers(frames[i + 1].gen))'
  <2>1. /\ i \in 1..Len(frames) - 1 /\ i \in 1..Len(frames') /\ i + 1 \in 1..Len(frames')
        /\ i < Len(frames')
    BY <1>1 DEF Trims
  <2>2. /\ frames'[i].code = frames[i].code /\ frames'[i].ip = frames[i].ip
        /\ frames'[i + 1].gen = frames[i + 1].gen
    BY <2>1 DEF Trims, Continues
  <2>3. WaitsAt(frames[i], Pushers(frames[i + 1].gen))
    BY <2>1 DEF CallersWait
  <2>4. QED
    BY <1>1, <2>2, <2>3 DEF WaitsAt, OpAt, InstrAt, Pushers
<1>3. QED
  BY <1>2 DEF CallersWait

(* Pushing keeps it, as the instruction fits the frame that is pushed. *)
LEMMA PushesKeeps ==
  ASSUME TypeOK, CallersWait, Pushes
  PROVE  CallersWait'
<1>1. /\ code_objects' = code_objects /\ Len(frames') = Len(frames) + 1
      /\ \A i \in 1..Len(frames) - 1 : frames'[i] = frames[i]
      /\ frames'[Len(frames)].code = frame.code /\ frames'[Len(frames)].gen = frame.gen
      /\ frames'[Len(frames)].ip = frame.ip + 1
      /\ frame.ip \in DOMAIN Instructions
      /\ Instr[1] \in Pushers(frames'[Len(frames) + 1].gen)
      /\ frame \in Frames /\ Len(frames) \in Nat \ {0}
  <2>1. Len(generators) \in Nat
    BY LenProperties DEF TypeOK
  <2>2. Dispatching /\ Entered(frames'[Len(frames) + 1])
    BY DEF Pushes
  <2>3. Instr[1] \in Pushers(frames'[Len(frames) + 1].gen)
    BY <2>1, <2>2 DEF Entered, Pushers
  <2>4. QED
    BY <2>2, <2>3, DispatchFacts DEF Pushes, Continues
<1>2. ASSUME NEW i \in 1..Len(frames') - 1
      PROVE  WaitsAt(frames[i], Pushers(frames[i + 1].gen))'
  <2>1. CASE i < Len(frames)
    <3>1. i \in 1..Len(frames) - 1
      BY <1>1, <2>1
    <3>2. frames'[i] = frames[i] /\ frames'[i + 1].gen = frames[i + 1].gen
      <4>1. CASE i + 1 = Len(frames)
        BY <1>1, <3>1, <4>1 DEF frame
      <4>2. CASE i + 1 # Len(frames)
        BY <1>1, <3>1, <4>2
      <4>3. QED
        BY <4>1, <4>2
    <3>3. WaitsAt(frames[i], Pushers(frames[i + 1].gen))
      BY <3>1 DEF CallersWait
    <3>4. QED
      BY <1>1, <3>2, <3>3 DEF WaitsAt, OpAt, InstrAt, Pushers
  <2>2. CASE i = Len(frames)
    <3>1. frame.ip \in Nat
      BY <1>1 DEF Frames
    <3>2. frames'[i].ip - 1 = frame.ip
      BY <1>1, <2>2, <3>1
    <3>3. QED
      BY <1>1, <2>2, <3>2 DEF WaitsAt, OpAt, InstrAt, Pushers, Instructions, Instr
  <2>3. QED
    BY <1>1, <2>1, <2>2
<1>3. QED
  BY <1>2 DEF CallersWait

-------------------------------------------------------------------------------
(* Sequences, whatever their elements. *)

(* One element is replaced. *)
LEMMA Replaced ==
  ASSUME NEW S, NEW s \in Seq(S), NEW k \in 1..Len(s), NEW e
  PROVE  /\ Len([s EXCEPT ![k] = e]) = Len(s)
         /\ [s EXCEPT ![k] = e] \in Seq(S \cup {e})
         /\ \A i \in 1..Len(s) : [s EXCEPT ![k] = e][i] = IF i = k THEN e ELSE s[i]
<1>1. s \in Seq(S \cup {e})
  BY IsASeq, ElementOfSeq, LenProperties
<1>2. QED
  BY <1>1, ExceptSeq

(* One element is added. *)
LEMMA Appended ==
  ASSUME NEW S, NEW s \in Seq(S), NEW e
  PROVE  /\ Len(Append(s, e)) = Len(s) + 1
         /\ \A i \in 1..Len(s) : Append(s, e)[i] = s[i]
         /\ Append(s, e)[Len(s) + 1] = e
<1>1. s \in Seq(S \cup {e})
  BY IsASeq, ElementOfSeq, LenProperties
<1>2. QED
  BY <1>1, AppendProperties

-------------------------------------------------------------------------------
(* Fields of the frames that instructions make. *)

LEMMA PoppedFields ==
  ASSUME frame \in Frames, NEW n
  PROVE  Continues(Popped(n), frame) /\ Popped(n).ip = frame.ip + 1
  BY DEF Popped, Frames, Continues

LEMMA PushedFields ==
  ASSUME frame \in Frames, NEW n, NEW v
  PROVE  Continues(Pushed(n, v), frame) /\ Pushed(n, v).ip = frame.ip + 1
  BY DEF Pushed, Frames, Continues

LEMMA PushOnFields ==
  ASSUME NEW f \in Frames, NEW v
  PROVE  Continues(PushOn(f, v), f) /\ PushOn(f, v).ip = f.ip
  BY DEF PushOn, Frames, Continues

(* A jump, or a store into a local, leaves the frame's code. *)
LEMMA JumpFields ==
  ASSUME frame \in Frames, NEW n, NEW k
  PROVE  /\ Continues([Popped(n) EXCEPT !.ip = k], frame)
         /\ [Popped(n) EXCEPT !.ip = k].ip = k
         /\ Continues([frame EXCEPT !.ip = k], frame)
         /\ [frame EXCEPT !.ip = k].ip = k
  BY DEF Popped, Frames, Continues

LEMMA StoreFields ==
  ASSUME frame \in Frames, NEW n, NEW name, NEW v
  PROVE  /\ Continues([Popped(n) EXCEPT !.locals[name] = v], frame)
         /\ [Popped(n) EXCEPT !.locals[name] = v].ip = frame.ip + 1
  BY DEF Popped, Frames, Continues

-------------------------------------------------------------------------------
(* The steps that trim. *)

(* The stack stays as it is. *)
LEMMA SameTrims ==
  ASSUME TypeOK, UNCHANGED <<code_objects, frames>>
  PROVE  Trims
  BY LenProperties DEF Trims, Continues, TypeOK

(* The last frame moves. *)
LEMMA TopTrims ==
  ASSUME TypeOK, frames # << >>, NEW f, Continues(f, frame), frames' = SetTop(f),
         UNCHANGED code_objects
  PROVE  Trims
<1>1. frames \in Seq(Frames) /\ Len(frames) \in 1..Len(frames) /\ Len(frames) \in Nat
  BY EmptySeq, LenProperties DEF TypeOK
<1>2. /\ Len(frames') = Len(frames)
      /\ \A i \in 1..Len(frames) : frames'[i] = IF i = Len(frames) THEN f ELSE frames[i]
  BY <1>1, Replaced DEF SetTop
<1>3. QED
  BY <1>1, <1>2 DEF Trims, Continues, frame

LEMMA AdvanceTrims ==
  ASSUME TypeOK, frames # << >>, NEW f, Continues(f, frame), Advance(f)
  PROVE  Trims
  BY TopTrims DEF Advance, Goto, program

LEMMA FailTrims ==
  ASSUME TypeOK, Fail
  PROVE  Trims
  BY SameTrims DEF Fail, program

(* An exception drops the frames above its handler's. *)
LEMMA RaiseTrims ==
  ASSUME TypeOK, NEW exc, raise_exception(exc)
  PROVE  Trims
<1>1. code_objects' = code_objects /\ Len(frames) \in Nat
  BY LenProperties DEF raise_exception, program, TypeOK
<1>2. CASE Caught
  <2>1. Handler \in Handlers
    BY <1>2, EmptySeq, ElementOfSeq DEF Caught, TypeOK, Handler
  <2>2. /\ Len(frames') = Handler.frame_index
        /\ \A i \in 1..Handler.frame_index - 1 : frames'[i] = frames[i]
        /\ Continues(frames'[Handler.frame_index], frames[Handler.frame_index])
        /\ Handler.frame_index <= Len(frames)
    BY <1>2, <2>1, UnwindType DEF Caught
  <2>3. Handler.frame_index \in Nat \ {0}
    BY <2>1 DEF Handlers
  <2>4. QED
    BY <1>1, <2>2, <2>3 DEF Trims, Continues
<1>3. CASE Dangling \/ Uncaught
  BY <1>1, <1>3, SameTrims DEF Dangling, Uncaught
<1>4. QED
  BY <1>2, <1>3 DEF raise_exception

LEMMA HandleErrorTrims ==
  ASSUME TypeOK, NEW t, try_handle_error(t)
  PROVE  Trims
  BY FailTrims, RaiseTrims DEF try_handle_error

LEMMA DeliverTrims ==
  ASSUME TypeOK, frames # << >>, frame \in Frames, NEW n, NEW result, Deliver(n, result)
  PROVE  Trims
  BY HandleErrorTrims, PushedFields, AdvanceTrims DEF Deliver

LEMMA NamespacesTrims ==
  ASSUME TypeOK, Namespaces
  PROVE  Trims
<1>1. CASE LOAD_CONST
  BY <1>1, FetchFacts, PushedFields, AdvanceTrims DEF LOAD_CONST
<1>2. CASE LOAD_FAST
  BY <1>2, FetchFacts, PushedFields, AdvanceTrims DEF LOAD_FAST
<1>3. CASE STORE_FAST
  BY <1>3, FetchFacts, StoreFields, AdvanceTrims DEF STORE_FAST
<1>4. CASE LOAD_GLOBAL
  BY <1>4, FetchFacts, PushedFields, AdvanceTrims, HandleErrorTrims DEF LOAD_GLOBAL
<1>5. CASE STORE_GLOBAL
  BY <1>5, FetchFacts, PoppedFields, TopTrims DEF STORE_GLOBAL, program
<1>6. QED
  BY <1>1, <1>2, <1>3, <1>4, <1>5 DEF Namespaces

LEMMA OperandsTrims ==
  ASSUME TypeOK, Operands
  PROVE  Trims
<1>1. CASE ADD
  BY <1>1, FetchFacts, DeliverTrims DEF ADD
<1>2. CASE FLOOR_DIV
  BY <1>2, FetchFacts, DeliverTrims DEF FLOOR_DIV
<1>3. CASE LSHIFT
  BY <1>3, FetchFacts, PushedFields, AdvanceTrims, FailTrims DEF LSHIFT
<1>4. CASE COMPARE_EQ
  BY <1>4, FetchFacts, PushedFields, AdvanceTrims DEF COMPARE_EQ
<1>5. CASE POP_TOP
  BY <1>5, FetchFacts, PoppedFields, AdvanceTrims DEF POP_TOP
<1>6. CASE LOAD_ATTR
  BY <1>6, FetchFacts, DeliverTrims DEF LOAD_ATTR
<1>7. QED
  BY <1>1, <1>2, <1>3, <1>4, <1>5, <1>6 DEF Operands

LEMMA JumpsTrims ==
  ASSUME TypeOK, Jumps
  PROVE  Trims
<1>1. CASE JUMP
  BY <1>1, FetchFacts, JumpFields, AdvanceTrims DEF JUMP
<1>2. CASE JUMP_IF_FALSE
  <2> DEFINE ip == IF is_truthy(Top(0)) THEN Popped(1).ip ELSE Arg
  <2>1. Fetch("JUMP_IF_FALSE") /\ Advance([Popped(1) EXCEPT !.ip = ip])
    BY <1>2 DEF JUMP_IF_FALSE
  <2> HIDE DEF ip
  <2>2. QED
    BY <2>1, FetchFacts, JumpFields, AdvanceTrims
<1>3. CASE JUMP_IF_TRUE
  <2> DEFINE ip == IF is_truthy(Top(0)) THEN Arg ELSE Popped(1).ip
  <2>1. Fetch("JUMP_IF_TRUE") /\ Advance([Popped(1) EXCEPT !.ip = ip])
    BY <1>3 DEF JUMP_IF_TRUE
  <2> HIDE DEF ip
  <2>2. QED
    BY <2>1, FetchFacts, JumpFields, AdvanceTrims
<1>4. QED
  BY <1>1, <1>2, <1>3 DEF Jumps

LEMMA ExceptionsTrims ==
  ASSUME TypeOK, Exceptions
  PROVE  Trims
<1>1. CASE SETUP_EXCEPT
  BY <1>1, FetchFacts, PoppedFields, TopTrims DEF SETUP_EXCEPT, program
<1>2. CASE POP_EXCEPT
  BY <1>2, FetchFacts, PoppedFields, TopTrims DEF POP_EXCEPT, program
<1>3. CASE FinallyMarker
  BY <1>3, FetchFacts, PoppedFields, AdvanceTrims DEF FinallyMarker
<1>4. CASE LOAD_EXCEPTION
  BY <1>4, FetchFacts, PushedFields, AdvanceTrims DEF LOAD_EXCEPTION
<1>5. CASE RAISE_again \/ RAISE_value \/ RAISE_assertion
  BY <1>5, FailTrims, RaiseTrims DEF RAISE_again, RAISE_value, RAISE_assertion
<1>6. QED
  BY <1>1, <1>2, <1>3, <1>4, <1>5 DEF Exceptions

(* The frame below the last is the last of all but it. *)
LEMMA CallerBelow ==
  ASSUME TypeOK, Len(frames) > 1
  PROVE  LET caller == AllButLast(frames)[Len(AllButLast(frames))] IN
         caller = frames[Len(frames) - 1] /\ caller \in Frames
<1>1. Len(frames) \in Nat /\ frames \in Seq(Frames)
  BY LenProperties DEF TypeOK
<1>2. frames # << >>
  BY <1>1, EmptySeq
<1>3. /\ Len(AllButLast(frames)) = Len(frames) - 1
      /\ \A i \in 1..Len(frames) - 1 : AllButLast(frames)[i] = frames[i]
  BY <1>1, <1>2, AllButLastType
<1>4. Len(frames) - 1 \in 1..Len(frames) - 1 /\ Len(frames) - 1 \in 1..Len(frames)
  BY <1>1
<1>5. frames[Len(frames) - 1] \in Frames
  BY <1>1, <1>4, ElementOfSeq
<1>6. QED
  BY <1>3, <1>4, <1>5

(* A frame returns or yields to the one below. *)
LEMMA LeaveTrims ==
  ASSUME TypeOK, frames # << >>, UNCHANGED code_objects, NEW back,
         Len(frames) > 1 => Continues(back, frames[Len(frames) - 1]),
         frames' = IF AllButLast(frames) = << >> THEN AllButLast(frames)
                   ELSE [AllButLast(frames) EXCEPT ![Len(AllButLast(frames))] = back]
  PROVE  Trims
<1> DEFINE below == AllButLast(frames)
<1>1. /\ Len(frames) \in Nat \ {0}
      /\ below \in Seq(Frames) /\ Len(below) = Len(frames) - 1
      /\ \A i \in 1..Len(frames) - 1 : below[i] = frames[i]
  BY EmptySeq, AllButLastType DEF TypeOK
<1>2. frames' = IF below = << >> THEN below ELSE [below EXCEPT ![Len(below)] = back]
  OBVIOUS
<1> HIDE DEF below
<1>3. CASE below = << >>
  BY <1>1, <1>2, <1>3 DEF Trims, Continues
<1>4. CASE below # << >>
  <2>1. Len(below) \in 1..Len(below) /\ Len(frames) > 1
    BY <1>1, <1>4, EmptySeq
  <2>2. /\ Len(frames') = Len(below)
        /\ \A i \in 1..Len(below) : frames'[i] = IF i = Len(below) THEN back ELSE below[i]
    BY <1>1, <1>2, <1>4, <2>1, Replaced
  <2>3. QED
    BY <1>1, <2>1, <2>2 DEF Trims, Continues
<1>5. QED
  BY <1>3, <1>4

LEMMA ReturnTrims ==
  ASSUME TypeOK, RETURN_VALUE
  PROVE  Trims
<1> DEFINE below  == AllButLast(frames)
           caller == below[Len(below)]
           v      == IF frame.init # Unset THEN frame.init ELSE Top(0)
           ip     == IF caller.ip > 2 THEN caller.ip - 2 ELSE 1
           back   == IF frame.gen # 0 THEN [caller EXCEPT !.ip = ip] ELSE PushOn(caller, v)
<1>1. /\ Fetch("RETURN_VALUE") /\ UNCHANGED code_objects
      /\ frames' = IF below = << >> THEN below ELSE [below EXCEPT ![Len(below)] = back]
  BY DEF RETURN_VALUE, program
<1>2. frames # << >> /\ Len(frames) \in Nat \ {0}
  BY <1>1, FetchFacts
<1>3. ASSUME Len(frames) > 1  PROVE Continues(back, frames[Len(frames) - 1])
  <2>1. caller = frames[Len(frames) - 1] /\ caller \in Frames
    BY <1>3, CallerBelow
  <2> HIDE DEF caller, v, ip
  <2>2. Continues([caller EXCEPT !.ip = ip], caller) /\ Continues(PushOn(caller, v), caller)
    BY <2>1, PushOnFields DEF Frames, Continues
  <2>3. QED
    BY <2>1, <2>2
<1> HIDE DEF back
<1>4. QED
  BY <1>1, <1>2, <1>3, LeaveTrims

LEMMA YieldTrims ==
  ASSUME TypeOK, YIELD_VALUE
  PROVE  Trims
<1> DEFINE below == AllButLast(frames)
           back  == PushOn(below[Len(below)], Top(0))
<1>1. /\ Fetch("YIELD_VALUE") /\ UNCHANGED code_objects
      /\ frames' = IF below = << >> THEN below ELSE [below EXCEPT ![Len(below)] = back]
  BY DEF YIELD_VALUE, program
<1>2. frames # << >> /\ Len(frames) \in Nat \ {0}
  BY <1>1, FetchFacts
<1>3. ASSUME Len(frames) > 1  PROVE Continues(back, frames[Len(frames) - 1])
  <2>1. below[Len(below)] = frames[Len(frames) - 1] /\ below[Len(below)] \in Frames
    BY <1>3, CallerBelow
  <2>2. QED
    BY <2>1, PushOnFields
<1> HIDE DEF back
<1>4. QED
  BY <1>1, <1>2, <1>3, LeaveTrims

LEMMA IterationTrims ==
  ASSUME TypeOK, Iteration, ~ resume_generator
  PROVE  Trims
<1>1. CASE GET_ITER
  BY <1>1, FetchFacts, PushedFields, AdvanceTrims, FailTrims DEF GET_ITER
<1>2. CASE FOR_ITER_range
  <2> DEFINE i == Top(0)[2]
  <2>1. /\ Fetch("FOR_ITER")
        /\ \/ Advance([Popped(1) EXCEPT !.ip = Arg])
           \/ frames' = SetTop(Pushed(1, Int_(iters[i].current))) /\ UNCHANGED code_objects
    BY <1>2 DEF FOR_ITER_range, program
  <2> HIDE DEF i
  <2>2. CASE Advance([Popped(1) EXCEPT !.ip = Arg])
    BY <2>1, <2>2, FetchFacts, JumpFields, AdvanceTrims
  <2>3. QED
    BY <2>1, <2>2, FetchFacts, PushedFields, TopTrims
<1>3. CASE FOR_ITER_completed
  BY <1>3, FetchFacts, JumpFields, AdvanceTrims DEF FOR_ITER_completed
<1>4. CASE FOR_ITER_error \/ YIELD_outside
  BY <1>4, FailTrims DEF FOR_ITER_error, YIELD_outside
<1>5. QED
  BY <1>1, <1>2, <1>3, <1>4, YieldTrims DEF Iteration

(* The frames up to n stay where they are, and no other does. *)
StayUpTo(n) ==
  /\ UNCHANGED code_objects
  /\ n \in 0..Len(frames) /\ Len(frames') = n
  /\ \A i \in 1..n : Continues(frames'[i], frames[i]) /\ frames'[i].ip = frames[i].ip

LEMMA SameStay ==
  ASSUME TypeOK, UNCHANGED <<code_objects, frames>>
  PROVE  StayUpTo(Len(frames))
  BY LenProperties DEF StayUpTo, Continues, TypeOK

LEMMA StayTrims ==
  ASSUME NEW n, StayUpTo(n)
  PROVE  Trims
  BY DEF StayUpTo, Trims

(* The end of an import leaves the frames up to its importer's. *)
LEMMA ImportReturnsStay ==
  ASSUME TypeOK, import_returns
  PROVE  \/ UNCHANGED <<code_objects, frames, modules, activations>>
         \/ StayUpTo(Activation.target)
<1> DEFINE target == Activation.target
           importer == frames[target]
           top == PushOn(importer, Module(Activation.module))
<1>1. /\ Activation.kind = "import" /\ UNCHANGED code_objects
      /\ \/ UNCHANGED <<frames, modules, activations>>
         \/ /\ ~ (Len(frames) < target)
            /\ frames' = [SubSeq(frames, 1, target) EXCEPT ![target] = top]
  BY DEF import_returns, Returned, program
<1>2. CASE ~ UNCHANGED <<frames, modules, activations>>
  <2>1. /\ target \in 1..Len(frames) /\ importer \in Frames
        /\ frames' = [SubSeq(frames, 1, target) EXCEPT ![target] = top]
    BY <1>1, <1>2, NestedFacts
  <2>2. Len(frames) \in Nat
    BY LenProperties DEF TypeOK
  <2> DEFINE kept == SubSeq(frames, 1, target)
  <2>3. /\ kept \in Seq(Frames) /\ Len(kept) = target
        /\ \A i \in 1..target : kept[i] = frames[i]
    BY <2>1, <2>2, PrefixType DEF TypeOK
  <2>4. Continues(top, importer) /\ top.ip = importer.ip
    BY <2>1, PushOnFields
  <2>5. target \in 1..Len(kept) /\ frames' = [kept EXCEPT ![target] = top]
    BY <2>1, <2>2, <2>3
  <2>6. target = Activation.target
    OBVIOUS
  <2> HIDE DEF target, top, kept, importer
  <2>7. /\ Len(frames') = target
        /\ \A i \in 1..target : frames'[i] = IF i = target THEN top ELSE kept[i]
    BY <2>3, <2>5, Replaced
  <2>8. importer = frames[target]
    BY DEF importer
  <2>9. StayUpTo(target)
    BY <1>1, <2>1, <2>2, <2>3, <2>4, <2>7, <2>8 DEF StayUpTo, Continues
  <2>10. QED
    BY <2>6, <2>9
<1>3. QED
  BY <1>1, <1>2

LEMMA ImportReturnsTrims ==
  ASSUME TypeOK, import_returns
  PROVE  Trims
  BY ImportReturnsStay, SameTrims, StayTrims

(* The end of a __str__ leaves them all. *)
LEMMA DunderReturnsStay ==
  ASSUME TypeOK, dunder_returns
  PROVE  StayUpTo(Len(frames))
<1> DEFINE target == Activation.target
           caller == frames[target]
           f == [caller EXCEPT !.stack = [caller.stack EXCEPT ![caller.sp] = None]]
<1>1. /\ Activation.kind \in {"str", "print"} /\ UNCHANGED code_objects
      /\ \/ UNCHANGED frames
         \/ ~ (Len(frames) < target) /\ frames' = [frames EXCEPT ![target] = f]
  BY DEF dunder_returns, Returned, program
<1>2. CASE UNCHANGED frames
  BY <1>1, <1>2, SameStay
<1>3. CASE ~ UNCHANGED frames
  <2>1. /\ target \in 1..Len(frames) /\ caller \in Frames
        /\ frames' = [frames EXCEPT ![target] = f]
    BY <1>1, <1>3, NestedFacts
  <2>2. Continues(f, caller) /\ f.ip = caller.ip
    <3> HIDE DEF caller
    <3>1. QED
      BY <2>1 DEF Frames, Continues
  <2> HIDE DEF target, f
  <2>3. /\ Len(frames') = Len(frames) /\ Len(frames) \in Nat
        /\ \A i \in 1..Len(frames) : frames'[i] = IF i = target THEN f ELSE frames[i]
    BY <2>1, Replaced, LenProperties DEF TypeOK
  <2>4. QED
    BY <1>1, <2>1, <2>2, <2>3 DEF StayUpTo, Continues
<1>4. QED
  BY <1>2, <1>3

LEMMA DunderReturnsTrims ==
  ASSUME TypeOK, dunder_returns
  PROVE  Trims
  BY DunderReturnsStay, StayTrims

LEMMA ReturnsTrims ==
  ASSUME TypeOK, Returns \/ Aborts \/ UNCHANGED vars
  PROVE  Trims
<1>1. CASE run_returns \/ StackPanic \/ UNCHANGED vars
  BY <1>1, SameTrims DEF run_returns, StackPanic, vars, program
<1>2. CASE OutOfBounds
  BY <1>2, FailTrims DEF OutOfBounds
<1>3. QED
  BY <1>1, <1>2, ImportReturnsTrims, DunderReturnsTrims DEF Returns, Aborts

-------------------------------------------------------------------------------
(* The steps that push. *)

LEMMA FrameIsPushed ==
  ASSUME TypeOK, NEW op, Fetch(op), NEW n, NEW f, Entered(f),
         frames' = Append(SetTop(Popped(n)), f), UNCHANGED code_objects
  PROVE  Pushes
<1>1. /\ frames \in Seq(Frames) /\ Len(frames) \in 1..Len(frames) /\ Len(frames) \in Nat \ {0}
      /\ frame \in Frames
  BY FetchFacts, LenProperties DEF TypeOK
<1>2. Dispatching /\ InCode
  BY DEF Fetch
<1> DEFINE below == SetTop(Popped(n))
<1>3. /\ Len(below) = Len(frames) /\ below \in Seq(Frames \cup {Popped(n)})
      /\ \A i \in 1..Len(frames) : below[i] = IF i = Len(frames) THEN Popped(n) ELSE frames[i]
  BY <1>1, Replaced DEF SetTop
<1>4. frames' = Append(below, f)
  OBVIOUS
<1> HIDE DEF below
<1>5. /\ Len(frames') = Len(frames) + 1
      /\ \A i \in 1..Len(frames) : frames'[i] = below[i]
      /\ frames'[Len(frames) + 1] = f
  BY <1>3, <1>4, Appended
<1>6. /\ \A i \in 1..Len(frames) - 1 : frames'[i] = frames[i]
      /\ frames'[Len(frames)] = Popped(n)
  BY <1>1, <1>3, <1>5
<1>7. QED
  BY <1>1, <1>2, <1>5, <1>6, PoppedFields DEF Pushes, InCode

(* A new frame belongs to no generator, and starts a function or a module. *)
LEMMA CallIsPushed ==
  ASSUME TypeOK, NEW op, Fetch(op), NEW n,
         NEW c, NEW locals, NEW m, NEW init, UNCHANGED code_objects,
         \/ op = "CALL_FUNCTION" /\ c \in FunctionCode
         \/ op = "IMPORT_NAME" /\ c = Arg /\ m = Len(modules) + 1,
         frames' = Append(SetTop(Popped(n)), NewFrame(c, locals, m, init))
  PROVE  Pushes
<1> DEFINE f == NewFrame(c, locals, m, init)
<1>1. f.gen = 0 /\ f.code = c /\ f.ip = 1 /\ f.module = m
  BY DEF NewFrame
<1> HIDE DEF f
<1>2. Entered(f)
  BY <1>1 DEF Entered, Fetch
<1>3. frames' = Append(SetTop(Popped(n)), f)
  BY DEF f
<1>4. QED
  BY <1>2, <1>3, FrameIsPushed

LEMMA CallsTrimOrPush ==
  ASSUME TypeOK, Calls
  PROVE  Trims \/ Pushes
<1>1. CASE MAKE_FUNCTION
  BY <1>1, FetchFacts, PushedFields, AdvanceTrims DEF MAKE_FUNCTION
<1>2. CASE BUILD_CLASS
  BY <1>2, FetchFacts, PushedFields, AdvanceTrims DEF BUILD_CLASS
<1>3. CASE CallFunction
  <2>1. Fetch("CALL_FUNCTION") /\ Callee[2] \in FunctionCode
    BY <1>3, CallFacts, ValueElim DEF CallFunction, Calling
  <2>2. QED
    BY <1>3, <2>1, CallIsPushed DEF CallFunction, Enter, Goto, program
<1>4. CASE CallGeneratorFunction
  BY <1>4, FetchFacts, PushedFields, TopTrims DEF CallGeneratorFunction, Calling, program
<1>5. CASE CallClass
  <2> DEFINE inst == Inst(Callee[3], Callee[4])
             init == Callee[2]
             args == [i \in 1..Arg + 1 |-> IF i = 1 THEN inst ELSE Args[i - 1]]
             locals == Bind(init, args)
  <2>1. /\ Fetch("CALL_FUNCTION")
        /\ \/ Advance(Pushed(Arg + 1, inst))
           \/ try_handle_error("RuntimeError")
           \/ init # 0 /\ Enter(NewFrame(init, locals, Callee[4], inst))
    BY <1>5 DEF CallClass, Calling
  <2>0. init # 0 => init \in FunctionCode
    BY <1>5, CallFacts, ValueElim DEF CallClass, Calling
  <2> HIDE DEF inst, init, locals
  <2>2. CASE Advance(Pushed(Arg + 1, inst))
    BY <2>1, <2>2, FetchFacts, PushedFields, AdvanceTrims
  <2>3. CASE try_handle_error("RuntimeError")
    BY <2>3, HandleErrorTrims
  <2>4. CASE init # 0 /\ Enter(NewFrame(init, locals, Callee[4], inst))
    BY <2>0, <2>1, <2>4, CallIsPushed DEF Enter, Goto, program
  <2>5. QED
    BY <2>1, <2>2, <2>3, <2>4
<1>6. CASE CallException
  BY <1>6, FetchFacts, PushedFields, AdvanceTrims DEF CallException
<1>7. CASE CallRange
  BY <1>7, FetchFacts, PushedFields, TopTrims, HandleErrorTrims DEF CallRange, Calling, program
<1>8. CASE CallFormat
  BY <1>8, FetchFacts, PushedFields, TopTrims DEF CallFormat, Calling, program
<1>9. CASE CallDunder
  <2> DEFINE inst == Top(0)
             method == inst[2]
             locals == Bind(method, <<inst>>)
  <2>1. /\ Fetch("CALL_FUNCTION")
        /\ \/ Fail
           \/ /\ frames' = Append(SetTop(Popped(2)), NewFrame(method, locals, inst[3], Unset))
              /\ UNCHANGED code_objects
    BY <1>9 DEF CallDunder, Calling, program
  <2>2. method \in FunctionCode
    BY <1>9, CallFacts, ValueElim DEF CallDunder, Calling, HasStr
  <2> HIDE DEF inst, method, locals
  <2>3. QED
    BY <2>1, <2>2, FailTrims, CallIsPushed
<1>10. CASE CallError
  BY <1>10, FailTrims DEF CallError
<1>11. CASE RETURN_VALUE
  BY <1>11, ReturnTrims
<1>12. QED
  BY <1>1, <1>2, <1>3, <1>4, <1>5, <1>6, <1>7, <1>8, <1>9, <1>10, <1>11 DEF Calls

LEMMA ImportsTrimOrPush ==
  ASSUME TypeOK, Imports
  PROVE  Trims \/ Pushes
<1>1. CASE IMPORT_cached
  BY <1>1, FetchFacts, PushedFields, AdvanceTrims DEF IMPORT_cached
<1>2. CASE IMPORT_missing
  BY <1>2, FailTrims DEF IMPORT_missing
<1>3. CASE IMPORT_load
  BY <1>3, CallIsPushed DEF IMPORT_load, program
<1>4. QED
  BY <1>1, <1>2, <1>3 DEF Imports

(* A resumed frame is that of its generator. *)
LEMMA ResumeIsPushed ==
  ASSUME TypeOK, resume_generator
  PROVE  Pushes
<1> DEFINE g   == Top(0)[2]
           gen == generators[g]
           f   == [code |-> gen.code, ip |-> gen.ip, stack |-> gen.stack, sp |-> gen.sp,
                   locals |-> gen.locals, gen |-> g, init |-> Unset, module |-> 0]
           new == IF gen.state = "Suspended" THEN PushOn(f, None) ELSE f
<1>1. /\ Fetch("FOR_ITER") /\ Top(0)[1] = "gen" /\ UNCHANGED code_objects
      /\ frames' = Append(SetTop(Popped(1)), new)
  BY DEF resume_generator, program
<1>2. g \in 1..Len(generators)
  BY <1>1, ForIterFacts, ValueElim
<1>3. gen \in Generators
  BY <1>2, ElementOfSeq DEF TypeOK
<1>4. new.gen = g /\ new.code = gen.code /\ new.ip = gen.ip
  BY DEF PushOn
<1> HIDE DEF new
<1>5. Entered(new)
  BY <1>1, <1>2, <1>4 DEF Entered, Fetch
<1>6. QED
  BY <1>1, <1>5, FrameIsPushed

-------------------------------------------------------------------------------
(* The theorem. *)

LEMMA StepTrimsOrPushes ==
  ASSUME TypeOK, [Next]_vars
  PROVE  Trims \/ Pushes
<1>1. CASE Step
  BY <1>1, NamespacesTrims, OperandsTrims, JumpsTrims, CallsTrimOrPush, IterationTrims,
     ResumeIsPushed, ExceptionsTrims, ImportsTrimOrPush, ReturnsTrims DEF Step
<1>2. CASE UNCHANGED vars
  BY <1>2, ReturnsTrims
<1>3. QED
  BY <1>1, <1>2 DEF Next, Terminated

LEMMA StepWaits == TypeOK /\ CallersWait /\ [Next]_vars => CallersWait'
<1> SUFFICES ASSUME TypeOK, CallersWait, [Next]_vars  PROVE CallersWait'
  OBVIOUS
<1>1. CASE Trims
  BY <1>1, TrimsKeeps
<1>2. CASE Pushes
  BY <1>2, PushesKeeps
<1>3. QED
  BY <1>1, <1>2, StepTrimsOrPushes

LEMMA InitWaits == Init => CallersWait
  BY DEF Init, Start, CallersWait

(* Whatever the code does, every frame but the last waits right behind the
   instruction that pushed the one above it: no exception, however far it
   unwinds, no import, yield or leaked handler leaves a caller elsewhere.     *)
THEOREM CallersAlwaysWait == Spec => []CallersWait
  BY InitType, InitWaits, StepType, StepWaits, PTL DEF Spec

-------------------------------------------------------------------------------
(* The calls of the dispatch loop. *)
CodesStay == \A m \in 1..Len(modules) : modules'[m].code = modules[m].code
FlagsStay == /\ Len(modules') = Len(modules)
             /\ \A m \in 1..Len(modules) : modules'[m].initialized = modules[m].initialized
             /\ CodesStay /\ UNCHANGED sys_modules

(* No call begins or ends. *)
Quiet == UNCHANGED activations /\ FlagsStay

(* An opcode begins a call, for the frame it pushes. *)
Starter(kind) == IF kind = "import" THEN "IMPORT_NAME" ELSE "CALL_FUNCTION"
Begins(kind, m) ==
  /\ Activate(kind, m) /\ Pushes /\ Instr[1] = Starter(kind)
  /\ IF kind = "import"
     THEN /\ m = Len(modules) + 1 /\ Len(modules') = m /\ ~modules'[m].initialized
          /\ modules'[m].code = Arg /\ CodesStay
          /\ Fetch("IMPORT_NAME") /\ Arg # 0 /\ sys_modules[Arg] = 0 /\ Cache(Arg, m)
          /\ \A k \in 1..Len(modules) : modules'[k].initialized = modules[k].initialized
     ELSE FlagsStay

(* The innermost call ends, and an import's sets the flag of its module. *)
Ends ==
  /\ Activation.kind # "run" /\ ~(Len(frames) < Activation.target)
  /\ activations' = AllButLast(activations)
  /\ Trims
  /\ IF Activation.kind = "import"
     THEN /\ StayUpTo(Activation.target)
          /\ CodesStay /\ UNCHANGED sys_modules /\ Len(modules') = Len(modules)
          /\ \A m \in 1..Len(modules) :
               modules'[m].initialized = (m = Activation.module \/ modules[m].initialized)
     ELSE FlagsStay

-------------------------------------------------------------------------------
(* Quiet steps. *)

LEMMA SameQuiet ==
  ASSUME UNCHANGED <<activations, modules, sys_modules>>
  PROVE  Quiet
  BY DEF Quiet, FlagsStay, CodesStay

LEMMA GotoQuiet ==
  ASSUME NEW fs, Goto(fs)
  PROVE  Quiet
  BY SameQuiet DEF Goto, heap

LEMMA AdvanceQuiet ==
  ASSUME NEW f, Advance(f)
  PROVE  Quiet
  BY GotoQuiet DEF Advance

LEMMA FailQuiet ==
  ASSUME Fail
  PROVE  Quiet
  BY SameQuiet DEF Fail, heap

LEMMA RaiseQuiet ==
  ASSUME NEW exc, raise_exception(exc)
  PROVE  Quiet
  BY SameQuiet DEF raise_exception, heap

LEMMA HandleErrorQuiet ==
  ASSUME NEW t, try_handle_error(t)
  PROVE  Quiet
  BY FailQuiet, RaiseQuiet DEF try_handle_error

LEMMA DeliverQuiet ==
  ASSUME NEW n, NEW result, Deliver(n, result)
  PROVE  Quiet
  BY HandleErrorQuiet, AdvanceQuiet DEF Deliver

(* A store into a module's namespace is none to its flag. *)
LEMMA StoreQuiet ==
  ASSUME TypeOK, STORE_GLOBAL
  PROVE  Quiet
<1>1. CASE UNCHANGED modules
  BY <1>1, SameQuiet DEF STORE_GLOBAL
<1>2. CASE ~UNCHANGED modules
  <2>1. /\ UNCHANGED <<activations, sys_modules>> /\ Fetch("STORE_GLOBAL") /\ frame.module # 0
        /\ modules' = [modules EXCEPT ![frame.module].globals[Arg] = Top(0)]
    BY <1>2 DEF STORE_GLOBAL
  <2>2. modules \in Seq(Modules) /\ Len(modules) \in Nat /\ frame.module \in 1..Len(modules)
    <3>1. frame \in Frames
      BY <2>1, FetchFacts
    <3>2. frame.module \in 0..Len(modules)
      BY <3>1 DEF Frames
    <3>3. modules \in Seq(Modules) /\ Len(modules) \in Nat
      BY LenProperties DEF TypeOK
    <3>4. QED
      BY <2>1, <3>2, <3>3
  <2> DEFINE k == frame.module
             new == [modules[k] EXCEPT !.globals[Arg] = Top(0)]
  <2>3. modules' = [modules EXCEPT ![k] = new]
    BY <2>1
  <2>4. new.initialized = modules[k].initialized /\ new.code = modules[k].code
    BY <2>2, ElementOfSeq DEF Modules
  <2> HIDE DEF k, new
  <2>5. k \in 1..Len(modules)
    BY <2>2 DEF k
  <2>6. /\ Len(modules') = Len(modules)
        /\ \A m \in 1..Len(modules) : modules'[m] = IF m = k THEN new ELSE modules[m]
    BY <2>2, <2>3, <2>5, Replaced
  <2>7. QED
    BY <2>1, <2>4, <2>6 DEF Quiet, FlagsStay, CodesStay
<1>3. QED
  BY <1>1, <1>2

LEMMA NamespacesQuiet ==
  ASSUME TypeOK, Namespaces
  PROVE  Quiet
<1>1. CASE LOAD_CONST \/ LOAD_FAST \/ STORE_FAST
  BY <1>1, AdvanceQuiet DEF LOAD_CONST, LOAD_FAST, STORE_FAST
<1>2. CASE LOAD_GLOBAL
  BY <1>2, AdvanceQuiet, HandleErrorQuiet DEF LOAD_GLOBAL
<1>3. QED
  BY <1>1, <1>2, StoreQuiet DEF Namespaces

LEMMA OperandsQuiet ==
  ASSUME Operands
  PROVE  Quiet
<1>1. CASE ADD \/ FLOOR_DIV
  BY <1>1, DeliverQuiet DEF ADD, FLOOR_DIV
<1>2. CASE LSHIFT
  BY <1>2, AdvanceQuiet, FailQuiet DEF LSHIFT
<1>3. CASE COMPARE_EQ \/ POP_TOP
  BY <1>3, AdvanceQuiet DEF COMPARE_EQ, POP_TOP
<1>4. CASE LOAD_ATTR
  BY <1>4, DeliverQuiet DEF LOAD_ATTR
<1>5. QED
  BY <1>1, <1>2, <1>3, <1>4 DEF Operands

LEMMA JumpsQuiet ==
  ASSUME Jumps
  PROVE  Quiet
  BY AdvanceQuiet DEF Jumps, JUMP, JUMP_IF_FALSE, JUMP_IF_TRUE

LEMMA CallsQuiet ==
  ASSUME Calls, ~CallDunder
  PROVE  Quiet
<1>1. CASE MAKE_FUNCTION \/ BUILD_CLASS \/ CallException
  BY <1>1, AdvanceQuiet DEF MAKE_FUNCTION, BUILD_CLASS, CallException
<1>2. CASE CallFunction
  BY <1>2, GotoQuiet DEF CallFunction, Enter
<1>3. CASE CallGeneratorFunction \/ RETURN_VALUE
  BY <1>3, SameQuiet DEF CallGeneratorFunction, RETURN_VALUE
<1>4. CASE CallClass
  BY <1>4, AdvanceQuiet, HandleErrorQuiet, GotoQuiet DEF CallClass, Enter
<1>5. CASE CallRange
  BY <1>5, SameQuiet, HandleErrorQuiet DEF CallRange
<1>6. CASE CallFormat
  BY <1>6, SameQuiet DEF CallFormat, heap
<1>7. CASE CallError
  BY <1>7, FailQuiet DEF CallError
<1>8. QED
  BY <1>1, <1>2, <1>3, <1>4, <1>5, <1>6, <1>7 DEF Calls

LEMMA IterationQuiet ==
  ASSUME Iteration
  PROVE  Quiet
<1>1. CASE GET_ITER
  BY <1>1, AdvanceQuiet, FailQuiet DEF GET_ITER
<1>2. CASE FOR_ITER_range
  BY <1>2, AdvanceQuiet, SameQuiet DEF FOR_ITER_range
<1>3. CASE FOR_ITER_completed
  BY <1>3, AdvanceQuiet DEF FOR_ITER_completed
<1>4. CASE resume_generator
  BY <1>4, SameQuiet DEF resume_generator
<1>5. CASE YIELD_VALUE
  BY <1>5, SameQuiet DEF YIELD_VALUE
<1>6. CASE FOR_ITER_error \/ YIELD_outside
  BY <1>6, FailQuiet DEF FOR_ITER_error, YIELD_outside
<1>7. QED
  BY <1>1, <1>2, <1>3, <1>4, <1>5, <1>6 DEF Iteration

LEMMA ExceptionsQuiet ==
  ASSUME Exceptions
  PROVE  Quiet
<1>1. CASE SETUP_EXCEPT \/ POP_EXCEPT
  BY <1>1, SameQuiet DEF SETUP_EXCEPT, POP_EXCEPT, heap
<1>2. CASE FinallyMarker \/ LOAD_EXCEPTION
  BY <1>2, AdvanceQuiet DEF FinallyMarker, LOAD_EXCEPTION
<1>3. CASE RAISE_again
  BY <1>3, FailQuiet, RaiseQuiet DEF RAISE_again
<1>4. CASE RAISE_value \/ RAISE_assertion
  BY <1>4, RaiseQuiet DEF RAISE_value, RAISE_assertion
<1>5. QED
  BY <1>1, <1>2, <1>3, <1>4 DEF Exceptions

LEMMA AbortsQuiet ==
  ASSUME Aborts \/ UNCHANGED vars
  PROVE  Quiet
  BY SameQuiet, FailQuiet DEF Aborts, StackPanic, OutOfBounds, vars, heap

-------------------------------------------------------------------------------
(* Steps that begin a call. *)

LEMMA DunderBegins ==
  ASSUME TypeOK, CallDunder
  PROVE  Quiet \/ \E kind \in {"str", "print"} : Begins(kind, 0)
<1> DEFINE inst == Top(0)
           method == inst[2]
           locals == Bind(method, <<inst>>)
<1>1. /\ Fetch("CALL_FUNCTION") /\ Callee[2] \in {"str", "print"}
      /\ \/ Fail
         \/ /\ frames' = Append(SetTop(Popped(2)), NewFrame(method, locals, inst[3], Unset))
            /\ Activate(Callee[2], 0)
            /\ UNCHANGED <<program, heap>>
  BY DEF CallDunder, Calling, Formats
<1>0. method \in FunctionCode
  BY CallFacts, ValueElim DEF CallDunder, Calling, HasStr
<1> HIDE DEF inst, method, locals
<1>2. CASE Fail
  BY <1>2, FailQuiet
<1>3. CASE ~Fail
  <2>1. UNCHANGED <<code_objects, modules, sys_modules>> /\ Activate(Callee[2], 0)
    BY <1>1, <1>3 DEF program, heap
  <2>2. Pushes
    BY <1>0, <1>1, <1>3, <2>1, CallIsPushed
  <2>3. FlagsStay
    BY <2>1 DEF FlagsStay, CodesStay
  <2>4. Instr[1] = Starter(Callee[2])
    BY <1>1 DEF Fetch, Starter
  <2>5. Begins(Callee[2], 0)
    BY <1>1, <2>1, <2>2, <2>3, <2>4 DEF Begins
  <2>6. QED
    BY <1>1, <2>5
<1>4. QED
  BY <1>2, <1>3

LEMMA ImportBegins ==
  ASSUME TypeOK, IMPORT_load
  PROVE  Begins("import", Len(modules) + 1)
<1> DEFINE m == Len(modules) + 1
<1>1. /\ Fetch("IMPORT_NAME") /\ UNCHANGED code_objects
      /\ Arg # 0 /\ sys_modules[Arg] = 0 /\ Cache(Arg, m)
      /\ modules' = Append(modules, NewModule(Arg))
      /\ frames' = Append(SetTop(Popped(2)), NewFrame(Arg, NoLocals, m, Unset))
      /\ Activate("import", m)
  BY DEF IMPORT_load, program
<1>2. Pushes
  BY <1>1, CallIsPushed
<1>3. /\ Len(modules') = m
      /\ \A k \in 1..Len(modules) : modules'[k] = modules[k]
      /\ modules'[m] = NewModule(Arg)
  BY <1>1, Appended DEF TypeOK
<1>4. ~NewModule(Arg).initialized /\ NewModule(Arg).code = Arg
  BY DEF NewModule
<1>5. Instr[1] = Starter("import")
  BY <1>1 DEF Fetch, Starter
<1>6. QED
  BY <1>1, <1>2, <1>3, <1>4, <1>5 DEF Begins, CodesStay

-------------------------------------------------------------------------------
(* Steps that end one. *)

LEMMA ImportEnds ==
  ASSUME TypeOK, import_returns
  PROVE  Quiet \/ Ends
<1> DEFINE k == Activation.module
           new == [modules[k] EXCEPT !.initialized = TRUE]
<1>1. /\ Activation.kind = "import" /\ UNCHANGED sys_modules
      /\ \/ UNCHANGED <<activations, modules>>
         \/ /\ ~(Len(frames) < Activation.target)
            /\ modules' = [modules EXCEPT ![k] = new]
            /\ activations' = AllButLast(activations)
  BY DEF import_returns, Returned
<1>2. CASE UNCHANGED <<activations, modules>>
  BY <1>1, <1>2, SameQuiet
<1>3. CASE ~UNCHANGED <<activations, modules>>
  <2>1. k \in 1..Len(modules) /\ Activation.kind # "run"
    BY <1>1, <1>3, NestedFacts
  <2>2. new.initialized = TRUE /\ new.code = modules[k].code
    BY <2>1, ElementOfSeq DEF TypeOK, Modules
  <2>3. modules' = [modules EXCEPT ![k] = new]
    BY <1>1, <1>3
  <2> HIDE DEF new, k
  <2>4. /\ Len(modules') = Len(modules)
        /\ \A m \in 1..Len(modules) : modules'[m] = IF m = k THEN new ELSE modules[m]
    BY <2>1, <2>3, Replaced DEF TypeOK
  <2>5. ASSUME NEW m \in 1..Len(modules)  PROVE modules[m].initialized \in BOOLEAN
    <3>1. modules[m] \in Modules
      BY ElementOfSeq DEF TypeOK
    <3>2. QED
      BY <3>1 DEF Modules
  <2>6. CodesStay /\ \A m \in 1..Len(modules) :
                       modules'[m].initialized = (m = k \/ modules[m].initialized)
    BY <2>2, <2>4, <2>5 DEF CodesStay
  <2>7. StayUpTo(Activation.target)
    BY <1>3, ImportReturnsStay
  <2>8. QED
    BY <1>1, <1>3, <2>1, <2>4, <2>6, <2>7, ImportReturnsTrims DEF Ends, k
<1>4. QED
  BY <1>2, <1>3

LEMMA DunderEnds ==
  ASSUME TypeOK, dunder_returns
  PROVE  Quiet \/ Ends
<1>1. /\ Activation.kind \in {"str", "print"} /\ UNCHANGED <<modules, sys_modules>>
      /\ \/ UNCHANGED activations
         \/ /\ ~(Len(frames) < Activation.target)
            /\ activations' = AllButLast(activations)
  BY DEF dunder_returns, Returned, heap
<1>2. CASE UNCHANGED activations
  BY <1>1, <1>2, SameQuiet
<1>3. CASE ~UNCHANGED activations
  BY <1>1, <1>3, DunderReturnsTrims DEF Ends, FlagsStay, CodesStay
<1>4. QED
  BY <1>2, <1>3

(* Every step is of one of three kinds. *)
LEMMA StepNests ==
  ASSUME TypeOK, [Next]_vars
  PROVE  \/ Quiet
         \/ \E kind \in {"str", "print"} : Begins(kind, 0)
         \/ Begins("import", Len(modules) + 1)
         \/ Ends
<1>1. CASE Calls
  BY <1>1, CallsQuiet, DunderBegins
<1>2. CASE Imports
  BY <1>2, AdvanceQuiet, FailQuiet, ImportBegins DEF Imports, IMPORT_cached, IMPORT_missing
<1>3. CASE Returns
  BY <1>3, SameQuiet, ImportEnds, DunderEnds DEF Returns, run_returns, heap
<1>4. CASE Step /\ ~(Calls \/ Imports \/ Returns)
  BY <1>4, NamespacesQuiet, OperandsQuiet, JumpsQuiet, IterationQuiet, ExceptionsQuiet,
     AbortsQuiet DEF Step
<1>5. CASE UNCHANGED vars
  BY <1>5, AbortsQuiet
<1>6. QED
  BY <1>1, <1>2, <1>3, <1>4, <1>5 DEF Next, Terminated

-------------------------------------------------------------------------------
(* What the steps do to the calls. *)

LEMMA CallFactsOf ==
  ASSUME TypeOK, NEW a \in 1..Len(activations)
  PROVE  /\ activations[a] \in Activations /\ activations[a].target \in Nat
         /\ a # 1 => activations[a].target # 0
         /\ activations[a].kind = "import" => activations[a].module \in 1..Len(modules)
<1>1. activations[a] \in Activations
  BY ElementOfSeq DEF TypeOK
<1>2. ActivationOK(a) /\ Len(modules) \in Nat
  BY LenProperties DEF TypeOK
<1>3. QED
  BY <1>1, <1>2 DEF Activations, ActivationOK

LEMMA CallsThere ==
  ASSUME TypeOK
  PROVE  Len(activations) \in Nat \ {0} /\ Activation = activations[Len(activations)]
  BY EmptySeq, LenProperties DEF TypeOK, Activation

LEMMA BegunCalls ==
  ASSUME TypeOK, NEW kind, NEW m, Begins(kind, m)
  PROVE  /\ Len(activations') = Len(activations) + 1
         /\ \A a \in 1..Len(activations) : activations'[a] = activations[a]
         /\ LET new == activations'[Len(activations) + 1] IN
            new.kind = kind /\ new.target = Len(frames) /\ new.module = m
<1> DEFINE new == [kind |-> kind, target |-> Len(frames), module |-> m]
<1>1. activations' = Append(activations, new)
  BY DEF Begins, Activate
<1>2. new.kind = kind /\ new.target = Len(frames) /\ new.module = m
  OBVIOUS
<1> HIDE DEF new
<1>3. /\ Len(activations') = Len(activations) + 1
      /\ \A a \in 1..Len(activations) : activations'[a] = activations[a]
      /\ activations'[Len(activations) + 1] = new
  BY <1>1, Appended DEF TypeOK
<1>4. QED
  BY <1>2, <1>3

LEMMA LeftCalls ==
  ASSUME TypeOK, Ends
  PROVE  /\ Len(activations') = Len(activations) - 1
         /\ \A a \in 1..Len(activations) - 1 : activations'[a] = activations[a]
  BY NestedFacts DEF Ends

-------------------------------------------------------------------------------
(* Nesting.  The depths of all calls grow, not only those of neighbours. *)

Ordered == \A a, b \in 1..Len(activations) :
             a < b => activations[a].target < activations[b].target

Waiting == \A a \in 2..Len(activations) :
             activations[a].target < Len(frames) =>
               WaitsAt(frames[activations[a].target], {Starter(activations[a].kind)})

LEMMA NestedWhenOrdered ==
  ASSUME TypeOK, Ordered, Waiting
  PROVE  ActivationsNested
<1>1. Len(activations) \in Nat
  BY CallsThere
<1>2. ASSUME NEW a \in 2..Len(activations)
      PROVE  activations[a - 1].target < activations[a].target
  <2>1. a - 1 \in 1..Len(activations) /\ a \in 1..Len(activations) /\ a - 1 < a
    BY <1>1
  <2>2. QED
    BY <2>1 DEF Ordered
<1>3. QED
  BY <1>2 DEF Waiting, ActivationsNested, Starter

(* Inside the loop no call has come down to its depth. *)
LEMMA AllAbove ==
  ASSUME TypeOK, Ordered, Dispatching, NEW a \in 1..Len(activations)
  PROVE  activations[a].target < Len(frames)
<1>1. /\ Len(activations) \in Nat \ {0} /\ Activation = activations[Len(activations)]
      /\ Len(frames) \in Nat
  BY CallsThere, LenProperties DEF TypeOK
<1>2. Activation.target < Len(frames) /\ Activation.target \in Nat
  BY <1>1, CallFactsOf DEF Dispatching
<1>3. CASE a = Len(activations)
  BY <1>1, <1>2, <1>3
<1>4. CASE a # Len(activations)
  <2>1. Len(activations) \in 1..Len(activations) /\ a < Len(activations)
    BY <1>1, <1>4
  <2>2. activations[a].target < Activation.target /\ activations[a].target \in Nat
    BY <1>1, <2>1, CallFactsOf DEF Ordered
  <2>3. QED
    BY <1>1, <1>2, <2>2
<1>5. QED
  BY <1>3, <1>4

(* A caller that waited goes on waiting, until its call has come down to it. *)
LEMMA OldCallWaits ==
  ASSUME TypeOK, Ordered, Waiting, Trims \/ Pushes, NEW a \in 2..Len(activations),
         activations[a].target < Len(frames')
  PROVE  WaitsAt(frames'[activations[a].target], {Starter(activations[a].kind)})
<1> DEFINE t == activations[a].target
<1>1. /\ a \in 1..Len(activations) /\ a # 1 /\ Len(frames) \in Nat
  BY CallsThere, LenProperties DEF TypeOK
<1>2. t \in Nat \ {0}
  BY <1>1, CallFactsOf
<1>3. t < Len(frames) /\ frames'[t].code = frames[t].code /\ frames'[t].ip = frames[t].ip
  <2>1. CASE Trims
    <3>1. t \in 1..Len(frames') /\ Len(frames') \in 0..Len(frames)
      BY <1>1, <1>2, <2>1 DEF Trims
    <3>2. QED
      BY <1>1, <2>1, <3>1 DEF Trims, Continues
  <2>2. CASE Pushes
    <3>1. t < Len(frames)
      BY <1>1, <2>2, AllAbove DEF Pushes
    <3>2. t \in 1..Len(frames) - 1
      BY <1>1, <1>2, <3>1
    <3>3. frames'[t] = frames[t]
      BY <2>2, <3>2 DEF Pushes
    <3>4. QED
      BY <3>1, <3>3
  <2>3. QED
    BY <2>1, <2>2
<1>4. WaitsAt(frames[t], {Starter(activations[a].kind)})
  BY <1>3 DEF Waiting
<1>5. QED
  BY <1>3, <1>4 DEF WaitsAt, OpAt, InstrAt

(* The caller of the call that begins. *)
LEMMA NewCallWaits ==
  ASSUME TypeOK, Pushes, NEW op, Instr[1] = op
  PROVE  WaitsAt(frames'[Len(frames)], {op})
<1>1. /\ frames'[Len(frames)].code = frame.code /\ frames'[Len(frames)].ip = frame.ip + 1
      /\ frame.ip \in DOMAIN Instructions /\ frame \in Frames
  BY DispatchFacts DEF Pushes, Continues
<1>2. frames'[Len(frames)].ip - 1 = frame.ip
  BY <1>1 DEF Frames
<1>3. QED
  BY <1>1, <1>2 DEF WaitsAt, OpAt, InstrAt, Instructions, Instr

LEMMA StepOrdered ==
  ASSUME TypeOK, Ordered, [Next]_vars
  PROVE  Ordered'
<1>1. Len(activations) \in Nat \ {0} /\ Len(frames) \in Nat
  BY CallsThere, LenProperties DEF TypeOK
<1>2. CASE Quiet
  BY <1>2 DEF Quiet, Ordered
<1>3. ASSUME NEW kind, NEW m, Begins(kind, m)  PROVE Ordered'
  <2>1. \A a \in 1..Len(activations) : activations[a].target < Len(frames)
    BY <1>3, AllAbove DEF Begins, Pushes
  <2>2. /\ Len(activations') = Len(activations) + 1
        /\ \A a \in 1..Len(activations) : activations'[a] = activations[a]
        /\ activations'[Len(activations) + 1].target = Len(frames)
    BY <1>3, BegunCalls
  <2>3. ASSUME NEW a \in 1..Len(activations'), NEW b \in 1..Len(activations'), a < b
        PROVE  activations'[a].target < activations'[b].target
    <3>1. a \in 1..Len(activations) /\ activations'[a] = activations[a]
      BY <1>1, <2>2, <2>3
    <3>2. CASE b = Len(activations) + 1
      BY <2>1, <2>2, <3>1, <3>2
    <3>3. CASE b # Len(activations) + 1
      <4>1. b \in 1..Len(activations) /\ activations'[b] = activations[b]
        BY <1>1, <2>2, <3>3
      <4>2. QED
        BY <2>3, <3>1, <4>1 DEF Ordered
    <3>4. QED
      BY <3>2, <3>3
  <2>4. QED
    BY <2>3 DEF Ordered
<1>4. CASE Ends
  BY <1>1, <1>4, LeftCalls DEF Ordered
<1>5. QED
  BY <1>2, <1>3, <1>4, StepNests

LEMMA StepWaiting ==
  ASSUME TypeOK, Ordered, Waiting, [Next]_vars
  PROVE  Waiting'
<1>1. Len(activations) \in Nat \ {0} /\ Len(frames) \in Nat
  BY CallsThere, LenProperties DEF TypeOK
<1>2. (Trims \/ Pushes) /\ code_objects' = code_objects
  BY StepTrimsOrPushes DEF Trims, Pushes
<1>3. SUFFICES ASSUME NEW a \in 2..Len(activations'),
                      activations'[a].target < Len(frames')
               PROVE  WaitsAt(frames'[activations'[a].target], {Starter(activations'[a].kind)})
  BY <1>2 DEF Waiting, WaitsAt, OpAt, InstrAt, Starter
<1>4. ASSUME a \in 2..Len(activations), activations'[a] = activations[a]
      PROVE  WaitsAt(frames'[activations'[a].target], {Starter(activations'[a].kind)})
  BY <1>2, <1>3, <1>4, OldCallWaits
<1>5. CASE Quiet
  BY <1>3, <1>4, <1>5 DEF Quiet
<1>6. ASSUME NEW kind, NEW m, Begins(kind, m)
      PROVE  WaitsAt(frames'[activations'[a].target], {Starter(activations'[a].kind)})
  <2> a \in 2..Len(activations')
    BY <1>3
  <2>1. CASE a <= Len(activations)
    <3>1. a \in 2..Len(activations) /\ a \in 1..Len(activations)
      BY <1>1, <2>1
    <3>2. QED
      BY <1>4, <1>6, <3>1, BegunCalls
  <2>2. CASE a = Len(activations) + 1
    <3>1. activations'[a].target = Len(frames) /\ activations'[a].kind = kind
      BY <1>6, <2>2, BegunCalls
    <3>2. WaitsAt(frames'[Len(frames)], {Starter(kind)})
      BY <1>6, NewCallWaits DEF Begins
    <3>3. QED
      BY <3>1, <3>2
  <2>3. QED
    BY <1>1, <1>3, <1>6, <2>1, <2>2, BegunCalls
<1>7. CASE Ends
  BY <1>1, <1>3, <1>4, <1>7, LeftCalls
<1>8. QED
  BY <1>5, <1>6, <1>7, StepNests

NestingInv == TypeOK /\ Ordered /\ Waiting

LEMMA InitNests == Init => NestingInv
<1> SUFFICES ASSUME Init  PROVE NestingInv
  OBVIOUS
<1>1. activations = <<[kind |-> "run", target |-> 0, module |-> 0]>>
  BY DEF Init, Start
<1>2. Len(activations) = 1
  BY <1>1
<1>3. QED
  BY <1>2, InitType DEF NestingInv, Ordered, Waiting

LEMMA StepNesting == NestingInv /\ [Next]_vars => NestingInv'
  BY StepType, StepOrdered, StepWaiting DEF NestingInv

(* However imports, __str__ methods, generators and exceptions follow one
   another, the calls of execute_until_depth return at depths that grow from
   the outermost to the innermost, and one that has not come down to its depth
   has its caller still waiting behind the instruction that began it.         *)
THEOREM ActivationsAlwaysNested == Spec => []ActivationsNested
<1>1. NestingInv => ActivationsNested
  BY NestedWhenOrdered DEF NestingInv
<1>2. QED
  BY <1>1, InitNests, StepNesting, PTL DEF Spec

-------------------------------------------------------------------------------
(* Flags.  No two calls run the body of one module. *)

Loading(a, m) == activations[a].kind = "import" /\ activations[a].module = m

ImportsApart == \A a, b \in 1..Len(activations) : \A m \in 1..Len(modules) :
                  Loading(a, m) /\ Loading(b, m) => a = b

FlagIsRight(m) == modules[m].initialized <=> \A a \in 1..Len(activations) : ~Loading(a, m)

FlagsInv == TypeOK /\ ImportsApart /\ \A m \in 1..Len(modules) : FlagIsRight(m)

LEMMA BeginKeepsFlags ==
  ASSUME FlagsInv, NEW kind \in {"import", "str", "print"}, NEW m, Begins(kind, m),
         kind = "import" => m = Len(modules) + 1
  PROVE  /\ ImportsApart'
         /\ \A k \in 1..Len(modules') : FlagIsRight(k)'
<1>0. PICK n : n = Len(activations) + 1
  OBVIOUS
<1>1. /\ TypeOK /\ Len(activations) \in Nat /\ Len(modules) \in Nat
      /\ Len(activations') = n
      /\ \A a \in 1..Len(activations) : activations'[a] = activations[a]
      /\ activations'[n].kind = kind /\ activations'[n].module = m
  BY <1>0, CallsThere, BegunCalls, LenProperties DEF FlagsInv, TypeOK
<1>2. \A a \in 1..Len(activations) : \A k : Loading(a, k)' <=> Loading(a, k)
  BY <1>1 DEF Loading
<1>3. \A k : Loading(n, k)' <=> kind = "import" /\ k = m
  BY <1>1 DEF Loading
<1>4. \A a \in 1..Len(activations) : ~Loading(a, Len(modules) + 1)
  BY <1>1, CallFactsOf DEF Loading
<1>5. /\ Len(modules') = IF kind = "import" THEN Len(modules) + 1 ELSE Len(modules)
      /\ \A k \in 1..Len(modules) : modules'[k].initialized = modules[k].initialized
      /\ kind = "import" => ~modules'[m].initialized
  BY DEF Begins, FlagsStay
<1>6. \A a \in 1..Len(activations') : a \in 1..Len(activations) \/ a = n
  BY <1>0, <1>1
<1>7. n \in 1..Len(activations') /\ n \notin 1..Len(activations)
      /\ 1..Len(activations) \subseteq 1..Len(activations')
  BY <1>0, <1>1
<1>8. ASSUME NEW a \in 1..Len(activations'), NEW b \in 1..Len(activations'),
             NEW k \in 1..Len(modules'), Loading(a, k)', Loading(b, k)'
      PROVE  a = b
  <2>1. CASE kind = "import" /\ k = m
    BY <1>2, <1>3, <1>4, <1>6, <1>8, <2>1
  <2>2. CASE ~(kind = "import" /\ k = m)
    <3>1. k \in 1..Len(modules)
      BY <1>1, <1>5, <2>2
    <3>2. a \in 1..Len(activations) /\ b \in 1..Len(activations)
      BY <1>3, <1>6, <1>8, <2>2
    <3>3. QED
      BY <1>2, <1>8, <3>1, <3>2 DEF FlagsInv, ImportsApart
  <2>3. QED
    BY <2>1, <2>2
<1>9. ASSUME NEW k \in 1..Len(modules')  PROVE FlagIsRight(k)'
  <2>1. CASE kind = "import" /\ k = m
    <3>1. ~modules'[k].initialized /\ Loading(n, k)'
      BY <1>3, <1>5, <2>1
    <3>2. QED
      BY <1>7, <3>1 DEF FlagIsRight
  <2>2. CASE ~(kind = "import" /\ k = m)
    <3>1. k \in 1..Len(modules)
      BY <1>1, <1>5, <2>2
    <3>2. FlagIsRight(k) /\ modules'[k].initialized = modules[k].initialized
      BY <1>5, <3>1 DEF FlagsInv
    <3>3. (\A a \in 1..Len(activations') : ~Loading(a, k)')
            <=> \A a \in 1..Len(activations) : ~Loading(a, k)
      BY <1>2, <1>3, <1>6, <1>7, <2>2
    <3>4. QED
      BY <3>2, <3>3 DEF FlagIsRight
  <2>3. QED
    BY <2>1, <2>2
<1>10. QED
  BY <1>8, <1>9 DEF ImportsApart

LEMMA EndKeepsFlags ==
  ASSUME FlagsInv, Ends
  PROVE  /\ ImportsApart'
         /\ \A k \in 1..Len(modules') : FlagIsRight(k)'
<1> DEFINE n == Len(activations)
<1>1. /\ TypeOK /\ n \in Nat \ {0} /\ Activation = activations[n]
      /\ Len(activations') = n - 1
      /\ \A a \in 1..n - 1 : activations'[a] = activations[a]
  BY CallsThere, LeftCalls DEF FlagsInv
<1>2. Len(modules') = Len(modules)
  BY DEF Ends, FlagsStay
<1>3. \A a \in 1..n - 1 : \A k : Loading(a, k)' <=> Loading(a, k)
  BY <1>1 DEF Loading
<1>4. \A k \in 1..Len(modules) :
        modules'[k].initialized <=> Loading(n, k) \/ modules[k].initialized
  BY <1>1 DEF Ends, FlagsStay, Loading
<1>5. 1..n - 1 \subseteq 1..n /\ n \in 1..n /\ n \notin 1..n - 1
      /\ \A a \in 1..n : a \in 1..n - 1 \/ a = n
  BY <1>1
<1>6. ImportsApart'
  BY <1>1, <1>2, <1>3, <1>5 DEF FlagsInv, ImportsApart
<1>7. ASSUME NEW k \in 1..Len(modules')  PROVE FlagIsRight(k)'
  <2>1. FlagIsRight(k) /\ k \in 1..Len(modules)
    BY <1>2 DEF FlagsInv
  <2>2. Loading(n, k) => \A a \in 1..n - 1 : ~Loading(a, k)
    BY <1>5, <2>1 DEF FlagsInv, ImportsApart
  <2>3. modules'[k].initialized <=> \A a \in 1..n - 1 : ~Loading(a, k)
    BY <1>4, <1>5, <2>1, <2>2 DEF FlagIsRight
  <2>4. QED
    BY <1>1, <1>3, <2>3 DEF FlagIsRight
<1>8. QED
  BY <1>6, <1>7

LEMMA StepFlags == FlagsInv /\ [Next]_vars => FlagsInv'
<1> SUFFICES ASSUME FlagsInv, [Next]_vars  PROVE FlagsInv'
  OBVIOUS
<1>1. TypeOK /\ TypeOK'
  BY StepType DEF FlagsInv
<1>2. CASE Quiet
  BY <1>1, <1>2 DEF Quiet, FlagsStay, FlagsInv, ImportsApart, FlagIsRight, Loading
<1>3. ASSUME NEW kind \in {"str", "print"}, Begins(kind, 0)  PROVE FlagsInv'
  BY <1>1, <1>3, BeginKeepsFlags DEF FlagsInv
<1>4. CASE Begins("import", Len(modules) + 1)
  BY <1>1, <1>4, BeginKeepsFlags DEF FlagsInv
<1>5. CASE Ends
  BY <1>1, <1>5, EndKeepsFlags DEF FlagsInv
<1>6. QED
  BY <1>1, <1>2, <1>3, <1>4, <1>5, StepNests

LEMMA InitFlags == Init => FlagsInv
<1> SUFFICES ASSUME Init  PROVE FlagsInv
  OBVIOUS
<1>1. modules = << >>
  BY DEF Init, Start
<1>2. 1..Len(modules) = {}
  BY <1>1
<1>3. QED
  BY <1>2, InitType DEF FlagsInv, ImportsApart

(* Whatever the code does, a module is marked initialized exactly when no call
   that runs its body is left on the native stack: a circular import finds the
   flag down, and once the import is over it is up for good.                  *)
THEOREM FlagAlwaysRight == Spec => []InitializedAfterImport
<1>1. FlagsInv => InitializedAfterImport
  BY DEF FlagsInv, FlagIsRight, Loading, InitializedAfterImport
<1>2. QED
  BY <1>1, InitFlags, StepFlags, PTL DEF Spec

-------------------------------------------------------------------------------
(* What a step does to the frames, *)

(* Of the frames that are there before and after a step, none changes its code. *)
LEMMA StepFrame ==
  ASSUME TypeOK, [Next]_vars, NEW i \in 1..Len(frames')
  PROVE  /\ UNCHANGED code_objects /\ Len(frames) \in Nat /\ Len(frames') \in Nat
         /\ \/ i \in 1..Len(frames) /\ Continues(frames'[i], frames[i])
            \/ i = Len(frames) + 1 /\ Pushes /\ Entered(frames'[i])
<1>1. Len(frames) \in Nat /\ TypeOK'
  BY StepType, LenProperties DEF TypeOK
<1>2. Len(frames') \in Nat
  BY <1>1, LenProperties DEF TypeOK
<1>3. CASE Trims
  BY <1>1, <1>2, <1>3 DEF Trims
<1>4. CASE Pushes
  <2>1. /\ Len(frames') = Len(frames) + 1
        /\ \A k \in 1..Len(frames) - 1 : frames'[k] = frames[k]
        /\ Continues(frames'[Len(frames)], frames[Len(frames)])
        /\ UNCHANGED code_objects /\ Entered(frames'[Len(frames) + 1])
    BY <1>4 DEF Pushes, frame
  <2>2. CASE i \in 1..Len(frames) - 1
    BY <1>1, <1>2, <2>1, <2>2 DEF Continues
  <2>3. CASE i = Len(frames)
    BY <1>1, <1>2, <2>1, <2>3
  <2>4. CASE i = Len(frames) + 1
    BY <1>1, <1>2, <1>4, <2>1, <2>4
  <2>5. QED
    BY <1>1, <2>1, <2>2, <2>3, <2>4
<1>5. QED
  BY <1>3, <1>4, StepTrimsOrPushes

(* and to the generators: four actions change one. *)

LEMMA GeneratorsStay ==
  ASSUME [Next]_vars
  PROVE  \/ UNCHANGED generators
         \/ CallGeneratorFunction \/ RETURN_VALUE \/ resume_generator \/ YIELD_VALUE
<1> DEFINE Stay == UNCHANGED generators
<1>1. /\ \A f : Advance(f) => Stay
      /\ Fail => Stay
      /\ \A e : raise_exception(e) => Stay
      /\ \A fs : Goto(fs) => Stay
  BY DEF Advance, Goto, Fail, raise_exception, heap
<1>2. \A t : try_handle_error(t) => Stay
  BY <1>1 DEF try_handle_error
<1>3. \A n, r : Deliver(n, r) => Stay
  BY <1>1, <1>2 DEF Deliver
<1> HIDE DEF Stay
<1>4. Namespaces => Stay
  BY <1>1, <1>2 DEF Namespaces, LOAD_CONST, LOAD_FAST, STORE_FAST, LOAD_GLOBAL, STORE_GLOBAL, Stay
<1>5. Operands => Stay
  BY <1>1, <1>3 DEF Operands, ADD, FLOOR_DIV, LSHIFT, COMPARE_EQ, POP_TOP, LOAD_ATTR
<1>6. Jumps => Stay
  BY <1>1 DEF Jumps, JUMP, JUMP_IF_FALSE, JUMP_IF_TRUE
<1>7. Calls => Stay \/ CallGeneratorFunction \/ RETURN_VALUE
  <2>1. MAKE_FUNCTION \/ BUILD_CLASS \/ CallException \/ CallError => Stay
    BY <1>1 DEF MAKE_FUNCTION, BUILD_CLASS, CallException, CallError
  <2>2. CallFunction \/ CallClass => Stay
    BY <1>1, <1>2 DEF CallFunction, CallClass, Enter
  <2>3. CallRange => Stay
    BY <1>2 DEF CallRange, Stay
  <2>4. CallFormat \/ CallDunder => Stay
    BY <1>1 DEF CallFormat, CallDunder, heap, Stay
  <2>5. QED
    BY <2>1, <2>2, <2>3, <2>4 DEF Calls
<1>8. Iteration => Stay \/ resume_generator \/ YIELD_VALUE
  <2>1. GET_ITER \/ FOR_ITER_completed \/ FOR_ITER_error \/ YIELD_outside => Stay
    BY <1>1 DEF GET_ITER, FOR_ITER_completed, FOR_ITER_error, YIELD_outside
  <2>2. FOR_ITER_range => Stay
    BY <1>1 DEF FOR_ITER_range, Stay
  <2>3. QED
    BY <2>1, <2>2 DEF Iteration
<1>9. Exceptions => Stay
  <2>1. SETUP_EXCEPT \/ POP_EXCEPT => Stay
    BY DEF SETUP_EXCEPT, POP_EXCEPT, heap, Stay
  <2>2. FinallyMarker \/ LOAD_EXCEPTION \/ RAISE_again \/ RAISE_value \/ RAISE_assertion => Stay
    BY <1>1 DEF FinallyMarker, LOAD_EXCEPTION, RAISE_again, RAISE_value, RAISE_assertion
  <2>3. QED
    BY <2>1, <2>2 DEF Exceptions
<1>10. Imports => Stay
  BY <1>1 DEF Imports, IMPORT_cached, IMPORT_missing, IMPORT_load, Stay
<1>11. Returns \/ Aborts => Stay
  BY <1>1 DEF Returns, run_returns, import_returns, dunder_returns, Aborts, StackPanic,
              OutOfBounds, heap, Stay
<1>12. UNCHANGED vars => Stay
  BY DEF vars, heap, Stay
<1>13. QED
  BY <1>4, <1>5, <1>6, <1>7, <1>8, <1>9, <1>10, <1>11, <1>12 DEF Next, Step, Terminated, Stay

(* A generator stays where it is, starts, or stops behind a yield. *)
LEMMA StepGenerator ==
  ASSUME TypeOK, [Next]_vars, NEW g \in 1..Len(generators')
  PROVE  \/ /\ g \in 1..Len(generators)
            /\ generators'[g].code = generators[g].code /\ generators'[g].ip = generators[g].ip
         \/ generators'[g].code \in FunctionCode /\ generators'[g].ip = 1
         \/ /\ Fetch("YIELD_VALUE") /\ frame.gen # 0
            /\ generators'[g].code = frame.code /\ generators'[g].ip = frame.ip + 1
<1>1. generators \in Seq(Generators) /\ Len(generators) \in Nat
  BY LenProperties DEF TypeOK
<1>2. ASSUME NEW k \in 1..Len(generators), NEW new,
             generators' = [generators EXCEPT ![k] = new]
      PROVE  g \in 1..Len(generators) /\ generators'[g] = IF g = k THEN new ELSE generators[g]
  BY <1>1, <1>2, Replaced
<1>3. ASSUME NEW k \in 1..Len(generators), NEW state,
             generators' = [generators EXCEPT ![k].state = state]
      PROVE  /\ g \in 1..Len(generators)
             /\ generators'[g].code = generators[g].code /\ generators'[g].ip = generators[g].ip
  <2> DEFINE new == [generators[k] EXCEPT !.state = state]
  <2>1. generators' = [generators EXCEPT ![k] = new]
    BY <1>3
  <2>2. new.code = generators[k].code /\ new.ip = generators[k].ip
    BY <1>1, ElementOfSeq DEF Generators, GeneratorObjects
  <2> HIDE DEF new
  <2>3. QED
    BY <1>2, <2>1, <2>2
<1>4. ASSUME Fetch("RETURN_VALUE") \/ Fetch("YIELD_VALUE"), frame.gen # 0
      PROVE  frame.gen \in 1..Len(generators) /\ frame \in Frames
  <2>1. frame \in Frames
    BY <1>4, FetchFacts
  <2>2. frame.gen \in 0..Len(generators)
    BY <2>1 DEF Frames
  <2>3. QED
    BY <1>1, <1>4, <2>1, <2>2
<1>5. CASE UNCHANGED generators
  BY <1>5
<1>6. CASE CallGeneratorFunction
  <2> DEFINE new == [code |-> Callee[2], ip |-> 1, stack |-> EmptyStack, sp |-> 0,
                     locals |-> Bind(Callee[2], Args), state |-> "Created"]
  <2>1. Fetch("CALL_FUNCTION") /\ Callee[1] = "func" /\ generators' = Append(generators, new)
    BY <1>6 DEF CallGeneratorFunction, Calling
  <2>2. Callee[2] \in FunctionCode
    BY <2>1, CallFacts, ValueElim
  <2>3. new.code = Callee[2] /\ new.ip = 1
    OBVIOUS
  <2> HIDE DEF new
  <2>4. /\ Len(generators') = Len(generators) + 1 /\ generators'[Len(generators) + 1] = new
        /\ \A k \in 1..Len(generators) : generators'[k] = generators[k]
    BY <1>1, <2>1, Appended
  <2>5. g \in 1..Len(generators) \/ g = Len(generators) + 1
    BY <1>1, <2>4
  <2>6. QED
    BY <2>2, <2>3, <2>4, <2>5
<1>7. CASE RETURN_VALUE
  BY <1>3, <1>4, <1>5, <1>7 DEF RETURN_VALUE
<1>8. CASE resume_generator
  <2>1. Top(0)[2] \in 1..Len(generators)
    BY <1>8, ForIterFacts, ValueElim DEF resume_generator
  <2>2. QED
    BY <1>3, <1>8, <2>1 DEF resume_generator
<1>9. CASE YIELD_VALUE
  <2> DEFINE f == Popped(1)
  <2>1. Fetch("YIELD_VALUE") /\ frame.gen # 0
        /\ generators' = [generators EXCEPT ![frame.gen] = Saved(f)]
    BY <1>9 DEF YIELD_VALUE
  <2>2. f.code = frame.code /\ f.ip = frame.ip + 1
    BY <1>4, <2>1, PoppedFields DEF Continues
  <2>3. Saved(f).code = f.code /\ Saved(f).ip = f.ip
    BY DEF Saved, Kept
  <2> HIDE DEF f
  <2>4. QED
    BY <1>2, <1>4, <2>1, <2>2, <2>3
<1>10. QED
  BY <1>5, <1>6, <1>7, <1>8, <1>9, GeneratorsStay

(* Generators run the code of functions. *)
GeneratorsRunFunctions ==
  /\ \A g \in 1..Len(generators) : generators[g].code \in FunctionCode
  /\ \A i \in 1..Len(frames) : frames[i].gen # 0 => frames[i].code \in FunctionCode

LEMMA StepRunFunctions ==
  TypeOK /\ GeneratorsRunFunctions /\ [Next]_vars => GeneratorsRunFunctions'
<1> SUFFICES ASSUME TypeOK, GeneratorsRunFunctions, [Next]_vars
             PROVE  GeneratorsRunFunctions'
  OBVIOUS
<1>1. FunctionCode' = FunctionCode
  BY StepTrimsOrPushes DEF Trims, Pushes, FunctionCode
<1>2. ASSUME NEW g \in 1..Len(generators')  PROVE generators'[g].code \in FunctionCode
  <2>1. ASSUME Fetch("YIELD_VALUE"), frame.gen # 0  PROVE frame.code \in FunctionCode
    BY <2>1, FetchFacts DEF GeneratorsRunFunctions, frame
  <2>2. QED
    BY <2>1, StepGenerator DEF GeneratorsRunFunctions
<1>3. ASSUME NEW i \in 1..Len(frames'), frames'[i].gen # 0
      PROVE  frames'[i].code \in FunctionCode
  BY <1>3, StepFrame DEF GeneratorsRunFunctions, Continues, Entered
<1>4. QED
  BY <1>1, <1>2, <1>3 DEF GeneratorsRunFunctions

-------------------------------------------------------------------------------
(* Loading.  A frame runs a function, the script, or the body of its module. *)

(* A frame that an IMPORT_NAME pushes begins a call. *)
LEMMA ImportPushes ==
  ASSUME TypeOK, [Next]_vars, Pushes, Instr[1] = "IMPORT_NAME"
  PROVE  Begins("import", Len(modules) + 1)
<1>1. ~Trims
  BY LenProperties DEF Pushes, Trims, TypeOK
<1>2. ~Calls /\ ~resume_generator
  <2>1. ASSUME NEW op, Fetch(op)  PROVE op = "IMPORT_NAME"
    BY <2>1 DEF Fetch
  <2>2. ~resume_generator
    BY <2>1 DEF resume_generator
  <2>3. ~Calls
    BY <2>1 DEF Calls, MAKE_FUNCTION, BUILD_CLASS, CallFunction, CallGeneratorFunction,
                CallClass, CallException, CallRange, CallFormat, CallDunder, CallError,
                RETURN_VALUE, Calling
  <2>4. QED
    BY <2>2, <2>3
<1>3. Imports
  BY <1>1, <1>2, NamespacesTrims, OperandsTrims, JumpsTrims, IterationTrims,
     ExceptionsTrims, ReturnsTrims DEF Next, Step, Terminated
<1>4. ~IMPORT_cached
  BY <1>1, FetchFacts, PushedFields, AdvanceTrims DEF IMPORT_cached
<1>5. ~IMPORT_missing
  BY <1>1, FailTrims DEF IMPORT_missing
<1>6. QED
  BY <1>3, <1>4, <1>5, ImportBegins DEF Imports

Runs(f) == \/ f.code \in FunctionCode \cup {1}
           \/ f.module \in 1..Len(modules) /\ f.code = modules[f.module].code

OneBody == \A i, j \in 1..Len(frames) :
             frames[i].code = frames[j].code /\ frames[i].code \notin FunctionCode \cup {1} => i = j

Cached(m) == /\ sys_modules[modules[m].code] = m
             /\ modules[m].code \notin FunctionCode \cup {1}

LoadInv == /\ TypeOK /\ GeneratorsRunFunctions /\ BodiesApart
           /\ \A i \in 1..Len(frames) : Runs(frames[i])
           /\ OneBody
           /\ \A m \in 1..Len(modules) : Cached(m)

(* A step that loads nothing. *)
LEMMA KeepsLoaded ==
  ASSUME LoadInv, [Next]_vars, Len(modules') = Len(modules), CodesStay, UNCHANGED sys_modules,
         ~(Pushes /\ Instr[1] = "IMPORT_NAME")
  PROVE  /\ \A i \in 1..Len(frames') : Runs(frames[i])'
         /\ OneBody'
         /\ \A m \in 1..Len(modules') : Cached(m)'
<1>1. TypeOK /\ GeneratorsRunFunctions
  BY DEF LoadInv
<1>2. FunctionCode' = FunctionCode
  BY <1>1, StepTrimsOrPushes DEF Trims, Pushes, FunctionCode
<1>3. ASSUME NEW i \in 1..Len(frames')
      PROVE  \/ i \in 1..Len(frames) /\ Continues(frames'[i], frames[i])
             \/ frames'[i].code \in FunctionCode
  BY <1>1, StepFrame DEF Entered, GeneratorsRunFunctions
<1>4. ASSUME NEW i \in 1..Len(frames')  PROVE Runs(frames[i])'
  <2>1. CASE i \in 1..Len(frames) /\ Continues(frames'[i], frames[i])
    <3>1. Runs(frames[i])
      BY <2>1 DEF LoadInv
    <3>2. QED
      BY <1>2, <2>1, <3>1 DEF Runs, Continues, CodesStay
  <2>2. CASE frames'[i].code \in FunctionCode
    BY <1>2, <2>2 DEF Runs
  <2>3. QED
    BY <1>3, <2>1, <2>2
<1>5. OneBody'
  BY <1>2, <1>3 DEF LoadInv, OneBody, Continues
<1>6. \A m \in 1..Len(modules') : Cached(m)'
  BY <1>2 DEF LoadInv, Cached, CodesStay
<1>7. QED
  BY <1>4, <1>5, <1>6

(* One that does finds a code that no frame runs and no module has. *)
LEMMA LoadsNew ==
  ASSUME LoadInv, [Next]_vars, Begins("import", Len(modules) + 1)
  PROVE  /\ \A i \in 1..Len(frames') : Runs(frames[i])'
         /\ OneBody'
         /\ \A m \in 1..Len(modules') : Cached(m)'
<1> DEFINE n == Len(modules) + 1
<1>1. /\ TypeOK /\ GeneratorsRunFunctions /\ BodiesApart
      /\ Len(modules) \in Nat /\ Len(frames) \in Nat
  BY LenProperties DEF LoadInv, TypeOK
<1>2. FunctionCode' = FunctionCode
  BY <1>1, StepTrimsOrPushes DEF Trims, Pushes, FunctionCode
<1>3. /\ Fetch("IMPORT_NAME") /\ Arg # 0 /\ sys_modules[Arg] = 0
      /\ sys_modules' = [sys_modules EXCEPT ![Arg] = n]
      /\ Len(modules') = n /\ modules'[n].code = Arg /\ Pushes
      /\ \A m \in 1..Len(modules) : modules'[m].code = modules[m].code
  BY DEF Begins, Cache, CodesStay
<1>4. Arg \in 1..Len(code_objects) /\ Arg \notin FunctionCode \cup {1}
  <2>1. Arg \in 0..Len(code_objects)
    BY <1>1, <1>3, FetchFacts DEF Operand
  <2>2. Arg \in 1..Len(code_objects)
    BY <1>1, <1>3, <2>1, LenProperties DEF TypeOK, IsProgram
  <2>3. /\ frame.code \in DOMAIN code_objects /\ frame.ip \in DOMAIN code_objects[frame.code].instructions
        /\ code_objects[frame.code].instructions[frame.ip][1] = "IMPORT_NAME"
        /\ code_objects[frame.code].instructions[frame.ip][2] = Arg
    BY <1>1, <1>3, FetchFacts, LenProperties
       DEF TypeOK, IsProgram, Frames, Fetch, InCode, Instructions, Instr, Arg
  <2>4. Arg \in ModuleCode
    BY <2>2, <2>3 DEF ModuleCode
  <2>5. QED
    BY <1>1, <2>2, <2>4 DEF BodiesApart
<1>5. \A m \in 1..Len(modules) : modules[m].code # Arg
  <2>1. SUFFICES ASSUME NEW m \in 1..Len(modules), modules[m].code = Arg  PROVE FALSE
    OBVIOUS
  <2>2. sys_modules[Arg] = m
    BY <2>1 DEF LoadInv, Cached
  <2>3. QED
    BY <1>1, <1>3, <2>2
<1>6. \A i \in 1..Len(frames) : frames[i].code # Arg
  BY <1>4, <1>5 DEF LoadInv, Runs
<1> HIDE DEF n
<1>7. ASSUME NEW i \in 1..Len(frames')
      PROVE  \/ i \in 1..Len(frames) /\ Continues(frames'[i], frames[i])
             \/ /\ i = Len(frames) + 1 /\ frames'[i].code = Arg /\ frames'[i].module = n
                /\ i \notin 1..Len(frames)
  <2>1. Instr[1] = "IMPORT_NAME"
    BY <1>3 DEF Fetch
  <2>2. QED
    BY <1>1, <2>1, StepFrame DEF Entered, n
<1>8. n \in 1..Len(modules') /\ 1..Len(modules) \subseteq 1..Len(modules') /\ n \notin 1..Len(modules)
      /\ \A m \in 1..Len(modules') : m \in 1..Len(modules) \/ m = n
  BY <1>1, <1>3 DEF n
<1>9. ASSUME NEW i \in 1..Len(frames')  PROVE Runs(frames[i])'
  <2>1. CASE i \in 1..Len(frames) /\ Continues(frames'[i], frames[i])
    <3>1. Runs(frames[i])
      BY <2>1 DEF LoadInv
    <3>2. QED
      BY <1>2, <1>3, <1>8, <2>1, <3>1 DEF Runs, Continues
  <2>2. CASE frames'[i].code = Arg /\ frames'[i].module = n
    BY <1>3, <1>8, <2>2 DEF Runs
  <2>3. QED
    BY <1>7, <2>1, <2>2
<1>10. ASSUME NEW i \in 1..Len(frames'), NEW j \in 1..Len(frames'),
              frames'[i].code = frames'[j].code, frames'[i].code \notin FunctionCode \cup {1}
       PROVE  i = j
  <2>1. CASE i \in 1..Len(frames) /\ j \in 1..Len(frames)
    BY <1>7, <1>10, <2>1 DEF LoadInv, OneBody, Continues
  <2>2. CASE ~(i \in 1..Len(frames) /\ j \in 1..Len(frames))
    BY <1>6, <1>7, <1>10, <2>2 DEF Continues
  <2>3. QED
    BY <2>1, <2>2
<1>11. ASSUME NEW m \in 1..Len(modules')  PROVE Cached(m)'
  <2>1. DOMAIN sys_modules = 1..Len(code_objects)
    BY <1>1 DEF TypeOK
  <2>2. CASE m \in 1..Len(modules)
    <3>1. Cached(m)
      BY <2>2 DEF LoadInv
    <3>2. QED
      BY <1>2, <1>3, <1>4, <1>5, <2>1, <2>2, <3>1 DEF Cached
  <2>3. CASE m = n
    BY <1>2, <1>3, <1>4, <2>1, <2>3 DEF Cached
  <2>4. QED
    BY <1>8, <2>2, <2>3
<1>12. OneBody'
  BY <1>2, <1>10 DEF OneBody
<1>13. QED
  BY <1>9, <1>11, <1>12

LEMMA StepLoads == LoadInv /\ [Next]_vars => LoadInv'
<1> SUFFICES ASSUME LoadInv, [Next]_vars  PROVE LoadInv'
  OBVIOUS
<1>1. TypeOK /\ GeneratorsRunFunctions /\ BodiesApart
  BY DEF LoadInv
<1>2. TypeOK' /\ GeneratorsRunFunctions'
  BY <1>1, StepType, StepRunFunctions
<1>3. BodiesApart'
  BY <1>1, StepTrimsOrPushes DEF Trims, Pushes, BodiesApart, FunctionCode, ModuleCode
<1>4. CASE Begins("import", Len(modules) + 1)
  BY <1>2, <1>3, <1>4, LoadsNew DEF LoadInv
<1>5. CASE ~Begins("import", Len(modules) + 1)
  <2>1. ~(Pushes /\ Instr[1] = "IMPORT_NAME")
    BY <1>1, <1>5, ImportPushes
  <2>2. Len(modules') = Len(modules) /\ CodesStay /\ UNCHANGED sys_modules
    BY <1>1, <1>5, StepNests DEF Quiet, FlagsStay, Begins, Ends
  <2>3. QED
    BY <1>2, <1>3, <2>1, <2>2, KeepsLoaded DEF LoadInv
<1>6. QED
  BY <1>4, <1>5

LEMMA InitLoads == Init /\ BodiesApart => LoadInv
<1> SUFFICES ASSUME Init, BodiesApart  PROVE LoadInv
  OBVIOUS
<1>1. /\ frames = <<NewFrame(1, NoLocals, 0, Unset)>> /\ modules = << >> /\ generators = << >>
  BY DEF Init, Start
<1>2. Len(frames) = 1 /\ frames[1].code = 1 /\ frames[1].gen = 0
  BY <1>1 DEF NewFrame
<1>3. 1..Len(modules) = {} /\ 1..Len(generators) = {} /\ \A i \in 1..Len(frames) : i = 1
  BY <1>1, <1>2
<1>4. QED
  BY <1>2, <1>3, InitType DEF LoadInv, GeneratorsRunFunctions, Runs, OneBody

LEMMA LoadedWhenInv == LoadInv => LoadedOnce
<1> SUFFICES ASSUME LoadInv  PROVE LoadedOnce
  OBVIOUS
<1>1. ASSUME NEW m \in 1..Len(modules)
      PROVE  /\ sys_modules[modules[m].code] = m
             /\ Cardinality(BodyFrames(m)) <= 1
             /\ \A i \in BodyFrames(m) : frames[i].module = m
  <2>1. Cached(m)
    BY DEF LoadInv
  <2>2. ASSUME NEW i \in BodyFrames(m)  PROVE frames[i].module = m
    <3>1. i \in 1..Len(frames) /\ frames[i].code = modules[m].code
      BY DEF BodyFrames
    <3>2. Runs(frames[i])
      BY <3>1 DEF LoadInv
    <3>3. /\ frames[i].module \in 1..Len(modules)
          /\ modules[frames[i].module].code = modules[m].code
      BY <2>1, <3>1, <3>2 DEF Runs, Cached
    <3>4. Cached(frames[i].module)
      BY <3>3 DEF LoadInv
    <3>5. QED
      BY <2>1, <3>3, <3>4 DEF Cached
  <2>3. ASSUME NEW i \in BodyFrames(m), NEW j \in BodyFrames(m)  PROVE i = j
    BY <2>1 DEF LoadInv, OneBody, BodyFrames, Cached
  <2>4. Cardinality(BodyFrames(m)) <= 1
    <3>1. CASE BodyFrames(m) = {}
      BY <3>1, FS_EmptySet
    <3>2. CASE BodyFrames(m) # {}
      <4>1. PICK i \in BodyFrames(m) : TRUE
        BY <3>2
      <4>2. BodyFrames(m) = {i}
        BY <2>3, <4>1
      <4>3. Cardinality({i}) = 1
        BY FS_Singleton, Zenon
      <4>4. QED
        BY <4>2, <4>3
    <3>3. QED
      BY <3>1, <3>2
  <2>5. QED
    BY <2>1, <2>2, <2>4 DEF Cached
<1>2. QED
  BY <1>1 DEF LoadInv, LoadedOnce

(* Where the body of a module is code of its own, a file is loaded once: in
   whatever order imports come, also around a circle, and whatever exception
   ends a body half-way, there is one module object for the file, sys.modules
   has it, and at most one frame runs its body, in its namespace.             *)
THEOREM AlwaysLoadedOnce == Spec /\ BodiesApart => []LoadedOnce
  BY InitLoads, StepLoads, LoadedWhenInv, PTL DEF Spec

=============================================================================
