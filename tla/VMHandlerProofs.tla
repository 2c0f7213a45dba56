---------------------------- MODULE VMHandlerProofs ---------------------------
(***************************************************************************)
(* In balanced code the handler stack is the try bodies that the running    *)
(* frames are in.  Three kinds of step change it: SETUP_EXCEPT enters a     *)
(* body, POP_EXCEPT leaves one and an exception goes to the handler of one. *)
(* Every other step is calm: it leaves the handlers, and moves frames at    *)
(* their try depth; a frame that comes or goes is outside of any try body.  *)
(***************************************************************************)
EXTENDS VMNestingProofs

Within(f)  == f.ip \in DOMAIN code_objects[f.code].instructions
DepthOf(f) == TryDepth(f.code, f.ip)

(* A frame goes on at the depth it is at. *)
Level(f, g) == Continues(f, g) /\ Within(f) /\ DepthOf(f) = DepthOf(g)

Calm ==
  /\ UNCHANGED <<code_objects, exception_stack>>
  /\ \A i \in 1..Len(frames') :
       IF i <= Len(frames) THEN Level(frames'[i], frames[i])
       ELSE Within(frames'[i]) /\ DepthOf(frames'[i]) = 0
  /\ \A i \in 1..Len(frames) : i > Len(frames') => DepthOf(frames[i]) = 0

Unwinds == Caught /\ UNCHANGED code_objects

(* What else it takes.  A generator goes on outside of any try body. *)
GeneratorsAtRest ==
  \A g \in 1..Len(generators) : Within(generators[g]) /\ DepthOf(generators[g]) = 0

(* A frame whose code has a HALT is the first of a call of the loop, so that it
   is alone above the call's depth when it gets there.                       *)
HaltsFirst ==
  \A i \in 1..Len(frames) : ~NoHalt(frames[i].code) =>
    \E a \in 1..Len(activations) :
      activations[a].kind \in {"run", "import"} /\ activations[a].target = i - 1

(* A handler's address is in the code of its frame. *)
HandlersInside ==
  \A h \in 1..Len(exception_stack) :
    exception_stack[h].frame_index <= Len(frames) =>
      exception_stack[h].handler_ip
        \in DOMAIN code_objects[frames[exception_stack[h].frame_index].code].instructions

HandlerInv ==
  /\ NestingInv /\ CallersWait /\ Balanced
  /\ GeneratorsRunFunctions /\ GeneratorsAtRest /\ HaltsFirst /\ InBounds
  /\ HandlersInside /\ HandlerDiscipline

-------------------------------------------------------------------------------
(* Try depths. *)

LEMMA BeforeFinite ==
  ASSUME NEW c, NEW k \in Nat, NEW op
  PROVE  IsFiniteSet(Before(c, k, op)) /\ Cardinality(Before(c, k, op)) \in Nat
<1>1. IsFiniteSet(1..k - 1)
  BY FS_Interval
<1>2. Before(c, k, op) \subseteq 1..k - 1
  BY DEF Before
<1>3. QED
  BY <1>1, <1>2, FS_Subset, FS_CardinalityType

LEMMA BeforeNext ==
  ASSUME NEW c, NEW k \in Nat \ {0}, NEW op
  PROVE  Cardinality(Before(c, k + 1, op))
           = Cardinality(Before(c, k, op)) + IF OpAt(c, k) = op THEN 1 ELSE 0
<1>1. /\ \A j : j \in 1..(k + 1) - 1 <=> j \in 1..k - 1 \/ j = k
      /\ k \notin 1..k - 1
  OBVIOUS
<1>2. k \notin Before(c, k, op)
  BY <1>1 DEF Before
<1>3. CASE OpAt(c, k) = op
  <2>1. Before(c, k + 1, op) = Before(c, k, op) \cup {k}
    BY <1>1, <1>3 DEF Before
  <2>2. QED
    BY <1>2, <1>3, <2>1, BeforeFinite, FS_AddElement
<1>4. CASE OpAt(c, k) # op
  <2>1. Before(c, k + 1, op) = Before(c, k, op)
    BY <1>1, <1>4 DEF Before
  <2>2. QED
    BY <1>4, <2>1, BeforeFinite
<1>5. QED
  BY <1>3, <1>4

(* The depth changes behind a SETUP_EXCEPT and a POP_EXCEPT only. *)
LEMMA DepthNext ==
  ASSUME NEW c, NEW k \in Nat \ {0}
  PROVE  /\ TryDepth(c, k) \in Int
         /\ TryDepth(c, k + 1) =
              IF OpAt(c, k) = "SETUP_EXCEPT" THEN TryDepth(c, k) + 1
              ELSE IF OpAt(c, k) = "POP_EXCEPT" THEN TryDepth(c, k) - 1
              ELSE TryDepth(c, k)
  BY BeforeFinite, BeforeNext DEF TryDepth

LEMMA DepthFirst ==
  ASSUME NEW c
  PROVE  TryDepth(c, 1) = 0
<1>1. \A op : Before(c, 1, op) = {}
  BY DEF Before
<1>2. QED
  BY <1>1, FS_EmptySet DEF TryDepth

(* What balanced code says of the instruction of a frame. *)
LEMMA BalancedInstr ==
  ASSUME TypeOK, Balanced, NEW c \in 1..Len(code_objects),
         NEW k \in DOMAIN code_objects[c].instructions
  PROVE  /\ BalancedAt(c, k) /\ k \in Nat \ {0}
         /\ TryDepth(c, k) \in Nat
         /\ OpAt(c, k) = "POP_EXCEPT" => TryDepth(c, k) >= 1
         /\ k < Len(code_objects[c].instructions)
              => k + 1 \in DOMAIN code_objects[c].instructions
<1>1. /\ c \in DOMAIN code_objects
      /\ DOMAIN code_objects[c].instructions = 1..Len(code_objects[c].instructions)
      /\ Len(code_objects[c].instructions) \in Nat
  BY LenProperties DEF TypeOK, IsProgram
<1>2. BalancedAt(c, k) /\ k \in Nat \ {0}
  BY <1>1 DEF Balanced
<1>3. TryDepth(c, k) \in Int
  BY <1>2, DepthNext
<1>4. QED
  BY <1>1, <1>2, <1>3 DEF BalancedAt

(* Code that starts does so outside of any try body. *)
LEMMA FirstInstr ==
  ASSUME TypeOK, Balanced, NEW c \in 1..Len(code_objects)
  PROVE  1 \in DOMAIN code_objects[c].instructions /\ TryDepth(c, 1) = 0
<1>1. /\ c \in DOMAIN code_objects
      /\ DOMAIN code_objects[c].instructions = 1..Len(code_objects[c].instructions)
      /\ Len(code_objects[c].instructions) \in Nat
  BY LenProperties DEF TypeOK, IsProgram
<1>2. Len(code_objects[c].instructions) > 0
  BY <1>1 DEF Balanced
<1>3. QED
  BY <1>1, <1>2, DepthFirst

(* Functions do not end in HALT. *)
LEMMA FunctionsReturn ==
  ASSUME Balanced, NEW c \in FunctionCode
  PROVE  NoHalt(c)
<1>1. PICK d \in DOMAIN code_objects : \E k \in DOMAIN code_objects[d].instructions :
        code_objects[d].instructions[k][1] = "MAKE_FUNCTION"
        /\ code_objects[d].instructions[k][2] = c
  BY DEF FunctionCode
<1>2. PICK k \in DOMAIN code_objects[d].instructions :
        OpAt(d, k) = "MAKE_FUNCTION" /\ InstrAt(d, k)[2] = c
  BY <1>1 DEF OpAt, InstrAt
<1>3. BalancedAt(d, k)
  BY <1>2 DEF Balanced
<1>4. QED
  BY <1>2, <1>3 DEF BalancedAt

-------------------------------------------------------------------------------
(* Where the last frame goes. *)

LEMMA FrameFacts ==
  ASSUME HandlerInv, NEW i \in 1..Len(frames)
  PROVE  /\ frames[i] \in Frames /\ frames[i].code \in 1..Len(code_objects)
         /\ Within(frames[i]) /\ FrameDepth(i) = DepthOf(frames[i])
         /\ DepthOf(frames[i]) \in Nat
         /\ BalancedAt(frames[i].code, frames[i].ip) /\ frames[i].ip \in Nat \ {0}
<1>1. TypeOK /\ Balanced /\ InBounds
  BY DEF HandlerInv, NestingInv
<1>2. frames[i] \in Frames
  BY <1>1, ElementOfSeq DEF TypeOK
<1>3. frames[i].code \in 1..Len(code_objects)
  BY <1>2 DEF Frames
<1>4. Within(frames[i])
  BY <1>1 DEF InBounds, Within
<1>5. QED
  BY <1>1, <1>2, <1>3, <1>4, BalancedInstr DEF Within, DepthOf, FrameDepth

LEMMA LastFacts ==
  ASSUME HandlerInv, NEW op, Fetch(op)
  PROVE  /\ TypeOK /\ Len(frames) \in Nat \ {0} /\ Len(frames) \in 1..Len(frames)
         /\ frame = frames[Len(frames)] /\ frame \in Frames
         /\ OpAt(frame.code, frame.ip) = op /\ InstrAt(frame.code, frame.ip)[2] = Arg
<1>1. TypeOK
  BY DEF HandlerInv, NestingInv
<1>2. QED
  BY <1>1, FetchFacts DEF Fetch, frame, OpAt, InstrAt, Instr, Instructions, Arg

(* It goes on to the next instruction, *)
LEMMA Forward ==
  ASSUME HandlerInv, NEW op, Fetch(op), op \notin {"RETURN_VALUE", "HALT", "JUMP", "RAISE"},
         NEW f, Continues(f, frame), f.ip = frame.ip + 1
  PROVE  /\ Within(f)
         /\ DepthOf(f) = IF op = "SETUP_EXCEPT" THEN DepthOf(frame) + 1
                         ELSE IF op = "POP_EXCEPT" THEN DepthOf(frame) - 1
                         ELSE DepthOf(frame)
<1>1. /\ frame.code \in 1..Len(code_objects) /\ Within(frame) /\ frame.ip \in Nat \ {0}
      /\ BalancedAt(frame.code, frame.ip) /\ TypeOK /\ Balanced
  BY LastFacts, FrameFacts DEF HandlerInv
<1>2. OpAt(frame.code, frame.ip) = op
  BY LastFacts
<1>3. frame.ip < Len(code_objects[frame.code].instructions)
  BY <1>1, <1>2 DEF BalancedAt
<1>4. frame.ip + 1 \in DOMAIN code_objects[frame.code].instructions
  BY <1>1, <1>3, BalancedInstr DEF Within
<1>5. QED
  BY <1>1, <1>2, <1>4, DepthNext DEF Within, DepthOf, Continues

(* or it jumps. *)
LEMMA Jumping ==
  ASSUME HandlerInv, NEW op \in Targets, Fetch(op),
         NEW f, Continues(f, frame), f.ip = Arg
  PROVE  Level(f, frame)
<1>1. /\ frame.code \in 1..Len(code_objects) /\ BalancedAt(frame.code, frame.ip) /\ TypeOK
      /\ OpAt(frame.code, frame.ip) = op /\ InstrAt(frame.code, frame.ip)[2] = Arg
  BY LastFacts, FrameFacts
<1>2. /\ Arg \in 1..Len(code_objects[frame.code].instructions)
      /\ TryDepth(frame.code, Arg) = TryDepth(frame.code, frame.ip)
  BY <1>1 DEF BalancedAt
<1>3. DOMAIN code_objects[frame.code].instructions = 1..Len(code_objects[frame.code].instructions)
  BY <1>1, LenProperties DEF TypeOK, IsProgram
<1>4. QED
  BY <1>2, <1>3 DEF Level, Within, DepthOf, Continues

-------------------------------------------------------------------------------
(* Calm steps. *)

Plain(op) == op \notin {"RETURN_VALUE", "HALT", "JUMP", "RAISE", "SETUP_EXCEPT", "POP_EXCEPT"}

LEMMA SameCalm ==
  ASSUME HandlerInv, UNCHANGED <<code_objects, frames, exception_stack>>
  PROVE  Calm
<1>1. Len(frames) \in Nat
  BY LenProperties DEF HandlerInv, NestingInv, TypeOK
<1>2. \A i \in 1..Len(frames) : Level(frames[i], frames[i])
  BY FrameFacts DEF Level, Continues
<1>3. QED
  BY <1>1, <1>2 DEF Calm

LEMMA TopCalm ==
  ASSUME HandlerInv, frames # << >>, NEW f, Level(f, frame), frames' = SetTop(f),
         UNCHANGED <<code_objects, exception_stack>>
  PROVE  Calm
<1>1. frames \in Seq(Frames) /\ Len(frames) \in 1..Len(frames) /\ Len(frames) \in Nat
  BY EmptySeq, LenProperties DEF HandlerInv, NestingInv, TypeOK
<1>2. /\ Len(frames') = Len(frames)
      /\ \A i \in 1..Len(frames) : frames'[i] = IF i = Len(frames) THEN f ELSE frames[i]
  BY <1>1, Replaced DEF SetTop
<1>3. \A i \in 1..Len(frames) : Level(frames[i], frames[i])
  BY FrameFacts DEF Level, Continues
<1>4. \A i \in 1..Len(frames) : Level(frames'[i], frames[i])
  BY <1>2, <1>3 DEF frame
<1>5. QED
  BY <1>1, <1>2, <1>4 DEF Calm

LEMMA NextCalm ==
  ASSUME HandlerInv, NEW op, Fetch(op), Plain(op),
         NEW f, Continues(f, frame) /\ f.ip = frame.ip + 1,
         frames' = SetTop(f), UNCHANGED <<code_objects, exception_stack>>
  PROVE  Calm
<1>1. Level(f, frame)
  BY Forward DEF Plain, Level
<1>2. frames # << >>
  BY FetchFacts DEF HandlerInv, NestingInv
<1>3. QED
  BY <1>1, <1>2, TopCalm

LEMMA AdvanceCalm ==
  ASSUME HandlerInv, NEW op, Fetch(op), Plain(op),
         NEW f, Continues(f, frame) /\ f.ip = frame.ip + 1, Advance(f)
  PROVE  Calm
  BY NextCalm DEF Advance, Goto, program

LEMMA JumpCalm ==
  ASSUME HandlerInv, NEW op \in Targets, Fetch(op),
         NEW f, Continues(f, frame) /\ f.ip = Arg, Advance(f)
  PROVE  Calm
<1>1. frames # << >>
  BY FetchFacts DEF HandlerInv, NestingInv
<1>2. QED
  BY <1>1, Jumping, TopCalm DEF Advance, Goto, program

LEMMA FailCalm ==
  ASSUME HandlerInv, Fail
  PROVE  Calm
  BY SameCalm DEF Fail, program

(* No handler outlives its frame. *)
LEMMA RaiseCalm ==
  ASSUME HandlerInv, NEW exc, raise_exception(exc)
  PROVE  Calm \/ Unwinds
<1>1. UNCHANGED code_objects /\ (Caught \/ Dangling \/ Uncaught)
  BY DEF raise_exception, program
<1>2. ~ Dangling
  <2>1. SUFFICES ASSUME exception_stack # << >>  PROVE ~(Handler.frame_index > Len(frames))
    BY DEF Dangling
  <2>2. Len(exception_stack) \in 1..Len(exception_stack)
    BY <2>1, EmptySeq DEF HandlerInv, NestingInv, TypeOK
  <2>3. Handler.frame_index <= Len(frames) /\ Handler \in Handlers
    BY <2>2, ElementOfSeq
       DEF HandlerInv, NestingInv, TypeOK, HandlerDiscipline, HandlersLive, Handler
  <2>4. Handler.frame_index \in Nat /\ Len(frames) \in Nat
    BY <2>3, LenProperties DEF Handlers, HandlerInv, NestingInv, TypeOK
  <2>5. QED
    BY <2>3, <2>4
<1>3. CASE Uncaught
  BY <1>1, <1>3, SameCalm DEF Uncaught
<1>4. QED
  BY <1>1, <1>2, <1>3 DEF Unwinds

LEMMA HandleErrorCalm ==
  ASSUME HandlerInv, NEW t, try_handle_error(t)
  PROVE  Calm \/ Unwinds
  BY FailCalm, RaiseCalm DEF try_handle_error

LEMMA DeliverCalm ==
  ASSUME HandlerInv, NEW op, Fetch(op), Plain(op), NEW n, NEW result, Deliver(n, result)
  PROVE  Calm \/ Unwinds
  BY HandleErrorCalm, LastFacts, PushedFields, AdvanceCalm DEF Deliver

LEMMA NamespacesCalm ==
  ASSUME HandlerInv, Namespaces
  PROVE  Calm \/ Unwinds
<1>1. CASE LOAD_CONST
  BY <1>1, LastFacts, PushedFields, AdvanceCalm DEF LOAD_CONST, Plain
<1>2. CASE LOAD_FAST
  BY <1>2, LastFacts, PushedFields, AdvanceCalm DEF LOAD_FAST, Plain
<1>3. CASE STORE_FAST
  BY <1>3, LastFacts, StoreFields, AdvanceCalm DEF STORE_FAST, Plain
<1>4. CASE LOAD_GLOBAL
  BY <1>4, LastFacts, PushedFields, AdvanceCalm, HandleErrorCalm DEF LOAD_GLOBAL, Plain
<1>5. CASE STORE_GLOBAL
  BY <1>5, LastFacts, PoppedFields, NextCalm DEF STORE_GLOBAL, program, Plain
<1>6. QED
  BY <1>1, <1>2, <1>3, <1>4, <1>5 DEF Namespaces

LEMMA OperandsCalm ==
  ASSUME HandlerInv, Operands
  PROVE  Calm \/ Unwinds
<1>1. CASE ADD
  BY <1>1, DeliverCalm DEF ADD, Plain
<1>2. CASE FLOOR_DIV
  BY <1>2, DeliverCalm DEF FLOOR_DIV, Plain
<1>3. CASE LSHIFT
  BY <1>3, LastFacts, PushedFields, AdvanceCalm, FailCalm DEF LSHIFT, Plain
<1>4. CASE COMPARE_EQ
  BY <1>4, LastFacts, PushedFields, AdvanceCalm DEF COMPARE_EQ, Plain
<1>5. CASE POP_TOP
  BY <1>5, LastFacts, PoppedFields, AdvanceCalm DEF POP_TOP, Plain
<1>6. CASE LOAD_ATTR
  BY <1>6, DeliverCalm DEF LOAD_ATTR, Plain
<1>7. QED
  BY <1>1, <1>2, <1>3, <1>4, <1>5, <1>6 DEF Operands

LEMMA JumpsCalm ==
  ASSUME HandlerInv, Jumps
  PROVE  Calm
<1>1. CASE JUMP
  BY <1>1, LastFacts, JumpFields, JumpCalm DEF JUMP, Targets
<1>2. CASE JUMP_IF_FALSE
  <2>1. Fetch("JUMP_IF_FALSE")
        /\ Advance([Popped(1) EXCEPT !.ip = IF is_truthy(Top(0)) THEN Popped(1).ip ELSE Arg])
    BY <1>2 DEF JUMP_IF_FALSE
  <2>2. CASE is_truthy(Top(0))
    BY <2>1, <2>2, LastFacts, JumpFields, PoppedFields, AdvanceCalm DEF Plain
  <2>3. CASE ~is_truthy(Top(0))
    BY <2>1, <2>3, LastFacts, JumpFields, JumpCalm DEF Targets
  <2>4. QED
    BY <2>2, <2>3
<1>3. CASE JUMP_IF_TRUE
  <2>1. Fetch("JUMP_IF_TRUE")
        /\ Advance([Popped(1) EXCEPT !.ip = IF is_truthy(Top(0)) THEN Arg ELSE Popped(1).ip])
    BY <1>3 DEF JUMP_IF_TRUE
  <2>2. CASE ~is_truthy(Top(0))
    BY <2>1, <2>2, LastFacts, JumpFields, PoppedFields, AdvanceCalm DEF Plain
  <2>3. CASE is_truthy(Top(0))
    BY <2>1, <2>3, LastFacts, JumpFields, JumpCalm DEF Targets
  <2>4. QED
    BY <2>2, <2>3
<1>4. QED
  BY <1>1, <1>2, <1>3 DEF Jumps

(* A frame comes: that of a function or a module at its start, that of a
   generator where it stopped.                                              *)
LEMMA PushCalm ==
  ASSUME HandlerInv, TypeOK', NEW op, Fetch(op), Pushes, UNCHANGED exception_stack
  PROVE  Calm
<1> DEFINE new == frames'[Len(frames) + 1]
<1>1. /\ TypeOK /\ Balanced /\ Len(frames) \in Nat \ {0} /\ frame = frames[Len(frames)]
      /\ Instr[1] = op /\ frame \in Frames
  BY LastFacts DEF HandlerInv, Fetch
<1>2. /\ code_objects' = code_objects /\ Len(frames') = Len(frames) + 1
      /\ \A i \in 1..Len(frames) - 1 : frames'[i] = frames[i]
      /\ Continues(frames'[Len(frames)], frame)
      /\ frames'[Len(frames)].ip = frame.ip + 1
      /\ Entered(new)
  BY DEF Pushes
<1>3. Level(frames'[Len(frames)], frame)
  <2>1. Plain(op)
    BY <1>1, <1>2 DEF Entered, Plain
  <2>2. QED
    BY <1>2, <2>1, Forward DEF Plain, Level
<1>4. new.code \in 1..Len(code_objects)
  <2>1. Len(frames) + 1 \in 1..Len(frames')
    BY <1>1, <1>2
  <2>2. new \in Frames'
    BY <2>1, ElementOfSeq DEF TypeOK
  <2>3. QED
    BY <1>2, <2>2 DEF Frames
<1>5. Within(new) /\ DepthOf(new) = 0
  <2>1. CASE new.ip = 1
    BY <1>1, <1>4, <2>1, FirstInstr DEF Within, DepthOf
  <2>2. CASE /\ new.gen \in 1..Len(generators)
             /\ new.code = generators[new.gen].code /\ new.ip = generators[new.gen].ip
    <3>1. Within(generators[new.gen]) /\ DepthOf(generators[new.gen]) = 0
      BY <2>2 DEF HandlerInv, GeneratorsAtRest
    <3>2. QED
      BY <2>2, <3>1 DEF Within, DepthOf
  <2>3. QED
    BY <1>2, <2>1, <2>2 DEF Entered
<1>6. \A i \in 1..Len(frames) : Level(frames[i], frames[i])
  BY FrameFacts DEF Level, Continues
<1>7. ASSUME NEW i \in 1..Len(frames')
      PROVE  IF i <= Len(frames) THEN Level(frames'[i], frames[i])
             ELSE Within(frames'[i]) /\ DepthOf(frames'[i]) = 0
  <2>1. CASE i < Len(frames)
    <3>1. i \in 1..Len(frames) - 1 /\ i \in 1..Len(frames) /\ i <= Len(frames)
      BY <1>1, <2>1
    <3>2. QED
      BY <1>2, <1>6, <3>1
  <2>2. CASE i = Len(frames)
    BY <1>1, <1>3, <2>2
  <2>3. CASE i = Len(frames) + 1
    BY <1>1, <1>5, <2>3
  <2>4. QED
    BY <1>1, <1>2, <2>1, <2>2, <2>3
<1>8. \A i \in 1..Len(frames) : ~(i > Len(frames'))
  BY <1>1, <1>2
<1>9. QED
  BY <1>2, <1>7, <1>8 DEF Calm

(* A frame leaves, outside of any try body. *)
LEMMA LeaveCalm ==
  ASSUME HandlerInv, NEW op \in {"RETURN_VALUE", "YIELD_VALUE"}, Fetch(op), NEW back,
         Len(frames) > 1 => Level(back, frames[Len(frames) - 1]),
         frames' = IF AllButLast(frames) = << >> THEN AllButLast(frames)
                   ELSE [AllButLast(frames) EXCEPT ![Len(AllButLast(frames))] = back],
         UNCHANGED <<code_objects, exception_stack>>
  PROVE  Calm
<1> DEFINE below == AllButLast(frames)
<1>1. /\ Len(frames) \in Nat \ {0} /\ Len(frames) \in 1..Len(frames)
      /\ frame = frames[Len(frames)] /\ OpAt(frame.code, frame.ip) = op
  BY LastFacts
<1>2. /\ below \in Seq(Frames) /\ Len(below) = Len(frames) - 1
      /\ \A i \in 1..Len(frames) - 1 : below[i] = frames[i]
  BY <1>1, EmptySeq, AllButLastType DEF HandlerInv, NestingInv, TypeOK
<1>3. frames' = IF below = << >> THEN below ELSE [below EXCEPT ![Len(below)] = back]
  OBVIOUS
<1>4. DepthOf(frames[Len(frames)]) = 0
  BY <1>1, FrameFacts DEF BalancedAt, Leaves, DepthOf
<1>5. \A i \in 1..Len(frames) : Level(frames[i], frames[i])
  BY FrameFacts DEF Level, Continues
<1> HIDE DEF below
<1>6. /\ Len(frames') = Len(frames) - 1
      /\ \A i \in 1..Len(frames) - 1 : Level(frames'[i], frames[i])
  <2>1. CASE below = << >>
    <3>1. Len(frames') = 0 /\ Len(frames) = 1
      BY <1>1, <1>2, <1>3, <2>1
    <3>2. 1..Len(frames) - 1 = {}
      BY <3>1
    <3>3. QED
      BY <3>1, <3>2
  <2>2. CASE below # << >>
    <3>1. Len(below) \in 1..Len(below) /\ Len(frames) > 1
      BY <1>1, <1>2, <2>2, EmptySeq
    <3>2. /\ Len(frames') = Len(below)
          /\ \A i \in 1..Len(below) : frames'[i] = IF i = Len(below) THEN back ELSE below[i]
      BY <1>2, <1>3, <2>2, <3>1, Replaced
    <3>3. Level(back, frames[Len(frames) - 1])
      BY <3>1
    <3> HIDE DEF Level
    <3>4. ASSUME NEW i \in 1..Len(frames) - 1  PROVE Level(frames'[i], frames[i])
      <4>1. i \in 1..Len(frames) /\ frames'[i] = IF i = Len(frames) - 1 THEN back ELSE frames[i]
        BY <1>1, <1>2, <3>2
      <4>2. QED
        BY <1>5, <3>3, <4>1
    <3>5. QED
      BY <1>2, <3>2, <3>4
  <2>3. QED
    BY <2>1, <2>2
<1>7. ASSUME NEW i \in 1..Len(frames')
      PROVE  i <= Len(frames) /\ Level(frames'[i], frames[i])
  BY <1>1, <1>6
<1>8. ASSUME NEW i \in 1..Len(frames), i > Len(frames')  PROVE DepthOf(frames[i]) = 0
  <2>1. i = Len(frames)
    BY <1>1, <1>6, <1>8
  <2>2. QED
    BY <1>4, <2>1
<1>9. QED
  BY <1>7, <1>8 DEF Calm

(* The load of its iterator before a FOR_ITER is at the depth behind it. *)
LEMMA BeforeLoad ==
  ASSUME TypeOK, Balanced, NEW c \in 1..Len(code_objects), NEW ip \in Nat \ {0},
         ip - 1 \in DOMAIN code_objects[c].instructions, OpAt(c, ip - 1) = "FOR_ITER"
  PROVE  /\ ip > 2 /\ ip - 2 \in DOMAIN code_objects[c].instructions
         /\ TryDepth(c, ip - 2) = TryDepth(c, ip)
<1>1. PICK k : k = ip - 1
  OBVIOUS
<1>2. PICK l : l = ip - 2
  OBVIOUS
<1>3. BalancedAt(c, k) /\ k \in Nat \ {0} /\ OpAt(c, k) = "FOR_ITER"
  BY <1>1, BalancedInstr
<1>4. /\ DOMAIN code_objects[c].instructions = 1..Len(code_objects[c].instructions)
      /\ Len(code_objects[c].instructions) \in Nat
  BY LenProperties DEF TypeOK, IsProgram
<1>5. k > 1 /\ OpAt(c, k - 1) \in {"LOAD_FAST", "LOAD_GLOBAL"}
  BY <1>3 DEF BalancedAt
<1>6. /\ l = k - 1 /\ l \in Nat \ {0} /\ l + 1 = k /\ k + 1 = ip /\ ip > 2
      /\ l \in 1..Len(code_objects[c].instructions)
  BY <1>1, <1>2, <1>3, <1>4, <1>5
<1>7. TryDepth(c, k) = TryDepth(c, l)
  BY <1>5, <1>6, DepthNext
<1>8. TryDepth(c, ip) = TryDepth(c, k)
  BY <1>3, <1>6, DepthNext
<1>9. QED
  BY <1>2, <1>4, <1>6, <1>7, <1>8

(* The caller of a generator goes back to the load before its FOR_ITER. *)
LEMMA ReturnCalm ==
  ASSUME HandlerInv, RETURN_VALUE
  PROVE  Calm
<1> DEFINE below  == AllButLast(frames)
           caller == below[Len(below)]
           v      == IF frame.init # Unset THEN frame.init ELSE Top(0)
           ip     == IF caller.ip > 2 THEN caller.ip - 2 ELSE 1
           back   == IF frame.gen # 0 THEN [caller EXCEPT !.ip = ip] ELSE PushOn(caller, v)
<1>1. /\ Fetch("RETURN_VALUE") /\ UNCHANGED <<code_objects, exception_stack>>
      /\ frames' = IF below = << >> THEN below ELSE [below EXCEPT ![Len(below)] = back]
  BY DEF RETURN_VALUE, program
<1>2. TypeOK /\ Len(frames) \in Nat \ {0} /\ frame = frames[Len(frames)]
  BY <1>1, LastFacts
<1>3. ASSUME Len(frames) > 1  PROVE Level(back, frames[Len(frames) - 1])
  <2>1. caller = frames[Len(frames) - 1] /\ caller \in Frames
    BY <1>2, <1>3, CallerBelow
  <2>2. Len(frames) - 1 \in 1..Len(frames) /\ Len(frames) - 1 \in 1..Len(frames) - 1
    BY <1>2, <1>3
  <2>3. /\ Within(caller) /\ caller.code \in 1..Len(code_objects) /\ caller.ip \in Nat \ {0}
        /\ Level(caller, caller)
    BY <2>1, <2>2, FrameFacts DEF Level, Continues
  <2>4. CASE frame.gen = 0
    <3>1. back = PushOn(caller, v)
      BY <2>4
    <3> HIDE DEF caller, v, back
    <3>2. QED
      BY <2>1, <2>3, <3>1, PushOnFields DEF Level, Continues, Within, DepthOf
  <2>5. CASE frame.gen # 0
    <3>1. WaitsAt(caller, {"FOR_ITER"})
      <4>1. WaitsAt(frames[Len(frames) - 1], Pushers(frames[Len(frames) - 1 + 1].gen))
        BY <2>2 DEF HandlerInv, CallersWait
      <4>2. Len(frames) - 1 + 1 = Len(frames)
        BY <1>2
      <4>3. QED
        BY <1>2, <2>1, <2>5, <4>1, <4>2 DEF Pushers
    <3>2. back = [caller EXCEPT !.ip = ip] /\ ip = IF caller.ip > 2 THEN caller.ip - 2 ELSE 1
      BY <2>5
    <3> HIDE DEF caller, back, ip
    <3>3. /\ caller.ip > 2 /\ caller.ip - 2 \in DOMAIN code_objects[caller.code].instructions
          /\ TryDepth(caller.code, caller.ip - 2) = TryDepth(caller.code, caller.ip)
      BY <1>2, <2>3, <3>1, BeforeLoad DEF WaitsAt, HandlerInv
    <3>4. Continues(back, caller) /\ back.ip = caller.ip - 2
      BY <2>1, <3>2, <3>3 DEF Frames, Continues
    <3>5. QED
      BY <2>1, <3>3, <3>4 DEF Level, Continues, Within, DepthOf
  <2>6. QED
    BY <2>4, <2>5
<1> HIDE DEF back
<1>4. QED
  BY <1>1, <1>3, LeaveCalm

LEMMA YieldCalm ==
  ASSUME HandlerInv, YIELD_VALUE
  PROVE  Calm
<1> DEFINE below == AllButLast(frames)
           back  == PushOn(below[Len(below)], Top(0))
<1>1. /\ Fetch("YIELD_VALUE") /\ UNCHANGED <<code_objects, exception_stack>>
      /\ frames' = IF below = << >> THEN below ELSE [below EXCEPT ![Len(below)] = back]
  BY DEF YIELD_VALUE, program
<1>2. TypeOK /\ Len(frames) \in Nat \ {0}
  BY <1>1, LastFacts
<1>3. ASSUME Len(frames) > 1  PROVE Level(back, frames[Len(frames) - 1])
  <2>1. below[Len(below)] = frames[Len(frames) - 1] /\ below[Len(below)] \in Frames
    BY <1>2, <1>3, CallerBelow
  <2>2. Len(frames) - 1 \in 1..Len(frames)
    BY <1>2, <1>3
  <2>3. Within(below[Len(below)])
    BY <2>1, <2>2, FrameFacts
  <2>4. QED
    BY <2>1, <2>3, PushOnFields DEF Level, Continues, Within, DepthOf
<1> HIDE DEF back
<1>4. QED
  BY <1>1, <1>3, LeaveCalm

LEMMA CallsCalm ==
  ASSUME HandlerInv, TypeOK', Calls
  PROVE  Calm \/ Unwinds
<1>1. CASE MAKE_FUNCTION
  BY <1>1, LastFacts, PushedFields, AdvanceCalm DEF MAKE_FUNCTION, Plain
<1>2. CASE BUILD_CLASS
  BY <1>2, LastFacts, PushedFields, AdvanceCalm DEF BUILD_CLASS, Plain
<1>3. CASE CallFunction
  <2>1. /\ Fetch("CALL_FUNCTION") /\ TypeOK /\ Callee[2] \in FunctionCode
        /\ UNCHANGED exception_stack
    BY <1>3, LastFacts, CallFacts, ValueElim DEF CallFunction, Calling, Enter, Goto
  <2>2. Pushes
    BY <1>3, <2>1, CallIsPushed DEF CallFunction, Enter, Goto, program
  <2>3. QED
    BY <2>1, <2>2, PushCalm
<1>4. CASE CallGeneratorFunction
  BY <1>4, LastFacts, PushedFields, NextCalm DEF CallGeneratorFunction, Calling, program, Plain
<1>5. CASE CallClass
  <2> DEFINE inst == Inst(Callee[3], Callee[4])
             init == Callee[2]
             args == [i \in 1..Arg + 1 |-> IF i = 1 THEN inst ELSE Args[i - 1]]
             locals == Bind(init, args)
  <2>1. /\ Fetch("CALL_FUNCTION")
        /\ \/ Advance(Pushed(Arg + 1, inst))
           \/ try_handle_error("RuntimeError")
           \/ init # 0 /\ Enter(NewFrame(init, locals, Callee[4], inst))
    BY <1>5 DEF CallClass, Calling
  <2>2. TypeOK /\ (init # 0 => init \in FunctionCode)
    BY <1>5, <2>1, LastFacts, CallFacts, ValueElim DEF CallClass, Calling
  <2> HIDE DEF inst, init, locals
  <2>3. CASE Advance(Pushed(Arg + 1, inst))
    BY <2>1, <2>3, LastFacts, PushedFields, AdvanceCalm DEF Plain
  <2>4. CASE init # 0 /\ Enter(NewFrame(init, locals, Callee[4], inst))
    <3>1. Pushes /\ UNCHANGED exception_stack
      BY <2>1, <2>2, <2>4, CallIsPushed DEF Enter, Goto, program
    <3>2. QED
      BY <2>1, <3>1, PushCalm
  <2>5. QED
    BY <2>1, <2>3, <2>4, HandleErrorCalm
<1>6. CASE CallException
  BY <1>6, LastFacts, PushedFields, AdvanceCalm DEF CallException, Plain
<1>7. CASE CallRange
  BY <1>7, LastFacts, PushedFields, NextCalm, HandleErrorCalm DEF CallRange, Calling, program, Plain
<1>8. CASE CallFormat
  BY <1>8, LastFacts, PushedFields, NextCalm DEF CallFormat, Calling, program, Plain
<1>9. CASE CallDunder
  <2> DEFINE inst == Top(0)
             method == inst[2]
             locals == Bind(method, <<inst>>)
  <2>1. /\ Fetch("CALL_FUNCTION")
        /\ \/ Fail
           \/ /\ frames' = Append(SetTop(Popped(2)), NewFrame(method, locals, inst[3], Unset))
              /\ UNCHANGED <<code_objects, exception_stack>>
    BY <1>9 DEF CallDunder, Calling, program
  <2>2. TypeOK /\ method \in FunctionCode
    BY <1>9, <2>1, LastFacts, CallFacts, ValueElim DEF CallDunder, Calling, HasStr
  <2> HIDE DEF inst, method, locals
  <2>3. CASE ~Fail
    <3>1. Pushes /\ UNCHANGED exception_stack
      BY <2>1, <2>2, <2>3, CallIsPushed
    <3>2. QED
      BY <2>1, <3>1, PushCalm
  <2>4. QED
    BY <2>3, FailCalm
<1>10. CASE CallError
  BY <1>10, FailCalm DEF CallError
<1>11. QED
  BY <1>1, <1>2, <1>3, <1>4, <1>5, <1>6, <1>7, <1>8, <1>9, <1>10, ReturnCalm DEF Calls

LEMMA IterationCalm ==
  ASSUME HandlerInv, TypeOK', Iteration
  PROVE  Calm
<1>1. CASE GET_ITER
  BY <1>1, LastFacts, PushedFields, AdvanceCalm, FailCalm DEF GET_ITER, Plain
<1>2. CASE FOR_ITER_range
  <2> DEFINE i == Top(0)[2]
  <2>1. /\ Fetch("FOR_ITER")
        /\ \/ Advance([Popped(1) EXCEPT !.ip = Arg])
           \/ /\ frames' = SetTop(Pushed(1, Int_(iters[i].current)))
              /\ UNCHANGED <<code_objects, exception_stack>>
    BY <1>2 DEF FOR_ITER_range, program
  <2> HIDE DEF i
  <2>2. CASE Advance([Popped(1) EXCEPT !.ip = Arg])
    BY <2>1, <2>2, LastFacts, JumpFields, JumpCalm DEF Targets
  <2>3. QED
    BY <2>1, <2>2, LastFacts, PushedFields, NextCalm DEF Plain
<1>3. CASE FOR_ITER_completed
  BY <1>3, LastFacts, JumpFields, JumpCalm DEF FOR_ITER_completed, Targets
<1>4. CASE resume_generator
  <2>1. Fetch("FOR_ITER") /\ TypeOK /\ UNCHANGED exception_stack
    BY <1>4, LastFacts DEF resume_generator
  <2>2. QED
    BY <1>4, <2>1, ResumeIsPushed, PushCalm
<1>5. CASE FOR_ITER_error \/ YIELD_outside
  BY <1>5, FailCalm DEF FOR_ITER_error, YIELD_outside
<1>6. QED
  BY <1>1, <1>2, <1>3, <1>4, <1>5, YieldCalm DEF Iteration

LEMMA ExceptionsCalm ==
  ASSUME HandlerInv, Exceptions, ~SETUP_EXCEPT, ~POP_EXCEPT
  PROVE  Calm \/ Unwinds
<1>1. CASE FinallyMarker
  BY <1>1, LastFacts, PoppedFields, AdvanceCalm DEF FinallyMarker, Plain
<1>2. CASE LOAD_EXCEPTION
  BY <1>2, LastFacts, PushedFields, AdvanceCalm DEF LOAD_EXCEPTION, Plain
<1>3. CASE RAISE_again \/ RAISE_value \/ RAISE_assertion
  BY <1>3, FailCalm, RaiseCalm DEF RAISE_again, RAISE_value, RAISE_assertion
<1>4. QED
  BY <1>1, <1>2, <1>3 DEF Exceptions

LEMMA ImportsCalm ==
  ASSUME HandlerInv, TypeOK', Imports
  PROVE  Calm
<1>1. CASE IMPORT_cached
  BY <1>1, LastFacts, PushedFields, AdvanceCalm DEF IMPORT_cached, Plain
<1>2. CASE IMPORT_missing
  BY <1>2, FailCalm DEF IMPORT_missing
<1>3. CASE IMPORT_load
  <2>1. Fetch("IMPORT_NAME") /\ TypeOK /\ UNCHANGED exception_stack
    BY <1>3, LastFacts DEF IMPORT_load
  <2>2. Pushes
    BY <1>3, <2>1, CallIsPushed DEF IMPORT_load, program
  <2>3. QED
    BY <2>1, <2>2, PushCalm
<1>4. QED
  BY <1>1, <1>2, <1>3 DEF Imports

(* A call of the loop that meets a HALT is that of the last frame, a module's
   or the script's.                                                         *)
LEMMA HaltAlone ==
  ASSUME HandlerInv, Halted
  PROVE  /\ Activation.kind \in {"run", "import"} /\ Activation.target = Len(frames) - 1
         /\ DepthOf(frames[Len(frames)]) = 0
<1> DEFINE n == Len(frames)
           top == Len(activations)
<1>1. /\ TypeOK /\ Ordered /\ n \in Nat /\ top \in Nat \ {0}
      /\ Activation = activations[top] /\ Activation.target \in Nat
      /\ frame = frames[n]
  <2>1. TypeOK /\ Ordered
    BY DEF HandlerInv, NestingInv
  <2>2. QED
    BY <2>1, CallsThere, CallFactsOf, LenProperties DEF TypeOK, frame
<1>2. n > Activation.target /\ frame.ip \in DOMAIN Instructions /\ Instr[1] = "HALT"
  BY DEF Halted, InCode
<1>3. n \in 1..n
  BY <1>1, <1>2
<1>4. OpAt(frame.code, frame.ip) = "HALT" /\ ~NoHalt(frame.code)
  BY <1>2 DEF NoHalt, OpAt, InstrAt, Instructions, Instr
<1>5. DepthOf(frame) = 0
  BY <1>1, <1>3, <1>4, FrameFacts DEF BalancedAt, Leaves, DepthOf
<1>6. PICK a \in 1..top : activations[a].kind \in {"run", "import"} /\ activations[a].target = n - 1
  BY <1>1, <1>3, <1>4 DEF HandlerInv, HaltsFirst
<1>7. a = top
  <2>1. SUFFICES ASSUME a < top  PROVE FALSE
    BY <1>1
  <2>2. activations[a].target < activations[top].target
    BY <1>1, <2>1 DEF Ordered
  <2>3. QED
    BY <1>1, <1>2, <1>6, <2>2
<1>8. QED
  BY <1>1, <1>5, <1>6, <1>7

LEMMA StayCalm ==
  ASSUME HandlerInv, NEW n, StayUpTo(n), UNCHANGED exception_stack,
         \A i \in 1..Len(frames) : i > n => DepthOf(frames[i]) = 0
  PROVE  Calm
<1>1. /\ code_objects' = code_objects /\ Len(frames') = n /\ n \in 0..Len(frames)
      /\ \A i \in 1..n : Continues(frames'[i], frames[i]) /\ frames'[i].ip = frames[i].ip
      /\ Len(frames) \in Nat
  BY LenProperties DEF StayUpTo, HandlerInv, NestingInv, TypeOK
<1>2. ASSUME NEW i \in 1..n  PROVE i <= Len(frames) /\ Level(frames'[i], frames[i])
  <2>1. i \in 1..Len(frames) /\ i <= Len(frames)
    BY <1>1
  <2>2. Within(frames[i])
    BY <2>1, FrameFacts
  <2>3. QED
    BY <1>1, <2>1, <2>2 DEF Level, Continues, Within, DepthOf
<1>3. QED
  BY <1>1, <1>2 DEF Calm

LEMMA ReturnsCalm ==
  ASSUME HandlerInv, Returns \/ Aborts \/ UNCHANGED vars
  PROVE  Calm
<1>1. TypeOK
  BY DEF HandlerInv, NestingInv
<1>2. CASE run_returns \/ StackPanic \/ UNCHANGED vars
  BY <1>2, SameCalm DEF run_returns, StackPanic, vars, program
<1>3. CASE OutOfBounds
  BY <1>3, FailCalm DEF OutOfBounds
<1>4. CASE import_returns
  <2>1. CASE UNCHANGED <<code_objects, frames>>
    BY <1>4, <2>1, SameCalm DEF import_returns
  <2>2. CASE StayUpTo(Activation.target)
    <3>1. Len(frames) <= Activation.target \/ Halted
      BY <1>4 DEF import_returns, Returned
    <3>2. Len(frames) \in Nat /\ Activation.target \in 0..Len(frames) /\ UNCHANGED exception_stack
      BY <1>1, <1>4, <2>2, LenProperties DEF StayUpTo, TypeOK, import_returns
    <3>3. ASSUME NEW i \in 1..Len(frames), i > Activation.target
          PROVE  DepthOf(frames[i]) = 0
      <4>1. Halted
        BY <3>1, <3>2, <3>3
      <4>2. i = Len(frames)
        BY <3>2, <3>3, <4>1, HaltAlone
      <4>3. QED
        BY <4>1, <4>2, HaltAlone
    <3>4. QED
      BY <2>2, <3>2, <3>3, StayCalm
  <2>3. QED
    BY <1>1, <1>4, <2>1, <2>2, ImportReturnsStay
<1>5. CASE dunder_returns
  <2>1. StayUpTo(Len(frames)) /\ UNCHANGED exception_stack /\ Len(frames) \in Nat
    BY <1>1, <1>5, DunderReturnsStay, LenProperties DEF dunder_returns, TypeOK
  <2>2. \A i \in 1..Len(frames) : ~(i > Len(frames))
    BY <2>1
  <2>3. QED
    BY <2>1, <2>2, StayCalm
<1>6. QED
  BY <1>2, <1>3, <1>4, <1>5 DEF Returns, Aborts

(* Every step is of one of four kinds. *)
LEMMA StepCalm ==
  ASSUME HandlerInv, [Next]_vars
  PROVE  Calm \/ Unwinds \/ SETUP_EXCEPT \/ POP_EXCEPT
<1>1. TypeOK'
  BY StepType DEF HandlerInv, NestingInv
<1>2. CASE Step
  BY <1>1, <1>2, NamespacesCalm, OperandsCalm, JumpsCalm, CallsCalm, IterationCalm,
     ExceptionsCalm, ImportsCalm, ReturnsCalm DEF Step
<1>3. CASE UNCHANGED vars
  BY <1>3, ReturnsCalm
<1>4. QED
  BY <1>2, <1>3 DEF Next, Terminated

-------------------------------------------------------------------------------
(* What such steps do to the discipline. *)

(* The code does not change, and so do no depths. *)
LEMMA DepthsStay ==
  ASSUME UNCHANGED code_objects
  PROVE  /\ \A h : HandlerDepth(exception_stack[h])'
                     = TryDepth(frames'[exception_stack'[h].frame_index].code,
                                exception_stack'[h].handler_ip)
         /\ \A i : FrameDepth(i)' = DepthOf(frames'[i])
         /\ Balanced' = Balanced /\ FunctionCode' = FunctionCode
         /\ \A c : NoHalt(c)' = NoHalt(c)
<1>1. /\ \A h : HandlerDepth(exception_stack[h])'
                  = TryDepth(frames'[exception_stack'[h].frame_index].code,
                             exception_stack'[h].handler_ip)
      /\ \A i : FrameDepth(i)' = DepthOf(frames'[i])
  BY DEF HandlerDepth, FrameDepth, DepthOf, TryDepth, Before, OpAt, InstrAt
<1>2. FunctionCode' = FunctionCode /\ \A c : NoHalt(c)' = NoHalt(c)
  BY DEF FunctionCode, NoHalt, OpAt, InstrAt
<1>3. Balanced' = Balanced
  BY <1>2 DEF Balanced, BalancedAt, TryDepth, Before, NoHalt, OpAt, InstrAt
<1>4. QED
  BY <1>1, <1>2, <1>3

LEMMA HandlerFacts ==
  ASSUME HandlerInv, NEW h \in 1..Len(exception_stack)
  PROVE  LET hd == exception_stack[h] IN
         /\ hd \in Handlers /\ hd.frame_index \in 1..Len(frames)
         /\ hd.handler_ip \in DOMAIN code_objects[frames[hd.frame_index].code].instructions
         /\ HandlerDepth(hd) \in Nat
         /\ HandlerDepth(hd) = TryDepth(frames[hd.frame_index].code, hd.handler_ip)
         /\ HandlerDepth(hd) < DepthOf(frames[hd.frame_index])
<1> DEFINE hd == exception_stack[h]
<1>1. TypeOK /\ Balanced
  BY DEF HandlerInv, NestingInv
<1>2. hd \in Handlers /\ Len(frames) \in Nat
  BY <1>1, ElementOfSeq, LenProperties DEF TypeOK
<1>3. hd.frame_index <= Len(frames) /\ HandlerDepth(hd) < FrameDepth(hd.frame_index)
  BY DEF HandlerInv, HandlerDiscipline, HandlersLive
<1>4. hd.frame_index \in 1..Len(frames)
  BY <1>2, <1>3 DEF Handlers
<1>5. hd.handler_ip \in DOMAIN code_objects[frames[hd.frame_index].code].instructions
  BY <1>3 DEF HandlerInv, HandlersInside
<1>6. frames[hd.frame_index].code \in 1..Len(code_objects)
      /\ FrameDepth(hd.frame_index) = DepthOf(frames[hd.frame_index])
  BY <1>4, FrameFacts
<1>7. QED
  BY <1>1, <1>2, <1>3, <1>4, <1>5, <1>6, BalancedInstr DEF HandlerDepth

(* The discipline, of the handlers and frames after a step. *)
NextDepth(h) == TryDepth(frames'[exception_stack'[h].frame_index].code,
                         exception_stack'[h].handler_ip)

LEMMA DisciplineIntro ==
  ASSUME UNCHANGED code_objects,
         \A h \in 1..Len(exception_stack') :
           /\ exception_stack'[h].frame_index <= Len(frames')
           /\ exception_stack'[h].handler_ip \in
                DOMAIN code_objects[frames'[exception_stack'[h].frame_index].code].instructions
           /\ NextDepth(h) < DepthOf(frames'[exception_stack'[h].frame_index]),
         \A g, h \in 1..Len(exception_stack') : g < h =>
           \/ exception_stack'[g].frame_index < exception_stack'[h].frame_index
           \/ /\ exception_stack'[g].frame_index = exception_stack'[h].frame_index
              /\ NextDepth(g) < NextDepth(h),
         \A i \in 1..Len(frames') : \A d \in 0..DepthOf(frames'[i]) - 1 :
           \E h \in 1..Len(exception_stack') :
             exception_stack'[h].frame_index = i /\ NextDepth(h) = d,
         \A i \in 1..Len(frames') : Within(frames'[i])
  PROVE  HandlerDiscipline' /\ HandlersInside' /\ InBounds'
<1>1. /\ \A h : HandlerDepth(exception_stack[h])' = NextDepth(h)
      /\ \A i : FrameDepth(i)' = DepthOf(frames'[i])
  BY DepthsStay DEF NextDepth
<1> HIDE DEF NextDepth
<1>2. HandlersLive'
  BY <1>1 DEF HandlersLive
<1>3. HandlersInOrder'
  BY <1>1 DEF HandlersInOrder
<1>4. HandlersComplete'
  BY <1>1 DEF HandlersComplete
<1>5. HandlersInside' /\ InBounds'
  BY DEF HandlersInside, InBounds, Within
<1>6. QED
  BY <1>2, <1>3, <1>4, <1>5 DEF HandlerDiscipline

(* The handlers of a frame, by their depths. *)
LEMMA DisciplineElim ==
  ASSUME HandlerInv
  PROVE  /\ \A g, h \in 1..Len(exception_stack) : g < h =>
              \/ exception_stack[g].frame_index < exception_stack[h].frame_index
              \/ /\ exception_stack[g].frame_index = exception_stack[h].frame_index
                 /\ HandlerDepth(exception_stack[g]) < HandlerDepth(exception_stack[h])
         /\ \A i \in 1..Len(frames) : \A d \in 0..DepthOf(frames[i]) - 1 :
              \E h \in 1..Len(exception_stack) :
                exception_stack[h].frame_index = i /\ HandlerDepth(exception_stack[h]) = d
  BY DEF HandlerInv, HandlerDiscipline, HandlersInOrder, HandlersComplete, FrameDepth, DepthOf

LEMMA Lengths ==
  ASSUME HandlerInv, TypeOK'
  PROVE  /\ Len(frames) \in Nat /\ Len(frames') \in Nat /\ Len(exception_stack) \in Nat
         /\ TypeOK /\ frames \in Seq(Frames) /\ exception_stack \in Seq(Handlers)
<1>1. TypeOK
  BY DEF HandlerInv, NestingInv
<1>2. QED
  BY <1>1, LenProperties DEF TypeOK

LEMMA CalmKeeps ==
  ASSUME HandlerInv, TypeOK', Calm
  PROVE  HandlerDiscipline' /\ HandlersInside' /\ InBounds'
<1>1. /\ code_objects' = code_objects /\ exception_stack' = exception_stack
      /\ \A i \in 1..Len(frames') :
           IF i <= Len(frames) THEN Level(frames'[i], frames[i])
           ELSE Within(frames'[i]) /\ DepthOf(frames'[i]) = 0
      /\ \A i \in 1..Len(frames) : i > Len(frames') => DepthOf(frames[i]) = 0
  BY DEF Calm
<1>2. ASSUME NEW h \in 1..Len(exception_stack)
      PROVE  /\ exception_stack[h].frame_index <= Len(frames')
             /\ exception_stack[h].handler_ip \in
                  DOMAIN code_objects[frames'[exception_stack[h].frame_index].code].instructions
             /\ NextDepth(h) = HandlerDepth(exception_stack[h])
             /\ NextDepth(h) < DepthOf(frames'[exception_stack[h].frame_index])
  <2> DEFINE hd == exception_stack[h]
             i  == hd.frame_index
  <2>1. /\ i \in 1..Len(frames) /\ HandlerDepth(hd) \in Nat
        /\ hd.handler_ip \in DOMAIN code_objects[frames[i].code].instructions
        /\ HandlerDepth(hd) = TryDepth(frames[i].code, hd.handler_ip)
        /\ HandlerDepth(hd) < DepthOf(frames[i])
    BY HandlerFacts
  <2>2. ~(i > Len(frames'))
    BY <1>1, <2>1
  <2>3. Len(frames') \in Nat /\ Len(frames) \in Nat
    BY Lengths
  <2>4. i \in 1..Len(frames') /\ i <= Len(frames)
    BY <2>1, <2>2, <2>3
  <2>5. frames'[i].code = frames[i].code /\ DepthOf(frames'[i]) = DepthOf(frames[i])
    BY <1>1, <2>4 DEF Level, Continues
  <2>6. QED
    BY <1>1, <2>1, <2>4, <2>5 DEF NextDepth
<1>3. \A i \in 1..Len(frames') : Within(frames'[i])
  BY <1>1 DEF Level
<1>4. ASSUME NEW i \in 1..Len(frames'), NEW d \in 0..DepthOf(frames'[i]) - 1
      PROVE  \E h \in 1..Len(exception_stack) :
               exception_stack[h].frame_index = i /\ NextDepth(h) = d
  <2>1. i \in 1..Len(frames) /\ DepthOf(frames'[i]) = DepthOf(frames[i])
    <3>1. i <= Len(frames)
      BY <1>1, <1>4
    <3>2. QED
      BY <1>1, <3>1, Lengths DEF Level
  <2>2. QED
    BY <1>2, <2>1, DisciplineElim
<1>5. QED
  BY <1>1, <1>2, <1>3, <1>4, DisciplineElim, DisciplineIntro

(* A handler whose frame keeps its code keeps its depth. *)
LEMMA KeptDepth ==
  ASSUME HandlerInv, NEW h \in 1..Len(exception_stack), exception_stack'[h] = exception_stack[h],
         frames'[exception_stack[h].frame_index].code = frames[exception_stack[h].frame_index].code
  PROVE  NextDepth(h) = HandlerDepth(exception_stack[h])
  BY HandlerFacts DEF NextDepth

(* The exception goes to the innermost try body, and leaves it. *)
LEMMA UnwindKeeps ==
  ASSUME HandlerInv, TypeOK', Unwinds
  PROVE  HandlerDiscipline' /\ HandlersInside' /\ InBounds'
<1> DEFINE n  == Len(exception_stack)
           fi == Handler.frame_index
<1>1. TypeOK /\ n \in Nat \ {0} /\ n \in 1..n /\ Handler = exception_stack[n]
  BY Lengths, EmptySeq DEF Unwinds, Caught, Handler
<1>2. /\ code_objects' = code_objects /\ frames' = UnwindTo(Handler)
      /\ exception_stack' = AllButLast(exception_stack)
  BY DEF Unwinds, Caught
<1>3. /\ Handler \in Handlers /\ fi \in 1..Len(frames) /\ HandlerDepth(Handler) \in Nat
      /\ Handler.handler_ip \in DOMAIN code_objects[frames[fi].code].instructions
      /\ HandlerDepth(Handler) = TryDepth(frames[fi].code, Handler.handler_ip)
      /\ HandlerDepth(Handler) < DepthOf(frames[fi])
  BY <1>1, HandlerFacts
<1>4. Len(frames) \in Nat /\ fi <= Len(frames)
  BY <1>3, Lengths
<1>5. /\ Len(frames') = fi /\ \A i \in 1..fi - 1 : frames'[i] = frames[i]
      /\ frames'[fi].code = frames[fi].code /\ frames'[fi].ip = Handler.handler_ip
  BY <1>1, <1>2, <1>3, <1>4, UnwindType DEF Continues
<1>6. Len(exception_stack') = n - 1 /\ \A h \in 1..n - 1 : exception_stack'[h] = exception_stack[h]
  BY <1>1, <1>2, Lengths, EmptySeq, AllButLastType
<1>7. DepthOf(frames'[fi]) = HandlerDepth(Handler) /\ Within(frames'[fi])
  BY <1>3, <1>5 DEF DepthOf, Within
<1>8. ASSUME NEW i \in 1..fi
      PROVE  /\ i \in 1..Len(frames) /\ frames'[i].code = frames[i].code
             /\ i # fi => frames'[i] = frames[i]
  <2>1. i \in 1..Len(frames) /\ (i = fi \/ i \in 1..fi - 1)
    BY <1>3, <1>4
  <2> HIDE DEF fi
  <2>2. QED
    BY <1>5, <2>1
<1>9. ASSUME NEW i \in 1..Len(frames')  PROVE Within(frames'[i])
  <2>1. i \in 1..fi
    BY <1>5
  <2>2. i \in 1..Len(frames) /\ (i # fi => frames'[i] = frames[i])
    BY <1>8, <2>1
  <2>3. Within(frames[i])
    BY <2>2, FrameFacts
  <2> HIDE DEF fi
  <2>4. QED
    BY <1>7, <2>2, <2>3
<1> HIDE DEF fi
<1>10. ASSUME NEW h \in 1..n - 1
       PROVE  LET i == exception_stack[h].frame_index IN
              /\ h \in 1..n /\ h < n /\ i \in 1..fi
              /\ exception_stack[h].handler_ip \in DOMAIN code_objects[frames'[i].code].instructions
              /\ NextDepth(h) = HandlerDepth(exception_stack[h])
              /\ NextDepth(h) < DepthOf(frames'[i])
  <2> DEFINE i == exception_stack[h].frame_index
  <2>1. h \in 1..n /\ h < n
    BY <1>1
  <2>2. /\ i \in 1..Len(frames) /\ HandlerDepth(exception_stack[h]) < DepthOf(frames[i])
        /\ exception_stack[h].handler_ip \in DOMAIN code_objects[frames[i].code].instructions
    BY <2>1, HandlerFacts
  <2>3. \/ i < fi
        \/ i = fi /\ HandlerDepth(exception_stack[h]) < HandlerDepth(Handler)
    BY <1>1, <2>1, DisciplineElim DEF fi
  <2>4. i \in 1..fi
    BY <1>3, <1>4, <2>2, <2>3 DEF fi
  <2>5. frames'[i].code = frames[i].code /\ (i # fi => frames'[i] = frames[i])
    BY <1>8, <2>4
  <2>6. NextDepth(h) = HandlerDepth(exception_stack[h])
    BY <1>6, <2>1, <2>5, KeptDepth
  <2>7. HandlerDepth(exception_stack[h]) < DepthOf(frames'[i])
    <3>1. CASE i = fi
      BY <1>7, <2>3, <2>4, <3>1, <1>3 DEF fi
    <3>2. CASE i # fi
      BY <2>2, <2>5, <3>2
    <3>3. QED
      BY <3>1, <3>2
  <2>8. QED
    BY <2>1, <2>2, <2>4, <2>5, <2>6, <2>7
<1>11. ASSUME NEW i \in 1..fi, NEW d \in 0..DepthOf(frames'[i]) - 1
       PROVE  \E h \in 1..n - 1 : exception_stack'[h].frame_index = i /\ NextDepth(h) = d
  <2>1. d \in 0..DepthOf(frames[i]) - 1 /\ (i = fi => d < HandlerDepth(Handler))
    <3>1. CASE i = fi
      BY <1>3, <1>7, <3>1, FrameFacts DEF fi
    <3>2. CASE i # fi
      BY <1>8, <3>2
    <3>3. QED
      BY <3>1, <3>2
  <2>2. PICK h \in 1..n : exception_stack[h].frame_index = i /\ HandlerDepth(exception_stack[h]) = d
    BY <1>8, <2>1, DisciplineElim
  <2>3. h # n
    BY <1>1, <1>3, <2>1, <2>2 DEF fi
  <2>4. h \in 1..n - 1
    BY <1>1, <2>3
  <2>5. QED
    BY <1>6, <1>10, <2>2, <2>4
<1>12. \A h \in 1..n - 1 : /\ exception_stack'[h].frame_index <= Len(frames')
                           /\ exception_stack'[h].handler_ip \in DOMAIN code_objects[frames'[exception_stack'[h].frame_index].code].instructions
                           /\ NextDepth(h) < DepthOf(frames'[exception_stack'[h].frame_index])
  BY <1>5, <1>6, <1>10 DEF fi
<1>13. ASSUME NEW g \in 1..n - 1, NEW h \in 1..n - 1, g < h
       PROVE  \/ exception_stack'[g].frame_index < exception_stack'[h].frame_index
              \/ /\ exception_stack'[g].frame_index = exception_stack'[h].frame_index
                 /\ NextDepth(g) < NextDepth(h)
  <2>1. g \in 1..n /\ h \in 1..n
    BY <1>10
  <2>2. \/ exception_stack[g].frame_index < exception_stack[h].frame_index
        \/ /\ exception_stack[g].frame_index = exception_stack[h].frame_index
           /\ HandlerDepth(exception_stack[g]) < HandlerDepth(exception_stack[h])
    BY <1>13, <2>1, DisciplineElim
  <2>3. exception_stack'[g] = exception_stack[g] /\ exception_stack'[h] = exception_stack[h]
    BY <1>6
  <2>4. /\ NextDepth(g) = HandlerDepth(exception_stack[g])
        /\ NextDepth(h) = HandlerDepth(exception_stack[h])
    BY <1>10
  <2>5. QED
    BY <2>2, <2>3, <2>4
<1>14. \A i \in 1..Len(frames') : \A d \in 0..DepthOf(frames'[i]) - 1 :
         \E h \in 1..n - 1 : exception_stack'[h].frame_index = i /\ NextDepth(h) = d
  BY <1>5, <1>11
<1> HIDE DEF n
<1>15. \A h \in 1..Len(exception_stack') :
         /\ exception_stack'[h].frame_index <= Len(frames')
         /\ exception_stack'[h].handler_ip \in
              DOMAIN code_objects[frames'[exception_stack'[h].frame_index].code].instructions
         /\ NextDepth(h) < DepthOf(frames'[exception_stack'[h].frame_index])
  BY <1>6, <1>12
<1>16. \A g, h \in 1..Len(exception_stack') : g < h =>
         \/ exception_stack'[g].frame_index < exception_stack'[h].frame_index
         \/ /\ exception_stack'[g].frame_index = exception_stack'[h].frame_index
            /\ NextDepth(g) < NextDepth(h)
  BY <1>6, <1>13
<1>17. \A i \in 1..Len(frames') : \A d \in 0..DepthOf(frames'[i]) - 1 :
         \E h \in 1..Len(exception_stack') :
           exception_stack'[h].frame_index = i /\ NextDepth(h) = d
  BY <1>6, <1>14
<1>18. UNCHANGED code_objects
  BY <1>2
<1>19. QED
  BY <1>9, <1>15, <1>16, <1>17, <1>18, DisciplineIntro

(* The last frame at a SETUP_EXCEPT or a POP_EXCEPT. *)
LEMMA NextFrames ==
  ASSUME HandlerInv, NEW op \in {"SETUP_EXCEPT", "POP_EXCEPT"}, Fetch(op),
         frames' = SetTop(Popped(0))
  PROVE  /\ Len(frames) \in Nat \ {0} /\ Len(frames') = Len(frames)
         /\ \A i \in 1..Len(frames) :
              /\ frames'[i].code = frames[i].code /\ Within(frames'[i])
              /\ DepthOf(frames'[i]) =
                   IF i # Len(frames) THEN DepthOf(frames[i])
                   ELSE IF op = "SETUP_EXCEPT" THEN DepthOf(frames[i]) + 1
                   ELSE DepthOf(frames[i]) - 1
<1>1. /\ TypeOK /\ Len(frames) \in Nat \ {0} /\ Len(frames) \in 1..Len(frames)
      /\ frame = frames[Len(frames)] /\ frame \in Frames /\ frames \in Seq(Frames)
  BY LastFacts DEF TypeOK
<1>2. /\ Len(frames') = Len(frames)
      /\ \A i \in 1..Len(frames) : frames'[i] = IF i = Len(frames) THEN Popped(0) ELSE frames[i]
  BY <1>1, Replaced DEF SetTop
<1>3. Continues(Popped(0), frame) /\ Popped(0).ip = frame.ip + 1
  BY <1>1, PoppedFields
<1>4. /\ Within(Popped(0)) /\ Popped(0).code = frame.code
      /\ DepthOf(Popped(0)) = IF op = "SETUP_EXCEPT" THEN DepthOf(frame) + 1
                              ELSE DepthOf(frame) - 1
  BY <1>3, Forward DEF Continues
<1>5. \A i \in 1..Len(frames) : Within(frames[i])
  BY FrameFacts
<1> HIDE DEF Within, DepthOf
<1>6. QED
  BY <1>1, <1>2, <1>4, <1>5

(* The handler of the body that is entered comes last. *)
LEMMA SetupKeeps ==
  ASSUME HandlerInv, TypeOK', SETUP_EXCEPT
  PROVE  HandlerDiscipline' /\ HandlersInside' /\ InBounds'
<1> DEFINE n   == Len(exception_stack)
           m   == Len(frames)
           new == NewHandler(m)
<1>1. /\ Fetch("SETUP_EXCEPT") /\ code_objects' = code_objects
      /\ frames' = SetTop(Popped(0)) /\ exception_stack' = Append(exception_stack, new)
  BY DEF SETUP_EXCEPT, program
<1>2. /\ m \in Nat \ {0} /\ Len(frames') = m
      /\ \A i \in 1..m :
           /\ frames'[i].code = frames[i].code /\ Within(frames'[i])
           /\ DepthOf(frames'[i]) = IF i # m THEN DepthOf(frames[i]) ELSE DepthOf(frames[i]) + 1
  BY <1>1, NextFrames
<1>3. new.frame_index = m /\ new.handler_ip = Arg
  BY DEF NewHandler
<1>4. /\ Arg \in DOMAIN code_objects[frames[m].code].instructions
      /\ TryDepth(frames[m].code, Arg) = DepthOf(frames[m]) /\ DepthOf(frames[m]) \in Nat
  <2>1. m \in 1..m /\ frame = frames[m] /\ frame \in Frames
    BY <1>1, <1>2, LastFacts
  <2> DEFINE f == [frame EXCEPT !.ip = Arg]
  <2>2. Continues(f, frame) /\ f.ip = Arg
    BY <2>1, JumpFields
  <2>3. Level(f, frame)
    BY <1>1, <2>2, Jumping DEF Targets
  <2> HIDE DEF f
  <2>4. QED
    BY <2>1, <2>2, <2>3, FrameFacts DEF Level, Continues, Within, DepthOf
<1> HIDE DEF new
<1>5. /\ n \in Nat /\ Len(exception_stack') = n + 1 /\ exception_stack'[n + 1] = new
      /\ \A h \in 1..n : exception_stack'[h] = exception_stack[h]
  BY <1>1, Lengths, Appended
<1>6. NextDepth(n + 1) = DepthOf(frames[m])
  BY <1>2, <1>3, <1>4, <1>5 DEF NextDepth
<1>7. ASSUME NEW h \in 1..n
      PROVE  LET i == exception_stack[h].frame_index IN
             /\ i \in 1..m
             /\ exception_stack[h].handler_ip \in DOMAIN code_objects[frames'[i].code].instructions
             /\ NextDepth(h) = HandlerDepth(exception_stack[h])
             /\ NextDepth(h) < DepthOf(frames[i]) /\ DepthOf(frames[i]) \in Nat
             /\ DepthOf(frames[i]) <= DepthOf(frames'[i])
  <2> DEFINE i == exception_stack[h].frame_index
  <2>1. /\ i \in 1..m /\ HandlerDepth(exception_stack[h]) < DepthOf(frames[i])
        /\ exception_stack[h].handler_ip \in DOMAIN code_objects[frames[i].code].instructions
        /\ HandlerDepth(exception_stack[h]) \in Nat
    BY HandlerFacts
  <2>2. DepthOf(frames[i]) \in Nat
    BY <2>1, FrameFacts
  <2>3. NextDepth(h) = HandlerDepth(exception_stack[h])
    BY <1>2, <1>5, <2>1, KeptDepth
  <2> HIDE DEF i
  <2>4. QED
    BY <1>2, <2>1, <2>2, <2>3 DEF i
<1>8. \A h \in 1..n + 1 : h \in 1..n \/ h = n + 1
  BY <1>5
<1>9. ASSUME NEW h \in 1..n + 1
      PROVE  LET i == exception_stack'[h].frame_index IN
             /\ i <= m
             /\ exception_stack'[h].handler_ip \in DOMAIN code_objects[frames'[i].code].instructions
             /\ NextDepth(h) < DepthOf(frames'[i])
  <2>1. CASE h \in 1..n
    <3>1. exception_stack'[h] = exception_stack[h]
      BY <1>5, <2>1
    <3>2. NextDepth(h) \in Int
      BY <1>7, <2>1, HandlerFacts
    <3>3. DepthOf(frames'[exception_stack[h].frame_index]) \in Int
      BY <1>2, <1>7, <2>1
    <3>4. QED
      BY <1>2, <1>7, <2>1, <3>1, <3>2, <3>3
  <2>2. CASE h = n + 1
    BY <1>2, <1>3, <1>4, <1>5, <1>6, <2>2
  <2>3. QED
    BY <1>8, <2>1, <2>2
<1>10. ASSUME NEW g \in 1..n + 1, NEW h \in 1..n + 1, g < h
       PROVE  \/ exception_stack'[g].frame_index < exception_stack'[h].frame_index
              \/ /\ exception_stack'[g].frame_index = exception_stack'[h].frame_index
                 /\ NextDepth(g) < NextDepth(h)
  <2>1. g \in 1..n
    BY <1>5, <1>10
  <2>2. CASE h \in 1..n
    BY <1>5, <1>7, <1>10, <2>1, <2>2, DisciplineElim
  <2>3. CASE h = n + 1
    BY <1>2, <1>3, <1>5, <1>6, <1>7, <2>1, <2>3
  <2>4. QED
    BY <1>8, <2>2, <2>3
<1>11. ASSUME NEW i \in 1..m, NEW d \in 0..DepthOf(frames'[i]) - 1
       PROVE  \E h \in 1..n + 1 : exception_stack'[h].frame_index = i /\ NextDepth(h) = d
  <2>1. CASE d \in 0..DepthOf(frames[i]) - 1
    <3>1. PICK h \in 1..n : exception_stack[h].frame_index = i /\ HandlerDepth(exception_stack[h]) = d
      BY <2>1, DisciplineElim
    <3>2. h \in 1..n + 1
      BY <1>5
    <3>3. QED
      BY <1>5, <1>7, <3>1, <3>2
  <2>2. CASE d \notin 0..DepthOf(frames[i]) - 1
    <3>1. i = m /\ d = DepthOf(frames[m])
      BY <1>2, <1>4, <2>2
    <3>2. n + 1 \in 1..n + 1
      BY <1>5
    <3>3. QED
      BY <1>3, <1>5, <1>6, <3>1, <3>2
  <2>3. QED
    BY <2>1, <2>2
<1>12. QED
  BY <1>1, <1>2, <1>5, <1>9, <1>10, <1>11, DisciplineIntro

(* The handler that a POP_EXCEPT pops is that of the body it closes. *)
LEMMA PopKeeps ==
  ASSUME HandlerInv, TypeOK', POP_EXCEPT
  PROVE  HandlerDiscipline' /\ HandlersInside' /\ InBounds'
<1> DEFINE n == Len(exception_stack)
           m == Len(frames)
<1>1. /\ Fetch("POP_EXCEPT") /\ code_objects' = code_objects
      /\ frames' = SetTop(Popped(0)) /\ exception_stack' = AllButLast(exception_stack)
  BY DEF POP_EXCEPT, program
<1>2. /\ m \in Nat \ {0} /\ Len(frames') = m
      /\ \A i \in 1..m :
           /\ frames'[i].code = frames[i].code /\ Within(frames'[i])
           /\ DepthOf(frames'[i]) = IF i # m THEN DepthOf(frames[i]) ELSE DepthOf(frames[i]) - 1
  BY <1>1, NextFrames
<1>3. \A i \in 1..m : DepthOf(frames[i]) \in Nat
  BY FrameFacts
<1>4. m \in 1..m /\ DepthOf(frames[m]) >= 1
  <2>1. /\ m \in 1..m /\ OpAt(frames[m].code, frames[m].ip) = "POP_EXCEPT"
    BY <1>1, LastFacts
  <2>2. BalancedAt(frames[m].code, frames[m].ip)
    BY <2>1, FrameFacts
  <2>3. QED
    BY <2>1, <2>2 DEF BalancedAt, DepthOf
<1>5. ASSUME NEW h \in 1..n
      PROVE  LET i == exception_stack[h].frame_index IN
             /\ i \in 1..m /\ HandlerDepth(exception_stack[h]) \in Nat
             /\ exception_stack[h].handler_ip \in DOMAIN code_objects[frames'[i].code].instructions
             /\ HandlerDepth(exception_stack[h]) < DepthOf(frames[i])
  BY <1>2, HandlerFacts
<1>6. n \in Nat \ {0} /\ n \in 1..n
      /\ exception_stack[n].frame_index = m
      /\ HandlerDepth(exception_stack[n]) = DepthOf(frames[m]) - 1
  <2>1. PICK h \in 1..n : /\ exception_stack[h].frame_index = m
                          /\ HandlerDepth(exception_stack[h]) = DepthOf(frames[m]) - 1
    <3>1. DepthOf(frames[m]) - 1 \in 0..DepthOf(frames[m]) - 1
      BY <1>3, <1>4
    <3>2. QED
      BY <1>4, <3>1, DisciplineElim
  <2>2. n \in Nat \ {0} /\ n \in 1..n
    BY <2>1, Lengths
  <2>3. /\ exception_stack[n].frame_index \in 1..m
        /\ HandlerDepth(exception_stack[n]) \in Nat
        /\ HandlerDepth(exception_stack[n]) < DepthOf(frames[exception_stack[n].frame_index])
    BY <1>5, <2>2
  <2>4. CASE h = n
    BY <2>1, <2>2, <2>4
  <2>5. CASE h < n
    <3>1. \/ m < exception_stack[n].frame_index
          \/ /\ m = exception_stack[n].frame_index
             /\ DepthOf(frames[m]) - 1 < HandlerDepth(exception_stack[n])
      BY <2>1, <2>2, <2>5, DisciplineElim
    <3>2. FALSE
      BY <1>2, <1>3, <1>4, <2>3, <3>1
    <3>3. QED
      BY <3>2
  <2>6. QED
    BY <2>2, <2>4, <2>5
<1>7. Len(exception_stack') = n - 1 /\ \A h \in 1..n - 1 : exception_stack'[h] = exception_stack[h]
  BY <1>1, <1>6, Lengths, EmptySeq, AllButLastType
<1>8. ASSUME NEW h \in 1..n - 1
      PROVE  LET i == exception_stack'[h].frame_index IN
             /\ h \in 1..n /\ i \in 1..m
             /\ exception_stack'[h].handler_ip \in DOMAIN code_objects[frames'[i].code].instructions
             /\ NextDepth(h) = HandlerDepth(exception_stack[h])
             /\ NextDepth(h) < DepthOf(frames'[i])
  <2> DEFINE i == exception_stack[h].frame_index
  <2>1. h \in 1..n /\ h < n /\ exception_stack'[h] = exception_stack[h]
    BY <1>6, <1>7
  <2>2. /\ i \in 1..m /\ HandlerDepth(exception_stack[h]) \in Nat
        /\ HandlerDepth(exception_stack[h]) < DepthOf(frames[i])
    BY <1>5, <2>1
  <2>3. NextDepth(h) = HandlerDepth(exception_stack[h])
    BY <1>2, <2>1, <2>2, KeptDepth
  <2>4. i = m => HandlerDepth(exception_stack[h]) < DepthOf(frames[m]) - 1
    BY <1>2, <1>6, <2>1, DisciplineElim
  <2>5. HandlerDepth(exception_stack[h]) < DepthOf(frames'[i])
    BY <1>2, <2>2, <2>4
  <2>6. QED
    BY <1>5, <2>1, <2>2, <2>3, <2>5
<1>9. ASSUME NEW g \in 1..n - 1, NEW h \in 1..n - 1, g < h
      PROVE  \/ exception_stack'[g].frame_index < exception_stack'[h].frame_index
             \/ /\ exception_stack'[g].frame_index = exception_stack'[h].frame_index
                /\ NextDepth(g) < NextDepth(h)
  <2>1. /\ g \in 1..n /\ h \in 1..n
        /\ NextDepth(g) = HandlerDepth(exception_stack[g])
        /\ NextDepth(h) = HandlerDepth(exception_stack[h])
        /\ exception_stack'[g] = exception_stack[g] /\ exception_stack'[h] = exception_stack[h]
    BY <1>7, <1>8
  <2>2. QED
    BY <1>9, <2>1, DisciplineElim
<1>10. ASSUME NEW i \in 1..m, NEW d \in 0..DepthOf(frames'[i]) - 1
       PROVE  \E h \in 1..n - 1 : exception_stack'[h].frame_index = i /\ NextDepth(h) = d
  <2>1. d \in 0..DepthOf(frames[i]) - 1 /\ (i = m => d # DepthOf(frames[m]) - 1)
    BY <1>2, <1>3
  <2>2. PICK h \in 1..n : exception_stack[h].frame_index = i /\ HandlerDepth(exception_stack[h]) = d
    BY <2>1, DisciplineElim
  <2>3. h # n
    BY <1>6, <2>1, <2>2
  <2>4. h \in 1..n - 1
    BY <1>6, <2>3
  <2>5. QED
    BY <1>7, <1>8, <2>2, <2>4
<1>11. \A h \in 1..n - 1 : exception_stack'[h].frame_index <= m
  BY <1>2, <1>8
<1>12. QED
  BY <1>1, <1>2, <1>7, <1>8, <1>9, <1>10, <1>11, DisciplineIntro

LEMMA StepDiscipline ==
  ASSUME HandlerInv, TypeOK', [Next]_vars
  PROVE  HandlerDiscipline' /\ HandlersInside' /\ InBounds'
  BY StepCalm, CalmKeeps, UnwindKeeps, SetupKeeps, PopKeeps

-------------------------------------------------------------------------------
(* Generators stop at a yield, outside of any try body. *)

LEMMA StepAtRest ==
  ASSUME HandlerInv, [Next]_vars
  PROVE  GeneratorsAtRest'
<1>1. TypeOK /\ Balanced /\ GeneratorsAtRest /\ GeneratorsRunFunctions
  BY DEF HandlerInv, NestingInv
<1>2. UNCHANGED code_objects
  BY <1>1, StepTrimsOrPushes DEF Trims, Pushes
<1>3. ASSUME NEW g \in 1..Len(generators')
      PROVE  Within(generators'[g]) /\ DepthOf(generators'[g]) = 0
  <2>1. CASE /\ g \in 1..Len(generators)
             /\ generators'[g].code = generators[g].code /\ generators'[g].ip = generators[g].ip
    BY <1>1, <2>1 DEF GeneratorsAtRest, Within, DepthOf
  <2>2. CASE generators'[g].code \in FunctionCode /\ generators'[g].ip = 1
    BY <1>1, <2>2, FunctionCodes, FirstInstr DEF TypeOK, Within, DepthOf
  <2>3. CASE /\ Fetch("YIELD_VALUE")
             /\ generators'[g].code = frame.code /\ generators'[g].ip = frame.ip + 1
    <3> DEFINE f == Popped(1)
    <3>1. Continues(f, frame) /\ f.ip = frame.ip + 1
      BY <2>3, LastFacts, PoppedFields
    <3> HIDE DEF f
    <3>2. Within(f) /\ DepthOf(f) = DepthOf(frame)
      BY <2>3, <3>1, Forward
    <3>3. DepthOf(frame) = 0
      BY <2>3, LastFacts, FrameFacts DEF BalancedAt, Leaves, DepthOf
    <3>4. QED
      BY <2>3, <3>1, <3>2, <3>3 DEF Within, DepthOf, Continues
  <2>4. QED
    BY <1>1, <2>1, <2>2, <2>3, StepGenerator
<1>4. \A g : /\ Within(generators[g])' = Within(generators'[g])
             /\ DepthOf(generators[g])' = DepthOf(generators'[g])
  BY <1>2 DEF Within, DepthOf, TryDepth, Before, OpAt, InstrAt
<1> HIDE DEF Within, DepthOf
<1>5. QED
  BY <1>3, <1>4 DEF GeneratorsAtRest

(* Code with a HALT begins with a call of the loop. *)
LEMMA StepHalts ==
  ASSUME HandlerInv, [Next]_vars
  PROVE  HaltsFirst'
<1>1. TypeOK /\ Balanced
  BY DEF HandlerInv, NestingInv
<1>2. UNCHANGED code_objects
  BY <1>1, StepTrimsOrPushes DEF Trims, Pushes
<1>3. ASSUME NEW i \in 1..Len(frames'), ~NoHalt(frames'[i].code)
      PROVE  \E a \in 1..Len(activations') :
               activations'[a].kind \in {"run", "import"} /\ activations'[a].target = i - 1
  <2>1. CASE i \in 1..Len(frames) /\ Continues(frames'[i], frames[i])
    <3>1. PICK a \in 1..Len(activations) :
            activations[a].kind \in {"run", "import"} /\ activations[a].target = i - 1
      BY <1>3, <2>1 DEF HandlerInv, HaltsFirst, Continues
    <3>2. SUFFICES a \in 1..Len(activations') /\ activations'[a] = activations[a]
      BY <3>1
    <3>3. Len(activations) \in Nat \ {0} /\ Activation = activations[Len(activations)]
      BY <1>1, CallsThere
    <3>4. CASE Quiet
      BY <3>4 DEF Quiet
    <3>5. ASSUME NEW kind, NEW m, Begins(kind, m)
          PROVE  a \in 1..Len(activations') /\ activations'[a] = activations[a]
      BY <1>1, <3>3, <3>5, BegunCalls
    <3>6. CASE Ends
      <4>1. a # Len(activations)
        <5>1. SUFFICES ASSUME a = Len(activations)  PROVE FALSE
          OBVIOUS
        <5>2. Activation.kind = "import" /\ Activation.target = i - 1
          BY <3>1, <3>3, <3>6, <5>1 DEF Ends
        <5>3. Len(frames') = i - 1 /\ Len(frames') \in Nat
          BY <1>1, <3>6, <5>2, StepFrame DEF Ends, StayUpTo
        <5>4. QED
          BY <5>3
      <4>2. a \in 1..Len(activations) - 1
        BY <3>3, <4>1
      <4>3. QED
        BY <1>1, <3>3, <3>6, <4>2, LeftCalls
    <3>7. QED
      BY <1>1, <3>4, <3>5, <3>6, StepNests
  <2>2. CASE i = Len(frames) + 1 /\ Pushes /\ Entered(frames'[i])
    <3>1. frames'[i].code \notin FunctionCode
      BY <1>1, <1>3, FunctionsReturn
    <3>2. Instr[1] = "IMPORT_NAME"
      BY <2>2, <3>1 DEF Entered, HandlerInv, GeneratorsRunFunctions
    <3>3. Begins("import", Len(modules) + 1)
      BY <1>1, <2>2, <3>2, ImportPushes
    <3>4. /\ Len(activations') = Len(activations) + 1
          /\ activations'[Len(activations) + 1].kind = "import"
          /\ activations'[Len(activations) + 1].target = Len(frames)
      BY <1>1, <3>3, BegunCalls
    <3>5. Len(activations) + 1 \in 1..Len(activations') /\ i - 1 = Len(frames)
      BY <1>1, <2>2, <3>4, CallsThere, LenProperties DEF TypeOK
    <3>6. QED
      BY <3>4, <3>5
  <2>3. QED
    BY <1>1, <2>1, <2>2, StepFrame
<1>4. QED
  BY <1>2, <1>3, DepthsStay DEF HaltsFirst

-------------------------------------------------------------------------------
(* The theorem. *)

LEMMA StepHandlers == HandlerInv /\ [Next]_vars => HandlerInv'
<1> SUFFICES ASSUME HandlerInv, [Next]_vars  PROVE HandlerInv'
  OBVIOUS
<1>1. NestingInv /\ TypeOK /\ CallersWait /\ Balanced /\ GeneratorsRunFunctions
  BY DEF HandlerInv, NestingInv
<1>2. NestingInv' /\ CallersWait' /\ TypeOK' /\ GeneratorsRunFunctions'
  BY <1>1, StepNesting, StepWaits, StepType, StepRunFunctions
<1>3. Balanced'
  BY <1>1, StepTrimsOrPushes, DepthsStay DEF Trims, Pushes
<1>4. QED
  BY <1>2, <1>3, StepDiscipline, StepAtRest, StepHalts DEF HandlerInv

LEMMA InitHandlers == Init /\ Balanced => HandlerInv
<1> SUFFICES ASSUME Init, Balanced  PROVE HandlerInv
  OBVIOUS
<1>1. /\ frames = <<NewFrame(1, NoLocals, 0, Unset)>> /\ exception_stack = << >>
      /\ activations = <<[kind |-> "run", target |-> 0, module |-> 0]>>
      /\ generators = << >>
  BY DEF Init, Start
<1>2. NestingInv /\ CallersWait /\ TypeOK
  BY InitNests, InitWaits DEF NestingInv
<1>3. Len(frames) = 1 /\ frames[1].code = 1 /\ frames[1].ip = 1 /\ frames[1].gen = 0
  BY <1>1 DEF NewFrame
<1>4. frames[1].code \in 1..Len(code_objects)
  <2>1. 1 \in 1..Len(frames)
    BY <1>3
  <2>2. frames[1] \in Frames
    BY <1>2, <2>1, ElementOfSeq DEF TypeOK
  <2>3. QED
    BY <2>2 DEF Frames
<1>5. 1 \in DOMAIN code_objects[1].instructions /\ TryDepth(1, 1) = 0
  BY <1>2, <1>3, <1>4, FirstInstr
<1>6. InBounds
  BY <1>3, <1>5 DEF InBounds
<1>7. HaltsFirst
  <2>1. /\ 1 \in 1..Len(activations) /\ activations[1].kind = "run"
        /\ activations[1].target = 0
    BY <1>1
  <2>2. QED
    BY <1>3, <2>1 DEF HaltsFirst
<1>8. HandlersInside /\ HandlersLive /\ HandlersInOrder
  BY <1>1 DEF HandlersInside, HandlersLive, HandlersInOrder
<1>9. HandlersComplete
  BY <1>3, <1>5 DEF HandlersComplete, FrameDepth
<1>10. GeneratorsAtRest /\ GeneratorsRunFunctions
  BY <1>1, <1>3 DEF GeneratorsAtRest, GeneratorsRunFunctions
<1>11. QED
  BY <1>2, <1>6, <1>7, <1>8, <1>9, <1>10 DEF HandlerInv, HandlerDiscipline

(* In balanced code, whatever generators, imports, methods and exceptions do,
   the handler stack is the try bodies around the running frames, outermost
   first: raise_exception always goes to the innermost try statement of a frame
   that is still there, and POP_EXCEPT pops the handler of its own.           *)
THEOREM HandlersAlwaysRight == Spec /\ Balanced => []HandlerDiscipline
<1>1. HandlerInv => HandlerDiscipline
  BY DEF HandlerInv
<1>2. QED
  BY <1>1, InitHandlers, StepHandlers, PTL DEF Spec

(* And no instruction pointer ever leaves its code. *)
THEOREM AlwaysInBounds == Spec /\ Balanced => []InBounds
<1>1. HandlerInv => InBounds
  BY DEF HandlerInv
<1>2. QED
  BY <1>1, InitHandlers, StepHandlers, PTL DEF Spec

=============================================================================
