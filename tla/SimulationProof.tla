--------------------------- MODULE SimulationProof ---------------------------
(***************************************************************************)
(* Proofs about module Simulation, for any clock periods, frame times, dump     *)
(* lengths and memories: the clock owes no more than the time that has passed,   *)
(* the dump controller and the trace file agree, and the inspector stays inside   *)
(* the memory it shows.                                                      *)
(***************************************************************************)
EXTENDS Simulation, TLAPS

Phases == {"time", "ticks", "dump", "render", "panels", "ended"}

TypeInv ==
  /\ phase \in Phases
  /\ is_auto \in BOOLEAN /\ is_prev_auto \in BOOLEAN
  /\ clk_period \in Periods
  /\ accumulator \in Nat /\ exec_step \in Nat /\ lag \in Nat
  /\ ran \in 0 .. MaxDebt

(* Ticks run in automatic mode only, and what is owed is the time that passed.    *)
DebtInv ==
  /\ phase = "ticks" => is_prev_auto
  /\ NoCatchUp

ClockInv == TypeInv /\ DebtInv

(* An open file is known to the dump controller; the converse holds from its      *)
(* update to the next tick.                                                   *)
DumpTypes == /\ trace \in [open : BOOLEAN, proc : Int, remn : Int]
             /\ is_dumping \in BOOLEAN /\ req_dump \in BOOLEAN /\ dump_length \in Int

DumpInv == DumpTypes /\ (trace.open => is_dumping \/ phase = "ended") /\ DumpFlagAgrees

-----------------------------------------------------------------------------
LEMMA MinOfTwo ==
  ASSUME NEW a \in Int, NEW b \in Int
  PROVE  Min({a, b}) \in {a, b} /\ Min({a, b}) <= a /\ Min({a, b}) <= b
<1>1. \E x \in {a, b} : \A y \in {a, b} : x <= y
  <2>1. CASE a <= b
    BY <2>1
  <2>2. CASE b <= a
    BY <2>2
  <2>3. QED
    BY <2>1, <2>2
<1>2. QED
  BY <1>1 DEF Min

(* The end of a frame adds to what is owed no more than the time it took.         *)
LEMMA FrameTime ==
  ASSUME ClockInv, NEW d \in FrameTimes,
         lag' = Min({lag + d, MaxDebt - accumulator}),
         ran' = Min({ran + d, MaxDebt})
  PROVE  /\ lag' \in Nat /\ ran' \in 0 .. MaxDebt
         /\ is_prev_auto => accumulator + lag' <= ran'
<1>1. d \in Nat /\ MaxDebt \in Nat
  BY TimesAssumption, PeriodsAssumption
<1>2. accumulator \in Nat /\ lag \in Nat /\ ran \in 0 .. MaxDebt /\ accumulator <= MaxDebt
  BY <1>1 DEF ClockInv, TypeInv, DebtInv, NoCatchUp
<1> DEFINE more == lag + d
           room == MaxDebt - accumulator
           past == ran + d
<1>3. lag' \in {more, room} /\ lag' <= more /\ lag' <= room
  <2>1. more \in Int /\ room \in Int
    BY <1>1, <1>2
  <2>2. lag' = Min({more, room})
    OBVIOUS
  <2> HIDE DEF more, room
  <2>3. QED
    BY <2>1, <2>2, MinOfTwo
<1>4. ran' \in {past, MaxDebt} /\ ran' <= MaxDebt
  <2>1. past \in Int /\ MaxDebt \in Int
    BY <1>1, <1>2
  <2>2. ran' = Min({past, MaxDebt})
    OBVIOUS
  <2> HIDE DEF past
  <2>3. QED
    BY <2>1, <2>2, MinOfTwo
<1>5. is_prev_auto => accumulator + lag <= ran
  BY DEF ClockInv, DebtInv, NoCatchUp
<1>6. QED
  BY <1>1, <1>2, <1>3, <1>4, <1>5

LEMMA ClockInit == Init => ClockInv
<1>1. MaxDebt \in Nat
  BY PeriodsAssumption
<1>2. Init => ~is_prev_auto /\ phase # "ticks" /\ accumulator = 0 /\ exec_step = 0
  BY DEF Init
<1>3. Init => phase \in Phases /\ is_auto \in BOOLEAN /\ is_prev_auto \in BOOLEAN
  BY Zenon DEF Init, Phases
<1>4. Init => clk_period \in Periods /\ lag = MaxDebt /\ ran = 0
  BY Zenon DEF Init
<1>5. Init => TypeInv
  BY <1>1, <1>2, <1>3, <1>4 DEF TypeInv
<1>6. QED
  BY <1>2, <1>5 DEF ClockInv, DebtInv, NoCatchUp

(* The actions that leave time alone.                                         *)
LEMMA ClockKept ==
  ASSUME ClockInv,
         UNCHANGED <<is_prev_auto, accumulator, exec_step, lag, ran, clk_period>>,
         is_auto' \in BOOLEAN, phase' \in Phases \ {"ticks"}
  PROVE  ClockInv'
  BY DEF ClockInv, TypeInv, DebtInv, NoCatchUp

LEMMA ClockStep == ClockInv /\ [Next]_vars => ClockInv'
<1> SUFFICES ASSUME ClockInv, [Next]_vars PROVE ClockInv'
  OBVIOUS
<1>0. MaxDebt \in Nat /\ clk_period \in 1 .. MaxDebt /\ ran \in Nat
  BY PeriodsAssumption DEF ClockInv, TypeInv
<1>1. CASE ResetFrame
  BY <1>1 DEF ResetFrame, ClockInv, TypeInv, DebtInv, NoCatchUp, Phases
<1>2. CASE PausedFrame
  <2>1. ~is_prev_auto' /\ phase' = "dump" /\ accumulator' = 0 /\ exec_step' = 0
    BY <1>2 DEF PausedFrame
  <2>2. UNCHANGED <<is_auto, clk_period, lag>> /\ ran' = 0 /\ is_prev_auto' \in BOOLEAN
    BY <1>2, Zenon DEF PausedFrame
  <2>3. TypeInv'
    BY <1>0, <2>1, <2>2 DEF ClockInv, TypeInv, Phases
  <2>4. QED
    BY <2>1, <2>3 DEF ClockInv, DebtInv, NoCatchUp
<1>3. CASE StepFrame
  BY <1>0, <1>3 DEF StepFrame, StepAllowed, ClockInv, TypeInv, DebtInv, NoCatchUp, Phases
<1>4. CASE AutoFrame
  <2>1. Delta \in Nat /\ (~is_prev_auto => Delta = 0) /\ (is_prev_auto => Delta = lag)
    BY DEF Delta, ClockInv, TypeInv
  <2>2. Owed \in Nat /\ Owed <= ran
    BY <1>0, <2>1 DEF Owed, ClockInv, TypeInv, DebtInv, NoCatchUp
  <2>3. QED
    BY <1>0, <1>4, <2>2 DEF AutoFrame, ClockInv, TypeInv, DebtInv, NoCatchUp, Phases
<1>5. CASE Tick
  BY <1>0, <1>5 DEF Tick, Due, ClockInv, TypeInv, DebtInv, NoCatchUp, Phases, dumpVars, memVars
<1>6. CASE EndTicks \/ KeepDump \/ StartDump \/ RenderInspector \/ TickThrows \/ Quit \/ Ended
  <2>1. UNCHANGED <<is_prev_auto, accumulator, exec_step, lag, ran, clk_period>>
    BY <1>6 DEF EndTicks, KeepDump, StartDump, RenderInspector, TickThrows, Quit, Ended,
                timeVars, vars
  <2>2. is_auto' \in BOOLEAN /\ phase' \in Phases \ {"ticks"}
    BY <1>6 DEF EndTicks, KeepDump, StartDump, RenderInspector, TickThrows, Quit, Ended,
                timeVars, vars, ClockInv, TypeInv, Phases
  <2>3. QED
    BY <2>1, <2>2, ClockKept
<1>7. CASE UserInput
  <2>1. /\ EndFrame
        /\ is_auto' \in BOOLEAN /\ clk_period' \in Periods
    BY <1>7 DEF UserInput, NoInput, ClickAuto, ClickStep, ClickReset, MoveClock, ClickDump,
                ClockInv, TypeInv
  <2>2. PICK d \in FrameTimes : /\ lag' = Min({lag + d, MaxDebt - accumulator})
                                /\ ran' = Min({ran + d, MaxDebt})
    BY <2>1 DEF EndFrame
  <2>3. /\ lag' \in Nat /\ ran' \in 0 .. MaxDebt
        /\ is_prev_auto => accumulator + lag' <= ran'
    BY <2>2, FrameTime
  <2>4. UNCHANGED <<is_prev_auto, accumulator, exec_step>> /\ phase' \in {"time", "ended"}
    BY <2>1 DEF EndFrame
  <2>5. QED
    BY <2>1, <2>3, <2>4 DEF ClockInv, TypeInv, DebtInv, NoCatchUp, Phases
<1>8. CASE UNCHANGED vars
  BY <1>8 DEF vars, timeVars, ClockInv, TypeInv, DebtInv, NoCatchUp
<1>9. QED
  BY <1>1, <1>2, <1>3, <1>4, <1>5, <1>6, <1>7, <1>8 DEF Next, Frame

(* The simulation does not catch up on time in which it was paused               *)
(* (time_controller.cpp:21-57), however long the frames are.                   *)
THEOREM NeverCatchesUp == Spec => []NoCatchUp
<1>1. ClockInv => NoCatchUp
  BY DEF ClockInv, DebtInv
<1>2. QED
  BY <1>1, ClockInit, ClockStep, PTL DEF Spec

-----------------------------------------------------------------------------
LEMMA SampleKeepsShut ==
  ASSUME NEW t \in [open : BOOLEAN, proc : Int, remn : Int]
  PROVE  /\ Update(t) \in [open : BOOLEAN, proc : Int, remn : Int]
         /\ Closed(t) \in [open : BOOLEAN, proc : Int, remn : Int] /\ ~Closed(t).open
         /\ Update(t).open => t.open
<1>1. \A u \in [open : BOOLEAN, proc : Int, remn : Int] :
        /\ DumpStep(u) \in [open : BOOLEAN, proc : Int, remn : Int]
        /\ DumpStep(u).open => u.open
  BY DEF DumpStep
<1>2. QED
  BY <1>1 DEF Update, Closed

LEMMA DumpInit == Init => DumpInv
<1>1. Init => ~trace.open /\ phase = "time"
  BY DEF Init
<1>2. Init => is_dumping \in BOOLEAN /\ req_dump \in BOOLEAN /\ dump_length = 0
  BY Zenon DEF Init
<1>3. Init => trace = [open |-> FALSE, proc |-> 0, remn |-> 0]
  BY Zenon DEF Init
<1>4. Init => DumpTypes
  <2>1. [open |-> FALSE, proc |-> 0, remn |-> 0] \in [open : BOOLEAN, proc : Int, remn : Int]
        /\ 0 \in Int
    OBVIOUS
  <2>2. QED
    BY <1>2, <1>3, <2>1, Zenon DEF DumpTypes
<1>5. QED
  BY <1>1, <1>4 DEF DumpInv, DumpFlagAgrees

LEMMA DumpStepInv == DumpInv /\ [Next]_vars => DumpInv'
<1> SUFFICES ASSUME DumpInv, [Next]_vars PROVE DumpInv'
  OBVIOUS
<1> USE DEF DumpInv, DumpTypes, DumpFlagAgrees
<1>0. /\ Update(trace) \in [open : BOOLEAN, proc : Int, remn : Int]
      /\ Update(trace).open => trace.open
      /\ Closed(trace) \in [open : BOOLEAN, proc : Int, remn : Int]
      /\ ~Closed(trace).open
  BY SampleKeepsShut
<1>1. CASE ResetFrame \/ PausedFrame \/ StepFrame \/ AutoFrame \/ Tick \/ EndTicks
  <2>1. trace' \in {trace, Update(trace)} /\ phase' \in {"dump", "ticks"} /\ UNCHANGED dumpVars
    BY <1>1 DEF ResetFrame, PausedFrame, StepFrame, AutoFrame, Tick, EndTicks, Due
  <2>2. phase # "ended"
    BY <1>1 DEF ResetFrame, PausedFrame, StepFrame, AutoFrame, Tick, EndTicks, Due
  <2>3. QED
    BY <1>0, <2>1, <2>2 DEF dumpVars
<1>2. CASE TickThrows
  <2>1. ~Closed(Update(trace)).open
        /\ Closed(Update(trace)) \in [open : BOOLEAN, proc : Int, remn : Int]
    BY <1>0, SampleKeepsShut
  <2>2. QED
    BY <1>2, <2>1 DEF TickThrows, dumpVars
<1>3. CASE StartDump
  <2>1. PICK opened \in BOOLEAN : trace' = Started(opened) /\ is_dumping' = opened
    BY <1>3 DEF StartDump
  <2>2. trace'.open = opened /\ trace' \in [open : BOOLEAN, proc : Int, remn : Int]
    BY <2>1 DEF Started
  <2>3. phase' = "render" /\ dump_length' = dump_length
    BY <1>3 DEF StartDump
  <2>4. req_dump' \in BOOLEAN
    BY <1>3, Zenon DEF StartDump
  <2>5. QED
    BY <2>1, <2>2, <2>3, <2>4
<1>4. CASE KeepDump
  BY <1>4 DEF KeepDump, DumpIsOver
<1>5. CASE RenderInspector
  BY <1>5 DEF RenderInspector, dumpVars
<1>6. CASE UserInput
  <2>1. EndFrame /\ req_dump' \in {req_dump, TRUE}
    BY <1>6, Zenon DEF UserInput, NoInput, ClickAuto, ClickStep, ClickReset, MoveClock, ClickDump
  <2>2. req_dump' \in BOOLEAN
    BY <2>1, Zenon
  <2>3. dump_length' \in {dump_length} \union Lengths
    BY <1>6, Zenon DEF UserInput, NoInput, ClickAuto, ClickStep, ClickReset, MoveClock, ClickDump
  <2>4. dump_length' \in Int
    BY <2>3, LengthsAssumption
  <2>5. is_dumping' = is_dumping /\ phase = "panels" /\ phase' \in {"time", "ended"}
        /\ trace' \in {trace, Closed(trace)}
    BY <2>1 DEF EndFrame
  <2>6. QED
    BY <1>0, <2>2, <2>4, <2>5
<1>7. CASE Quit \/ Ended \/ UNCHANGED vars
  BY <1>7 DEF Quit, Ended, vars, dumpVars
<1>8. QED
  BY <1>1, <1>2, <1>3, <1>4, <1>5, <1>6, <1>7 DEF Next, Frame

(* The panels show the dump exactly as long as the file is open                 *)
(* (dump_controller.cpp:5-21), whatever is dumped and for how long.             *)
THEOREM FlagAgrees == Spec => []DumpFlagAgrees
<1>1. DumpInv => DumpFlagAgrees
  BY DEF DumpInv
<1>2. QED
  BY <1>1, DumpInit, DumpStepInv, PTL DEF Spec

-----------------------------------------------------------------------------
(* The samples written and the samples to come make up the length of the dump.   *)
Whole(t) == t.open => /\ t.proc + t.remn = dump_length /\ t.proc \in Nat
                      /\ t.proc > 0 => t.remn > 0

TraceInv == DumpInv /\ Whole(trace)

LEMMA MaxOfTwo ==
  ASSUME NEW a \in Int, NEW b \in Int
  PROVE  Max({a, b}) = IF a >= b THEN a ELSE b
<1>1. \E m \in {a, b} : \A y \in {a, b} : m >= y
  OBVIOUS
<1>2. Max({a, b}) \in {a, b} /\ \A y \in {a, b} : Max({a, b}) >= y
  BY <1>1 DEF Max
<1>3. QED
  BY <1>2

(* A sample leaves the file open and whole, or closes it at its full length.      *)
LEMMA SampleIsWhole ==
  ASSUME NEW t \in [open : BOOLEAN, proc : Int, remn : Int], Whole(t), dump_length \in Int
  PROVE  /\ Whole(DumpStep(t))
         /\ t.open /\ ~DumpStep(t).open => DumpStep(t).proc = Max({1, dump_length})
<1>1. t.open \in BOOLEAN /\ t.proc \in Int /\ t.remn \in Int
  OBVIOUS
<1>2. CASE ~t.open
  BY <1>2 DEF DumpStep, Whole
<1>3. CASE t.open
  <2>1. t.proc + t.remn = dump_length /\ t.proc >= 0 /\ (t.proc > 0 => t.remn > 0)
    BY <1>1, <1>3 DEF Whole
  <2>2. DumpStep(t) = [open |-> t.remn > 1, proc |-> t.proc + 1, remn |-> t.remn - 1]
    BY <1>3 DEF DumpStep
  <2>3. DumpStep(t).proc = t.proc + 1 /\ DumpStep(t).remn = t.remn - 1
    BY <2>2
  <2>4. DumpStep(t).open <=> t.remn > 1
    BY <1>1, <1>3 DEF DumpStep
  <2>5. Whole(DumpStep(t))
    BY <1>1, <2>1, <2>3, <2>4 DEF Whole
  <2>6. ASSUME ~DumpStep(t).open PROVE DumpStep(t).proc = Max({1, dump_length})
    <3>1. t.remn <= 1
      BY <1>1, <2>4, <2>6
    <3>2. t.proc + 1 = IF 1 >= dump_length THEN 1 ELSE dump_length
      BY <1>1, <2>1, <3>1
    <3>3. QED
      BY <1>1, <2>3, <3>2, MaxOfTwo
  <2>7. QED
    BY <2>5, <2>6
<1>4. QED
  BY <1>1, <1>2, <1>3

LEMMA CycleIsWhole ==
  ASSUME TraceInv
  PROVE  /\ Whole(Update(trace))
         /\ trace.open /\ ~Update(trace).open => Update(trace).proc = Max({1, dump_length})
<1>1. trace \in [open : BOOLEAN, proc : Int, remn : Int] /\ dump_length \in Int /\ Whole(trace)
  BY DEF TraceInv, DumpInv, DumpTypes
<1> DEFINE half == DumpStep(trace)
<1>2. half \in [open : BOOLEAN, proc : Int, remn : Int]
  BY <1>1 DEF DumpStep
<1>3. Whole(half) /\ (trace.open /\ ~half.open => half.proc = Max({1, dump_length}))
  BY <1>1, SampleIsWhole
<1>4. Update(trace) = DumpStep(half) /\ (~half.open => DumpStep(half) = half)
  BY DEF Update, DumpStep
<1> HIDE DEF half
<1>5. Whole(DumpStep(half))
      /\ (half.open /\ ~DumpStep(half).open => DumpStep(half).proc = Max({1, dump_length}))
  BY <1>1, <1>2, <1>3, SampleIsWhole
<1>6. QED
  BY <1>3, <1>4, <1>5

LEMMA TraceInit == Init => TraceInv
<1>1. Init => trace = [open |-> FALSE, proc |-> 0, remn |-> 0]
  BY Zenon DEF Init
<1>2. QED
  BY <1>1, DumpInit DEF TraceInv, Whole

(* What a step does to the file; only a cycle of the machine writes to it.         *)
LEMMA TraceStep ==
  TraceInv /\ [Next]_vars =>
    /\ Whole(trace)'
    /\ trace.open /\ ~trace'.open /\ phase' # "ended" => trace'.proc = Max({1, dump_length})
<1> SUFFICES ASSUME TraceInv, [Next]_vars
             PROVE  /\ Whole(trace)'
                    /\ trace.open /\ ~trace'.open /\ phase' # "ended"
                         => trace'.proc = Max({1, dump_length})
  OBVIOUS
<1>0. /\ trace \in [open : BOOLEAN, proc : Int, remn : Int] /\ Whole(trace)
      /\ dump_length \in Int /\ ~Closed(trace).open
  BY SampleKeepsShut DEF TraceInv, DumpInv, DumpTypes
<1>1. CASE ResetFrame \/ StepFrame \/ Tick
  <2>1. trace' = Update(trace) /\ dump_length' = dump_length
    BY <1>1 DEF ResetFrame, StepFrame, Tick, dumpVars
  <2>2. QED
    BY <2>1, CycleIsWhole DEF Whole
<1>2. CASE PausedFrame \/ AutoFrame \/ EndTicks \/ RenderInspector \/ Quit \/ Ended \/ KeepDump
           \/ UNCHANGED vars
  <2>1. UNCHANGED <<trace, dump_length>>
    BY <1>2 DEF PausedFrame, AutoFrame, EndTicks, RenderInspector, Quit, Ended, KeepDump, vars,
                dumpVars
  <2>2. QED
    BY <1>0, <2>1 DEF Whole
<1>3. CASE TickThrows
  <2>1. ~trace'.open /\ phase' = "ended"
    BY <1>0, <1>3, SampleKeepsShut DEF TickThrows
  <2>2. QED
    BY <2>1 DEF Whole
<1>4. CASE StartDump
  <2>1. ~trace.open /\ dump_length' = dump_length
    BY <1>4 DEF StartDump, TraceInv, DumpInv
  <2>2. PICK opened \in BOOLEAN : trace' = Started(opened)
    BY <1>4, <2>1 DEF StartDump
  <2>3. trace'.proc = 0 /\ trace'.remn = dump_length
    BY <2>2 DEF Started
  <2>4. QED
    BY <1>0, <2>1, <2>3 DEF Whole
<1>5. CASE UserInput
  <2>1. EndFrame
    BY <1>5 DEF UserInput, NoInput, ClickAuto, ClickStep, ClickReset, MoveClock, ClickDump
  <2>2. phase = "panels" /\ (\/ phase' = "ended" /\ trace' = Closed(trace)
                             \/ trace' = trace)
    BY <2>1 DEF EndFrame
  <2>3. trace.open => dump_length' = dump_length
    <3>1. trace.open => is_dumping
      BY <2>2 DEF TraceInv, DumpInv
    <3>2. dump_length' = dump_length \/ ~is_dumping
      BY <1>5 DEF UserInput, NoInput, ClickAuto, ClickStep, ClickReset, MoveClock, ClickDump,
                  MayRequest
    <3>3. QED
      BY <3>1, <3>2
  <2>4. QED
    BY <1>0, <2>2, <2>3 DEF Whole
<1>6. QED
  BY <1>1, <1>2, <1>3, <1>4, <1>5 DEF Next, Frame

(* A trace is closed at the length that was asked for, and by nothing but its     *)
(* last sample or the end of the program (verilated_container.cpp:132-141),      *)
(* for dumps of any length and whatever the user does meanwhile.                *)
THEOREM DumpsAreWhole == Spec => TraceIsWhole
<1>1. TraceInv /\ [Next]_vars => TraceInv'
  BY TraceStep, DumpStepInv DEF TraceInv
<1>2. TraceInv /\ [Next]_vars =>
        [trace.open /\ ~trace'.open /\ phase' # "ended" =>
           trace'.proc = Max({1, dump_length})]_vars
  BY TraceStep
<1>3. QED
  BY <1>1, <1>2, TraceInit, PTL DEF Spec, TraceIsWhole

-----------------------------------------------------------------------------
(* The offset is one at which a window of Height rows ends inside the section.     *)
Offsets(s) == {o \in 0 .. OffsetMax(s) : o % Width = 0}

InspectorInv == mem_sec \in Sections /\ mem_offset \in Offsets(mem_sec)

LEMMA MultipleMod ==
  ASSUME NEW w \in Nat \ {0}, NEW k \in Int
  PROVE  (k * w) % w = 0
  BY Z3

LEMMA Quotient ==
  ASSUME NEW a \in Nat, NEW w \in Nat \ {0}
  PROVE  /\ a \div w \in Nat /\ a - (a % w) = (a \div w) * w /\ a % w \in 0 .. w - 1
         /\ a % w = 0 => a = (a \div w) * w
<1>1. a = w * (a \div w) + (a % w) /\ a \div w \in Nat /\ a % w \in 0 .. w - 1
  OBVIOUS
<1>2. QED
  BY <1>1

(* Between two multiples lies a whole one.                                      *)
LEMMA NextMultiple ==
  ASSUME NEW w \in Nat \ {0}, NEW j \in Nat, NEW k \in Nat, k * w < j * w
  PROVE  k * w + w <= j * w
<1>1. k < j
  <2>1. CASE k >= j
    BY <2>1
  <2>2. QED
    BY <2>1
<1>2. (k + 1) * w <= j * w
  BY <1>1
<1>3. QED
  BY <1>2

LEMMA OffsetMaxFits ==
  ASSUME NEW s \in Sections
  PROVE  OffsetMax(s) \in Nat /\ OffsetMax(s) % Width = 0
<1>1. /\ Width \in Nat \ {0} /\ Height \in Nat \ {0}
      /\ SizeOf[s] \in Nat /\ SizeOf[s] % Width = 0 /\ SizeOf[s] >= Width * Height
  BY WindowAssumption
<1>2. SizeOf[s] = (SizeOf[s] \div Width) * Width /\ SizeOf[s] \div Width \in Nat
  BY <1>1, Quotient, Zenon
<1> DEFINE q == SizeOf[s] \div Width - Height
<1>3. q \in Int /\ OffsetMax(s) = q * Width /\ OffsetMax(s) >= 0
  BY <1>1, <1>2 DEF OffsetMax
<1> HIDE DEF q
<1>4. (q * Width) % Width = 0
  BY <1>1, <1>3, MultipleMod
<1>5. QED
  BY <1>1, <1>3, <1>4

LEMMA AlignedFits ==
  ASSUME NEW s \in Sections, NEW o \in 0 .. OffsetMax(s)
  PROVE  Aligned(o) \in Offsets(s)
<1>1. Width \in Nat \ {0} /\ OffsetMax(s) \in Nat /\ o \in Nat
  BY WindowAssumption, OffsetMaxFits
<1>2. o \div Width \in Nat /\ o - (o % Width) = (o \div Width) * Width /\ o % Width \in 0 .. Width - 1
  BY <1>1, Quotient, Zenon
<1>3. ((o \div Width) * Width) % Width = 0
  <2>1. o \div Width \in Int
    BY <1>2
  <2>2. QED
    BY <1>1, <2>1, MultipleMod, Zenon
<1>4. Aligned(o) % Width = 0
  BY <1>2, <1>3 DEF Aligned
<1>5. Aligned(o) \in 0 .. OffsetMax(s)
  <2>1. (o \div Width) * Width >= 0
    BY <1>1, <1>2
  <2>2. QED
    BY <1>1, <1>2, <2>1 DEF Aligned
<1>6. QED
  BY <1>4, <1>5 DEF Offsets

LEMMA InspectorInit == Init => InspectorInv
<1> SUFFICES ASSUME Init PROVE InspectorInv
  OBVIOUS
<1>1. mem_sec \in Sections /\ mem_offset = 0
  BY DEF Init
<1>2. OffsetMax(mem_sec) \in Nat /\ Width \in Nat \ {0}
  BY <1>1, OffsetMaxFits, WindowAssumption
<1>3. 0 % Width = 0
  BY <1>2
<1>4. QED
  BY <1>1, <1>2, <1>3 DEF InspectorInv, Offsets

LEMMA InspectorStep == InspectorInv /\ [Next]_vars => InspectorInv'
<1> SUFFICES ASSUME InspectorInv, [Next]_vars PROVE InspectorInv'
  OBVIOUS
<1>1. CASE RenderInspector
  <2>1. CASE UNCHANGED memVars
    BY <2>1 DEF memVars, InspectorInv
  <2>2. ASSUME NEW s \in Sections, mem_sec' = s, mem_offset' = ClampOffset(s, mem_offset)
        PROVE  InspectorInv'
    <3> DEFINE last == OffsetMax(s)
    <3>1. last \in Nat /\ last % Width = 0
      BY OffsetMaxFits
    <3>2. mem_offset \in Nat /\ mem_offset % Width = 0 /\ last \in Int /\ mem_offset \in Int
      BY <3>1 DEF InspectorInv, Offsets
    <3>3. mem_offset' = Min({mem_offset, last})
      BY <2>2 DEF ClampOffset
    <3> HIDE DEF last
    <3>4. mem_offset' \in {mem_offset, last} /\ mem_offset' <= last
      BY <3>2, <3>3, MinOfTwo, Zenon
    <3>5. mem_offset' \in 0 .. last /\ mem_offset' % Width = 0
      BY <3>1, <3>2, <3>4
    <3>6. QED
      BY <2>2, <3>5 DEF InspectorInv, Offsets, last
  <2>3. ASSUME NEW o \in 0 .. OffsetMax(mem_sec), mem_sec' = mem_sec, mem_offset' = Aligned(o)
        PROVE  InspectorInv'
    BY <2>3, AlignedFits DEF InspectorInv
  <2>4. QED
    BY <1>1, <2>1, <2>2, <2>3 DEF RenderInspector
<1>2. CASE UNCHANGED memVars
  BY <1>2 DEF memVars, InspectorInv
<1>3. CASE Next /\ ~RenderInspector
  <2>1. UNCHANGED memVars
    BY <1>3 DEF Next, Frame, TickThrows, Quit, Ended, ResetFrame, PausedFrame, StepFrame,
                AutoFrame, Tick, EndTicks, StartDump, KeepDump, UserInput, NoInput, ClickAuto,
                ClickStep, ClickReset, MoveClock, ClickDump, EndFrame, vars
  <2>2. QED
    BY <1>2, <2>1
<1>4. QED
  BY <1>1, <1>2, <1>3 DEF vars

(* Every byte of the table, in units of w bytes, is one of the section.           *)
LEMMA WindowFits ==
  ASSUME NEW s \in Sections, NEW o \in Offsets(s), NEW w \in ValueWidths,
         NEW row \in 0 .. Height - 1, NEW col \in 0 .. Width - 1, col % w = 0
  PROVE  ValueBytes(o + row * Width + col, w) \subseteq 0 .. SizeOf[s] - 1
<1>1. /\ Width \in Nat \ {0} /\ Height \in Nat \ {0} /\ w \in Nat \ {0}
      /\ SizeOf[s] \in Nat /\ Width % w = 0
  BY WindowAssumption
<1>2. OffsetMax(s) \in Nat /\ o \in Nat /\ o <= SizeOf[s] - Width * Height
  BY OffsetMaxFits DEF Offsets, OffsetMax
<1>3. col + w <= Width
  <2>1. col = (col \div w) * w /\ col \div w \in Nat
    BY <1>1, Quotient, col \in Nat, Zenon
  <2>2. Width = (Width \div w) * w /\ Width \div w \in Nat
    BY <1>1, Quotient, Width \in Nat, Zenon
  <2> DEFINE k == col \div w
             j == Width \div w
  <2>3. k \in Nat /\ j \in Nat /\ col = k * w /\ Width = j * w
    BY <2>1, <2>2
  <2> HIDE DEF k, j
  <2>4. k * w < j * w
    BY <1>1, <2>3
  <2>5. QED
    BY <1>1, <2>3, <2>4, NextMultiple
<1>4. row * Width + Width <= Width * Height /\ row * Width \in Nat
  <2>1. (row + 1) * Width <= Height * Width
    BY <1>1
  <2>2. QED
    BY <1>1, <2>1
<1> DEFINE first == o + row * Width + col
<1>5. first \in Nat /\ first + w <= SizeOf[s]
  BY <1>1, <1>2, <1>3, <1>4
<1> HIDE DEF first
<1>6. ValueBytes(first, w) \subseteq 0 .. SizeOf[s] - 1
  BY <1>1, <1>5 DEF ValueBytes
<1>7. QED
  BY <1>6 DEF first

(* The inspector reads no byte that is not in the section it shows               *)
(* (mem_drawer.cpp:42-141), for memories and tables of any size.                *)
THEOREM InspectorSafe == Spec => []InspectorStaysInside
<1>1. ASSUME InspectorInv PROVE InspectorStaysInside
  <2>1. mem_sec \in Sections /\ mem_offset \in Offsets(mem_sec) /\ mem_offset % Width = 0
    BY <1>1 DEF InspectorInv, Offsets
  <2>2. ASSUME NEW w \in ValueWidths PROVE BytesRead(w) \subseteq 0 .. SizeOf[mem_sec] - 1
    BY <2>1, WindowFits DEF BytesRead
  <2>3. QED
    BY <2>1, <2>2 DEF InspectorStaysInside
<1>2. QED
  BY <1>1, InspectorInit, InspectorStep, PTL DEF Spec
=============================================================================
