------------------------------ MODULE Simulation ------------------------------
(***************************************************************************)
(* The frame loop of the simulator: SdlWindow::run, Simulator, the time and    *)
(* dump controllers with the panels that drive them, the trace file of         *)
(* VerilatedContainer, and the memory inspector of the side bar.               *)
(*                                                                          *)
(* A frame takes the window's events, updates the time controller (which runs   *)
(* ticks of the machine) and then the dump controller, and renders: the side    *)
(* bar, then the panels.  The user changes at most one thing in the one and in  *)
(* the others.  Real time is measured from the controller's m_prev_time; what   *)
(* passes within a frame is added at its end.                                 *)
(***************************************************************************)
EXTENDS Integers, FiniteSetsExt

CONSTANTS
  Periods,       \* the clock periods that the slider can give, in units of time
  FrameTimes,    \* how long a frame may take
  MaxSteps,      \* MAX_STEPS_PER_FRAME
  MaxDebt,       \* a bound: longer times are not told apart
  Lengths,       \* the dump lengths that the slider can give
  Sections,      \* the memories of the inspector
  SizeOf,        \* their sizes in bytes
  Width, Height, \* DISPLAY_WINDOW_W and DISPLAY_WINDOW_H, in bytes and rows
  ValueWidths    \* the widths of a value in bytes

ASSUME PeriodsAssumption == MaxDebt \in Nat /\ Periods \subseteq 1 .. MaxDebt
ASSUME LengthsAssumption == Lengths \subseteq Nat
ASSUME TimesAssumption   == FrameTimes \subseteq Nat \ {0} /\ MaxSteps \in Nat \ {0}
ASSUME WindowAssumption  ==
  /\ Width \in Nat \ {0} /\ Height \in Nat \ {0} /\ ValueWidths \subseteq Nat \ {0}
  /\ \A s \in Sections : /\ SizeOf[s] \in Nat
                         /\ SizeOf[s] % Width = 0 /\ SizeOf[s] >= Width * Height
  /\ \A w \in ValueWidths : Width % w = 0

VARIABLES
  phase,                 \* what the frame does next, or "ended"
  quit,                  \* ~running of SdlWindow::run
  is_auto, is_prev_auto, \* TimeController
  step_req, rst_req,
  accumulator, exec_step, clk_period,
  lag,                   \* the real time since m_prev_time
  req_dump, is_dumping,  \* DumpController
  dump_length,
  trace,                 \* the trace file: isOpen, m_d_proc_steps, m_d_remn_steps
  mem_sec, mem_offset,   \* MemDrawer
  ran,                   \* history: the real time since update() last found the
                         \* simulation paused, less the periods of the ticks it ran
  ticked                 \* history: the machine has run in this frame, not under i_rst

timeVars == <<is_prev_auto, step_req, rst_req, accumulator, exec_step, lag, ran, ticked>>
dumpVars == <<req_dump, is_dumping, dump_length>>
memVars  == <<mem_sec, mem_offset>>
vars     == <<phase, quit, is_auto, clk_period, trace, timeVars, dumpVars, memVars>>

\* m_is_dumping has no initialiser
Init ==
  /\ phase = "time" /\ quit = FALSE
  /\ is_auto = FALSE /\ is_prev_auto = FALSE /\ step_req = FALSE /\ rst_req = FALSE
  /\ accumulator = 0 /\ exec_step = 0 /\ lag = MaxDebt
  /\ ran = 0 /\ ticked = FALSE
  /\ clk_period \in Periods
  /\ req_dump = FALSE /\ is_dumping \in BOOLEAN /\ dump_length = 0
  /\ trace = [open |-> FALSE, proc |-> 0, remn |-> 0]
  /\ mem_sec \in Sections /\ mem_offset = 0

-----------------------------------------------------------------------------
\* closes one sample early
MutDumpStep(t) ==
  IF ~t.open THEN t
  ELSE [open |-> t.remn > 2, proc |-> t.proc + 1, remn |-> t.remn - 1]

(* One half of a clock cycle is sampled.                                      *)
DumpStep(t) ==
  IF ~t.open THEN t
  ELSE [open |-> t.remn > 1, proc |-> t.proc + 1, remn |-> t.remn - 1]

(* A clock cycle of the machine, under i_rst or not.                           *)
Update(t) == DumpStep(DumpStep(t))

Closed(t) == [t EXCEPT !.open = FALSE]

(* start_trace_dump; the file may fail to open.                                *)
Started(opened) == [open |-> opened, proc |-> 0, remn |-> dump_length]

-----------------------------------------------------------------------------
(* TimeController::update, by its returns.                                    *)
ResetFrame ==
  /\ phase = "time" /\ rst_req
  /\ trace' = Update(trace)
  /\ rst_req' = FALSE /\ accumulator' = 0 /\ exec_step' = 0
  /\ phase' = "dump"
  /\ UNCHANGED <<quit, is_auto, is_prev_auto, step_req, clk_period, lag, ran, ticked, dumpVars,
                 memVars>>

\* a step waits for its time as the ticks of the automatic mode do
MutStepAllowed == step_req /\ ~is_prev_auto /\ accumulator >= clk_period

\* not in the frame that finds the automatic mode switched off
StepAllowed == step_req /\ ~is_prev_auto

PausedFrame ==
  /\ phase = "time" /\ ~rst_req /\ ~is_auto /\ ~StepAllowed
  /\ is_prev_auto' = FALSE /\ accumulator' = 0 /\ exec_step' = 0 /\ ran' = 0
  /\ phase' = "dump"
  /\ UNCHANGED <<quit, is_auto, step_req, rst_req, clk_period, lag, trace, ticked, dumpVars,
                 memVars>>

StepFrame ==
  /\ phase = "time" /\ ~rst_req /\ ~is_auto /\ StepAllowed
  /\ trace' = Update(trace)
  /\ step_req' = FALSE /\ accumulator' = 0 /\ lag' = 0 /\ ran' = 0 /\ ticked' = TRUE
  /\ phase' = "dump"
  /\ UNCHANGED <<quit, is_auto, is_prev_auto, rst_req, exec_step, clk_period, dumpVars, memVars>>

\* without a new m_prev_time when automatic mode begins
MutDelta == lag
Delta == IF is_prev_auto THEN lag ELSE 0

\* without what the last frame has left over
MutOwed == Delta
Owed == accumulator + Delta

AutoFrame ==
  /\ phase = "time" /\ ~rst_req /\ is_auto
  /\ accumulator' = Owed
  /\ lag' = 0 /\ is_prev_auto' = TRUE /\ exec_step' = 0
  /\ phase' = "ticks"
  /\ UNCHANGED <<quit, is_auto, step_req, rst_req, clk_period, trace, ran, ticked, dumpVars,
                 memVars>>

Due == phase = "ticks" /\ accumulator >= clk_period /\ exec_step < MaxSteps

Tick ==
  /\ Due
  /\ trace' = Update(trace)
  /\ accumulator' = accumulator - clk_period
  /\ exec_step' = exec_step + 1
  /\ ran' = ran - clk_period /\ ticked' = TRUE
  /\ UNCHANGED <<phase, quit, is_auto, is_prev_auto, step_req, rst_req, clk_period, lag,
                 dumpVars, memVars>>

EndTicks ==
  /\ phase = "ticks" /\ ~Due
  /\ phase' = "dump"
  /\ UNCHANGED <<quit, is_auto, clk_period, trace, timeVars, dumpVars, memVars>>

(* The terminal raises an exception during a tick: main's handler prints it,    *)
(* finish is not called, and the destructor closes the file.                   *)
TickThrows ==
  /\ \/ Due
     \/ phase = "time" /\ ~rst_req /\ ~is_auto /\ StepAllowed
  /\ trace' = Closed(Update(trace))
  /\ phase' = "ended"
  /\ UNCHANGED <<quit, is_auto, clk_period, timeVars, dumpVars, memVars>>

-----------------------------------------------------------------------------
(* DumpController::update.  A file that is open already makes it return.  The    *)
(* test behind the start finds at once that a file has not been opened.          *)
StartDump ==
  /\ phase = "dump" /\ req_dump /\ ~is_dumping
  /\ IF trace.open
     THEN UNCHANGED <<trace, is_dumping, is_auto, req_dump>>
     ELSE \E opened \in BOOLEAN :
            /\ trace' = Started(opened)
            /\ is_dumping' = opened
            /\ is_auto' = opened
            /\ req_dump' = FALSE
  /\ phase' = "render"
  /\ UNCHANGED <<quit, clk_period, dump_length, timeVars, memVars>>

\* the second test of update is made in the branch of the first only
MutDumpIsOver == req_dump /\ is_dumping /\ ~trace.open
DumpIsOver == is_dumping /\ ~trace.open

KeepDump ==
  /\ phase = "dump" /\ (req_dump => is_dumping)
  /\ IF DumpIsOver
     THEN is_dumping' = FALSE /\ is_auto' = FALSE
     ELSE UNCHANGED <<is_dumping, is_auto>>
  /\ phase' = "render"
  /\ UNCHANGED <<quit, clk_period, trace, req_dump, dump_length, timeVars, memVars>>

-----------------------------------------------------------------------------
OffsetMax(s) == SizeOf[s] - Width * Height

(* MemView::read_byte, read_half and read_word read w bytes one by one.          *)
ValueBytes(addr, w) == addr .. addr + w - 1

(* The table of Height rows of values of w bytes.                              *)
BytesRead(w) ==
  UNION {ValueBytes(mem_offset + row * Width + col, w) :
           row \in 0 .. Height - 1, col \in {c \in 0 .. Width - 1 : c % w = 0}}

\* the slider's value as it is
MutAligned(o) == o
Aligned(o) == o - (o % Width)

\* the offset of the section shown last
MutClampOffset(s, o) == o
ClampOffset(s, o) == Min({o, OffsetMax(s)})

(* The inspector is drawn (its tab may be closed), after the user has chosen    *)
(* a section or moved the slider.                                            *)
RenderInspector ==
  /\ phase = "render"
  /\ \/ UNCHANGED memVars
     \/ \E s \in Sections : mem_sec' = s /\ mem_offset' = ClampOffset(s, mem_offset)
     \/ \E o \in 0 .. OffsetMax(mem_sec) : mem_sec' = mem_sec /\ mem_offset' = Aligned(o)
  /\ phase' = "panels"
  /\ UNCHANGED <<quit, is_auto, clk_period, trace, timeVars, dumpVars>>

(* The end of a frame, by the user's input, with the time it has taken.         *)
EndFrame ==
  /\ phase = "panels"
  /\ \E d \in FrameTimes : /\ lag' = Min({lag + d, MaxDebt - accumulator})
                           /\ ran' = Min({ran + d, MaxDebt})
  /\ ticked' = FALSE
  /\ IF quit THEN phase' = "ended" /\ trace' = Closed(trace)
             ELSE phase' = "time"  /\ UNCHANGED trace
  /\ UNCHANGED <<quit, is_prev_auto, accumulator, exec_step, is_dumping, memVars>>

NoInput   == EndFrame /\ UNCHANGED <<is_auto, step_req, rst_req, clk_period, req_dump, dump_length>>
ClickAuto == EndFrame /\ is_auto' = ~is_auto
                      /\ UNCHANGED <<step_req, rst_req, clk_period, req_dump, dump_length>>
ClickStep == EndFrame /\ is_auto' = FALSE /\ step_req' = TRUE
                      /\ UNCHANGED <<rst_req, clk_period, req_dump, dump_length>>
ClickReset == EndFrame /\ is_auto' = FALSE /\ rst_req' = TRUE
                       /\ UNCHANGED <<step_req, clk_period, req_dump, dump_length>>
MoveClock(p) == EndFrame /\ clk_period' = p
                         /\ UNCHANGED <<is_auto, step_req, rst_req, req_dump, dump_length>>

\* a request during a dump
MutMayRequest == ~req_dump
MayRequest == ~req_dump /\ ~is_dumping

ClickDump(n) ==
  /\ EndFrame
  /\ MayRequest
  /\ req_dump' = TRUE /\ dump_length' = n
  /\ UNCHANGED <<is_auto, step_req, rst_req, clk_period>>

UserInput == \/ NoInput \/ ClickAuto \/ ClickStep \/ ClickReset
             \/ \E p \in Periods : MoveClock(p)
             \/ \E n \in Lengths : ClickDump(n)

\* the window is closed, before the frame's update
Quit ==
  /\ phase = "time" /\ ~quit
  /\ quit' = TRUE
  /\ UNCHANGED <<phase, is_auto, clk_period, trace, timeVars, dumpVars, memVars>>

Frame == \/ ResetFrame \/ PausedFrame \/ StepFrame \/ AutoFrame \/ Tick \/ EndTicks
         \/ StartDump \/ KeepDump \/ RenderInspector \/ UserInput

Ended == phase = "ended" /\ UNCHANGED vars

Next == Frame \/ TickThrows \/ Quit \/ Ended

(* Nothing in the loop waits for the user, so the window goes on drawing frames. *)
Fairness == WF_vars(Frame)

Spec == Init /\ [][Next]_vars /\ Fairness

-----------------------------------------------------------------------------
(* Whenever the panels are drawn, DumpController says that it is dumping exactly *)
(* if the file is open: from the first frame on, whatever m_is_dumping was at   *)
(* the start, when the file cannot be opened, and in the frame in which the     *)
(* last sample was written (dump_controller.cpp:5-21).                        *)
DumpFlagAgrees == phase \in {"render", "panels"} => is_dumping = trace.open

(* A trace ends after as many samples as were asked for, one if that was none,  *)
(* and neither a reset, a pause nor a later request shortens or prolongs it;    *)
(* only the end of the program does (verilated_container.cpp:132-141).          *)
TraceIsWhole ==
  [][trace.open /\ ~trace'.open /\ phase' # "ended" =>
       trace'.proc = Max({1, dump_length})]_vars

(* The simulation does not catch up on time in which it was paused: the time    *)
(* it still has to run is never more than the real time since update last found *)
(* it paused, less what it has run since.  While it is paused it owes nothing.   *)
(* A frame that only resets does not count as paused (time_controller.cpp:21-57).*)
NoCatchUp == IF is_prev_auto THEN accumulator + lag <= ran
                             ELSE accumulator = 0 /\ exec_step = 0

(* A step asked for is made, however many frames it waits, unless the user       *)
(* starts the automatic mode or resets first (time_controller.cpp:21-50).        *)
StepIsMade == step_req ~> (ticked \/ is_auto \/ rst_req \/ phase = "ended")

(* A dump comes to its end unless it is paused, at every clock rate and however  *)
(* short the frames are.                                                     *)
DumpEnds == trace.open ~> (~trace.open \/ ~is_auto)

(* The rows that the inspector draws are aligned, and whatever width the user    *)
(* has chosen, every byte it reads is one of the section it shows, also after a *)
(* change to a smaller section (mem_drawer.cpp:42-141).                        *)
InspectorStaysInside ==
  phase = "panels" => /\ mem_offset % Width = 0
                      /\ \A w \in ValueWidths : BytesRead(w) \subseteq 0 .. SizeOf[mem_sec] - 1
=============================================================================
