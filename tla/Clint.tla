-------------------------------- MODULE Clint --------------------------------
(***************************************************************************)
(* The timer of src/rtl/peripheral/clint.sv together with the software that   *)
(* uses it: kernel_main, which reads the clock and programs the first         *)
(* deadline, and trap_handler, which moves the deadline on at every tick.     *)
(* Both reach the 64-bit registers through 32-bit loads and stores            *)
(* (src/sw/bootc/clint.h), between which the clock goes on counting.          *)
(*                                                                          *)
(* Every step is one clock cycle, in which the processor makes one access or   *)
(* none.  A load takes the value before the edge; a store acts at the edge.   *)
(* No software here writes msip or mtime, so those branches of the device are  *)
(* left out.                                                               *)
(***************************************************************************)
EXTENDS Integers

CONSTANTS
  Word,        \* the number of values of a 32-bit word
  Prescaler,   \* TIMER_PRESCALER
  TickLength,  \* TICK_LENGTH
  MaxTime      \* a bound on mtime: the runs end there

ASSUME ClintAssumption == /\ Word \in Nat /\ Word > 1
                          /\ Prescaler \in Nat
                          /\ TickLength \in Nat \ {0}
                          /\ MaxTime \in Nat
                          /\ MaxTime + 2 * TickLength < Word * Word

VARIABLES
  prescaler_cnt, mtime, mtimecmp,   \* the device
  pc,            \* the next access of the software
  t_hi, t_lo,    \* the two halves that it has loaded
  t,             \* the argument of set_timecmp
  called,        \* the time at which get_time was called
  first,         \* the first deadline, 0 before it is known
  ticks          \* how many timer interrupts have been taken

device   == <<prescaler_cnt, mtime, mtimecmp>>
software == <<pc, t_hi, t_lo, t, called, first, ticks>>
vars     == <<device, software>>

High(n)    == n \div Word
Low(n)     == n % Word
Join(h, l) == h * Word + l

\* i_rst, and the software from its first instruction
Init ==
  /\ prescaler_cnt = Prescaler
  /\ mtime         = 0
  /\ mtimecmp      = Word * Word - 1
  /\ pc            = "boot"
  /\ t_hi = 0 /\ t_lo = 0 /\ t = 0
  /\ called = 0 /\ first = 0 /\ ticks = 0

\* a comparison of the low words alone
MutMtip == Low(mtime) >= Low(mtimecmp)

\* o_mtip
Mtip == mtime >= mtimecmp

\* a reload one cycle too late
MutCount ==
  /\ mtime < MaxTime
  /\ prescaler_cnt' = IF prescaler_cnt >= 0 THEN prescaler_cnt - 1 ELSE Prescaler
  /\ mtime'         = IF prescaler_cnt >= 0 THEN mtime ELSE mtime + 1

\* the clock edge: the prescaler passes through 0, so a tick is Prescaler + 1 cycles
Count ==
  IF prescaler_cnt > 0
  THEN /\ prescaler_cnt' = prescaler_cnt - 1
       /\ UNCHANGED mtime
  ELSE /\ mtime < MaxTime
       /\ mtime'         = mtime + 1
       /\ prescaler_cnt' = Prescaler

Edge       == Count /\ UNCHANGED mtimecmp
Store(cmp) == Count /\ mtimecmp' = cmp

-----------------------------------------------------------------------------
\* a cycle in which the software does not access the device
Compute == Edge /\ UNCHANGED software

CallGetTime ==
  /\ pc = "boot"
  /\ pc'     = "time_high"
  /\ called' = mtime
  /\ Edge
  /\ UNCHANGED <<t_hi, t_lo, t, first, ticks>>

GetTimeHigh ==
  /\ pc = "time_high"
  /\ pc'   = "time_low"
  /\ t_hi' = High(mtime)
  /\ Edge
  /\ UNCHANGED <<t_lo, t, called, first, ticks>>

GetTimeLow ==
  /\ pc = "time_low"
  /\ pc'   = "time_again"
  /\ t_lo' = Low(mtime)
  /\ Edge
  /\ UNCHANGED <<t_hi, t, called, first, ticks>>

\* get_time without the loop
MutConsistent == TRUE

\* while (t_hi != *MTIMEH)
Consistent == t_hi = High(mtime)

GetTimeAgain ==
  /\ pc = "time_again" /\ ~Consistent
  /\ pc' = "time_high"
  /\ Edge
  /\ UNCHANGED <<t_hi, t_lo, t, called, first, ticks>>

\* get_time returns, and kernel_main asks for a deadline one tick later
GetTimeReturns ==
  /\ pc = "time_again" /\ Consistent
  /\ pc'    = "set_high"
  /\ t'     = Join(t_hi, t_lo) + TickLength
  /\ first' = Join(t_hi, t_lo) + TickLength
  /\ Edge
  /\ UNCHANGED <<t_hi, t_lo, called, ticks>>

SetTimecmpHigh ==
  /\ pc = "set_high"
  /\ pc' = "set_low"
  /\ Store(Join(High(t), Low(mtimecmp)))
  /\ UNCHANGED <<t_hi, t_lo, t, called, first, ticks>>

\* the second store; the software runs on with interrupts enabled
SetTimecmpLow ==
  /\ pc = "set_low"
  /\ pc' = "run"
  /\ Store(Join(High(mtimecmp), Low(t)))
  /\ UNCHANGED <<t_hi, t_lo, t, called, first, ticks>>

\* trap_handler, on Interrupt_M_TIMER
TimerInterrupt ==
  /\ pc = "run" /\ Mtip
  /\ pc'    = "cmp_high"
  /\ ticks' = ticks + 1
  /\ Edge
  /\ UNCHANGED <<t_hi, t_lo, t, called, first>>

GetTimecmpHigh ==
  /\ pc = "cmp_high"
  /\ pc'   = "cmp_low"
  /\ t_hi' = High(mtimecmp)
  /\ Edge
  /\ UNCHANGED <<t_lo, t, called, first, ticks>>

\* the next deadline counted from the current time
MutLastDeadline == mtime

\* the deadline from which trap_handler counts on
LastDeadline == Join(t_hi, Low(mtimecmp))

GetTimecmpLow ==
  /\ pc = "cmp_low"
  /\ pc'   = "set_high"
  /\ t_lo' = Low(mtimecmp)
  /\ t'    = LastDeadline + TickLength
  /\ Edge
  /\ UNCHANGED <<t_hi, called, first, ticks>>

\* the reset button of the simulator, at any moment
Reset ==
  /\ prescaler_cnt' = Prescaler
  /\ mtime'         = 0
  /\ mtimecmp'      = Word * Word - 1
  /\ pc'            = "boot"
  /\ t_hi' = 0 /\ t_lo' = 0 /\ t' = 0
  /\ called' = 0 /\ first' = 0 /\ ticks' = 0

Next == \/ Compute \/ CallGetTime
        \/ GetTimeHigh \/ GetTimeLow \/ GetTimeAgain \/ GetTimeReturns
        \/ SetTimecmpHigh \/ SetTimecmpLow
        \/ TimerInterrupt \/ GetTimecmpHigh \/ GetTimecmpLow
        \/ Reset

Spec == Init /\ [][Next]_vars

-----------------------------------------------------------------------------
(* What get_time returns is a time that was current between its call and its  *)
(* return, although a carry into the high half may come between any two of    *)
(* its loads (clint.h:35-44).                                               *)
ReadsATimeThatWas ==
  first # 0 => first - TickLength \in called .. mtime

(* However late an interrupt is taken, and however its handler is spread over  *)
(* the ticks of the clock, deadlines stay TICK_LENGTH apart: the n-th is the   *)
(* first plus n of them (trap_handler.c:26-28).                              *)
TicksDoNotDrift ==
  pc = "run" => mtimecmp = first + ticks * TickLength

(* No timer interrupt is taken before its deadline, also where a deadline has   *)
(* crossed into the high word, nor for the value of a reset (clint.sv:39).      *)
(* Both callers of set_timecmp run with interrupts disabled, so the value that   *)
(* mtimecmp has between its two stores is never looked at, and this says nothing *)
(* about their order.                                                       *)
NoTickIsEarly ==
  [][ticks' = ticks + 1 => mtime >= first + ticks * TickLength]_vars

=============================================================================
