------------------------------ MODULE ClintProof ------------------------------
(***************************************************************************)
(* Proofs about module Clint, for any width of a word, any prescaler and any    *)
(* tick length: what get_time returns is a time that was current, the deadlines  *)
(* do not drift, and no timer interrupt is taken before its deadline.          *)
(***************************************************************************)
EXTENDS Clint, TLAPS

(* The values that are held in two words.                                      *)
Time == 0 .. Word * Word - 1

TypeInv ==
  /\ pc \in {"boot", "time_high", "time_low", "time_again", "set_high", "set_low", "run",
             "cmp_high", "cmp_low"}
  /\ mtime \in 0 .. MaxTime /\ mtimecmp \in Time
  /\ t_hi \in 0 .. Word - 1 /\ t_lo \in 0 .. Word - 1 /\ t \in Time
  /\ called \in 0 .. mtime /\ first \in Nat /\ ticks \in Nat

(* Inside get_time: the high word was read at the time x, the low word at y.      *)
GetTimeInv ==
  /\ pc \in {"boot", "time_high", "time_low", "time_again"} => first = 0 /\ ticks = 0
  /\ pc = "time_low" => \E x \in called .. mtime : t_hi = High(x)
  /\ pc = "time_again" => \E x, y \in called .. mtime : x <= y /\ t_hi = High(x) /\ t_lo = Low(y)

Deadline == first + ticks * TickLength

(* Afterwards: mtimecmp is the deadline, or the one before it, which has passed,  *)
(* or half of it has been stored.                                             *)
DeadlineInv ==
  /\ pc \in {"set_high", "set_low", "run", "cmp_high", "cmp_low"} =>
       first - TickLength \in called .. mtime
  /\ pc = "run" => mtimecmp = Deadline
  /\ pc \in {"set_high", "set_low"} => t = Deadline
  /\ pc = "set_low" => High(mtimecmp) = High(t)
  /\ pc \in {"cmp_high", "cmp_low"} => mtimecmp + TickLength = Deadline /\ mtimecmp <= mtime
  /\ pc = "cmp_low" => t_hi = High(mtimecmp)

IInv == TypeInv /\ GetTimeInv /\ DeadlineInv

-----------------------------------------------------------------------------
(* The two words of a number and the number of two words.                       *)
LEMMA WordsOfNumber ==
  ASSUME NEW n \in Nat
  PROVE  High(n) \in Nat /\ Low(n) \in 0 .. Word - 1 /\ Join(High(n), Low(n)) = n
<1>1. Word \in Nat \ {0}
  BY ClintAssumption
<1>2. n = Word * (n \div Word) + (n % Word) /\ n \div Word \in Nat /\ n % Word \in 0 .. Word - 1
  BY <1>1
<1>3. QED
  BY <1>1, <1>2 DEF High, Low, Join

LEMMA Between ==
  ASSUME NEW h \in Nat, NEW k \in Nat, NEW w \in Nat \ {0},
         NEW l \in 0 .. w - 1, NEW m \in 0 .. w - 1
  PROVE  h * w + l <= k * w + m => h <= k
<1> SUFFICES ASSUME k < h PROVE k * w + m < h * w + l
  OBVIOUS
<1>1. (k + 1) * w <= h * w
  BY k + 1 <= h
<1>2. QED
  BY <1>1

LEMMA NumberOfWords ==
  ASSUME NEW h \in Nat, NEW l \in 0 .. Word - 1
  PROVE  Join(h, l) \in Nat /\ High(Join(h, l)) = h /\ Low(Join(h, l)) = l
<1>1. Word \in Nat \ {0}
  BY ClintAssumption
<1> DEFINE n == Join(h, l)
<1>2. n \in Nat /\ n = h * Word + l
  BY <1>1 DEF Join
<1> DEFINE k == High(n)
           m == Low(n)
<1>3. k \in Nat /\ m \in 0 .. Word - 1 /\ n = k * Word + m
  BY <1>2, WordsOfNumber DEF Join
<1> HIDE DEF n, k, m
<1>4. h <= k /\ k <= h
  BY <1>1, <1>2, <1>3, Between
<1>5. h = k /\ l = m
  BY <1>1, <1>2, <1>3, <1>4
<1>6. QED
  BY <1>2, <1>5 DEF n, k, m

LEMMA HighIsMonotonic ==
  ASSUME NEW m \in Nat, NEW n \in Nat, m <= n
  PROVE  High(m) <= High(n)
<1>1. Word \in Nat \ {0}
  BY ClintAssumption
<1>2. m = High(m) * Word + Low(m) /\ n = High(n) * Word + Low(n)
  BY WordsOfNumber DEF Join
<1>3. High(m) \in Nat /\ Low(m) \in 0 .. Word - 1 /\ High(n) \in Nat /\ Low(n) \in 0 .. Word - 1
  BY WordsOfNumber
<1>4. High(m) * Word + Low(m) <= High(n) * Word + Low(n)
  BY <1>2
<1>5. QED
  BY <1>1, <1>3, <1>4, Between

(* A time fits two words, and two words make a time.                           *)
LEMMA TimeFits ==
  /\ \A n \in Time : High(n) \in 0 .. Word - 1
  /\ \A h, l \in 0 .. Word - 1 : Join(h, l) \in Time
<1>1. Word \in Nat \ {0}
  BY ClintAssumption
<1>2. ASSUME NEW n \in Time PROVE High(n) \in 0 .. Word - 1
  <2>1. n \in Nat /\ n < Word * Word
    BY <1>1, <1>2 DEF Time
  <2>2. High(n) \in Nat /\ Low(n) \in Nat /\ n = High(n) * Word + Low(n)
    BY <2>1, WordsOfNumber DEF Join
  <2>3. ASSUME High(n) >= Word PROVE FALSE
    <3>1. High(n) * Word >= Word * Word
      BY <1>1, <2>2, <2>3
    <3>2. QED
      BY <1>1, <2>1, <2>2, <3>1
  <2>4. QED
    BY <1>1, <2>2, <2>3
<1>3. ASSUME NEW h \in 0 .. Word - 1, NEW l \in 0 .. Word - 1 PROVE Join(h, l) \in Time
  <2>1. (h + 1) * Word <= Word * Word
    BY <1>1, <1>3
  <2>2. h * Word >= 0 /\ h * Word + Word <= Word * Word
    BY <1>1, <1>3, <2>1
  <2>3. QED
    BY <1>1, <1>3, <2>2 DEF Join, Time
<1>4. QED
  BY <1>2, <1>3

-----------------------------------------------------------------------------
LEMMA InitInv == Init => IInv
<1> SUFFICES ASSUME Init PROVE IInv
  OBVIOUS
<1>1. Word \in Nat /\ Word > 1 /\ MaxTime \in Nat
  BY ClintAssumption
<1>2. Word * Word - 1 \in Time /\ 0 \in Time
  <2>1. Word * Word >= 1 * Word
    BY <1>1
  <2>2. QED
    BY <1>1, <2>1 DEF Time
<1>3. QED
  BY <1>1, <1>2 DEF Init, IInv, TypeInv, GetTimeInv, DeadlineInv

(* The clock goes on in every cycle but that of a reset.                         *)
LEMMA ClockRuns ==
  ASSUME TypeInv, Count
  PROVE  mtime' \in 0 .. MaxTime /\ mtime' \in {mtime, mtime + 1}
  BY ClintAssumption DEF TypeInv, Count

(* What the clock alone does to the invariant.                                  *)
LEMMA ClockKeepsInv ==
  ASSUME IInv, Edge, UNCHANGED <<t_hi, t_lo, t, called, first, ticks>>
  PROVE  /\ mtimecmp' = mtimecmp /\ Deadline' = Deadline
         /\ pc' = pc => IInv'
         /\ mtime' \in 0 .. MaxTime /\ mtime <= mtime' /\ called' \in 0 .. mtime'
<1>1. mtime' \in 0 .. MaxTime /\ mtime' \in {mtime, mtime + 1} /\ mtimecmp' = mtimecmp
  BY ClockRuns DEF Edge, IInv
<1>2. mtime \in Nat /\ mtime' \in Nat /\ called \in 0 .. mtime /\ mtime <= mtime'
  BY <1>1 DEF IInv, TypeInv
<1>3. called .. mtime \subseteq called .. mtime' /\ called' \in 0 .. mtime'
  BY <1>2
<1>4. Deadline' = Deadline
  BY DEF Deadline
<1>5. ASSUME pc' = pc PROVE IInv'
  <2>1. TypeInv'
    BY <1>1, <1>3, <1>5 DEF IInv, TypeInv
  <2>2. GetTimeInv'
    BY <1>3, <1>5 DEF IInv, GetTimeInv, High, Low
  <2>3. DeadlineInv'
    <3>1. UNCHANGED <<High(mtimecmp), High(t)>>
      BY <1>1 DEF High
    <3>2. mtimecmp <= mtime => mtimecmp' <= mtime'
      BY <1>1, <1>2 DEF IInv, TypeInv, Time
    <3>3. QED
      BY <1>1, <1>3, <1>4, <1>5, <3>1, <3>2 DEF IInv, DeadlineInv
  <2>4. QED
    BY <2>1, <2>2, <2>3 DEF IInv
<1>6. QED
  BY <1>1, <1>2, <1>3, <1>4, <1>5

(* A loop that ends has read both words of one time.                             *)
LEMMA ConsistentRead ==
  ASSUME IInv, pc = "time_again", Consistent
  PROVE  Join(t_hi, t_lo) \in called .. mtime
<1>1. PICK x \in called .. mtime, y \in called .. mtime :
        x <= y /\ t_hi = High(x) /\ t_lo = Low(y)
  BY DEF IInv, GetTimeInv
<1>2. x \in Nat /\ y \in Nat /\ mtime \in Nat /\ y <= mtime
  BY DEF IInv, TypeInv
<1>3. High(x) <= High(y) /\ High(y) <= High(mtime)
  BY <1>1, <1>2, HighIsMonotonic
<1>4. High(x) \in Nat /\ High(y) \in Nat /\ High(mtime) \in Nat
  BY <1>2, WordsOfNumber
<1>5. t_hi = High(y)
  BY <1>1, <1>3, <1>4 DEF Consistent
<1>6. Join(t_hi, t_lo) = y
  BY <1>1, <1>2, <1>5, WordsOfNumber
<1>7. QED
  BY <1>6

LEMMA StepInv == IInv /\ [Next]_vars => IInv'
<1> SUFFICES ASSUME IInv, [Next]_vars PROVE IInv'
  OBVIOUS
<1>0. /\ Word \in Nat /\ Word > 1 /\ TickLength \in Nat \ {0} /\ MaxTime \in Nat
      /\ MaxTime + 2 * TickLength < Word * Word /\ Word * Word \in Nat
  BY ClintAssumption
<1>t. /\ mtime \in Nat /\ mtime <= MaxTime /\ mtimecmp \in Nat /\ mtimecmp \in Time /\ t \in Time
      /\ mtime \in Time /\ t \in Nat
      /\ t_hi \in Nat /\ t_lo \in Nat /\ t_hi \in 0 .. Word - 1 /\ t_lo \in 0 .. Word - 1
      /\ called \in Nat /\ called <= mtime /\ first \in Nat /\ ticks \in Nat
  BY <1>0 DEF IInv, TypeInv, Time
<1>w. /\ High(mtime) \in 0 .. Word - 1 /\ Low(mtime) \in 0 .. Word - 1
      /\ High(mtimecmp) \in 0 .. Word - 1 /\ Low(mtimecmp) \in 0 .. Word - 1
      /\ High(t) \in 0 .. Word - 1 /\ Low(t) \in 0 .. Word - 1
  BY <1>t, WordsOfNumber, TimeFits
<1>1. CASE Compute
  BY <1>1, ClockKeepsInv DEF Compute, software
<1>2. CASE CallGetTime
  <2>1. mtime' \in 0 .. MaxTime /\ mtime' \in {mtime, mtime + 1} /\ mtimecmp' = mtimecmp
    BY <1>2, ClockRuns DEF CallGetTime, Edge, IInv
  <2>2. first = 0 /\ ticks = 0
    BY <1>2 DEF CallGetTime, IInv, GetTimeInv
  <2>3. QED
    BY <1>2, <1>t, <2>1, <2>2 DEF CallGetTime, IInv, TypeInv, GetTimeInv, DeadlineInv
<1>3. CASE GetTimeHigh
  <2>1. mtime' \in 0 .. MaxTime /\ mtime' \in {mtime, mtime + 1} /\ mtimecmp' = mtimecmp
    BY <1>3, ClockRuns DEF GetTimeHigh, Edge, IInv
  <2>2. first = 0 /\ ticks = 0
    BY <1>3 DEF GetTimeHigh, IInv, GetTimeInv
  <2>3. TypeInv'
    BY <1>3, <1>t, <1>w, <2>1 DEF GetTimeHigh, IInv, TypeInv
  <2>4. mtime \in called' .. mtime' /\ t_hi' = High(mtime)
    BY <1>3, <1>t, <2>1 DEF GetTimeHigh
  <2>5. GetTimeInv'
    BY <1>3, <2>2, <2>4 DEF GetTimeHigh, GetTimeInv, High
  <2>6. QED
    BY <1>3, <2>3, <2>5 DEF GetTimeHigh, IInv, DeadlineInv
<1>4. CASE GetTimeLow
  <2>1. mtime' \in 0 .. MaxTime /\ mtime' \in {mtime, mtime + 1} /\ mtimecmp' = mtimecmp
    BY <1>4, ClockRuns DEF GetTimeLow, Edge, IInv
  <2>2. first = 0 /\ ticks = 0
    BY <1>4 DEF GetTimeLow, IInv, GetTimeInv
  <2>3. TypeInv'
    BY <1>4, <1>t, <1>w, <2>1 DEF GetTimeLow, IInv, TypeInv
  <2>4. PICK x \in called .. mtime : t_hi = High(x)
    BY <1>4 DEF GetTimeLow, IInv, GetTimeInv
  <2>5. /\ x \in called' .. mtime' /\ mtime \in called' .. mtime' /\ x <= mtime
        /\ t_hi' = High(x) /\ t_lo' = Low(mtime)
    BY <1>4, <1>t, <2>1, <2>4 DEF GetTimeLow
  <2>6. GetTimeInv'
    BY <1>4, <2>2, <2>5 DEF GetTimeLow, GetTimeInv, High, Low
  <2>7. QED
    BY <1>4, <2>3, <2>6 DEF GetTimeLow, IInv, DeadlineInv
<1>5. CASE GetTimeAgain
  <2>1. mtime' \in 0 .. MaxTime /\ mtime' \in {mtime, mtime + 1} /\ mtimecmp' = mtimecmp
    BY <1>5, ClockRuns DEF GetTimeAgain, Edge, IInv
  <2>2. first = 0 /\ ticks = 0
    BY <1>5 DEF GetTimeAgain, IInv, GetTimeInv
  <2>3. QED
    BY <1>5, <1>t, <2>1, <2>2 DEF GetTimeAgain, IInv, TypeInv, GetTimeInv, DeadlineInv
<1>6. CASE GetTimeReturns
  <2>1. mtime' \in 0 .. MaxTime /\ mtime' \in {mtime, mtime + 1} /\ mtimecmp' = mtimecmp
    BY <1>6, ClockRuns DEF GetTimeReturns, Edge, IInv
  <2>2. ticks = 0
    BY <1>6 DEF GetTimeReturns, IInv, GetTimeInv
  <2> DEFINE now == Join(t_hi, t_lo)
  <2>3. now \in called .. mtime
    BY <1>6, ConsistentRead DEF GetTimeReturns
  <2>4. /\ pc' = "set_high" /\ t' = now + TickLength /\ first' = now + TickLength
        /\ UNCHANGED <<t_hi, t_lo, called, ticks>>
    BY <1>6 DEF GetTimeReturns
  <2> HIDE DEF now
  <2>5. TypeInv'
    BY <1>0, <1>t, <2>1, <2>3, <2>4 DEF TypeInv, Time
  <2>6. GetTimeInv'
    BY <2>4 DEF GetTimeInv
  <2>7. t' = Deadline' /\ first' - TickLength \in called' .. mtime'
    BY <1>0, <1>t, <2>1, <2>2, <2>3, <2>4 DEF Deadline
  <2>8. QED
    BY <2>4, <2>5, <2>6, <2>7 DEF IInv, DeadlineInv
<1>7. CASE SetTimecmpHigh
  <2>1. mtime' \in 0 .. MaxTime /\ mtime' \in {mtime, mtime + 1}
    BY <1>7, ClockRuns DEF SetTimecmpHigh, Store, IInv
  <2>2. /\ pc = "set_high" /\ pc' = "set_low" /\ mtimecmp' = Join(High(t), Low(mtimecmp))
        /\ UNCHANGED <<t_hi, t_lo, t, called, first, ticks>>
    BY <1>7 DEF SetTimecmpHigh, Store
  <2>3. mtimecmp' \in Time /\ High(mtimecmp') = High(t)
    BY <1>t, <1>w, <2>2, TimeFits, NumberOfWords, High(t) \in Nat
  <2>4. TypeInv'
    BY <1>t, <2>1, <2>2, <2>3 DEF TypeInv
  <2>5. t = Deadline /\ first - TickLength \in called .. mtime
    BY <2>2 DEF IInv, DeadlineInv
  <2>6. t' = Deadline' /\ first' - TickLength \in called' .. mtime'
    BY <1>0, <1>t, <2>1, <2>2, <2>5 DEF Deadline
  <2>7. QED
    BY <2>2, <2>3, <2>4, <2>6 DEF IInv, GetTimeInv, DeadlineInv, High
<1>8. CASE SetTimecmpLow
  <2>1. mtime' \in 0 .. MaxTime /\ mtime' \in {mtime, mtime + 1}
    BY <1>8, ClockRuns DEF SetTimecmpLow, Store, IInv
  <2>2. /\ pc = "set_low" /\ pc' = "run" /\ mtimecmp' = Join(High(mtimecmp), Low(t))
        /\ UNCHANGED <<t_hi, t_lo, t, called, first, ticks>>
    BY <1>8 DEF SetTimecmpLow, Store
  <2>3. t = Deadline /\ first - TickLength \in called .. mtime /\ High(mtimecmp) = High(t)
    BY <2>2 DEF IInv, DeadlineInv
  <2>4. mtimecmp' = t
    BY <1>t, <2>2, <2>3, WordsOfNumber
  <2>5. TypeInv'
    BY <1>t, <2>1, <2>2, <2>4 DEF TypeInv
  <2>6. mtimecmp' = Deadline' /\ first' - TickLength \in called' .. mtime'
    BY <1>0, <1>t, <2>1, <2>2, <2>3, <2>4 DEF Deadline
  <2>7. QED
    BY <2>2, <2>5, <2>6 DEF IInv, GetTimeInv, DeadlineInv
<1>9. CASE TimerInterrupt
  <2>1. mtime' \in 0 .. MaxTime /\ mtime' \in {mtime, mtime + 1} /\ mtimecmp' = mtimecmp
    BY <1>9, ClockRuns DEF TimerInterrupt, Edge, IInv
  <2>2. /\ pc = "run" /\ pc' = "cmp_high" /\ ticks' = ticks + 1 /\ mtimecmp <= mtime
        /\ UNCHANGED <<t_hi, t_lo, t, called, first>>
    BY <1>9, <1>t DEF TimerInterrupt, Mtip
  <2>3. mtimecmp = Deadline /\ first - TickLength \in called .. mtime
    BY <2>2 DEF IInv, DeadlineInv
  <2>4. Deadline' = Deadline + TickLength
    BY <1>0, <1>t, <2>2 DEF Deadline
  <2>5. TypeInv'
    BY <1>t, <2>1, <2>2 DEF TypeInv
  <2>6. /\ mtimecmp' + TickLength = Deadline' /\ mtimecmp' <= mtime'
        /\ first' - TickLength \in called' .. mtime'
    BY <1>0, <1>t, <2>1, <2>2, <2>3, <2>4
  <2>7. QED
    BY <2>2, <2>5, <2>6 DEF IInv, GetTimeInv, DeadlineInv
<1>10. CASE GetTimecmpHigh
  <2>1. mtime' \in 0 .. MaxTime /\ mtime' \in {mtime, mtime + 1} /\ mtimecmp' = mtimecmp
    BY <1>10, ClockRuns DEF GetTimecmpHigh, Edge, IInv
  <2>2. /\ pc = "cmp_high" /\ pc' = "cmp_low" /\ t_hi' = High(mtimecmp)
        /\ UNCHANGED <<t_lo, t, called, first, ticks>>
    BY <1>10 DEF GetTimecmpHigh
  <2>3. /\ mtimecmp + TickLength = Deadline /\ mtimecmp <= mtime
        /\ first - TickLength \in called .. mtime
    BY <2>2 DEF IInv, DeadlineInv
  <2>4. TypeInv'
    BY <1>t, <1>w, <2>1, <2>2 DEF TypeInv
  <2>5. /\ mtimecmp' + TickLength = Deadline' /\ mtimecmp' <= mtime'
        /\ first' - TickLength \in called' .. mtime' /\ t_hi' = High(mtimecmp')
    <3>1. Deadline' = Deadline /\ t_hi' = High(mtimecmp')
      BY <2>1, <2>2 DEF Deadline
    <3>2. QED
      BY <1>0, <1>t, <2>1, <2>2, <2>3, <3>1
  <2>6. QED
    BY <2>2, <2>4, <2>5 DEF IInv, GetTimeInv, DeadlineInv, High
<1>11. CASE GetTimecmpLow
  <2>1. mtime' \in 0 .. MaxTime /\ mtime' \in {mtime, mtime + 1} /\ mtimecmp' = mtimecmp
    BY <1>11, ClockRuns DEF GetTimecmpLow, Edge, IInv
  <2>2. /\ pc = "cmp_low" /\ pc' = "set_high" /\ t_lo' = Low(mtimecmp)
        /\ t' = Join(t_hi, Low(mtimecmp)) + TickLength
        /\ UNCHANGED <<t_hi, called, first, ticks>>
    BY <1>11 DEF GetTimecmpLow, LastDeadline
  <2>3. /\ mtimecmp + TickLength = Deadline /\ mtimecmp <= mtime /\ t_hi = High(mtimecmp)
        /\ first - TickLength \in called .. mtime
    BY <2>2 DEF IInv, DeadlineInv
  <2>4. t' = mtimecmp + TickLength
    BY <1>t, <2>2, <2>3, WordsOfNumber
  <2>5. TypeInv'
    BY <1>0, <1>t, <1>w, <2>1, <2>2, <2>3, <2>4 DEF TypeInv, Time
  <2>6. t' = Deadline' /\ first' - TickLength \in called' .. mtime'
    <3>1. Deadline' = Deadline
      BY <2>2 DEF Deadline
    <3>2. QED
      BY <1>0, <1>t, <2>1, <2>2, <2>3, <2>4, <3>1
  <2>7. QED
    BY <2>2, <2>5, <2>6 DEF IInv, GetTimeInv, DeadlineInv
<1>12. CASE Reset
  <2>1. Init'
    BY <1>12 DEF Reset, Init
  <2>2. QED
    BY <2>1, InitInv, PTL
<1>13. CASE UNCHANGED vars
  BY <1>13 DEF vars, device, software, IInv, TypeInv, GetTimeInv, DeadlineInv, Deadline, High, Low
<1>14. QED
  BY <1>1, <1>2, <1>3, <1>4, <1>5, <1>6, <1>7, <1>8, <1>9, <1>10, <1>11, <1>12, <1>13 DEF Next

(* What the loop of get_time has read and what set_timecmp has written agree with the *)
(* clock and the deadline, at every access (clint.h:25-44).                       *)
THEOREM InductiveInvariant == Spec => []IInv
  BY InitInv, StepInv, PTL DEF Spec

(* get_time returns a time that was current while it ran (clint.h:35-44),         *)
(* wherever the carries between its loads fall.                                *)
THEOREM TimeWasRead == Spec => []ReadsATimeThatWas
<1>1. IInv => ReadsATimeThatWas
  BY DEF IInv, TypeInv, GetTimeInv, DeadlineInv, ReadsATimeThatWas
<1>2. QED
  BY <1>1, InductiveInvariant, PTL

(* The n-th deadline is the first plus n tick lengths (trap_handler.c:26-28),      *)
(* for every n and every delay.                                              *)
THEOREM DeadlinesDoNotDrift == Spec => []TicksDoNotDrift
<1>1. IInv => TicksDoNotDrift
  BY DEF IInv, DeadlineInv, TicksDoNotDrift, Deadline
<1>2. QED
  BY <1>1, InductiveInvariant, PTL

(* An interrupt is taken when the clock has reached the deadline                  *)
(* (clint.sv:39), for every width of a word.                     *)
THEOREM TicksAreDue == Spec => NoTickIsEarly
<1>1. IInv /\ [Next]_vars => [ticks' = ticks + 1 => mtime >= first + ticks * TickLength]_vars
  <2> SUFFICES ASSUME IInv, Next, ticks' = ticks + 1
               PROVE  mtime >= first + ticks * TickLength
    OBVIOUS
  <2>1. ticks \in Nat /\ mtime \in Nat /\ mtimecmp \in Nat
    BY ClintAssumption DEF IInv, TypeInv, Time
  <2>2. CASE TimerInterrupt
    BY <2>1, <2>2 DEF TimerInterrupt, Mtip, IInv, DeadlineInv, Deadline
  <2>3. CASE ~TimerInterrupt
    <3>1. ticks' \in {ticks, 0}
      BY <2>3 DEF Next, Compute, CallGetTime, GetTimeHigh, GetTimeLow, GetTimeAgain,
                  GetTimeReturns, SetTimecmpHigh, SetTimecmpLow, GetTimecmpHigh, GetTimecmpLow,
                  Reset, software
    <3>2. QED
      BY <2>1, <3>1
  <2>4. QED
    BY <2>2, <2>3
<1>2. QED
  BY <1>1, InductiveInvariant, PTL DEF Spec, NoTickIsEarly
=============================================================================
