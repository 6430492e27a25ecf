----------------------------- MODULE KernelProof -----------------------------
(***************************************************************************)
(* Proofs about module Kernel.                                              *)
(*                                                                          *)
(* For any number of tasks, any priorities and any programs: at most one     *)
(* task is RUNNING, it is the current one, on its own stack and with ticks     *)
(* left; no blocked task waits for an interrupt that is disabled; and the      *)
(* kernel implements module Processes.  None of this depends on the ready      *)
(* queue once start_schedule has run: schedule looks at the state of the task   *)
(* that it has found and panics if it has found none, so whatever the links     *)
(* say, IInv holds.  QueueInv adds kernel_main, whose pushes never fail.        *)
(*                                                                          *)
(* For tasks of one priority (EqualRanks) the queue is a proper list, FifoInv;   *)
(* its order, its completeness, and who gets the processor follow.  With        *)
(* unequal priorities the list loses its links (run kernel_ranks).  Two tasks,   *)
(* as many as kernel_main spawns, get by nevertheless: TwoInv lists what can     *)
(* have become of the links.                                                *)
(***************************************************************************)
EXTENDS KernelProps, FiniteSetTheorems, WellFoundedInduction, TLAPS

(* Before start_schedule: nothing runs or waits, and a queued task has ticks.   *)
BootInv ==
  status = "boot" => \A s \in Slot : /\ tasks[s] \in {"NOT_CREATED", "READY"}
                                     /\ wait_irq_mask[s] = {}
                                     /\ tasks[s] = "READY" => time_slice[s] # 0

(* Nothing but the current task is RUNNING, and while tasks run it is.         *)
RunningInv ==
  /\ \A s \in Slot : tasks[s] = "RUNNING" => s = current_slot
  /\ status = "run" => /\ tasks[current_slot] = "RUNNING"
                       /\ time_slice[current_slot] # 0

(* A saved context, and the processor, are on the stack of their own task.     *)
StackInv ==
  /\ \A s \in Slot : ctx[s].sp = s
  /\ status = "run" => cpu.sp = current_slot

(* qblocked and mie agree with the states of the tasks.                       *)
BlockedInv ==
  \A s \in Slot : /\ tasks[s] = "BLOCKED_IRQ" <=> wait_irq_mask[s] # {}
                  /\ wait_irq_mask[s] \subseteq mie

IInv == TypeInv /\ BootInv /\ RunningInv /\ StackInv /\ BlockedInv

-----------------------------------------------------------------------------
LEMMA FullSlicePositive ==
  ASSUME NEW s \in Slot
  PROVE  FullSlice(s) \in Nat \ {0}
<1>1. Priority[s] \in Nat /\ Quantum \in Nat \ {0} /\ Bonus \in Nat
  BY PriorityAssumption, SliceAssumption
<1>2. Priority[s] * Bonus \in Nat
  BY <1>1
<1>3. QED
  BY <1>1, <1>2 DEF FullSlice

(* A kernel that stops keeps its state.                                      *)
LEMMA StopInv ==
  ASSUME IInv, NEW how \in {"panic", "hang", "wild"}, Stop(how)
  PROVE  IInv'
<1> USE DEF Stop, taskVars
<1>1. TypeInv'
  BY DEF IInv, TypeInv
<1>2. BootInv' /\ RunningInv' /\ StackInv' /\ BlockedInv'
  BY DEF IInv, BootInv, RunningInv, StackInv, BlockedInv
<1>3. QED
  BY <1>1, <1>2 DEF IInv

LEMMA StopOnInv ==
  ASSUME IInv, NEW err, StopOn(err)
  PROVE  IInv'
<1>1. How(err) \in {"panic", "hang", "wild"}
  BY DEF How
<1>2. Stop(How(err))
  BY DEF StopOn
<1>3. QED
  BY <1>1, <1>2, StopInv

(* schedule, with the values that the handler has computed: st and mask agree   *)
(* on what is blocked, and only the current task may still be RUNNING in st.    *)
LEMMA SwitchInv ==
  ASSUME IInv, status = "run",
         NEW frame \in Context, frame.sp = current_slot,
         NEW st \in [Slot -> TaskState], NEW sl \in [Slot -> Nat], NEW q,
         NEW mask \in [Slot -> SUBSET Interrupt],
         \A s \in Slot : st[s] = "RUNNING" => s = current_slot,
         \A s \in Slot : st[s] = "BLOCKED_IRQ" <=> mask[s] # {},
         SwitchToNextTask(frame, st, sl, q, mask),
         rx' = rx
  PROVE  IInv'
<1> DEFINE st1   == SettledStates(st)
           saved == SavedContext(frame, st)
<1>1. current_slot \in Slot /\ tasks \in [Slot -> TaskState] /\ ctx \in [Slot -> Context]
  BY DEF IInv, TypeInv
<1>2. /\ st1 \in [Slot -> TaskState]
      /\ \A s \in Slot : st1[s] # "RUNNING"
      /\ \A s \in Slot : st1[s] = "BLOCKED_IRQ" <=> mask[s] # {}
  BY <1>1 DEF SettledStates, Settled, TaskState
<1>3. /\ saved \in [Slot -> Context]
      /\ \A s \in Slot : saved[s].sp = s
  BY <1>1 DEF SavedContext, IInv, StackInv
<1> HIDE DEF st1, saved
<1>4. CASE \E err : StopOn(err)
  BY <1>4, StopOnInv
<1>5. CASE Stop("panic")
  BY <1>5, StopInv
<1>6. ASSUME NEW n \in Slot, NEW q1, st1[n] = "READY", Dispatch(n, q1, frame, st, sl, mask)
      PROVE  IInv'
  <2>1. /\ tasks' = [st1 EXCEPT ![n] = "RUNNING"]
        /\ time_slice' = Refill(sl, n)
        /\ wait_irq_mask' = mask
        /\ mie' = Requested(mask)
        /\ ctx' = saved
        /\ cpu' = IF n = current_slot THEN frame ELSE saved[n]
        /\ current_slot' = n
        /\ status' = status
    BY <1>6 DEF Dispatch, st1, saved
  <2>2. time_slice' \in [Slot -> Nat] /\ time_slice'[n] # 0
    BY <2>1, FullSlicePositive DEF Refill
  <2>3. mie' \in SUBSET Interrupt /\ \A s \in Slot : mask[s] \subseteq mie'
    BY <2>1 DEF Requested, Interrupt
  <2>4. TypeInv'
    BY <1>1, <1>2, <1>3, <2>1, <2>2, <2>3 DEF IInv, TypeInv, TaskState
  <2>5. BootInv' /\ RunningInv'
    BY <1>2, <1>6, <2>1, <2>2 DEF BootInv, RunningInv
  <2>6. StackInv'
    BY <1>3, <2>1 DEF StackInv
  <2>7. BlockedInv'
    BY <1>2, <1>6, <2>1, <2>3 DEF BlockedInv
  <2>8. QED
    BY <2>4, <2>5, <2>6, <2>7 DEF IInv
<1>7. \/ \E err : StopOn(err)
      \/ Stop("panic")
      \/ \E n \in Slot : \E q1 : st1[n] = "READY" /\ Dispatch(n, q1, frame, st, sl, mask)
  BY DEF SwitchToNextTask, st1
<1>8. QED
  BY <1>4, <1>5, <1>6, <1>7

(* A task's instructions and the traps that do not switch leave these alone.   *)
LEMMA KeptInv ==
  ASSUME IInv,
         UNCHANGED <<tasks, ctx, current_slot, wait_irq_mask, mie, status>>,
         time_slice' \in [Slot -> Nat],
         \A s \in Slot : time_slice[s] # 0 => time_slice'[s] # 0,
         cpu' \in Context, cpu'.sp = cpu.sp,
         rx' \in Char \union {NoChar}
  PROVE  IInv'
<1>1. TypeInv'
  BY DEF IInv, TypeInv
<1>2. BootInv' /\ RunningInv'
  BY DEF IInv, TypeInv, BootInv, RunningInv
<1>3. StackInv' /\ BlockedInv'
  BY DEF IInv, StackInv, BlockedInv
<1>4. QED
  BY <1>1, <1>2, <1>3 DEF IInv

LEMMA AdvanceContext ==
  ASSUME NEW c \in Context, NEW d \in Advance(c)
  PROVE  d \in Context /\ d.sp = c.sp
BY ProgramAssumption DEF Advance, Context

-----------------------------------------------------------------------------
LEMMA InitInv == Init => IInv
<1> SUFFICES ASSUME Init PROVE IInv
  OBVIOUS
<1> USE DEF Init
<1>1. \A s \in Slot : InitContext(s) \in Context /\ InitContext(s).sp = s
  BY ProgramAssumption DEF InitContext, Context
<1>2. EntryTask \in Slot /\ 0 \in Slot
  BY NTaskAssumption, MaxTasksAssumption DEF Boot, Slot
<1>3. TypeInv
  BY <1>1, <1>2 DEF TypeInv, TaskState
<1>4. BootInv /\ RunningInv /\ StackInv /\ BlockedInv
  BY <1>1 DEF BootInv, RunningInv, StackInv, BlockedInv
<1>5. QED
  BY <1>3, <1>4 DEF IInv

LEMMA SpawnInv == IInv /\ Spawn => IInv'
<1> SUFFICES ASSUME IInv, Spawn PROVE IInv'
  OBVIOUS
<1> DEFINE s == FreeSlot
           q == Push(qready, s)
<1> HIDE DEF s, q
<1>1. CASE StopOn(q.err)
  BY <1>1, StopOnInv
<1>2. ASSUME tasks' = [tasks EXCEPT ![s] = "READY"],
             time_slice' = [time_slice EXCEPT ![s] = FullSlice(s)],
             ctx' = [ctx EXCEPT ![s] = InitContext(s)],
             UNCHANGED <<wait_irq_mask, current_slot, mie, cpu, rx, status>>
      PROVE  IInv'
  <2>1. status = "boot" /\ status' = "boot"
    BY <1>2 DEF Spawn
  <2>2. s \in Slot => /\ FullSlice(s) \in Nat \ {0}
                      /\ InitContext(s) \in Context /\ InitContext(s).sp = s
    BY FullSlicePositive, ProgramAssumption, CharAssumption DEF InitContext, Context
  <2>3. TypeInv'
    BY <1>2, <2>2 DEF IInv, TypeInv, TaskState
  <2>4. BootInv' /\ RunningInv'
    BY <1>2, <2>1, <2>2 DEF IInv, TypeInv, BootInv, RunningInv
  <2>5. StackInv' /\ BlockedInv'
    BY <1>2, <2>1, <2>2 DEF IInv, TypeInv, BootInv, StackInv, BlockedInv
  <2>6. QED
    BY <2>3, <2>4, <2>5 DEF IInv
<1>3. QED
  BY <1>1, <1>2 DEF Spawn, s, q

LEMMA StartScheduleInv == IInv /\ StartSchedule => IInv'
<1> SUFFICES ASSUME IInv, StartSchedule PROVE IInv'
  OBVIOUS
<1>1. EntryTask \in Slot /\ status = "boot"
  BY NTaskAssumption, MaxTasksAssumption DEF Boot, Slot, StartSchedule
<1>2. CASE tasks[EntryTask] # "READY"
  BY <1>2, StopInv DEF StartSchedule
<1>3. CASE tasks[EntryTask] = "READY"
  <2>1. /\ current_slot' = EntryTask
        /\ tasks'  = [tasks EXCEPT ![EntryTask] = "RUNNING"]
        /\ cpu'    = ctx[EntryTask]
        /\ status' = "run"
        /\ UNCHANGED <<time_slice, n_task, wait_irq_mask, ctx, mie, rx>>
    BY <1>3 DEF StartSchedule
  <2>2. TypeInv'
    BY <1>1, <2>1 DEF IInv, TypeInv, TaskState
  <2>3. BootInv' /\ RunningInv'
    BY <1>1, <1>3, <2>1 DEF IInv, TypeInv, BootInv, RunningInv
  <2>4. StackInv' /\ BlockedInv'
    BY <1>1, <1>3, <2>1 DEF IInv, TypeInv, BootInv, StackInv, BlockedInv
  <2>5. QED
    BY <2>2, <2>3, <2>4 DEF IInv
<1>4. QED
  BY <1>2, <1>3

(* trap_handler for an interrupt, with sl the slices after the tick.            *)
LEMMA HandleInterruptInv ==
  ASSUME IInv, status = "run", NEW irq \in Interrupt,
         NEW sl \in [Slot -> Nat],
         \A s \in Slot : s # current_slot => sl[s] = time_slice[s],
         HandleInterrupt(irq, sl)
  PROVE  IInv'
<1>1. rx' = rx
  BY DEF HandleInterrupt
<1>2. CASE \/ Stop("panic")
           \/ \E err : StopOn(err)
  BY <1>2, StopInv, StopOnInv
<1>3. ASSUME NEW q, SwitchToNextTask(cpu, WokenStates(irq), sl, q, ClearedMask(irq))
      PROVE  IInv'
  <2>1. /\ WokenStates(irq) \in [Slot -> TaskState]
        /\ ClearedMask(irq) \in [Slot -> SUBSET Interrupt]
    BY DEF IInv, TypeInv, WokenStates, ClearedMask, TaskState
  <2>2. \A s \in Slot : WokenStates(irq)[s] = "RUNNING" => s = current_slot
    BY DEF IInv, RunningInv, WokenStates
  <2>3. \A s \in Slot : WokenStates(irq)[s] = "BLOCKED_IRQ" <=> ClearedMask(irq)[s] # {}
    BY DEF IInv, BlockedInv, WokenStates, ClearedMask
  <2>4. cpu \in Context /\ cpu.sp = current_slot
    BY DEF IInv, TypeInv, StackInv
  <2>5. QED
    BY <1>1, <1>3, <2>1, <2>2, <2>3, <2>4, SwitchInv
<1>4. CASE /\ sl[current_slot] # 0
           /\ time_slice' = sl
           /\ UNCHANGED <<tasks, n_task, wait_irq_mask, ctx, current_slot, qready,
                          mie, cpu, status>>
  <2>1. \A s \in Slot : time_slice[s] # 0 => time_slice'[s] # 0
    BY <1>4
  <2>2. cpu' \in Context /\ cpu'.sp = cpu.sp /\ rx' \in Char \union {NoChar}
    BY <1>1, <1>4 DEF IInv, TypeInv
  <2>3. QED
    BY <1>4, <2>1, <2>2, KeptInv
<1>5. QED
  BY <1>2, <1>3, <1>4 DEF HandleInterrupt

LEMMA TimerInv == IInv /\ TimerInterrupt => IInv'
<1> SUFFICES ASSUME IInv, TimerInterrupt PROVE IInv'
  OBVIOUS
<1> DEFINE sl == [time_slice EXCEPT ![current_slot] = Ticked(@)]
<1>1. sl \in [Slot -> Nat] /\ \A s \in Slot : s # current_slot => sl[s] = time_slice[s]
  BY SliceAssumption DEF IInv, TypeInv, Ticked
<1>2. status = "run" /\ HandleInterrupt("TIMER", sl)
  BY DEF TimerInterrupt
<1>3. QED
  BY <1>1, <1>2, HandleInterruptInv DEF Interrupt

LEMMA ExternalInv == IInv /\ ExternalInterrupt => IInv'
BY HandleInterruptInv DEF IInv, TypeInv, ExternalInterrupt, Interrupt

(* What the instructions of a task do, one action after another.               *)
LEMMA RunInv == IInv /\ Run => IInv'
<1> SUFFICES ASSUME IInv, Run PROVE IInv'
  OBVIOUS
<1>1. /\ status = "run" /\ cpu \in Context /\ cpu.sp = current_slot
      /\ current_slot \in Slot /\ rx \in Char \union {NoChar}
      /\ tasks \in [Slot -> TaskState] /\ time_slice \in [Slot -> Nat]
      /\ wait_irq_mask \in [Slot -> SUBSET Interrupt]
      /\ \A s \in Slot : tasks[s] = "RUNNING" => s = current_slot
      /\ \A s \in Slot : tasks[s] = "BLOCKED_IRQ" <=> wait_irq_mask[s] # {}
      /\ tasks[current_slot] = "RUNNING"
  BY DEF Run, Compute, Yield, Exit, Getc, GetcBlocks, Fault, At,
         IInv, TypeInv, StackInv, RunningInv, BlockedInv
<1>2. CASE Compute
  BY <1>1, <1>2, AdvanceContext, KeptInv DEF Compute, taskVars, IInv, TypeInv
<1>3. CASE Yield
  BY <1>1, <1>3, AdvanceContext, SwitchInv DEF Yield
<1>4. CASE Exit
  <2> DEFINE st == [tasks EXCEPT ![current_slot] = "TERMINATED"]
  <2>1. /\ st \in [Slot -> TaskState]
        /\ \A s \in Slot : st[s] = "RUNNING" => s = current_slot
        /\ \A s \in Slot : st[s] = "BLOCKED_IRQ" <=> wait_irq_mask[s] # {}
    BY <1>1 DEF TaskState
  <2>2. SwitchToNextTask(cpu, st, time_slice, qready, wait_irq_mask) /\ rx' = rx
    BY <1>4 DEF Exit
  <2> HIDE DEF st
  <2>3. QED
    BY <1>1, <2>1, <2>2, SwitchInv
<1>5. CASE Getc
  <2>1. [cpu EXCEPT !.a0 = rx] \in Context /\ [cpu EXCEPT !.a0 = rx].sp = cpu.sp
    BY <1>1 DEF Context
  <2>2. cpu' \in Context /\ cpu'.sp = cpu.sp
    BY <1>5, <2>1, AdvanceContext DEF Getc
  <2>3. QED
    BY <1>5, <2>2, KeptInv DEF Getc, taskVars, IInv, TypeInv
<1>6. CASE GetcBlocks
  <2> DEFINE st   == [tasks EXCEPT ![current_slot] = "BLOCKED_IRQ"]
             mask == [wait_irq_mask EXCEPT ![current_slot] = @ \union {"EXTERNAL"}]
  <2>1. /\ st \in [Slot -> TaskState] /\ mask \in [Slot -> SUBSET Interrupt]
        /\ \A s \in Slot : st[s] = "RUNNING" => s = current_slot
        /\ \A s \in Slot : st[s] = "BLOCKED_IRQ" <=> mask[s] # {}
    BY <1>1 DEF TaskState, Interrupt
  <2>2. SwitchToNextTask(cpu, st, time_slice, qready, mask) /\ rx' = rx
    BY <1>6 DEF GetcBlocks, BlockedFrame
  <2> HIDE DEF st, mask
  <2>3. QED
    BY <1>1, <2>1, <2>2, SwitchInv
<1>7. CASE Fault
  BY <1>7, StopInv DEF Fault
<1>8. QED
  BY <1>2, <1>3, <1>4, <1>5, <1>6, <1>7 DEF Run

LEMMA NextInv == IInv /\ [Next]_vars => IInv'
<1> SUFFICES ASSUME IInv, [Next]_vars PROVE IInv'
  OBVIOUS
<1>1. CASE Arrive
  BY <1>1, KeptInv DEF Arrive, taskVars, IInv, TypeInv
<1>2. CASE UNCHANGED vars
  BY <1>2, KeptInv DEF vars, taskVars, IInv, TypeInv
<1>3. QED
  BY <1>1, <1>2, SpawnInv, StartScheduleInv, TimerInv, ExternalInv, RunInv DEF Next

(* The states of the tasks, the masks, the stacks and the slices agree, from boot on:  *)
(* schedule, blocking and waking keep it whatever the ready queue holds.            *)
THEOREM InductiveInvariant == Spec => []IInv
BY InitInv, NextInv, PTL DEF Spec

(* At most one task is RUNNING (task.h:49-51), whatever is spawned, blocks,      *)
(* wakes, yields, exits or is preempted.                                     *)
THEOREM OneRunning == Spec => []AtMostOneRunning
<1>1. IInv => AtMostOneRunning
  BY DEF IInv, RunningInv, AtMostOneRunning
<1>2. QED
  BY <1>1, InductiveInvariant, PTL

(* The task that has the processor is the one the kernel takes to be current: it  *)
(* is RUNNING, on its own stack, and has ticks left, so that its time_slice        *)
(* never wraps.                                                              *)
THEOREM CurrentRuns == Spec => []CurrentTaskRuns
<1>1. IInv => CurrentTaskRuns
  BY DEF IInv, RunningInv, StackInv, CurrentTaskRuns
<1>2. QED
  BY <1>1, InductiveInvariant, PTL

(* A blocked task waits for some interrupt, and for enabled ones only: switching   *)
(* and waking never leave it behind with its interrupt masked.                 *)
THEOREM BlockedWaits == Spec => []BlockedCanBeWoken
<1>1. IInv => BlockedCanBeWoken
  BY DEF IInv, BlockedInv, BlockedCanBeWoken
<1>2. QED
  BY <1>1, InductiveInvariant, PTL

-----------------------------------------------------------------------------
(* Induction over the natural numbers, as the existence of a least element.       *)
LEMMA LeastNat ==
  ASSUME NEW T \in SUBSET Nat, T # {}
  PROVE  \E m \in T : \A k \in T : m <= k
<1> DEFINE R == {ss \in Nat \X Nat : ss[1] < ss[2]}
<1>1. IsWellFoundedOn(R, Nat)
  BY NatLessThanWellFounded DEF OpToRel
<1> HIDE DEF R
<1>2. PICK m \in T : \A k \in T : ~(<<k, m>> \in R)
  BY <1>1, WFMin
<1>3. \A k \in T : ~(k < m)
  BY <1>2 DEF R
<1>4. QED
  BY <1>3

(* Induction up to n.                                                           *)
LEMMA UpTo ==
  ASSUME NEW n \in Nat, NEW T, 0 \in T, \A i \in 0 .. n - 1 : i \in T => i + 1 \in T
  PROVE  \A i \in 0 .. n : i \in T
<1> DEFINE Bad == {i \in 0 .. n : i \notin T}
<1> SUFFICES ASSUME Bad # {} PROVE FALSE
  OBVIOUS
<1>1. PICK m \in Bad : \A k \in Bad : m <= k
  <2>1. Bad \in SUBSET Nat
    OBVIOUS
  <2> HIDE DEF Bad
  <2>2. QED
    BY <2>1, LeastNat
<1>2. m \in 0 .. n /\ m \notin T /\ m # 0
  OBVIOUS
<1>3. m - 1 \in 0 .. n - 1 /\ m - 1 \in 0 .. n
  BY <1>2
<1>4. m - 1 \in T
  BY <1>1, <1>3
<1>5. (m - 1) + 1 \in T /\ (m - 1) + 1 = m
  BY <1>2, <1>3, <1>4
<1>6. QED
  BY <1>2, <1>5

(* A loop of n steps F from a, each of which stays in S, has a sequence h of states. *)
Loops(S, a, F, n, h) ==
  h \in [0 .. n -> S] /\ h[0] = a /\ \A i \in 1 .. n : h[i] = F[<<i, h[i - 1]>>]

LEMMA Iterates ==
  ASSUME NEW S, NEW a \in S, NEW F \in [Nat \X S -> S], NEW n \in Nat
  PROVE  \E h : Loops(S, a, F, n, h)
<1> DEFINE Partial(m, h) ==
             h \in [0 .. m -> S] /\ h[0] = a /\ \A i \in 1 .. m : h[i] = F[<<i, h[i - 1]>>]
           Done == {m \in Nat : \E h : Partial(m, h)}
<1>1. 0 \in Done
  <2> DEFINE h == [i \in 0 .. 0 |-> a]
  <2>1. h \in [0 .. 0 -> S] /\ h[0] = a
    OBVIOUS
  <2> HIDE DEF h
  <2>2. QED
    BY <2>1
<1>2. ASSUME NEW m \in 0 .. n - 1, m \in Done PROVE m + 1 \in Done
  <2>1. PICK g : Partial(m, g)
    BY <1>2
  <2>2. m \in Nat
    OBVIOUS
  <2> DEFINE h == [i \in 0 .. m + 1 |-> IF i = m + 1 THEN F[<<m + 1, g[m]>>] ELSE g[i]]
  <2>3. \A i \in 0 .. m : h[i] = g[i]
    BY <2>2
  <2>4. h[m + 1] = F[<<m + 1, g[m]>>] /\ g[m] \in S /\ h[m] = g[m]
    BY <2>1, <2>2
  <2>5. h \in [0 .. m + 1 -> S]
    BY <2>1, <2>2, <2>4
  <2> HIDE DEF h
  <2>6. ASSUME NEW i \in 1 .. m + 1 PROVE h[i] = F[<<i, h[i - 1]>>]
    <3>1. CASE i = m + 1
      BY <2>2, <2>4, <3>1
    <3>2. CASE i # m + 1
      <4>1. i \in 1 .. m /\ i \in 0 .. m /\ i - 1 \in 0 .. m
        BY <2>2, <3>2
      <4>2. QED
        BY <2>1, <2>3, <4>1
    <3>3. QED
      BY <3>1, <3>2
  <2>7. h[0] = a
    BY <2>1, <2>2, <2>3
  <2>8. Partial(m + 1, h)
    BY <2>5, <2>6, <2>7
  <2>9. QED
    BY <2>2, <2>8
<1>3. n \in Done
  <2> HIDE DEF Done
  <2>1. \A i \in 0 .. n : i \in Done
    BY <1>1, <1>2, UpTo
  <2>2. QED
    BY <2>1
<1>4. QED
  BY <1>3 DEF Loops

-----------------------------------------------------------------------------
(* The operations of the ready queue, field by field.                             *)
LEMMA SlotType == /\ MaxTasks \in Nat \ {0} /\ Slot \in SUBSET Nat /\ IsFiniteSet(Slot)
                  /\ 0 \in Slot /\ NIL \notin Slot /\ Cardinality(Slot) = MaxTasks
<1>1. MaxTasks \in Nat \ {0}
  BY MaxTasksAssumption
<1>2. QED
  BY <1>1, NilAssumption, FS_Interval DEF Slot

LEMMA QueueFields ==
  ASSUME NEW q \in Queue
  PROVE  /\ q.prev \in [Slot -> Ptr] /\ q.next \in [Slot -> Ptr] /\ q.head \in Ptr
         /\ q.n \in Nat /\ q.err \in {"none", "full", "hang", "wild"}
  BY DEF Queue

LEMMA InsertAtHeadIs ==
  ASSUME NEW q \in Queue, NEW e \in Slot
  PROVE  /\ InsertAtHead(q, e) \in Queue
         /\ InsertAtHead(q, e).prev = [q.prev EXCEPT ![e] = NIL]
         /\ InsertAtHead(q, e).next = [q.next EXCEPT ![e] = q.head]
         /\ InsertAtHead(q, e).head = e
         /\ InsertAtHead(q, e).n = q.n + 1 /\ InsertAtHead(q, e).err = q.err
<1> DEFINE r == InsertAtHead(q, e)
<1>1. /\ r.prev = [q.prev EXCEPT ![e] = NIL] /\ r.next = [q.next EXCEPT ![e] = q.head]
      /\ r.head = e /\ r.n = q.n + 1 /\ r.err = q.err
  BY DEF InsertAtHead, Queue
<1>2. r = [q EXCEPT !.prev = r.prev, !.next = r.next, !.head = r.head, !.n = r.n]
  BY DEF InsertAtHead, Queue
<1> HIDE DEF r
<1>3. /\ r.prev \in [Slot -> Ptr] /\ r.next \in [Slot -> Ptr] /\ r.head \in Ptr /\ r.n \in Nat
  BY <1>1, QueueFields DEF Ptr
<1>4. r \in Queue
  BY <1>2, <1>3 DEF Queue
<1>5. QED
  BY <1>1, <1>4 DEF r

LinkedAfter(q, p, e, r) ==
  /\ r \in Queue
  /\ r.prev = IF q.next[p] = NIL THEN [q.prev EXCEPT ![e] = p]
              ELSE [[q.prev EXCEPT ![e] = p] EXCEPT ![q.next[p]] = e]
  /\ r.next = [[q.next EXCEPT ![e] = q.next[p]] EXCEPT ![p] = e]
  /\ r.head = q.head /\ r.err = q.err

LEMMA InsertAfterIs ==
  ASSUME NEW q \in Queue, NEW p \in Slot, NEW e \in Slot
  PROVE  LinkedAfter(q, p, e, InsertAfter(q, p, e))
<1> DEFINE r == InsertAfter(q, p, e)
           x == q.next[p]
<1>1. x \in Ptr
  BY QueueFields
<1> HIDE DEF x
<1>2. /\ r.prev = IF x = NIL THEN [q.prev EXCEPT ![e] = p]
                  ELSE [[q.prev EXCEPT ![e] = p] EXCEPT ![x] = e]
      /\ r.next = [[q.next EXCEPT ![e] = x] EXCEPT ![p] = e]
      /\ r.head = q.head /\ r.n = q.n + 1 /\ r.err = q.err
  BY DEF InsertAfter, Queue, x
<1>3. r = [q EXCEPT !.prev = r.prev, !.next = r.next, !.n = r.n]
  BY DEF InsertAfter, Queue
<1> HIDE DEF r
<1>4. r.prev \in [Slot -> Ptr] /\ r.next \in [Slot -> Ptr] /\ r.n \in Nat
  BY <1>1, <1>2, QueueFields DEF Ptr
<1>5. r \in Queue
  BY <1>3, <1>4 DEF Queue
<1>6. QED
  BY <1>2, <1>5 DEF r, x, LinkedAfter

LEMMA InsertAfterCounts ==
  ASSUME NEW q \in Queue, NEW p \in Slot, NEW e \in Slot
  PROVE  InsertAfter(q, p, e).n = q.n + 1
  BY DEF InsertAfter, Queue

LEMMA ErrIs ==
  ASSUME NEW q \in Queue, NEW err \in {"none", "full", "hang", "wild"}
  PROVE  [q EXCEPT !.err = err] \in Queue
  BY DEF Queue

LEMMA FullIs ==
  ASSUME NEW q \in Queue, NEW err \in {"none", "full", "hang", "wild"}
  PROVE  /\ [q EXCEPT !.err = err].prev = q.prev /\ [q EXCEPT !.err = err].next = q.next
         /\ [q EXCEPT !.err = err].head = q.head /\ [q EXCEPT !.err = err].n = q.n
  BY DEF Queue

-----------------------------------------------------------------------------
(* The loops, unrolled: each is the sequence of its states.                       *)
LEMMA SearchLoop ==
  ASSUME NEW q \in Queue, q.head \in Slot, NEW e \in Slot
  PROVE  \E h \in [0 .. MaxTasks -> Slot] :
           /\ h[0] = q.head
           /\ \A i \in 1 .. MaxTasks : h[i] = SearchStep(q, e, h[i - 1])
           /\ LastNotBelow(q, e) = h[MaxTasks]
<1> DEFINE Body(h) == [i \in 0 .. MaxTasks |-> IF i = 0 THEN q.head ELSE SearchStep(q, e, h[i - 1])]
           g == CHOOSE h : h = Body(h)
           F == [x \in Nat \X Slot |-> SearchStep(q, e, x[2])]
<1>1. \A p \in Slot : SearchStep(q, e, p) \in Slot
  BY QueueFields DEF SearchStep, MovesPast, Ptr
<1>2. F \in [Nat \X Slot -> Slot]
  BY <1>1
<1>3. \A i \in Nat : \A p \in Slot : F[<<i, p>>] = SearchStep(q, e, p)
  OBVIOUS
<1> HIDE DEF F
<1>4. PICK h \in [0 .. MaxTasks -> Slot] :
        h[0] = q.head /\ \A i \in 1 .. MaxTasks : h[i] = F[<<i, h[i - 1]>>]
  <2> HIDE DEF Body, g
  <2>1. MaxTasks \in Nat
    BY SlotType
  <2>2. \E h : Loops(Slot, q.head, F, MaxTasks, h)
    BY <1>2, <2>1, Iterates
  <2>3. QED
    BY <2>2 DEF Loops
<1>5. ASSUME NEW i \in 1 .. MaxTasks PROVE h[i] = SearchStep(q, e, h[i - 1])
  <2>1. i \in Nat /\ i - 1 \in 0 .. MaxTasks
    BY SlotType
  <2>2. h[i - 1] \in Slot /\ h[i] = F[<<i, h[i - 1]>>]
    BY <1>4, <2>1
  <2>3. QED
    BY <1>3, <2>1, <2>2
<1>6. h = Body(h)
  <2>1. \A i \in 0 .. MaxTasks : h[i] = Body(h)[i]
    BY <1>4, <1>5, SlotType
  <2>2. DOMAIN Body(h) = 0 .. MaxTasks
    OBVIOUS
  <2>3. QED
    BY <1>4, <2>1, <2>2
<1>7. g = Body(g)
  BY <1>6
<1>8. LastNotBelow(q, e) = g[MaxTasks]
  BY DEF LastNotBelow
<1>9. g[0] = q.head /\ \A i \in 1 .. MaxTasks : g[i] = SearchStep(q, e, g[i - 1])
  <2> HIDE DEF g
  <2>1. QED
    BY <1>7, SlotType
<1>10. DOMAIN g = 0 .. MaxTasks
  <2> HIDE DEF g
  <2>1. QED
    BY <1>7
<1> HIDE DEF g
<1>11. \A i \in 0 .. MaxTasks : i \in {j \in 0 .. MaxTasks : g[j] \in Slot}
  <2> DEFINE T == {j \in 0 .. MaxTasks : g[j] \in Slot}
  <2>1. 0 \in T
    BY <1>9, SlotType
  <2>2. ASSUME NEW i \in 0 .. MaxTasks - 1, i \in T PROVE i + 1 \in T
    <3>1. i + 1 \in 1 .. MaxTasks /\ (i + 1) - 1 = i /\ g[i] \in Slot
      BY <2>2, SlotType
    <3>2. g[i + 1] = SearchStep(q, e, g[i])
      BY <1>9, <3>1
    <3>3. QED
      BY <1>1, <3>1, <3>2
  <2> HIDE DEF T
  <2>3. \A i \in 0 .. MaxTasks : i \in T
    BY <2>1, <2>2, SlotType, UpTo
  <2>4. QED
    BY <2>3 DEF T
<1>12. g \in [0 .. MaxTasks -> Slot]
  <2>1. \A i \in 0 .. MaxTasks : g[i] \in Slot
    BY <1>11
  <2>2. g = [i \in 0 .. MaxTasks |-> g[i]]
    BY <1>7, <1>10
  <2>3. QED
    BY <2>1, <2>2
<1>13. QED
  BY <1>8, <1>9, <1>12

LEMMA PushType ==
  ASSUME NEW q \in Queue, NEW e \in Slot
  PROVE  Push(q, e) \in Queue /\ Push(q, e).n >= q.n
<1>1. CASE q.err # "none"
  BY <1>1, QueueFields DEF Push
<1>2. ASSUME NEW err \in {"full", "wild", "hang"}, Push(q, e) = [q EXCEPT !.err = err]
      PROVE  Push(q, e) \in Queue /\ Push(q, e).n >= q.n
  <2> DEFINE r == [q EXCEPT !.err = err]
  <2>1. r \in Queue
    BY ErrIs
  <2>2. r.n = q.n /\ q.n \in Nat
    BY FullIs, QueueFields
  <2>3. Push(q, e) = r
    BY <1>2
  <2> HIDE DEF r
  <2>4. QED
    BY <2>1, <2>2, <2>3
<1>3. CASE Push(q, e) = InsertAtHead(q, e)
  <2>1. InsertAtHead(q, e) \in Queue /\ InsertAtHead(q, e).n = q.n + 1 /\ q.n \in Nat
    BY InsertAtHeadIs, QueueFields
  <2>2. QED
    BY <1>3, <2>1
<1>4. ASSUME q.head \in Slot, Push(q, e) = InsertAfter(q, LastNotBelow(q, e), e)
      PROVE  Push(q, e) \in Queue /\ Push(q, e).n >= q.n
  <2>1. PICK p \in Slot : LastNotBelow(q, e) = p
    <3>1. PICK h \in [0 .. MaxTasks -> Slot] : LastNotBelow(q, e) = h[MaxTasks]
      BY <1>4, SearchLoop
    <3>2. h[MaxTasks] \in Slot
      BY SlotType
    <3>3. QED
      BY <3>1, <3>2
  <2>2. InsertAfter(q, p, e) \in Queue
    BY InsertAfterIs DEF LinkedAfter
  <2>4. InsertAfter(q, p, e).n = q.n + 1
    BY InsertAfterCounts
  <2>3. QED
    BY <1>4, <2>1, <2>2, <2>4, QueueFields
<1>5. q.head = NIL \/ q.head \in Slot
  BY QueueFields DEF Ptr
<1>6. QED
  BY <1>1, <1>2, <1>3, <1>4, <1>5 DEF Push, RankedFirst

-----------------------------------------------------------------------------
(* The queue as a list: c is the sequence of the entries from the head on, no entry *)
(* is there twice, and nothing has gone wrong.  Backs: the links back agree.        *)
Lists(q, c) ==
  /\ q \in Queue /\ q.err = "none"
  /\ c \in [1 .. q.n -> Slot]
  /\ \A i, j \in 1 .. q.n : c[i] = c[j] => i = j
  /\ q.head = IF q.n = 0 THEN NIL ELSE c[1]
  /\ \A i \in 1 .. q.n : q.next[c[i]] = IF i = q.n THEN NIL ELSE c[i + 1]

Backs(q, c) == \A i \in 1 .. q.n : q.prev[c[i]] = IF i = 1 THEN NIL ELSE c[i - 1]

Entries(q, c) == {c[i] : i \in 1 .. q.n}

\* c with e after its first k elements
Inserted(c, n, k, e) ==
  [i \in 1 .. n + 1 |-> IF i <= k THEN c[i] ELSE IF i = k + 1 THEN e ELSE c[i - 1]]

LEMMA ListSize ==
  ASSUME NEW q, NEW c, Lists(q, c)
  PROVE  /\ q.n \in Nat /\ q.n <= MaxTasks
         /\ Entries(q, c) \in SUBSET Slot
         /\ IsFiniteSet(Entries(q, c)) /\ Cardinality(Entries(q, c)) = q.n
         /\ \A e \in Slot : e \notin Entries(q, c) => q.n < MaxTasks
<1>1. /\ q.n \in Nat /\ c \in [1 .. q.n -> Slot]
      /\ \A i, j \in 1 .. q.n : c[i] = c[j] => i = j
  BY QueueFields DEF Lists
<1>2. /\ IsFiniteSet(1 .. q.n) /\ Cardinality(1 .. q.n) = q.n
  BY <1>1, FS_Interval
<1> DEFINE T == Entries(q, c)
           I == 1 .. q.n
<1>3. T \in SUBSET Slot /\ IsFiniteSet(T)
  BY <1>1, SlotType, FS_Subset DEF Entries
<1>4. c \in Bijection(I, T)
  <2>1. c \in [I -> T] /\ \A t \in T : \E i \in I : c[i] = t
    BY <1>1 DEF Entries
  <2>2. \A i, j \in I : c[i] = c[j] => i = j
    BY <1>1
  <2> HIDE DEF T, I
  <2>3. QED
    BY <2>1, <2>2 DEF Bijection, Injection, Surjection, IsInjective
<1>5. Cardinality(T) = q.n
  <2>1. ExistsBijection(I, T)
    BY <1>4 DEF ExistsBijection
  <2> HIDE DEF T
  <2>2. QED
    BY <1>2, <2>1, FS_Bijection
<1>6. q.n <= MaxTasks
  <2> HIDE DEF T
  <2>1. Cardinality(T) <= Cardinality(Slot)
    BY <1>3, SlotType, FS_Subset
  <2>2. QED
    BY <1>5, <2>1, SlotType
<1>7. ASSUME NEW e \in Slot, e \notin T PROVE q.n < MaxTasks
  <2>1. q.n # MaxTasks
    <3> HIDE DEF T
    <3>1. Cardinality(T) = Cardinality(Slot) => T = Slot
      BY <1>3, SlotType, FS_Subset
    <3>2. QED
      BY <1>5, <1>7, <3>1, SlotType
  <2>2. QED
    BY <1>1, <1>6, <2>1, SlotType
<1>8. QED
  BY <1>1, <1>3, <1>5, <1>6, <1>7

(* The search for a place ends at an entry that the new one goes behind.            *)
LEMMA SearchEnds ==
  ASSUME NEW q, NEW c, Lists(q, c), q.n # 0, NEW e \in Slot
  PROVE  \E k \in 1 .. q.n : /\ LastNotBelow(q, e) = c[k]
                             /\ ~MovesPast(q, c[k], e)
<1>1. /\ q \in Queue /\ q.n \in Nat /\ c \in [1 .. q.n -> Slot]
      /\ q.head = c[1] /\ 1 \in 1 .. q.n
      /\ \A i \in 1 .. q.n : q.next[c[i]] = IF i = q.n THEN NIL ELSE c[i + 1]
  BY QueueFields DEF Lists
<1>2. PICK h \in [0 .. MaxTasks -> Slot] :
        /\ h[0] = q.head
        /\ \A i \in 1 .. MaxTasks : h[i] = SearchStep(q, e, h[i - 1])
        /\ LastNotBelow(q, e) = h[MaxTasks]
  <2>1. q.head \in Slot
    BY <1>1
  <2>2. QED
    BY <1>1, <2>1, SearchLoop
<1> DEFINE T == {i \in 0 .. MaxTasks :
                   \E k \in 1 .. q.n : h[i] = c[k] /\ (k = i + 1 \/ ~MovesPast(q, c[k], e))}
<1>3. MaxTasks \in Nat
  BY SlotType
<1>4. 0 \in T
  BY <1>1, <1>2, <1>3
<1>5. ASSUME NEW i \in 0 .. MaxTasks - 1, i \in T PROVE i + 1 \in T
  <2>1. PICK k \in 1 .. q.n : h[i] = c[k] /\ (k = i + 1 \/ ~MovesPast(q, c[k], e))
    BY <1>5
  <2>2. i + 1 \in 1 .. MaxTasks /\ (i + 1) - 1 = i /\ i + 1 \in 0 .. MaxTasks
    BY <1>3
  <2>3. h[i + 1] = SearchStep(q, e, c[k])
    BY <1>2, <2>1, <2>2
  <2>4. CASE MovesPast(q, c[k], e)
    <3>1. h[i + 1] = q.next[c[k]] /\ q.next[c[k]] # NIL /\ k = i + 1
      BY <2>1, <2>3, <2>4 DEF SearchStep, MovesPast
    <3>2. k # q.n /\ k + 1 \in 1 .. q.n /\ h[i + 1] = c[k + 1]
      BY <1>1, <3>1
    <3>3. k + 1 = (i + 1) + 1
      BY <3>1
    <3>4. QED
      BY <2>2, <3>2, <3>3
  <2>5. CASE ~MovesPast(q, c[k], e)
    BY <2>2, <2>3, <2>5 DEF SearchStep
  <2>6. QED
    BY <2>4, <2>5
<1>6. MaxTasks \in T
  <2> HIDE DEF T
  <2>1. \A i \in 0 .. MaxTasks : i \in T
    BY <1>3, <1>4, <1>5, UpTo
  <2>2. QED
    BY <1>3, <2>1
<1>7. PICK k \in 1 .. q.n :
        h[MaxTasks] = c[k] /\ (k = MaxTasks + 1 \/ ~MovesPast(q, c[k], e))
  BY <1>6
<1>8. k # MaxTasks + 1
  BY <1>1, <1>3, ListSize
<1>9. QED
  BY <1>2, <1>7, <1>8

IsInserted(d, c, n, k, e) ==
  /\ d \in [1 .. n + 1 -> Slot]
  /\ \A i \in 1 .. k : d[i] = c[i]
  /\ d[k + 1] = e
  /\ \A i \in k + 2 .. n + 1 : d[i] = c[i - 1]
  /\ \A i, j \in 1 .. n + 1 : d[i] = d[j] => i = j
  /\ {d[i] : i \in 1 .. n + 1} = {c[i] : i \in 1 .. n} \union {e}

LEMMA InsertedIs ==
  ASSUME NEW n \in Nat, NEW c \in [1 .. n -> Slot], \A i, j \in 1 .. n : c[i] = c[j] => i = j,
         NEW e \in Slot, \A i \in 1 .. n : c[i] # e, NEW k \in 0 .. n
  PROVE  IsInserted(Inserted(c, n, k, e), c, n, k, e)
<1> DEFINE d == Inserted(c, n, k, e)
<1>1. d = [i \in 1 .. n + 1 |-> IF i <= k THEN c[i] ELSE IF i = k + 1 THEN e ELSE c[i - 1]]
  BY DEF Inserted
<1> HIDE DEF d
<1>2. /\ \A i \in 1 .. k : d[i] = c[i]
      /\ d[k + 1] = e
      /\ \A i \in k + 2 .. n + 1 : d[i] = c[i - 1]
  BY <1>1
<1>3. \A i \in 1 .. n + 1 : i \in 1 .. k \/ i = k + 1 \/ (i \in k + 2 .. n + 1 /\ i - 1 \in k + 1 .. n)
  OBVIOUS
<1>4. d \in [1 .. n + 1 -> Slot]
  <2>1. \A i \in 1 .. n + 1 : d[i] \in Slot
    BY <1>2, <1>3
  <2>2. QED
    BY <1>1, <2>1
<1>5. ASSUME NEW i \in 1 .. n + 1, NEW j \in 1 .. n + 1, d[i] = d[j], i < j PROVE FALSE
  <2>1. CASE i \in 1 .. k
    BY <1>2, <1>3, <1>5, <2>1
  <2>2. CASE i = k + 1
    BY <1>2, <1>3, <1>5, <2>2
  <2>3. CASE i \in k + 2 .. n + 1
    BY <1>2, <1>3, <1>5, <2>3
  <2>4. QED
    BY <1>3, <2>1, <2>2, <2>3
<1>6. \A i, j \in 1 .. n + 1 : d[i] = d[j] => i = j
  <2>1. \A i, j \in 1 .. n + 1 : i < j \/ j < i \/ i = j
    OBVIOUS
  <2>2. QED
    BY <1>5, <2>1
<1>7. {d[i] : i \in 1 .. n + 1} = {c[i] : i \in 1 .. n} \union {e}
  <2>1. \A i \in 1 .. n + 1 : d[i] \in {c[j] : j \in 1 .. n} \union {e}
    BY <1>2, <1>3
  <2>2. e \in {d[i] : i \in 1 .. n + 1}
    BY <1>2
  <2>3. ASSUME NEW i \in 1 .. n PROVE c[i] \in {d[j] : j \in 1 .. n + 1}
    <3>1. CASE i <= k
      BY <1>2, <3>1
    <3>2. CASE i > k
      <4>1. i + 1 \in k + 2 .. n + 1 /\ (i + 1) - 1 = i /\ i + 1 \in 1 .. n + 1
        BY <3>2
      <4>2. QED
        BY <1>2, <4>1
    <3>3. QED
      BY <3>1, <3>2
  <2>4. QED
    BY <2>1, <2>2, <2>3
<1>8. QED
  BY <1>2, <1>4, <1>6, <1>7 DEF d, IsInserted

(* Linking an entry in at the head of a list, and behind its k-th entry.            *)
LEMMA HeadInserts ==
  ASSUME NEW q, NEW c, Lists(q, c), NEW e \in Slot, e \notin Entries(q, c)
  PROVE  /\ Lists(InsertAtHead(q, e), Inserted(c, q.n, 0, e))
         /\ q.n = 0 => Backs(InsertAtHead(q, e), Inserted(c, q.n, 0, e))
<1> DEFINE n == q.n
           d == Inserted(c, n, 0, e)
           r == InsertAtHead(q, e)
<1>1. /\ q \in Queue /\ q.err = "none" /\ n \in Nat /\ c \in [1 .. n -> Slot]
      /\ \A i, j \in 1 .. n : c[i] = c[j] => i = j
      /\ q.head = IF n = 0 THEN NIL ELSE c[1]
      /\ \A i \in 1 .. n : q.next[c[i]] = IF i = n THEN NIL ELSE c[i + 1]
      /\ \A i \in 1 .. n : c[i] # e
  BY QueueFields DEF Lists, Entries
<1>2. /\ d \in [1 .. n + 1 -> Slot] /\ d[1] = e
      /\ \A i \in 2 .. n + 1 : d[i] = c[i - 1]
      /\ \A i, j \in 1 .. n + 1 : d[i] = d[j] => i = j
  <2>1. 0 \in 0 .. n
    BY <1>1
  <2>2. IsInserted(d, c, n, 0, e)
    BY <1>1, <2>1, InsertedIs
  <2> HIDE DEF d
  <2>3. QED
    BY <2>2 DEF IsInserted
<1>3. /\ r \in Queue /\ r.prev = [q.prev EXCEPT ![e] = NIL]
      /\ r.next = [q.next EXCEPT ![e] = q.head] /\ r.head = e
      /\ r.n = n + 1 /\ r.err = "none"
  BY <1>1, InsertAtHeadIs
<1>4. q.prev \in [Slot -> Ptr] /\ q.next \in [Slot -> Ptr]
  BY <1>1, QueueFields
<1> HIDE DEF n, d, r
<1>5. ASSUME NEW i \in 1 .. n + 1
      PROVE  r.next[d[i]] = IF i = n + 1 THEN NIL ELSE d[i + 1]
  <2>1. CASE i = 1
    BY <1>1, <1>2, <1>3, <1>4, <2>1
  <2>2. CASE i # 1
    <3>1. i - 1 \in 1 .. n /\ d[i] = c[i - 1] /\ c[i - 1] # e /\ c[i - 1] \in Slot
      BY <1>1, <1>2, <2>2
    <3>2. r.next[d[i]] = q.next[c[i - 1]]
      BY <1>3, <1>4, <3>1
    <3>3. i # n + 1 => i + 1 \in 2 .. n + 1 /\ d[i + 1] = c[(i - 1) + 1]
      BY <1>1, <1>2, <2>2
    <3>4. i = n + 1 <=> i - 1 = n
      BY <1>1
    <3>5. QED
      BY <1>1, <3>1, <3>2, <3>3, <3>4
  <2>3. QED
    BY <2>1, <2>2
<1>6. Lists(r, d)
  BY <1>1, <1>2, <1>3, <1>5 DEF Lists
<1>7. n = 0 => Backs(r, d)
  BY <1>2, <1>3, <1>4 DEF Backs
<1>8. QED
  BY <1>6, <1>7 DEF n, d, r

LEMMA AfterInserts ==
  ASSUME NEW q, NEW c, Lists(q, c), NEW e \in Slot, e \notin Entries(q, c), NEW k \in 1 .. q.n
  PROVE  /\ Lists(InsertAfter(q, c[k], e), Inserted(c, q.n, k, e))
         /\ Backs(q, c) => Backs(InsertAfter(q, c[k], e), Inserted(c, q.n, k, e))
<1> DEFINE n == q.n
           d == Inserted(c, n, k, e)
<1>0. PICK p \in Slot : p = c[k]
  BY DEF Lists
<1> DEFINE r == InsertAfter(q, p, e)
<1>1. /\ q \in Queue /\ q.err = "none" /\ n \in Nat /\ c \in [1 .. n -> Slot]
      /\ \A i, j \in 1 .. n : c[i] = c[j] => i = j
      /\ q.head = c[1]
      /\ \A i \in 1 .. n : q.next[c[i]] = IF i = n THEN NIL ELSE c[i + 1]
      /\ \A i \in 1 .. n : c[i] # e
      /\ k \in 1 .. n /\ p = c[k]
  BY <1>0, QueueFields DEF Lists, Entries
<1>2. /\ d \in [1 .. n + 1 -> Slot]
      /\ \A i \in 1 .. k : d[i] = c[i]
      /\ d[k + 1] = e
      /\ \A i \in k + 2 .. n + 1 : d[i] = c[i - 1]
      /\ \A i, j \in 1 .. n + 1 : d[i] = d[j] => i = j
  <2>1. IsInserted(d, c, n, k, e)
    BY <1>1, InsertedIs
  <2> HIDE DEF d
  <2>2. QED
    BY <2>1 DEF IsInserted
<1>3. /\ r \in Queue
      /\ r.prev = IF q.next[p] = NIL THEN [q.prev EXCEPT ![e] = p]
                  ELSE [[q.prev EXCEPT ![e] = p] EXCEPT ![q.next[p]] = e]
      /\ r.next = [[q.next EXCEPT ![e] = q.next[p]] EXCEPT ![p] = e]
      /\ r.head = q.head /\ r.n = n + 1 /\ r.err = "none"
  <2>1. /\ r \in Queue /\ r.head = q.head /\ r.err = q.err
        /\ r.prev = IF q.next[p] = NIL THEN [q.prev EXCEPT ![e] = p]
                    ELSE [[q.prev EXCEPT ![e] = p] EXCEPT ![q.next[p]] = e]
        /\ r.next = [[q.next EXCEPT ![e] = q.next[p]] EXCEPT ![p] = e]
    <3>1. LinkedAfter(q, p, e, r)
      BY <1>1, InsertAfterIs
    <3> HIDE DEF r
    <3>2. QED
      BY <3>1 DEF LinkedAfter
  <2>2. r.n = n + 1
    BY <1>1, InsertAfterCounts
  <2>3. QED
    BY <1>1, <2>1, <2>2
<1>4. q.prev \in [Slot -> Ptr] /\ q.next \in [Slot -> Ptr] /\ e # p /\ NIL \notin Slot
  BY <1>1, QueueFields, SlotType
<1> HIDE DEF n, d, r
<1>5. q.next[p] = IF k = n THEN NIL ELSE c[k + 1]
  BY <1>1
<1>6. /\ r.next[e] = q.next[p] /\ r.next[p] = e
      /\ \A s \in Slot : s # e /\ s # p => r.next[s] = q.next[s]
  BY <1>1, <1>3, <1>4
<1>7. ASSUME NEW i \in 1 .. n + 1
      PROVE  r.next[d[i]] = IF i = n + 1 THEN NIL ELSE d[i + 1]
  <2>1. CASE i < k
    <3>1. i \in 1 .. n /\ i + 1 \in 1 .. k /\ d[i] = c[i] /\ d[i + 1] = c[i + 1] /\ i # n /\ i # n + 1
      BY <1>1, <1>2, <2>1
    <3>2. c[i] # p /\ c[i] # e /\ c[i] \in Slot
      BY <1>1, <2>1, <3>1
    <3>3. QED
      BY <1>1, <1>6, <3>1, <3>2
  <2>2. CASE i = k
    BY <1>1, <1>2, <1>6, <2>2
  <2>3. CASE i = k + 1
    <3>1. d[i] = e /\ (i = n + 1 <=> k = n)
      BY <1>1, <1>2, <2>3
    <3>2. i # n + 1 => i + 1 \in k + 2 .. n + 1 /\ d[i + 1] = c[k + 1]
      BY <1>1, <1>2, <2>3
    <3>3. QED
      BY <1>5, <1>6, <3>1, <3>2
  <2>4. CASE i > k + 1
    <3>1. i - 1 \in 1 .. n /\ i - 1 # k /\ d[i] = c[i - 1] /\ (i = n + 1 <=> i - 1 = n)
      BY <1>1, <1>2, <2>4
    <3>2. i # n + 1 => d[i + 1] = c[(i - 1) + 1]
      BY <1>1, <1>2, <2>4
    <3>3. c[i - 1] # p /\ c[i - 1] # e /\ c[i - 1] \in Slot
      BY <1>1, <3>1
    <3>4. QED
      BY <1>1, <1>6, <3>1, <3>2, <3>3
  <2>5. QED
    BY <1>1, <2>1, <2>2, <2>3, <2>4
<1>8. Lists(r, d)
  <2>1. r.head = d[1]
    BY <1>1, <1>2, <1>3
  <2>2. r.n = n + 1 /\ r.n # 0 /\ r \in Queue /\ r.err = "none"
    BY <1>1, <1>3
  <2>3. QED
    BY <1>2, <1>7, <2>1, <2>2 DEF Lists
<1>9. ASSUME Backs(q, c), NEW i \in 1 .. n + 1
      PROVE  r.prev[d[i]] = IF i = 1 THEN NIL ELSE d[i - 1]
  <2>1. \A j \in 1 .. n : q.prev[c[j]] = IF j = 1 THEN NIL ELSE c[j - 1]
    BY <1>9 DEF Backs, n
  <2>2. /\ r.prev[e] = p
        /\ \A s \in Slot : s # e /\ (k = n \/ s # c[k + 1]) => r.prev[s] = q.prev[s]
        /\ k # n => r.prev[c[k + 1]] = e
    <3>1. k # n => c[k + 1] \in Slot /\ c[k + 1] # e /\ c[k + 1] # NIL
      BY <1>1, <1>4
    <3>2. CASE k = n
      BY <1>1, <1>3, <1>4, <1>5, <3>2
    <3>3. CASE k # n
      BY <1>1, <1>3, <1>4, <1>5, <3>1, <3>3
    <3>4. QED
      BY <3>2, <3>3
  <2>3. CASE i <= k
    <3>1. i \in 1 .. n /\ d[i] = c[i] /\ (i # 1 => d[i - 1] = c[i - 1])
      BY <1>1, <1>2, <2>3
    <3>2. c[i] # e /\ c[i] \in Slot /\ (k # n => c[i] # c[k + 1])
      BY <1>1, <2>3, <3>1
    <3>3. QED
      BY <2>1, <2>2, <3>1, <3>2
  <2>4. CASE i = k + 1
    <3>1. d[i] = e /\ i # 1 /\ d[i - 1] = p
      BY <1>1, <1>2, <2>4
    <3>2. QED
      BY <2>2, <3>1
  <2>5. CASE i = k + 2
    <3>1. d[i] = c[k + 1] /\ k # n /\ i # 1 /\ d[i - 1] = e
      BY <1>1, <1>2, <2>5
    <3>2. QED
      BY <2>2, <3>1
  <2>6. CASE i > k + 2
    <3>1. i - 1 \in 1 .. n /\ i - 1 # k + 1 /\ d[i] = c[i - 1] /\ i # 1 /\ d[i - 1] = c[(i - 1) - 1]
      BY <1>1, <1>2, <2>6
    <3>2. c[i - 1] # e /\ c[i - 1] \in Slot /\ (k # n => c[i - 1] # c[k + 1])
      BY <1>1, <3>1
    <3>3. i - 1 # 1
      BY <1>1, <2>6
    <3>4. QED
      BY <2>1, <2>2, <3>1, <3>2, <3>3
  <2>7. QED
    BY <1>1, <2>3, <2>4, <2>5, <2>6
<1>10. Backs(q, c) => Backs(r, d)
  BY <1>3, <1>9 DEF Backs
<1>11. QED
  BY <1>0, <1>8, <1>10 DEF n, d, r

(* push_ready_task of an entry that is not in the list puts it in, whatever the     *)
(* priorities; when all are equal it goes to the end, and the links back stay true.  *)
EqualRanks == \A s, r \in Slot : Priority[s] = Priority[r]

PushesInto(q, c, e, r, d) ==
  /\ Lists(r, d) /\ r.n = q.n + 1
  /\ Entries(r, d) = Entries(q, c) \union {e}
  /\ EqualRanks => /\ Backs(q, c) => Backs(r, d)
                   /\ \A i \in 1 .. q.n : d[i] = c[i]
                   /\ d[q.n + 1] = e

LEMMA PushList ==
  ASSUME NEW q, NEW c, Lists(q, c), NEW e \in Slot, e \notin Entries(q, c)
  PROVE  \E d : PushesInto(q, c, e, Push(q, e), d)
<1>1. /\ q \in Queue /\ q.err = "none" /\ q.n \in Nat /\ c \in [1 .. q.n -> Slot]
      /\ \A i, j \in 1 .. q.n : c[i] = c[j] => i = j
      /\ \A i \in 1 .. q.n : c[i] # e
      /\ q.n # 0 => q.head \in Slot /\ q.head # NIL /\ q.head = c[1]
  BY QueueFields, SlotType DEF Lists, Entries
<1>2. q.n # MaxTasks
  BY <1>1, SlotType, ListSize
<1>3. ASSUME NEW r, NEW k \in 0 .. q.n, Lists(r, Inserted(c, q.n, k, e)), r.n = q.n + 1,
             EqualRanks => /\ k = q.n
                           /\ Backs(q, c) => Backs(r, Inserted(c, q.n, k, e))
      PROVE  \E d : PushesInto(q, c, e, r, d)
  <2> DEFINE d == Inserted(c, q.n, k, e)
  <2>1. IsInserted(d, c, q.n, k, e)
    BY <1>1, InsertedIs
  <2>2. Lists(r, d) /\ (EqualRanks => k = q.n /\ (Backs(q, c) => Backs(r, d)))
    BY <1>3
  <2> HIDE DEF d
  <2>3. Entries(r, d) = Entries(q, c) \union {e}
    BY <1>3, <2>1 DEF IsInserted, Entries
  <2>4. EqualRanks => (\A i \in 1 .. q.n : d[i] = c[i]) /\ d[q.n + 1] = e
    BY <2>1, <2>2 DEF IsInserted
  <2>5. PushesInto(q, c, e, r, d)
    BY <1>3, <2>2, <2>3, <2>4 DEF PushesInto
  <2>6. QED
    BY <2>5
<1>4. CASE RankedFirst(q, e)
  <2>1. Push(q, e) = InsertAtHead(q, e)
    BY <1>1, <1>2, <1>4 DEF Push
  <2>2. InsertAtHead(q, e).n = q.n + 1
    BY <1>1, InsertAtHeadIs
  <2>3. EqualRanks => q.n = 0
    BY <1>1, <1>4, PriorityAssumption DEF EqualRanks, RankedFirst
  <2>4. /\ Lists(InsertAtHead(q, e), Inserted(c, q.n, 0, e))
        /\ q.n = 0 => Backs(InsertAtHead(q, e), Inserted(c, q.n, 0, e))
    BY HeadInserts
  <2>5. 0 \in 0 .. q.n
    BY <1>1
  <2>6. QED
    BY <1>3, <2>1, <2>2, <2>3, <2>4, <2>5
<1>5. CASE ~RankedFirst(q, e)
  <2>1. q.n # 0
    BY <1>5 DEF RankedFirst
  <2>2. PICK k \in 1 .. q.n : LastNotBelow(q, e) = c[k] /\ ~MovesPast(q, c[k], e)
    BY <2>1, SearchEnds
  <2>3. Push(q, e) = InsertAfter(q, c[k], e)
    BY <1>1, <1>2, <1>5, <2>1, <2>2 DEF Push
  <2>4. c[k] \in Slot /\ k \in 0 .. q.n
    BY <1>1
  <2>5. InsertAfter(q, c[k], e).n = q.n + 1
    BY <1>1, <2>4, InsertAfterCounts
  <2>6. EqualRanks => k = q.n
    <3>1. k # q.n => q.next[c[k]] = c[k + 1] /\ c[k + 1] \in Slot /\ c[k + 1] # NIL
      BY <1>1, SlotType DEF Lists
    <3>2. \A s \in Slot : EqualRanks => Priority[s] >= Priority[e]
      BY PriorityAssumption DEF EqualRanks
    <3>3. QED
      BY <2>2, <3>1, <3>2 DEF MovesPast
  <2>7. /\ Lists(InsertAfter(q, c[k], e), Inserted(c, q.n, k, e))
        /\ Backs(q, c) => Backs(InsertAfter(q, c[k], e), Inserted(c, q.n, k, e))
    BY AfterInserts
  <2>8. QED
    BY <1>3, <2>3, <2>4, <2>5, <2>6, <2>7
<1>6. QED
  BY <1>4, <1>5

-----------------------------------------------------------------------------
(* The chain of a list is the list.                                              *)
Prefix(q, c, i) == [j \in 1 .. (IF i <= q.n THEN i ELSE q.n) |-> c[j]]

LEMMA PrefixExtends ==
  ASSUME NEW q, NEW c, Lists(q, c), NEW i \in Nat
  PROVE  Extended(q, Prefix(q, c, i)) = Prefix(q, c, i + 1)
<1> DEFINE s == Prefix(q, c, i)
           m == IF i <= q.n THEN i ELSE q.n
<1>1. /\ q.n \in Nat /\ c \in [1 .. q.n -> Slot] /\ NIL \notin Slot
      /\ q.head = IF q.n = 0 THEN NIL ELSE c[1]
      /\ \A k \in 1 .. q.n : q.next[c[k]] = IF k = q.n THEN NIL ELSE c[k + 1]
  BY QueueFields, SlotType DEF Lists
<1>2. s \in Seq(Slot) /\ Len(s) = m /\ m \in 0 .. q.n /\ \A j \in 1 .. m : s[j] = c[j]
  BY <1>1 DEF Prefix
<1> HIDE DEF s
<1>3. CASE i >= q.n
  <2>1. m = q.n
    BY <1>1, <1>3
  <2>2. Extended(q, s) = s
    <3>1. CASE q.n = 0
      <4>1. s = <<>>
        BY <1>2, <2>1, <3>1
      <4>2. QED
        BY <1>1, <3>1, <4>1 DEF Extended
    <3>2. CASE q.n # 0
      <4>1. s # <<>> /\ s[Len(s)] = c[q.n] /\ q.next[c[q.n]] = NIL
        BY <1>1, <1>2, <2>1, <3>2
      <4>2. QED
        BY <4>1 DEF Extended
    <3>3. QED
      BY <3>1, <3>2
  <2>3. Prefix(q, c, i + 1) = Prefix(q, c, i)
    <3>1. (IF i + 1 <= q.n THEN i + 1 ELSE q.n) = q.n /\ (IF i <= q.n THEN i ELSE q.n) = q.n
      BY <1>1, <1>3
    <3>2. QED
      BY <3>1 DEF Prefix
  <2>4. QED
    BY <2>2, <2>3 DEF s
<1>4. CASE i < q.n
  <2>1. m = i /\ q.n # 0 /\ i + 1 \in 1 .. q.n
    BY <1>1, <1>4
  <2>2. Extended(q, s) = Append(s, c[i + 1])
    <3>1. CASE i = 0
      <4>1. s = <<>>
        BY <1>2, <2>1, <3>1
      <4>2. c[i + 1] = q.head /\ q.head # NIL
        BY <1>1, <2>1, <3>1
      <4>3. QED
        BY <4>1, <4>2 DEF Extended
    <3>2. CASE i # 0
      <4>1. s # <<>> /\ s[Len(s)] = c[i] /\ q.next[c[i]] = c[i + 1] /\ c[i + 1] # NIL
        BY <1>1, <1>2, <1>4, <2>1, <3>2
      <4>2. QED
        BY <4>1 DEF Extended
    <3>3. QED
      BY <3>1, <3>2
  <2>3. Append(s, c[i + 1]) = Prefix(q, c, i + 1)
    <3>1. Prefix(q, c, i + 1) = [j \in 1 .. i + 1 |-> c[j]]
      BY <2>1 DEF Prefix
    <3>2. [j \in 1 .. i + 1 |-> c[j]] \in Seq(Slot)
      <4>1. \A j \in 1 .. i + 1 : c[j] \in Slot
        BY <1>1, <2>1
      <4>2. i + 1 \in Nat
        OBVIOUS
      <4>3. QED
        BY <4>1, <4>2
    <3>3. Append(s, c[i + 1]) \in Seq(Slot) /\ Len(Append(s, c[i + 1])) = i + 1
      BY <1>1, <1>2, <2>1
    <3>4. \A j \in 1 .. i + 1 : Append(s, c[i + 1])[j] = c[j]
      BY <1>1, <1>2, <2>1
    <3>5. QED
      BY <3>1, <3>2, <3>3, <3>4
  <2>4. QED
    BY <2>2, <2>3 DEF s
<1>5. QED
  BY <1>1, <1>3, <1>4

LEMMA ChainIs ==
  ASSUME NEW q, NEW c, Lists(q, c)
  PROVE  Chain(q) = c
<1> DEFINE Body(h) == [i \in 0 .. MaxTasks |-> IF i = 0 THEN <<>> ELSE Extended(q, h[i - 1])]
           g == CHOOSE h : h = Body(h)
           h0 == [i \in 0 .. MaxTasks |-> Prefix(q, c, i)]
<1>1. q.n \in Nat /\ q.n <= MaxTasks /\ MaxTasks \in Nat /\ c \in [1 .. q.n -> Slot]
  BY SlotType, ListSize DEF Lists
<1>2. Prefix(q, c, 0) = <<>>
  BY <1>1 DEF Prefix
<1>3. \A i \in 1 .. MaxTasks : Prefix(q, c, i) = Extended(q, Prefix(q, c, i - 1))
  <2>1. \A i \in 1 .. MaxTasks : i - 1 \in Nat /\ (i - 1) + 1 = i
    BY <1>1
  <2>2. QED
    BY <2>1, PrefixExtends
<1>4. h0 = Body(h0)
  <2>1. \A i \in 0 .. MaxTasks : i # 0 => i \in 1 .. MaxTasks /\ i - 1 \in 0 .. MaxTasks
    BY <1>1
  <2>2. \A i \in 0 .. MaxTasks : h0[i] = Body(h0)[i]
    BY <1>1, <1>2, <1>3, <2>1
  <2>3. QED
    BY <2>2
<1>5. g = Body(g)
  BY <1>4
<1>6. Chain(q) = g[MaxTasks]
  BY DEF Chain
<1> HIDE DEF g, h0
<1>7. /\ g[0] = <<>>
      /\ \A i \in 1 .. MaxTasks : g[i] = Extended(q, g[i - 1])
  BY <1>1, <1>5
<1> DEFINE T == {i \in 0 .. MaxTasks : g[i] = Prefix(q, c, i)}
<1>8. 0 \in T
  BY <1>1, <1>2, <1>7
<1>9. ASSUME NEW i \in 0 .. MaxTasks - 1, i \in T PROVE i + 1 \in T
  <2>1. i + 1 \in 1 .. MaxTasks /\ (i + 1) - 1 = i /\ i + 1 \in 0 .. MaxTasks
    BY <1>1
  <2>2. g[i] = Prefix(q, c, i)
    BY <1>9
  <2>3. g[i + 1] = Extended(q, Prefix(q, c, i)) /\ Prefix(q, c, i + 1) = Extended(q, Prefix(q, c, i))
    BY <1>3, <1>7, <2>1, <2>2
  <2>4. QED
    BY <2>1, <2>3
<1>10. MaxTasks \in T
  <2> HIDE DEF T
  <2>1. \A i \in 0 .. MaxTasks : i \in T
    BY <1>1, <1>8, <1>9, UpTo
  <2>2. QED
    BY <1>1, <2>1
<1>11. Prefix(q, c, MaxTasks) = c
  BY <1>1 DEF Prefix
<1>12. QED
  BY <1>6, <1>10, <1>11

-----------------------------------------------------------------------------
(* remove_ready_task of the k-th entry, when the links back are true.               *)
Removed(c, n, k) == [i \in 1 .. n - 1 |-> IF i < k THEN c[i] ELSE c[i + 1]]

RemovesFrom(q, c, k, r) ==
  LET d == Removed(c, q.n, k)
  IN  Lists(r, d) /\ Backs(r, d) /\ r.n = q.n - 1 /\ Entries(r, d) = Entries(q, c) \ {c[k]}

LEMMA RemoveType ==
  ASSUME NEW q \in Queue, NEW e \in Slot, q.n # 0
  PROVE  Remove(q, e) \in Queue
<1> DEFINE p == q.prev[e]
           x == q.next[e]
           skipped == IF p # NIL THEN [q EXCEPT !.next[p] = x]
                      ELSE IF e = q.head THEN [q EXCEPT !.head = x]
                      ELSE q
           y == skipped.next[e]
           back == IF y = NIL THEN skipped ELSE [skipped EXCEPT !.prev[y] = skipped.prev[e]]
<1>1. p \in Ptr /\ x \in Ptr /\ q.n - 1 \in Nat
  BY QueueFields
<1>2. skipped \in Queue /\ skipped.n = q.n
  <2> HIDE DEF p, x
  <2>1. [q EXCEPT !.next[p] = x] \in Queue /\ [q EXCEPT !.next[p] = x].n = q.n
    BY <1>1 DEF Queue
  <2>2. [q EXCEPT !.head = x] \in Queue /\ [q EXCEPT !.head = x].n = q.n
    BY <1>1 DEF Queue
  <2>3. QED
    BY <2>1, <2>2
<1>3. back \in Queue /\ back.n = q.n
  <2> HIDE DEF skipped
  <2>1. y \in Ptr /\ skipped.prev[e] \in Ptr
    BY <1>2, QueueFields
  <2> HIDE DEF y
  <2>2. [skipped EXCEPT !.prev[y] = skipped.prev[e]] \in Queue
    BY <1>2, <2>1 DEF Queue
  <2>3. [skipped EXCEPT !.prev[y] = skipped.prev[e]].n = q.n
    BY <1>2 DEF Queue
  <2>4. QED
    BY <1>2, <2>2, <2>3
<1>4. Remove(q, e) = [back EXCEPT !.prev[e] = NIL, !.next[e] = NIL, !.n = @ - 1]
  BY DEF Remove
<1> DEFINE r == [back EXCEPT !.prev[e] = NIL, !.next[e] = NIL, !.n = @ - 1]
<1> HIDE DEF back
<1>5. /\ r.prev = [back.prev EXCEPT ![e] = NIL] /\ r.next = [back.next EXCEPT ![e] = NIL]
      /\ r.n = back.n - 1
  BY <1>3 DEF Queue
<1>6. r = [back EXCEPT !.prev = r.prev, !.next = r.next, !.n = r.n]
  BY <1>3 DEF Queue
<1> HIDE DEF r
<1>7. r.prev \in [Slot -> Ptr] /\ r.next \in [Slot -> Ptr] /\ r.n \in Nat
  BY <1>1, <1>3, <1>5, QueueFields DEF Ptr
<1>8. r \in Queue
  BY <1>3, <1>6, <1>7 DEF Queue
<1>9. QED
  BY <1>4, <1>8 DEF r

(* The fields after the removal of an entry, which may be its own neighbour.         *)
RemovedFields(q, e, r) ==
  /\ r.n = q.n - 1 /\ r.err = q.err
  /\ r.prev[e] = NIL /\ r.next[e] = NIL
  /\ r.head = IF q.prev[e] = NIL /\ e = q.head THEN q.next[e] ELSE q.head
  /\ \A s \in Slot : s # e /\ s # q.prev[e] => r.next[s] = q.next[s]
  /\ q.prev[e] \notin {NIL, e} => r.next[q.prev[e]] = q.next[e]
  /\ \A s \in Slot : s # e /\ s # q.next[e] => r.prev[s] = q.prev[s]
  /\ q.next[e] \notin {NIL, e} => r.prev[q.next[e]] = q.prev[e]

LEMMA RemoveFields ==
  ASSUME NEW q \in Queue, NEW e \in Slot
  PROVE  RemovedFields(q, e, Remove(q, e))
<1> DEFINE p == q.prev[e]
           x == q.next[e]
           skipped == IF p # NIL THEN [q EXCEPT !.next[p] = x]
                      ELSE IF e = q.head THEN [q EXCEPT !.head = x]
                      ELSE q
           y == skipped.next[e]
           back == IF y = NIL THEN skipped ELSE [skipped EXCEPT !.prev[y] = skipped.prev[e]]
           r == [back EXCEPT !.prev[e] = NIL, !.next[e] = NIL, !.n = @ - 1]
<1>1. /\ p \in Ptr /\ x \in Ptr /\ NIL \notin Slot
      /\ q.prev \in [Slot -> Ptr] /\ q.next \in [Slot -> Ptr]
      /\ p # NIL => p \in Slot
      /\ x # NIL => x \in Slot
  BY QueueFields, SlotType DEF Ptr
<1>2. Remove(q, e) = r
  BY DEF Remove
<1>3. /\ skipped \in Queue
      /\ skipped.n = q.n /\ skipped.err = q.err /\ skipped.prev = q.prev
      /\ skipped.head = IF p = NIL /\ e = q.head THEN x ELSE q.head
      /\ skipped.next = IF p # NIL THEN [q.next EXCEPT ![p] = x] ELSE q.next
  <2> HIDE DEF p, x
  <2>1. CASE p # NIL
    BY <1>1, <2>1 DEF Queue
  <2>2. CASE p = NIL /\ e = q.head
    BY <1>1, <2>2 DEF Queue
  <2>3. CASE p = NIL /\ e # q.head
    BY <1>1, <2>3 DEF Queue
  <2>4. QED
    BY <2>1, <2>2, <2>3
<1>4. y = x /\ skipped.prev[e] = p
  <2> HIDE DEF skipped, p, x
  <2>1. skipped.next[e] = q.next[e]
    BY <1>1, <1>3 DEF x
  <2>2. QED
    BY <1>3, <2>1 DEF p, x
<1> HIDE DEF skipped, y
<1>5. /\ back \in Queue
      /\ back.n = q.n /\ back.err = q.err /\ back.head = skipped.head
      /\ back.next = skipped.next
      /\ back.prev = IF x = NIL THEN q.prev ELSE [q.prev EXCEPT ![x] = p]
  <2> HIDE DEF p, x
  <2>1. CASE x = NIL
    BY <1>3, <1>4, <2>1
  <2>2. CASE x # NIL
    BY <1>1, <1>3, <1>4, <2>2 DEF Queue
  <2>3. QED
    BY <2>1, <2>2
<1> HIDE DEF back
<1>6. /\ r.n = q.n - 1 /\ r.err = q.err /\ r.head = back.head
      /\ r.next = [back.next EXCEPT ![e] = NIL]
      /\ r.prev = [back.prev EXCEPT ![e] = NIL]
  BY <1>5 DEF Queue
<1> HIDE DEF r, p, x
<1>7. /\ \A s \in Slot : s # e /\ s # p => r.next[s] = q.next[s]
      /\ p \notin {NIL, e} => r.next[p] = x
      /\ r.next[e] = NIL
  BY <1>1, <1>3, <1>5, <1>6
<1>8. /\ \A s \in Slot : s # e /\ s # x => r.prev[s] = q.prev[s]
      /\ x \notin {NIL, e} => r.prev[x] = p
      /\ r.prev[e] = NIL
  BY <1>1, <1>5, <1>6
<1>9. r.head = IF p = NIL /\ e = q.head THEN x ELSE q.head
  BY <1>3, <1>5, <1>6
<1>10. QED
  BY <1>2, <1>6, <1>7, <1>8, <1>9 DEF RemovedFields, p, x

LEMMA RemoveList ==
  ASSUME NEW q, NEW c, Lists(q, c), Backs(q, c), NEW k \in 1 .. q.n
  PROVE  RemovesFrom(q, c, k, Remove(q, c[k]))
<1> DEFINE n == q.n
           d == Removed(c, n, k)
           r == Remove(q, c[k])
<1>1. /\ q \in Queue /\ q.err = "none" /\ n \in Nat /\ c \in [1 .. n -> Slot] /\ n # 0
      /\ \A i, j \in 1 .. n : c[i] = c[j] => i = j
      /\ q.head = c[1] /\ NIL \notin Slot /\ k \in 1 .. n /\ n - 1 \in Nat
      /\ \A i \in 1 .. n : q.next[c[i]] = IF i = n THEN NIL ELSE c[i + 1]
      /\ \A i \in 1 .. n : q.prev[c[i]] = IF i = 1 THEN NIL ELSE c[i - 1]
  BY QueueFields, SlotType DEF Lists, Backs
<1>2. PICK e \in Slot : e = c[k]
  BY <1>1
<1>3. /\ q.next[e] = IF k = n THEN NIL ELSE c[k + 1]
      /\ q.prev[e] = IF k = 1 THEN NIL ELSE c[k - 1]
      /\ k # n => k + 1 \in 1 .. n
      /\ k # 1 => k - 1 \in 1 .. n
      /\ \A i \in 1 .. n : i # k => c[i] # e
  BY <1>1, <1>2
<1>4. q.next[e] # e /\ q.prev[e] # e
  BY <1>1, <1>3
<1>5. RemovedFields(q, e, r) /\ r \in Queue
  BY <1>1, <1>2, <1>4, RemoveFields, RemoveType
<1>6. d = [i \in 1 .. n - 1 |-> IF i < k THEN c[i] ELSE c[i + 1]]
  BY DEF Removed
<1> HIDE DEF n, d, r
<1>7. /\ r.n = n - 1 /\ r.err = "none"
      /\ \A s \in Slot : s # e /\ s # q.prev[e] => r.next[s] = q.next[s]
      /\ q.prev[e] # NIL => r.next[q.prev[e]] = q.next[e]
      /\ \A s \in Slot : s # e /\ s # q.next[e] => r.prev[s] = q.prev[s]
      /\ q.next[e] # NIL => r.prev[q.next[e]] = q.prev[e]
      /\ r.head = IF q.prev[e] = NIL /\ e = q.head THEN q.next[e] ELSE q.head
  BY <1>1, <1>4, <1>5 DEF RemovedFields, n
<1>8. /\ \A i \in 1 .. n - 1 : i < k => i \in 1 .. n /\ d[i] = c[i]
      /\ \A i \in 1 .. n - 1 : i >= k => i + 1 \in 1 .. n /\ d[i] = c[i + 1]
  BY <1>1, <1>6
<1>9. d \in [1 .. n - 1 -> Slot]
  <2>1. ASSUME NEW i \in 1 .. n - 1 PROVE d[i] \in Slot
    <3>1. i < k \/ i >= k
      BY <1>1
    <3>2. QED
      BY <1>1, <1>8, <3>1
  <2>2. QED
    BY <1>6, <2>1
<1>10. \A i, j \in 1 .. n - 1 : d[i] = d[j] => i = j
  <2> SUFFICES ASSUME NEW i \in 1 .. n - 1, NEW j \in 1 .. n - 1, d[i] = d[j], i < j
               PROVE  FALSE
    <3>1. \A i, j \in 1 .. n - 1 : i < j \/ j < i \/ i = j
      BY <1>1
    <3>2. QED
      BY <3>1
  <2>1. i < k \/ i >= k
    BY <1>1
  <2>2. j < k \/ j >= k
    BY <1>1
  <2>3. CASE i < k /\ j < k
    <3>1. i \in 1 .. n /\ j \in 1 .. n /\ c[i] = c[j]
      BY <1>8, <2>3
    <3>2. QED
      BY <1>1, <3>1
  <2>4. CASE i < k /\ j >= k
    <3>1. i \in 1 .. n /\ j + 1 \in 1 .. n /\ c[i] = c[j + 1] /\ i # j + 1
      BY <1>8, <2>4
    <3>2. QED
      BY <1>1, <3>1
  <2>5. CASE i >= k /\ j >= k
    <3>1. i + 1 \in 1 .. n /\ j + 1 \in 1 .. n /\ c[i + 1] = c[j + 1] /\ i + 1 # j + 1
      BY <1>8, <2>5
    <3>2. QED
      BY <1>1, <3>1
  <2>6. QED
    BY <1>1, <2>1, <2>2, <2>3, <2>4, <2>5
<1>11. {d[i] : i \in 1 .. n - 1} = {c[i] : i \in 1 .. n} \ {e}
  <2>1. ASSUME NEW i \in 1 .. n - 1 PROVE d[i] \in {c[j] : j \in 1 .. n} \ {e}
    <3>1. i < k \/ i >= k
      BY <1>1
    <3>2. i >= k => i + 1 # k
      BY <1>1
    <3>3. QED
      BY <1>3, <1>8, <3>1, <3>2
  <2>2. ASSUME NEW i \in 1 .. n, c[i] # e PROVE c[i] \in {d[j] : j \in 1 .. n - 1}
    <3>0. i # k
      BY <1>2, <2>2
    <3>1. i < k \/ i > k
      BY <1>1, <3>0
    <3>2. CASE i < k
      <4>1. i \in 1 .. n - 1
        BY <1>1, <3>2
      <4>2. QED
        BY <1>8, <3>2, <4>1
    <3>3. CASE i > k
      <4>1. i - 1 \in 1 .. n - 1 /\ i - 1 >= k /\ (i - 1) + 1 = i
        BY <1>1, <3>3
      <4>2. QED
        BY <1>8, <4>1
    <3>4. QED
      BY <3>1, <3>2, <3>3
  <2>3. QED
    BY <2>1, <2>2
<1>12. r.head = IF n - 1 = 0 THEN NIL ELSE d[1]
  <2>1. k = 1 <=> e = c[1]
    <3>1. 1 \in 1 .. n
      BY <1>1
    <3>2. QED
      BY <1>1, <1>2, <3>1
  <2>2. k # 1 => q.prev[e] # NIL
    BY <1>1, <1>3
  <2>3. CASE k = 1
    <3>1. r.head = q.next[e]
      BY <1>1, <1>3, <1>7, <2>1, <2>3
    <3>2. n - 1 # 0 => d[1] = c[2]
      BY <1>1, <1>8, <2>3
    <3>3. QED
      BY <1>1, <1>3, <2>3, <3>1, <3>2
  <2>4. CASE k # 1
    <3>1. r.head = c[1] /\ n - 1 # 0 /\ d[1] = c[1]
      BY <1>1, <1>7, <1>8, <2>2, <2>4
    <3>2. QED
      BY <3>1
  <2>5. QED
    BY <2>3, <2>4
<1>13. ASSUME NEW i \in 1 .. n - 1
       PROVE  r.next[d[i]] = IF i = n - 1 THEN NIL ELSE d[i + 1]
  <2>1. CASE i < k - 1
    <3>1. /\ i \in 1 .. n /\ i # k /\ i # n /\ i # n - 1 /\ i + 1 \in 1 .. n - 1
          /\ d[i] = c[i] /\ d[i + 1] = c[i + 1]
      BY <1>1, <1>8, <2>1
    <3>2. c[i] # e /\ c[i] # q.prev[e] /\ c[i] \in Slot
      BY <1>1, <1>3, <2>1, <3>1
    <3>3. QED
      BY <1>1, <1>7, <3>1, <3>2
  <2>2. CASE i = k - 1
    <3>1. d[i] = q.prev[e] /\ q.prev[e] # NIL
      BY <1>1, <1>3, <1>8, <2>2
    <3>2. r.next[d[i]] = q.next[e]
      BY <1>7, <3>1
    <3>3. i # n - 1 => i + 1 \in 1 .. n - 1 /\ d[i + 1] = c[k + 1] /\ k # n
      BY <1>1, <1>8, <2>2
    <3>4. i = n - 1 => k = n
      BY <1>1, <2>2
    <3>5. QED
      BY <1>3, <3>2, <3>3, <3>4
  <2>3. CASE i >= k
    <3>1. i + 1 \in 1 .. n /\ d[i] = c[i + 1] /\ (i = n - 1 <=> i + 1 = n) /\ i + 1 # k
      BY <1>1, <1>8, <2>3
    <3>2. i # n - 1 => i + 1 \in 1 .. n - 1 /\ d[i + 1] = c[(i + 1) + 1]
      BY <1>1, <1>8, <2>3
    <3>3. c[i + 1] # e /\ c[i + 1] # q.prev[e] /\ c[i + 1] \in Slot
      BY <1>1, <1>3, <2>3, <3>1
    <3>4. r.next[d[i]] = q.next[c[i + 1]]
      BY <1>7, <3>1, <3>3
    <3>5. QED
      BY <1>1, <3>1, <3>2, <3>4
  <2>4. QED
    BY <1>1, <2>1, <2>2, <2>3
<1>14. ASSUME NEW i \in 1 .. n - 1
       PROVE  r.prev[d[i]] = IF i = 1 THEN NIL ELSE d[i - 1]
  <2>1. CASE i < k
    <3>1. i \in 1 .. n /\ d[i] = c[i] /\ (i # 1 => i - 1 \in 1 .. n - 1 /\ d[i - 1] = c[i - 1])
      BY <1>1, <1>8, <2>1
    <3>2. c[i] # e /\ c[i] # q.next[e] /\ c[i] \in Slot
      BY <1>1, <1>3, <2>1, <3>1
    <3>3. QED
      BY <1>1, <1>7, <3>1, <3>2
  <2>2. CASE i = k
    <3>1. d[i] = q.next[e] /\ q.next[e] # NIL
      BY <1>1, <1>3, <1>8, <2>2
    <3>2. r.prev[d[i]] = q.prev[e]
      BY <1>7, <3>1
    <3>3. i # 1 => i - 1 \in 1 .. n - 1 /\ d[i - 1] = c[k - 1]
      BY <1>1, <1>8, <2>2
    <3>4. QED
      BY <1>3, <2>2, <3>2, <3>3
  <2>3. CASE i > k
    <3>1. i + 1 \in 1 .. n /\ d[i] = c[i + 1] /\ i # 1 /\ i + 1 # k /\ i + 1 # k + 1 /\ i + 1 # 1
      BY <1>1, <1>8, <2>3
    <3>2. i - 1 \in 1 .. n - 1 /\ d[i - 1] = c[(i + 1) - 1]
      BY <1>1, <1>8, <2>3
    <3>3. c[i + 1] # e /\ c[i + 1] # q.next[e] /\ c[i + 1] \in Slot
      BY <1>1, <1>3, <2>3, <3>1
    <3>4. r.prev[d[i]] = q.prev[c[i + 1]]
      BY <1>7, <3>1, <3>3
    <3>5. QED
      BY <1>1, <3>1, <3>2, <3>4
  <2>4. QED
    BY <1>1, <2>1, <2>2, <2>3
<1>15. Lists(r, d) /\ Backs(r, d)
  BY <1>5, <1>7, <1>9, <1>10, <1>12, <1>13, <1>14 DEF Lists, Backs
<1>16. Entries(r, d) = Entries(q, c) \ {c[k]}
  BY <1>2, <1>7, <1>11 DEF Entries, n
<1>17. QED
  BY <1>7, <1>15, <1>16 DEF RemovesFrom, n, d, r

-----------------------------------------------------------------------------
(* wake_irq_tasks: the loop over the slots.                                        *)
LEMMA WakeLoop ==
  ASSUME qready \in Queue, NEW irq
  PROVE  \E h \in [0 .. MaxTasks -> Queue] :
           /\ h[0] = qready
           /\ \A i \in 1 .. MaxTasks : h[i] = WakeSlot(irq, h[i - 1], i - 1)
           /\ WokenQueue(irq) = h[MaxTasks]
<1> DEFINE Body(h) == [i \in 0 .. MaxTasks |->
                         IF i = 0 THEN qready ELSE WakeSlot(irq, h[i - 1], i - 1)]
           g == CHOOSE h : h = Body(h)
           F == [x \in Nat \X Queue |->
                   IF x[1] \in 1 .. MaxTasks THEN WakeSlot(irq, x[2], x[1] - 1) ELSE x[2]]
<1>0. MaxTasks \in Nat /\ \A i \in 1 .. MaxTasks : i - 1 \in Slot
  BY SlotType DEF Slot
<1>1. \A q \in Queue : \A s \in Slot : WakeSlot(irq, q, s) \in Queue
  BY PushType DEF WakeSlot
<1>2. F \in [Nat \X Queue -> Queue]
  BY <1>0, <1>1
<1>3. \A i \in 1 .. MaxTasks : \A q \in Queue : F[<<i, q>>] = WakeSlot(irq, q, i - 1)
  BY <1>0
<1> HIDE DEF F
<1>4. PICK h : Loops(Queue, qready, F, MaxTasks, h)
  <2> HIDE DEF Body, g
  <2>1. QED
    BY <1>0, <1>2, Iterates
<1>5. /\ h \in [0 .. MaxTasks -> Queue] /\ h[0] = qready
      /\ \A i \in 1 .. MaxTasks : h[i] = F[<<i, h[i - 1]>>]
  BY <1>4 DEF Loops
<1>6. ASSUME NEW i \in 1 .. MaxTasks PROVE h[i] = WakeSlot(irq, h[i - 1], i - 1)
  <2>1. i - 1 \in 0 .. MaxTasks
    BY <1>0
  <2>2. h[i - 1] \in Queue /\ h[i] = F[<<i, h[i - 1]>>]
    BY <1>5, <2>1
  <2>3. QED
    BY <1>3, <2>2
<1>7. h = Body(h)
  <2>1. \A i \in 0 .. MaxTasks : h[i] = Body(h)[i]
    BY <1>0, <1>5, <1>6
  <2>2. DOMAIN Body(h) = 0 .. MaxTasks
    OBVIOUS
  <2>3. QED
    BY <1>5, <2>1, <2>2
<1>8. g = Body(g)
  BY <1>7
<1>9. WokenQueue(irq) = g[MaxTasks]
  BY DEF WokenQueue
<1> HIDE DEF g
<1>10. g[0] = qready /\ \A i \in 1 .. MaxTasks : g[i] = WakeSlot(irq, g[i - 1], i - 1)
  BY <1>0, <1>8
<1>11. DOMAIN g = 0 .. MaxTasks
  BY <1>8
<1> DEFINE T == {j \in 0 .. MaxTasks : g[j] \in Queue}
<1>12. 0 \in T
  BY <1>0, <1>10
<1>13. ASSUME NEW i \in 0 .. MaxTasks - 1, i \in T PROVE i + 1 \in T
  <2>1. i + 1 \in 1 .. MaxTasks /\ (i + 1) - 1 = i /\ i \in Slot /\ g[i] \in Queue
    BY <1>0, <1>13
  <2>2. g[i + 1] = WakeSlot(irq, g[i], i)
    BY <1>10, <2>1
  <2>3. QED
    BY <1>1, <2>1, <2>2
<1>14. \A i \in 0 .. MaxTasks : g[i] \in Queue
  <2> HIDE DEF T
  <2>1. \A i \in 0 .. MaxTasks : i \in T
    BY <1>0, <1>12, <1>13, UpTo
  <2>2. QED
    BY <2>1 DEF T
<1>15. g \in [0 .. MaxTasks -> Queue]
  <2>1. g = [i \in 0 .. MaxTasks |-> g[i]]
    BY <1>8, <1>11
  <2>2. QED
    BY <1>14, <2>1
<1>16. QED
  BY <1>9, <1>10, <1>15

LEMMA WokenQueueType ==
  ASSUME qready \in Queue, NEW irq
  PROVE  WokenQueue(irq) \in Queue
<1>1. PICK h \in [0 .. MaxTasks -> Queue] : WokenQueue(irq) = h[MaxTasks]
  BY WakeLoop
<1>2. h[MaxTasks] \in Queue
  BY SlotType
<1>3. QED
  BY <1>1, <1>2

(* r is a list d that goes on from the list c of q with the entries of W.             *)
Grows(q, c, W, r, d) ==
  /\ Lists(r, d) /\ Backs(r, d) /\ r.n >= q.n
  /\ Entries(r, d) = Entries(q, c) \union W
  /\ \A i \in 1 .. q.n : d[i] = c[i]

LEMMA GrowsByPush ==
  ASSUME EqualRanks,
         NEW q, NEW c, q.n \in Nat, NEW W, NEW r, NEW d, Grows(q, c, W, r, d),
         NEW e \in Slot, e \notin Entries(q, c), e \notin W
  PROVE  \E d2 : Grows(q, c, W \union {e}, Push(r, e), d2)
<1>1. Lists(r, d) /\ Backs(r, d) /\ e \notin Entries(r, d)
  BY DEF Grows
<1>2. PICK d2 : PushesInto(r, d, e, Push(r, e), d2)
  BY <1>1, PushList
<1>3. /\ Lists(Push(r, e), d2) /\ Backs(Push(r, e), d2) /\ Push(r, e).n = r.n + 1
      /\ Entries(Push(r, e), d2) = Entries(r, d) \union {e}
      /\ \A i \in 1 .. r.n : d2[i] = d[i]
  BY <1>1, <1>2 DEF PushesInto
<1>4. r.n \in Nat
  BY <1>1, QueueFields DEF Lists
<1>5. Push(r, e).n >= q.n /\ \A i \in 1 .. q.n : d2[i] = c[i]
  BY <1>3, <1>4 DEF Grows
<1>6. Entries(Push(r, e), d2) = Entries(q, c) \union (W \union {e})
  BY <1>3 DEF Grows
<1>7. Grows(q, c, W \union {e}, Push(r, e), d2)
  BY <1>3, <1>5, <1>6 DEF Grows
<1>8. QED
  BY <1>7

LEMMA WokenList ==
  ASSUME EqualRanks, NEW irq,
         NEW c, Lists(qready, c), Backs(qready, c),
         \A s \in Slot : s \in Woken(irq) => s \notin Entries(qready, c)
  PROVE  \E d : Grows(qready, c, Woken(irq), WokenQueue(irq), d)
<1> DEFINE W(i) == {s \in Woken(irq) : s < i}
<1>1. qready \in Queue /\ qready.n \in Nat
  BY QueueFields DEF Lists
<1>2. PICK h \in [0 .. MaxTasks -> Queue] :
           /\ h[0] = qready
           /\ \A i \in 1 .. MaxTasks : h[i] = WakeSlot(irq, h[i - 1], i - 1)
           /\ WokenQueue(irq) = h[MaxTasks]
  BY <1>1, WakeLoop
<1>3. MaxTasks \in Nat /\ Woken(irq) \in SUBSET Slot /\ Slot \in SUBSET Nat
  BY SlotType DEF Woken
<1>3a. \A s \in Woken(irq) : s \in Slot /\ s \in Nat
  BY <1>3
<1> DEFINE T == {i \in 0 .. MaxTasks : \E d : Grows(qready, c, W(i), h[i], d)}
<1>4. 0 \in T
  <2>1. W(0) = {}
    <3>1. \A s \in Woken(irq) : ~(s < 0)
      BY <1>3a
    <3>2. QED
      BY <3>1
  <2> HIDE DEF W
  <2>2. Entries(qready, c) = Entries(qready, c) \union W(0)
    BY <2>1
  <2>4. Grows(qready, c, W(0), h[0], c)
    BY <1>1, <1>2, <2>2 DEF Grows
  <2>3. QED
    BY <1>3, <2>4
<1>5. ASSUME NEW i \in 0 .. MaxTasks - 1, i \in T PROVE i + 1 \in T
  <2>1. PICK d : Grows(qready, c, W(i), h[i], d)
    BY <1>5
  <2>2. i + 1 \in 1 .. MaxTasks /\ (i + 1) - 1 = i /\ i + 1 \in 0 .. MaxTasks /\ i \in Slot
    BY <1>3 DEF Slot
  <2>3. h[i + 1] = WakeSlot(irq, h[i], i)
    BY <1>2, <2>2
  <2>4. CASE i \in Woken(irq)
    <3>1. W(i + 1) = W(i) \union {i} /\ i \notin W(i)
      <4>1. \A s \in Woken(irq) : s < i + 1 <=> s < i \/ s = i
        BY <1>3a, <2>2
      <4>2. ~(i < i)
        BY <1>3, <2>2
      <4>3. QED
        BY <2>4, <4>1, <4>2
    <3>2. h[i + 1] = Push(h[i], i)
      BY <2>3, <2>4 DEF WakeSlot
    <3> HIDE DEF W
    <3>3. i \notin Entries(qready, c)
      BY <2>2, <2>4
    <3>4. \E d2 : Grows(qready, c, W(i) \union {i}, Push(h[i], i), d2)
      BY <1>1, <2>1, <2>2, <3>1, <3>3, GrowsByPush
    <3>5. QED
      BY <2>2, <3>1, <3>2, <3>4
  <2>5. CASE i \notin Woken(irq)
    <3>1. W(i + 1) = W(i)
      <4>1. \A s \in Woken(irq) : s < i + 1 <=> s < i
        BY <1>3, <1>3a, <2>2, <2>5
      <4>2. QED
        BY <4>1
    <3>2. h[i + 1] = h[i]
      BY <2>3, <2>5 DEF WakeSlot
    <3> HIDE DEF W
    <3>3. QED
      BY <2>1, <2>2, <3>1, <3>2
  <2>6. QED
    BY <2>4, <2>5
<1>6. MaxTasks \in T
  <2> HIDE DEF T
  <2>1. \A i \in 0 .. MaxTasks : i \in T
    BY <1>3, <1>4, <1>5, UpTo
  <2>2. QED
    BY <1>3, <2>1
<1>7. W(MaxTasks) = Woken(irq)
  BY <1>3 DEF Slot
<1> HIDE DEF W
<1>8. QED
  BY <1>2, <1>6, <1>7

-----------------------------------------------------------------------------
(* The search of schedule ends where it begins if that task is READY.                *)
LEMMA NextIsFirst ==
  ASSUME NEW q, NEW st, q.head \in Slot, st[StepOver(q, q.head)] = "READY"
  PROVE  NextReady(q, st) = StepOver(q, q.head)
<1> DEFINE l0 == [p |-> q.head, c |-> 0]
           Body(h) == [i \in 0 .. MaxTasks + 1 |-> IF i = 0 THEN l0 ELSE Inspect(q, st, h[i - 1])]
           g == CHOOSE h : h = Body(h)
           h0 == [i \in 0 .. MaxTasks + 1 |-> l0]
<1>1. MaxTasks \in Nat /\ q.head # NIL
  BY SlotType
<1>2. Inspect(q, st, l0) = l0
  <2>1. l0.p = q.head /\ l0.c = 0 /\ ~(0 > MaxTasks)
    BY <1>1
  <2> HIDE DEF l0
  <2>2. QED
    BY <1>1, <2>1 DEF Inspect
<1> HIDE DEF l0
<1>3. h0 = Body(h0)
  <2>1. \A i \in 0 .. MaxTasks + 1 : i # 0 => i - 1 \in 0 .. MaxTasks + 1
    BY <1>1
  <2>2. \A i \in 0 .. MaxTasks + 1 : h0[i] = Body(h0)[i]
    BY <1>2, <2>1
  <2>3. QED
    BY <2>2
<1>4. g = Body(g)
  BY <1>3
<1>5. NextReady(q, st) = IF g[MaxTasks + 1].p = NIL THEN NIL ELSE StepOver(q, g[MaxTasks + 1].p)
  BY DEF NextReady, l0
<1> HIDE DEF g, h0
<1>6. g[0] = l0 /\ \A i \in 1 .. MaxTasks + 1 : g[i] = Inspect(q, st, g[i - 1])
  <2>1. /\ 0 \in 0 .. MaxTasks + 1
        /\ \A i \in 1 .. MaxTasks + 1 : i \in 0 .. MaxTasks + 1 /\ i # 0
    BY <1>1
  <2>2. \A i \in 0 .. MaxTasks + 1 : g[i] = IF i = 0 THEN l0 ELSE Inspect(q, st, g[i - 1])
    BY <1>4
  <2>3. QED
    BY <2>1, <2>2
<1> DEFINE T == {i \in 0 .. MaxTasks + 1 : g[i] = l0}
<1>7. 0 \in T
  BY <1>1, <1>6
<1>8. ASSUME NEW i \in 0 .. (MaxTasks + 1) - 1, i \in T PROVE i + 1 \in T
  <2>1. i + 1 \in 1 .. MaxTasks + 1 /\ (i + 1) - 1 = i /\ i + 1 \in 0 .. MaxTasks + 1 /\ g[i] = l0
    BY <1>1, <1>8
  <2>2. g[i + 1] = l0
    BY <1>2, <1>6, <2>1
  <2>3. QED
    BY <2>1, <2>2
<1>9. g[MaxTasks + 1] = l0
  <2>1. MaxTasks + 1 \in Nat
    BY <1>1
  <2> HIDE DEF T
  <2>2. \A i \in 0 .. MaxTasks + 1 : i \in T
    BY <1>7, <1>8, <2>1, UpTo
  <2>3. QED
    BY <2>1, <2>2 DEF T
<1>10. l0.p = q.head
  BY DEF l0
<1>11. QED
  BY <1>1, <1>5, <1>9, <1>10

(* In a list of READY tasks that is the head, which is the current task only when      *)
(* that is alone.                                                                *)
LEMMA NextIsHead ==
  ASSUME NEW q, NEW d, Lists(q, d), q.n # 0, NEW st,
         \A i \in 1 .. q.n : st[d[i]] = "READY",
         d[1] = current_slot => q.n = 1
  PROVE  NextReady(q, st) = d[1]
<1>1. /\ q.n \in Nat /\ q.head = d[1] /\ d[1] \in Slot /\ st[d[1]] = "READY"
      /\ q.n = 1 => q.next[d[1]] = NIL
  BY SlotType, QueueFields DEF Lists
<1>2. StepOver(q, q.head) = q.head
  BY <1>1 DEF StepOver
<1>3. QED
  BY <1>1, <1>2, NextIsFirst

-----------------------------------------------------------------------------
(* The invariant about kernel_main, the ready queue and the count of tasks.           *)
Created == {s \in Slot : tasks[s] # "NOT_CREATED"}

Queues(R) == \E c : /\ Lists(qready, c) /\ Entries(qready, c) = R
                    /\ EqualRanks => Backs(qready, c)

(* While kernel_main spawns: the slots are taken in order, and the queue holds them.  *)
SpawnedInv ==
  status = "boot" => /\ n_task \in 0 .. NTask
                     /\ \A s \in Slot : tasks[s] = IF s < n_task THEN "READY" ELSE "NOT_CREATED"
                     /\ \A s \in Slot : ctx[s] = InitContext(s)
                     /\ cpu = InitContext(EntryTask)
                     /\ Queues(0 .. n_task - 1)

CountInv == Created \subseteq Boot /\ n_task = Cardinality(Created)

QueueInv == qready \in Queue /\ SpawnedInv /\ CountInv

LEMMA BootFacts == /\ NTask \in Nat /\ NTask >= 1 /\ NTask <= MaxTasks
                   /\ Boot \subseteq Slot /\ EntryTask \in Boot
                   /\ \A s \in Slot : s \in Nat
                   /\ \A n \in 0 .. NTask - 1 : n \in Slot /\ n \in Boot
<1>1. MaxTasks \in Nat /\ NTask \in 1 .. MaxTasks /\ EntryTask \in Boot
  BY NTaskAssumption, SlotType
<1>2. QED
  BY <1>1 DEF Boot, Slot

LEMMA InitQueue == Init => QueueInv
<1> SUFFICES ASSUME Init PROVE QueueInv
  OBVIOUS
<1> DEFINE c == [i \in 1 .. 0 |-> 0]
<1>1. /\ qready = EmptyQueue /\ qready.n = 0 /\ qready.err = "none" /\ qready.head = NIL
      /\ qready \in Queue
  BY DEF Init, EmptyQueue, Queue, Ptr
<1>2. Lists(qready, c) /\ Entries(qready, c) = {} /\ Backs(qready, c)
  <2>1. c \in [1 .. 0 -> Slot] /\ \A i \in 1 .. 0 : FALSE
    OBVIOUS
  <2> HIDE DEF c
  <2>2. QED
    BY <1>1, <2>1 DEF Lists, Entries, Backs
<1>3. 0 .. 0 - 1 = {}
  OBVIOUS
<1> HIDE DEF c
<1>4. Queues(0 .. 0 - 1)
  BY <1>2, <1>3 DEF Queues
<1>5. SpawnedInv
  <2>1. n_task = 0 /\ n_task \in 0 .. NTask
    BY BootFacts DEF Init
  <2>2. \A s \in Slot : ~(s < 0)
    BY BootFacts
  <2>3. QED
    BY <1>4, <2>1, <2>2 DEF Init, SpawnedInv
<1>6. CountInv
  <2>1. Created = {}
    BY DEF Init, Created
  <2>2. QED
    BY <2>1, FS_EmptySet DEF Init, CountInv
<1>7. QED
  BY <1>1, <1>5, <1>6 DEF QueueInv

(* A kernel that stops while it runs keeps its state.                               *)
LEMMA StopQueue ==
  ASSUME QueueInv, status # "boot", NEW how \in {"panic", "hang", "wild"}, Stop(how)
  PROVE  QueueInv'
<1>1. /\ status' # "boot"
      /\ UNCHANGED <<tasks, n_task, qready>>
  BY DEF Stop, taskVars
<1>2. CountInv'
  BY <1>1 DEF QueueInv, CountInv, Created
<1>3. QED
  BY <1>1, <1>2 DEF QueueInv, SpawnedInv

(* So does a step that leaves the tasks and the queue alone.                         *)
LEMMA KeptQueue ==
  ASSUME QueueInv, UNCHANGED <<tasks, n_task, qready, status>>,
         status = "boot" => UNCHANGED <<ctx, cpu>>
  PROVE  QueueInv'
<1>1. Queues(0 .. n_task - 1)' <=> Queues(0 .. n_task - 1)
  BY DEF Queues
<1>2. SpawnedInv'
  BY <1>1 DEF QueueInv, SpawnedInv
<1>3. CountInv'
  BY DEF QueueInv, CountInv, Created
<1>4. QED
  BY <1>2, <1>3 DEF QueueInv

LEMMA FreeSlotIs ==
  ASSUME QueueInv, status = "boot", n_task < NTask
  PROVE  FreeSlot = n_task /\ n_task \in Slot /\ n_task \in Boot
<1>1. /\ n_task \in Slot /\ n_task \in Boot /\ n_task \in Nat
      /\ \A s \in Slot : tasks[s] = IF s < n_task THEN "READY" ELSE "NOT_CREATED"
  BY BootFacts DEF QueueInv, SpawnedInv
<1> DEFINE Free(s) == /\ tasks[s] = "NOT_CREATED"
                      /\ \A r \in Slot : r < s => tasks[r] # "NOT_CREATED"
<1>2. Free(n_task)
  BY <1>1, BootFacts
<1>3. \A s \in Slot : Free(s) => s = n_task
  <2> SUFFICES ASSUME NEW s \in Slot, Free(s) PROVE s = n_task
    OBVIOUS
  <2>1. ~(s < n_task) /\ ~(n_task < s)
    BY <1>1
  <2>2. QED
    BY <1>1, <2>1, BootFacts
<1>4. FreeSlot = CHOOSE s \in Slot : Free(s)
  BY DEF FreeSlot
<1> HIDE DEF Free
<1>5. QED
  BY <1>1, <1>2, <1>3, <1>4

(* spawn_task never finds the queue full or broken.                                  *)
LEMMA SpawnQueue ==
  ASSUME IInv, QueueInv, Spawn
  PROVE  /\ QueueInv'
         /\ status' = "boot"
<1>1. /\ status = "boot" /\ n_task \in 0 .. NTask /\ n_task < NTask
      /\ \A s \in Slot : tasks[s] = IF s < n_task THEN "READY" ELSE "NOT_CREATED"
      /\ \A s \in Slot : ctx[s] = InitContext(s)
      /\ cpu = InitContext(EntryTask)
      /\ Queues(0 .. n_task - 1)
  BY DEF Spawn, QueueInv, SpawnedInv
<1>2. FreeSlot = n_task /\ n_task \in Slot /\ n_task \in Boot
  BY <1>1, FreeSlotIs
<1>3. PICK c : /\ Lists(qready, c) /\ Entries(qready, c) = 0 .. n_task - 1
               /\ EqualRanks => Backs(qready, c)
  BY <1>1 DEF Queues
<1>4. PICK k \in Nat : k = n_task
  BY <1>1, BootFacts
<1>5. k \in Slot /\ k \notin Entries(qready, c)
  BY <1>2, <1>3, <1>4
<1>6. PICK d : PushesInto(qready, c, k, Push(qready, k), d)
  BY <1>3, <1>5, PushList
<1>7. /\ Lists(Push(qready, k), d) /\ Push(qready, k).err = "none"
      /\ Entries(Push(qready, k), d) = 0 .. n_task - 1 \union {k}
      /\ EqualRanks => Backs(Push(qready, k), d)
  BY <1>3, <1>6 DEF PushesInto, Lists
<1>8. /\ tasks'      = [tasks EXCEPT ![k] = "READY"]
      /\ ctx'        = [ctx EXCEPT ![k] = InitContext(k)]
      /\ n_task'     = k + 1
      /\ qready'     = Push(qready, k)
      /\ UNCHANGED <<cpu, status>>
  BY <1>2, <1>4, <1>7 DEF Spawn
<1>14. tasks \in [Slot -> TaskState] /\ ctx \in [Slot -> Context]
  BY DEF IInv, TypeInv
<1>9. 0 .. n_task' - 1 = (0 .. n_task - 1) \union {k}
  BY <1>4, <1>8
<1>10. qready' \in Queue /\ Queues(0 .. n_task - 1)'
  <2>1. qready' \in Queue /\ Lists(qready', d) /\ Entries(qready', d) = 0 .. n_task' - 1
    BY <1>7, <1>8, <1>9 DEF Lists
  <2>2. EqualRanks => Backs(qready', d)
    BY <1>7, <1>8
  <2>3. QED
    BY <2>1, <2>2 DEF Queues
<1>11. SpawnedInv'
  <2>1. n_task' \in 0 .. NTask
    BY <1>1, <1>4, <1>8, BootFacts
  <2>2. \A s \in Slot : tasks'[s] = IF s < n_task' THEN "READY" ELSE "NOT_CREATED"
    <3>1. \A s \in Slot : s < n_task' <=> s < n_task \/ s = k
      BY <1>4, <1>8, BootFacts
    <3>2. \A s \in Slot : tasks'[s] = IF s = k THEN "READY" ELSE tasks[s]
      BY <1>8, <1>14
    <3>3. QED
      BY <1>1, <3>1, <3>2
  <2>3. \A s \in Slot : ctx'[s] = InitContext(s)
    BY <1>1, <1>8, <1>14
  <2>4. cpu' = InitContext(EntryTask)
    BY <1>1, <1>8
  <2>5. QED
    BY <1>10, <2>1, <2>2, <2>3, <2>4 DEF SpawnedInv, InitContext
<1>12. CountInv'
  <2>1. Created' = Created \union {k} /\ k \notin Created
    BY <1>1, <1>4, <1>5, <1>8, <1>14 DEF Created
  <2>2. IsFiniteSet(Created) /\ n_task = Cardinality(Created) /\ Created \subseteq Boot
    BY SlotType, FS_Subset DEF Created, QueueInv, CountInv
  <2>3. Cardinality(Created \union {k}) = Cardinality(Created) + 1
    BY <2>1, <2>2, FS_AddElement
  <2>4. k \in Boot
    BY <1>2, <1>4
  <2> HIDE DEF Created
  <2>5. Created' \subseteq Boot /\ n_task' = Cardinality(Created')
    BY <1>4, <1>8, <2>1, <2>2, <2>3, <2>4
  <2>6. QED
    BY <2>5 DEF CountInv
<1>13. QED
  BY <1>1, <1>8, <1>10, <1>11, <1>12 DEF QueueInv

(* start_schedule finds its entry point READY.                                     *)
LEMMA StartQueue ==
  ASSUME IInv, QueueInv, StartSchedule
  PROVE  /\ QueueInv' /\ status' = "run" /\ current_slot' = EntryTask
         /\ tasks' = [tasks EXCEPT ![EntryTask] = "RUNNING"]
         /\ \A s \in Boot : tasks[s] = "READY"
         /\ \A s \in Boot : ctx'[s] = InitContext(s)
         /\ cpu' = InitContext(EntryTask) /\ rx' = rx
         /\ qready' = Remove(qready, EntryTask)
<1>1. /\ status = "boot" /\ n_task = NTask
      /\ \A s \in Slot : tasks[s] = IF s < n_task THEN "READY" ELSE "NOT_CREATED"
      /\ \A s \in Slot : ctx[s] = InitContext(s)
      /\ Queues(0 .. n_task - 1) /\ qready \in Queue
  BY DEF StartSchedule, QueueInv, SpawnedInv
<1>2. \A s \in Boot : s \in Slot /\ tasks[s] = "READY"
  BY <1>1, BootFacts DEF Boot
<1>3. tasks[EntryTask] = "READY" /\ EntryTask \in Slot
  BY <1>2, BootFacts
<1>4. /\ current_slot' = EntryTask
      /\ tasks'  = [tasks EXCEPT ![EntryTask] = "RUNNING"]
      /\ qready' = Remove(qready, EntryTask)
      /\ cpu'    = ctx[EntryTask]
      /\ status' = "run"
      /\ UNCHANGED <<n_task, ctx, rx>>
  BY <1>3 DEF StartSchedule
<1>5. qready.n # 0
  <2>1. PICK c : Lists(qready, c) /\ Entries(qready, c) = 0 .. n_task - 1
    BY <1>1 DEF Queues
  <2>2. EntryTask \in 0 .. n_task - 1
    BY <1>1, BootFacts DEF Boot
  <2>3. \E i \in 1 .. qready.n : TRUE
    BY <2>1, <2>2 DEF Entries
  <2>4. QED
    BY <2>3
<1>6. qready' \in Queue
  BY <1>1, <1>3, <1>4, <1>5, RemoveType
<1>7. CountInv'
  <2>1. Created' = Created
    BY <1>3, <1>4 DEF IInv, TypeInv, Created
  <2> HIDE DEF Created
  <2>2. QED
    BY <1>4, <2>1 DEF QueueInv, CountInv
<1>8. QueueInv'
  BY <1>4, <1>6, <1>7 DEF QueueInv, SpawnedInv
<1>9. QED
  BY <1>1, <1>2, <1>3, <1>4, <1>8

(* schedule: the queue stays a Queue, and a task that has exited is no more counted.   *)
LEMMA SwitchQueue ==
  ASSUME IInv, QueueInv, status = "run",
         NEW frame, NEW st \in [Slot -> TaskState], NEW sl, NEW q \in Queue, NEW mask,
         \A s \in Slot : st[s] = "NOT_CREATED" <=> tasks[s] = "NOT_CREATED",
         SwitchToNextTask(frame, st, sl, q, mask)
  PROVE  QueueInv'
<1> DEFINE st1 == SettledStates(st)
           q1  == Requeued(st1, q)
           n   == NextReady(q1, st1)
<1>1. current_slot \in Slot /\ tasks \in [Slot -> TaskState]
      /\ tasks[current_slot] = "RUNNING"
  BY DEF IInv, TypeInv, RunningInv
<1>2. q1 \in Queue
  BY <1>1, PushType DEF Requeued
<1>3. /\ st1 \in [Slot -> TaskState]
      /\ st1[current_slot] = Settled(st[current_slot])
      /\ \A s \in Slot : s # current_slot => st1[s] = st[s]
  BY <1>1 DEF SettledStates, Settled, TaskState
<1>4. CASE \E how \in {"panic", "hang", "wild"} : Stop(how)
  BY <1>4, StopQueue
<1>5. CASE n \in Slot /\ st1[n] = "READY" /\ q1.n # 0 /\ Dispatch(n, q1, frame, st, sl, mask)
  <2> HIDE DEF st1, q1, n
  <2>1. /\ tasks' = [st1 EXCEPT ![n] = "RUNNING"] /\ n_task' = TasksLeft(st)
        /\ qready' = Remove(q1, n) /\ status' = status
    BY <1>5 DEF Dispatch, st1
  <2>2. qready' \in Queue
    BY <1>2, <1>5, <2>1, RemoveType
  <2>3. /\ IsFiniteSet(Created) /\ n_task = Cardinality(Created) /\ Created \subseteq Boot
        /\ current_slot \in Created
    BY <1>1, SlotType, FS_Subset DEF Created, QueueInv, CountInv
  <2>4. CASE st[current_slot] = "TERMINATED"
    <3>1. st1[current_slot] = "NOT_CREATED" /\ n # current_slot /\ n_task' = n_task - 1
      BY <1>3, <1>5, <2>1, <2>4 DEF Settled, TasksLeft
    <3>2. \A s \in Slot : tasks'[s] = "NOT_CREATED" <=> tasks[s] = "NOT_CREATED" \/ s = current_slot
      BY <1>1, <1>3, <1>5, <2>1, <3>1
    <3>3. Created' = Created \ {current_slot}
      BY <3>2 DEF Created
    <3>4. Cardinality(Created \ {current_slot}) = Cardinality(Created) - 1
      BY <2>3, FS_RemoveElement
    <3> HIDE DEF Created
    <3>5. CountInv'
      BY <2>3, <3>1, <3>3, <3>4 DEF CountInv
    <3>6. QED
      BY <2>1, <2>2, <3>5 DEF QueueInv, SpawnedInv
  <2>5. CASE st[current_slot] # "TERMINATED"
    <3>1. (st1[current_slot] = "NOT_CREATED" <=> st[current_slot] = "NOT_CREATED") /\ n_task' = n_task
      BY <1>3, <2>1, <2>5 DEF Settled, TasksLeft
    <3>2. \A s \in Slot : tasks'[s] = "NOT_CREATED" <=> tasks[s] = "NOT_CREATED"
      BY <1>1, <1>3, <1>5, <2>1, <3>1
    <3>3. Created' = Created
      BY <3>2 DEF Created
    <3> HIDE DEF Created
    <3>4. CountInv'
      BY <2>3, <3>1, <3>3 DEF CountInv
    <3>5. QED
      BY <2>1, <2>2, <3>4 DEF QueueInv, SpawnedInv
  <2>6. QED
    BY <2>4, <2>5
<1>6. \/ \E err : StopOn(err)
      \/ Stop("panic")
      \/ n \in Slot /\ st1[n] = "READY" /\ q1.n # 0 /\ Dispatch(n, q1, frame, st, sl, mask)
  BY DEF SwitchToNextTask
<1>7. \A err : How(err) \in {"panic", "hang", "wild"}
  BY DEF How
<1>8. QED
  BY <1>4, <1>5, <1>6, <1>7 DEF StopOn

LEMMA HandleInterruptQueue ==
  ASSUME IInv, QueueInv, status = "run", NEW irq, NEW sl, HandleInterrupt(irq, sl)
  PROVE  QueueInv'
<1>1. CASE Stop("panic") \/ \E err : StopOn(err)
  BY <1>1, StopQueue DEF StopOn, How
<1>2. CASE UNCHANGED <<tasks, n_task, qready, status>>
  BY <1>2, KeptQueue
<1>3. ASSUME SwitchToNextTask(cpu, WokenStates(irq), sl, WokenQueue(irq), ClearedMask(irq))
      PROVE  QueueInv'
  <2>1. WokenStates(irq) \in [Slot -> TaskState]
    BY DEF IInv, TypeInv, WokenStates, TaskState
  <2>2. \A s \in Slot : WokenStates(irq)[s] = "NOT_CREATED" <=> tasks[s] = "NOT_CREATED"
    <3>1. \A s \in Woken(irq) : tasks[s] = "BLOCKED_IRQ"
      BY DEF IInv, BlockedInv, Woken
    <3>2. QED
      BY <3>1 DEF WokenStates
  <2>3. WokenQueue(irq) \in Queue
    BY WokenQueueType DEF QueueInv
  <2>4. QED
    BY <1>3, <2>1, <2>2, <2>3, SwitchQueue
<1>4. QED
  BY <1>1, <1>2, <1>3 DEF HandleInterrupt

LEMMA RunQueue == IInv /\ QueueInv /\ Run => QueueInv'
<1> SUFFICES ASSUME IInv, QueueInv, Run PROVE QueueInv'
  OBVIOUS
<1>1. /\ status = "run" /\ current_slot \in Slot /\ tasks \in [Slot -> TaskState]
      /\ tasks[current_slot] = "RUNNING" /\ qready \in Queue
  BY DEF Run, Compute, Yield, Exit, Getc, GetcBlocks, Fault, At,
         IInv, TypeInv, RunningInv, QueueInv
<1>2. CASE Compute \/ Getc
  BY <1>1, <1>2, KeptQueue DEF Compute, Getc, taskVars
<1>3. CASE Yield
  BY <1>1, <1>3, SwitchQueue DEF Yield
<1>4. ASSUME NEW x \in {"TERMINATED", "BLOCKED_IRQ"}, NEW mask,
             SwitchToNextTask(cpu, [tasks EXCEPT ![current_slot] = x], time_slice, qready, mask)
      PROVE  QueueInv'
  <2> DEFINE st == [tasks EXCEPT ![current_slot] = x]
  <2>1. /\ st \in [Slot -> TaskState]
        /\ \A s \in Slot : st[s] = "NOT_CREATED" <=> tasks[s] = "NOT_CREATED"
    BY <1>1 DEF TaskState
  <2>2. SwitchToNextTask(cpu, st, time_slice, qready, mask)
    BY <1>4
  <2> HIDE DEF st
  <2>3. QED
    BY <1>1, <2>1, <2>2, SwitchQueue
<1>5. CASE Exit
  BY <1>4, <1>5 DEF Exit
<1>6. CASE GetcBlocks
  BY <1>4, <1>6 DEF GetcBlocks, BlockedFrame
<1>7. CASE Fault
  BY <1>1, <1>7, StopQueue DEF Fault
<1>8. QED
  BY <1>2, <1>3, <1>5, <1>6, <1>7 DEF Run

LEMMA NextQueue == IInv /\ QueueInv /\ [Next]_vars => QueueInv'
<1> SUFFICES ASSUME IInv, QueueInv, [Next]_vars PROVE QueueInv'
  OBVIOUS
<1>1. CASE Arrive
  BY <1>1, KeptQueue DEF Arrive, taskVars
<1>2. CASE UNCHANGED vars
  BY <1>2, KeptQueue DEF vars, taskVars
<1>3. CASE TimerInterrupt \/ ExternalInterrupt
  BY <1>3, HandleInterruptQueue DEF TimerInterrupt, ExternalInterrupt
<1>4. QED
  BY <1>1, <1>2, <1>3, SpawnQueue, StartQueue, RunQueue DEF Next

(* The ready queue keeps its type whatever becomes of its links, kernel_main spawns     *)
(* into a queue that is a list, and n_task is the number of tasks there are.           *)
THEOREM QueueInvariant == Spec => []QueueInv
BY InductiveInvariant, InitQueue, NextQueue, PTL DEF Spec

(* The type invariant of the runs, the ready queue and the count of tasks included:   *)
(* whatever the links come to be, they are links to entries or NULL, n_ready and      *)
(* n_task never go below 0.                                                      *)
THEOREM TypesCorrect == Spec => []TypeOK
<1>1. IInv /\ QueueInv => TypeOK
  <2> SUFFICES ASSUME IInv, QueueInv PROVE TypeOK
    OBVIOUS
  <2>1. IsFiniteSet(Created)
    BY SlotType, FS_Subset DEF Created
  <2>2. n_task \in Nat
    BY <2>1, FS_CardinalityType DEF QueueInv, CountInv
  <2>3. QED
    BY <2>2 DEF IInv, QueueInv, TypeOK
<1>2. QED
  BY <1>1, InductiveInvariant, QueueInvariant, PTL

-----------------------------------------------------------------------------
(* The refinement.  Until start_schedule every process has the registers it starts   *)
(* with; from then on a step of the kernel changes those of the current one only.     *)
TheOthers(r) == Registers' = [Registers EXCEPT ![current_slot] = r]

LEMMA ContextIs ==
  ASSUME NEW x \in Context
  PROVE  /\ x = [pc |-> x.pc, a0 |-> x.a0, sp |-> x.sp]
         /\ x.pc \in Node /\ x # Gone
  BY GoneAssumption DEF Context

LEMMA RegistersOfCurrent ==
  ASSUME IInv, QueueInv, status = "run"
  PROVE  /\ current_slot \in Boot /\ current_slot \in Slot
         /\ Registers[current_slot] = cpu /\ cpu \in Context /\ cpu # Gone
<1>1. /\ current_slot \in Slot /\ tasks[current_slot] = "RUNNING" /\ cpu \in Context
  BY DEF IInv, TypeInv, RunningInv
<1>2. current_slot \in Boot
  BY <1>1 DEF QueueInv, CountInv, Created
<1>3. QED
  BY <1>1, <1>2, ContextIs DEF Registers

LEMMA StopRegisters ==
  ASSUME status # "boot", NEW how \in {"panic", "hang", "wild"}, Stop(how)
  PROVE  Registers' = Registers
<1>1. UNCHANGED <<tasks, ctx, current_slot, cpu>> /\ status' # "boot"
  BY DEF Stop, taskVars
<1>2. QED
  BY <1>1 DEF Registers

LEMMA KeptRegisters ==
  ASSUME UNCHANGED <<tasks, ctx, current_slot, status>>, cpu' = cpu
  PROVE  Registers' = Registers
  BY DEF Registers

LEMMA StepRegisters ==
  ASSUME IInv, QueueInv, status = "run",
         UNCHANGED <<tasks, ctx, current_slot, status>>
  PROVE  TheOthers(cpu')
<1>1. current_slot \in Boot /\ tasks[current_slot] = "RUNNING"
  BY RegistersOfCurrent DEF IInv, RunningInv
<1>2. QED
  BY <1>1 DEF TheOthers, Registers

(* A switch that does not stop the kernel saves the registers of the current task     *)
(* (frame), unless it has exited, and disturbs no other's.                          *)
LEMMA SwitchRegisters ==
  ASSUME IInv, QueueInv, status = "run",
         NEW frame, NEW st \in [Slot -> TaskState], NEW sl, NEW q, NEW mask,
         \A s \in Slot : st[s] = "NOT_CREATED" <=> tasks[s] = "NOT_CREATED",
         SwitchToNextTask(frame, st, sl, q, mask)
  PROVE  \/ Registers' = Registers
         \/ TheOthers(IF st[current_slot] = "TERMINATED" THEN Gone ELSE frame)
<1> DEFINE st1 == SettledStates(st)
           q1  == Requeued(st1, q)
           n   == NextReady(q1, st1)
<1>1. /\ current_slot \in Slot /\ tasks \in [Slot -> TaskState]
      /\ tasks[current_slot] = "RUNNING" /\ current_slot \in Boot
      /\ \A s \in Boot : s \in Slot /\ ctx \in [Slot -> Context]
  BY RegistersOfCurrent, BootFacts DEF IInv, TypeInv, RunningInv
<1>3. /\ st1 \in [Slot -> TaskState]
      /\ st1[current_slot] = Settled(st[current_slot])
      /\ \A s \in Slot : s # current_slot => st1[s] = st[s]
  BY <1>1 DEF SettledStates, Settled, TaskState
<1>4. CASE \E how \in {"panic", "hang", "wild"} : Stop(how)
  BY <1>4, StopRegisters
<1>5. CASE n \in Slot /\ st1[n] = "READY" /\ Dispatch(n, q1, frame, st, sl, mask)
  <2> HIDE DEF st1, q1, n
  <2>1. /\ tasks' = [st1 EXCEPT ![n] = "RUNNING"]
        /\ ctx' = SavedContext(frame, st)
        /\ cpu' = IF n = current_slot THEN frame ELSE SavedContext(frame, st)[n]
        /\ current_slot' = n /\ status' = "run"
    BY <1>5 DEF Dispatch, st1
  <2>2. CASE st[current_slot] = "TERMINATED"
    <3>1. st1[current_slot] = "NOT_CREATED" /\ n # current_slot /\ ctx' = ctx /\ cpu' = ctx[n]
      BY <1>3, <1>5, <2>1, <2>2 DEF Settled, SavedContext
    <3>2. \A s \in Slot : tasks'[s] = "NOT_CREATED" <=> tasks[s] = "NOT_CREATED" \/ s = current_slot
      BY <1>1, <1>3, <1>5, <2>1, <3>1
    <3>3. \A s \in Boot : Registers'[s] = IF s = current_slot THEN Gone ELSE Registers[s]
      BY <1>1, <2>1, <3>1, <3>2 DEF Registers
    <3>4. TheOthers(Gone)
      BY <1>1, <3>3 DEF TheOthers, Registers
    <3>5. QED
      BY <2>2, <3>4
  <2>3. CASE st[current_slot] # "TERMINATED"
    <3>1. (st1[current_slot] = "NOT_CREATED" <=> st[current_slot] = "NOT_CREATED")
          /\ ctx' = [ctx EXCEPT ![current_slot] = frame]
      BY <1>3, <2>1, <2>3 DEF Settled, SavedContext
    <3>2. \A s \in Slot : tasks'[s] = "NOT_CREATED" <=> tasks[s] = "NOT_CREATED"
      BY <1>1, <1>3, <1>5, <2>1, <3>1
    <3>3. ctx'[current_slot] = frame /\ \A s \in Slot : s # current_slot => ctx'[s] = ctx[s]
      BY <1>1, <3>1
    <3>4. cpu' = ctx'[n]
      BY <2>1, <3>3
    <3>5. \A s \in Boot : Registers'[s] = IF s = current_slot THEN frame ELSE Registers[s]
      BY <1>1, <2>1, <3>2, <3>3, <3>4 DEF Registers
    <3>6. TheOthers(frame)
      BY <1>1, <3>5 DEF TheOthers, Registers
    <3>7. QED
      BY <2>3, <3>6
  <2>4. QED
    BY <2>2, <2>3
<1>6. \/ \E err : StopOn(err)
      \/ Stop("panic")
      \/ n \in Slot /\ st1[n] = "READY" /\ Dispatch(n, q1, frame, st, sl, mask)
  BY DEF SwitchToNextTask
<1>7. \A err : How(err) \in {"panic", "hang", "wild"}
  BY DEF How
<1>8. QED
  BY <1>4, <1>5, <1>6, <1>7 DEF StopOn

LEMMA LocalStep ==
  ASSUME IInv, QueueInv, status = "run", Kind[cpu.pc] \in {"work", "call", "yield"},
         NEW f \in Advance(cpu), TheOthers(f), rx' = rx
  PROVE  P!Next
<1>1. /\ current_slot \in Boot /\ Registers[current_slot] = cpu /\ cpu # Gone
  BY RegistersOfCurrent
<1>2. PICK n \in Succ[cpu.pc] : f = [cpu EXCEPT !.pc = n]
  BY DEF Advance
<1>3. Registers' = [Registers EXCEPT ![current_slot].pc = n]
  BY <1>1, <1>2 DEF TheOthers
<1>4. P!Local(current_slot)
  BY <1>1, <1>3 DEF P!Local, P!At
<1>5. QED
  BY <1>1, <1>4 DEF P!Next, P!Step

LEMMA ReceiveStep ==
  ASSUME IInv, QueueInv, Getc
  PROVE  P!Next
<1>1. /\ status = "run" /\ Kind[cpu.pc] = "getc" /\ rx # NoChar /\ rx' = NoChar
      /\ cpu' \in Advance([cpu EXCEPT !.a0 = rx])
      /\ UNCHANGED <<tasks, ctx, current_slot, status>>
  BY DEF Getc, At, taskVars
<1>2. /\ current_slot \in Boot /\ Registers[current_slot] = cpu /\ cpu # Gone /\ cpu \in Context
  BY <1>1, RegistersOfCurrent
<1>3. TheOthers(cpu')
  BY <1>1, StepRegisters
<1>4. cpu = [pc |-> cpu.pc, a0 |-> cpu.a0, sp |-> cpu.sp]
  BY <1>2, ContextIs
<1>5. [cpu EXCEPT !.a0 = rx] = [pc |-> cpu.pc, a0 |-> rx, sp |-> cpu.sp]
  BY <1>4
<1>6. PICK n \in Succ[cpu.pc] : cpu' = [pc |-> n, a0 |-> rx, sp |-> cpu.sp]
  <2> DEFINE f == [cpu EXCEPT !.a0 = rx]
  <2>1. f = [pc |-> cpu.pc, a0 |-> rx, sp |-> cpu.sp] /\ cpu' \in Advance(f)
    BY <1>1, <1>5
  <2> HIDE DEF f
  <2>2. PICK n \in Succ[f.pc] : cpu' = [f EXCEPT !.pc = n]
    BY <2>1 DEF Advance
  <2>3. f.pc = cpu.pc /\ [f EXCEPT !.pc = n] = [pc |-> n, a0 |-> rx, sp |-> cpu.sp]
    BY <2>1
  <2>4. QED
    BY <2>2, <2>3
<1>7. [cpu EXCEPT !.pc = n, !.a0 = rx] = [pc |-> n, a0 |-> rx, sp |-> cpu.sp]
  <2> DEFINE g == [cpu EXCEPT !.pc = n, !.a0 = rx]
  <2>1. /\ DOMAIN g = {"pc", "a0", "sp"} /\ g.pc = n /\ g.a0 = rx /\ g.sp = cpu.sp
        /\ g = [k \in {"pc", "a0", "sp"} |-> g[k]]
    BY <1>2 DEF Context
  <2> HIDE DEF g
  <2>2. g = [pc |-> n, a0 |-> rx, sp |-> cpu.sp]
    BY <2>1
  <2>3. QED
    BY <2>2 DEF g
<1>8. Registers' = [Registers EXCEPT ![current_slot] = [@ EXCEPT !.pc = n, !.a0 = rx]]
  BY <1>2, <1>3, <1>6, <1>7 DEF TheOthers
<1>9. P!Receive(current_slot)
  BY <1>1, <1>2, <1>8 DEF P!Receive, P!At
<1>10. QED
  BY <1>2, <1>9 DEF P!Next, P!Step

LEMMA LeaveStep ==
  ASSUME IInv, QueueInv, status = "run", Kind[cpu.pc] = "exit", TheOthers(Gone), rx' = rx
  PROVE  P!Next
<1>1. /\ current_slot \in Boot /\ Registers[current_slot] = cpu /\ cpu # Gone
  BY RegistersOfCurrent
<1>2. P!Leave(current_slot)
  BY <1>1 DEF P!Leave, P!At, TheOthers
<1>3. QED
  BY <1>1, <1>2 DEF P!Next, P!Step

Stutters == UNCHANGED <<Registers, rx>>

\* What is kept for a process is what it has.
LEMMA SameRegisters ==
  ASSUME IInv, QueueInv, status = "run", TheOthers(cpu), rx' = rx
  PROVE  Stutters
<1>1. /\ current_slot \in Boot /\ Registers[current_slot] = cpu
  BY RegistersOfCurrent
<1>2. Registers' = Registers
  BY <1>1 DEF TheOthers, Registers
<1>3. QED
  BY <1>2 DEF Stutters

LEMMA InterruptStutters ==
  ASSUME IInv, QueueInv, status = "run", NEW irq, NEW sl, HandleInterrupt(irq, sl)
  PROVE  Stutters
<1>0. rx' = rx
  BY DEF HandleInterrupt
<1>1. CASE Stop("panic") \/ \E err : StopOn(err)
  BY <1>0, <1>1, StopRegisters DEF StopOn, How, Stutters
<1>2. CASE UNCHANGED <<tasks, ctx, current_slot, status, cpu>>
  BY <1>0, <1>2, KeptRegisters DEF Stutters
<1>3. ASSUME SwitchToNextTask(cpu, WokenStates(irq), sl, WokenQueue(irq), ClearedMask(irq))
      PROVE  Stutters
  <2>1. WokenStates(irq) \in [Slot -> TaskState]
    BY DEF IInv, TypeInv, WokenStates, TaskState
  <2>2. \A s \in Woken(irq) : tasks[s] = "BLOCKED_IRQ"
    BY DEF IInv, BlockedInv, Woken
  <2>3. \A s \in Slot : WokenStates(irq)[s] = "NOT_CREATED" <=> tasks[s] = "NOT_CREATED"
    BY <2>2 DEF WokenStates
  <2>4. WokenStates(irq)[current_slot] # "TERMINATED"
    <3>1. current_slot \in Slot /\ tasks[current_slot] = "RUNNING"
      BY DEF IInv, TypeInv, RunningInv
    <3>2. QED
      BY <3>1 DEF WokenStates
  <2>5. Registers' = Registers \/ TheOthers(cpu)
    BY <1>3, <2>1, <2>3, <2>4, SwitchRegisters
  <2>6. QED
    BY <1>0, <2>5, SameRegisters DEF Stutters
<1>4. QED
  BY <1>1, <1>2, <1>3 DEF HandleInterrupt

LEMMA RunSteps ==
  ASSUME IInv, QueueInv, Run
  PROVE  P!Next \/ Stutters
<1>1. /\ status = "run" /\ current_slot \in Slot /\ tasks \in [Slot -> TaskState]
      /\ tasks[current_slot] = "RUNNING"
  BY DEF Run, Compute, Yield, Exit, Getc, GetcBlocks, Fault, At, IInv, TypeInv, RunningInv
<1>2. CASE Compute
  <2>1. /\ Kind[cpu.pc] \in {"work", "call", "yield"} /\ cpu' \in Advance(cpu) /\ rx' = rx
        /\ UNCHANGED <<tasks, ctx, current_slot, status>>
    BY <1>2 DEF Compute, At, taskVars
  <2>2. TheOthers(cpu')
    BY <1>1, <2>1, StepRegisters
  <2>3. PICK f \in Advance(cpu) : f = cpu'
    BY <2>1
  <2>4. QED
    BY <1>1, <2>1, <2>2, <2>3, LocalStep
<1>3. CASE Yield
  <2>1. PICK f \in Advance(cpu) : SwitchToNextTask(f, tasks, time_slice, qready, wait_irq_mask)
    BY <1>3 DEF Yield
  <2>2. Registers' = Registers \/ TheOthers(f)
    BY <1>1, <2>1, SwitchRegisters
  <2>3. Kind[cpu.pc] \in {"work", "call", "yield"} /\ rx' = rx
    BY <1>3 DEF Yield, At
  <2>4. QED
    BY <1>1, <2>2, <2>3, LocalStep DEF Stutters
<1>4. ASSUME NEW x \in {"TERMINATED", "BLOCKED_IRQ"}, NEW mask,
             SwitchToNextTask(cpu, [tasks EXCEPT ![current_slot] = x], time_slice, qready, mask)
      PROVE  Registers' = Registers \/ TheOthers(IF x = "TERMINATED" THEN Gone ELSE cpu)
  <2> DEFINE st == [tasks EXCEPT ![current_slot] = x]
  <2>1. /\ st \in [Slot -> TaskState] /\ st[current_slot] = x
        /\ \A s \in Slot : st[s] = "NOT_CREATED" <=> tasks[s] = "NOT_CREATED"
    BY <1>1 DEF TaskState
  <2>2. SwitchToNextTask(cpu, st, time_slice, qready, mask)
    BY <1>4
  <2> HIDE DEF st
  <2>3. Registers' = Registers \/ TheOthers(IF st[current_slot] = "TERMINATED" THEN Gone ELSE cpu)
    BY <1>1, <2>1, <2>2, SwitchRegisters
  <2>4. QED
    BY <2>1, <2>3
<1>5. CASE Exit
  <2>1. Kind[cpu.pc] = "exit" /\ rx' = rx
    BY <1>5 DEF Exit, At
  <2>2. Registers' = Registers \/ TheOthers(Gone)
    BY <1>4, <1>5 DEF Exit
  <2>3. QED
    BY <1>1, <2>1, <2>2, LeaveStep DEF Stutters
<1>6. CASE Getc
  BY <1>6, ReceiveStep
<1>7. CASE GetcBlocks
  <2>1. rx' = rx /\ (Registers' = Registers \/ TheOthers(cpu))
    BY <1>4, <1>7 DEF GetcBlocks, BlockedFrame
  <2>2. QED
    BY <1>1, <2>1, SameRegisters DEF Stutters
<1>8. CASE Fault
  <2>1. rx' = rx
    BY <1>8 DEF Fault, Stop
  <2>2. QED
    BY <1>1, <1>8, <2>1, StopRegisters DEF Fault, Stutters
<1>9. QED
  BY <1>2, <1>3, <1>5, <1>6, <1>7, <1>8 DEF Run

LEMMA BootStutters ==
  ASSUME IInv, QueueInv, Spawn \/ StartSchedule
  PROVE  Stutters
<1>1. CASE Spawn
  <2>1. status = "boot" /\ status' = "boot" /\ rx' = rx
    BY <1>1, SpawnQueue DEF Spawn, StopOn, Stop
  <2>2. Registers = [s \in Boot |-> InitContext(s)] /\ Registers' = [s \in Boot |-> InitContext(s)]
    BY <2>1 DEF Registers, InitContext
  <2>3. QED
    BY <2>1, <2>2 DEF Stutters
<1>2. CASE StartSchedule
  <2>1. /\ status = "boot" /\ status' = "run" /\ current_slot' = EntryTask /\ rx' = rx
        /\ tasks' = [tasks EXCEPT ![EntryTask] = "RUNNING"]
        /\ \A s \in Boot : tasks[s] = "READY"
        /\ \A s \in Boot : ctx'[s] = InitContext(s)
        /\ cpu' = InitContext(EntryTask)
    BY <1>2, StartQueue DEF StartSchedule
  <2>2. \A s \in Boot : s \in Slot /\ tasks'[s] # "NOT_CREATED"
    BY <2>1, BootFacts DEF IInv, TypeInv
  <2>3. Registers = [s \in Boot |-> InitContext(s)] /\ Registers' = [s \in Boot |-> InitContext(s)]
    BY <2>1, <2>2 DEF Registers, InitContext
  <2>4. QED
    BY <2>1, <2>3 DEF Stutters
<1>3. QED
  BY <1>1, <1>2

LEMMA StepRefines == IInv /\ QueueInv /\ [Next]_vars => [P!Next]_<<Registers, rx>>
<1> SUFFICES ASSUME IInv, QueueInv, [Next]_vars PROVE P!Next \/ Stutters
  BY DEF Stutters
<1>1. CASE Arrive
  <2>1. /\ rx = NoChar /\ rx' \in Char /\ cpu' = cpu
        /\ UNCHANGED <<tasks, ctx, current_slot, status>>
    BY <1>1 DEF Arrive, taskVars
  <2>2. Registers' = Registers
    BY <2>1, KeptRegisters
  <2>3. P!Arrive
    BY <2>1, <2>2 DEF P!Arrive
  <2>4. QED
    BY <2>3 DEF P!Next
<1>2. CASE UNCHANGED vars
  BY <1>2, KeptRegisters DEF vars, taskVars, Stutters
<1>3. CASE TimerInterrupt \/ ExternalInterrupt
  BY <1>3, InterruptStutters DEF TimerInterrupt, ExternalInterrupt
<1>4. QED
  BY <1>1, <1>2, <1>3, BootStutters, RunSteps DEF Next

LEMMA InitRefines == Init => P!Init
<1> SUFFICES ASSUME Init PROVE P!Init
  OBVIOUS
<1>1. Registers = [p \in Boot |-> [pc |-> Start[p], a0 |-> NoChar, sp |-> p]] /\ rx = NoChar
  BY DEF Init, Registers, InitContext
<1>2. QED
  BY <1>1 DEF P!Init

(* The kernel implements its promise to the tasks (module Processes): to each its own  *)
(* registers, every character to one getc, for any tasks, priorities and programs,      *)
(* however the interrupts fall and whatever becomes of the ready queue.               *)
THEOREM Refinement == Spec => ImplementsProcesses
<1>1. Init => P!Init
  BY InitRefines
<1>2. IInv /\ QueueInv /\ [Next]_vars => [P!Next]_<<Registers, rx>>
  BY StepRefines
<1>3. QED
  BY <1>1, <1>2, InductiveInvariant, QueueInvariant, PTL DEF Spec, ImplementsProcesses, P!Spec

-----------------------------------------------------------------------------
(* Tasks of one priority.  The queue is a list of the READY tasks with true links     *)
(* both ways: entries go to the end of it and leave it at its head.                  *)
ReadySlots == {s \in Slot : tasks[s] = "READY"}

Holds(c) == Lists(qready, c) /\ Backs(qready, c) /\ Entries(qready, c) = ReadySlots

FifoInv == \E c : Holds(c)

(* What a switch does: d is the queue c with the woken tasks and perhaps the current  *)
(* one behind; its head gets the processor, and the rest is the new queue.  x is the   *)
(* state of the current task as the handler has left it.                             *)
RotatesBy(c, x, m, d) ==
  /\ m \in Nat \ {0} /\ m >= qready.n
  /\ d \in [1 .. m -> Slot] /\ \A i, j \in 1 .. m : d[i] = d[j] => i = j
  /\ \A i \in 1 .. qready.n : d[i] = c[i]
  /\ Lists(qready', Removed(d, m, 1)) /\ Backs(qready', Removed(d, m, 1))
  /\ qready'.n = m - 1
  /\ ReadySlots' = {d[i] : i \in 1 .. m} \ {d[1]}
  /\ current_slot' = d[1]
  /\ x = "RUNNING" => current_slot \in {d[i] : i \in 1 .. m}

Rotates(c, x) == status' = "run" /\ \E m, d : RotatesBy(c, x, m, d)

LEMMA SwitchFifo ==
  ASSUME EqualRanks, IInv, status = "run", NEW c, Holds(c),
         NEW frame, NEW st \in [Slot -> TaskState], NEW sl, NEW q, NEW mask,
         NEW W, NEW d0, Grows(qready, c, W, q, d0),
         {s \in Slot : st[s] = "READY"} = Entries(q, d0),
         st[current_slot] \in {"RUNNING", "TERMINATED", "BLOCKED_IRQ"},
         \A s \in Slot : s # current_slot => st[s] # "RUNNING",
         SwitchToNextTask(frame, st, sl, q, mask)
  PROVE  \/ Stop("panic") /\ Entries(q, d0) = {} /\ st[current_slot] # "RUNNING"
         \/ Rotates(c, st[current_slot])
<1> DEFINE st1 == SettledStates(st)
           q1  == Requeued(st1, q)
           n   == NextReady(q1, st1)
<1>1. /\ current_slot \in Slot
      /\ Lists(q, d0) /\ Backs(q, d0) /\ q.n \in Nat /\ q.n >= qready.n
      /\ qready.n \in Nat
      /\ Entries(q, d0) = Entries(qready, c) \union W
      /\ \A i \in 1 .. qready.n : d0[i] = c[i]
  BY QueueFields DEF Grows, Holds, Lists, IInv, TypeInv
<1>2. /\ st1 \in [Slot -> TaskState]
      /\ st1[current_slot] = Settled(st[current_slot])
      /\ \A s \in Slot : s # current_slot => st1[s] = st[s]
  BY <1>1 DEF SettledStates, Settled, TaskState
<1>3. current_slot \notin Entries(q, d0)
  BY <1>1
<1>4. (st1[current_slot] = "READY" <=> st[current_slot] = "RUNNING")
  BY <1>2 DEF Settled
<1> HIDE DEF st1
<1>5. PICK d : /\ Lists(q1, d) /\ Backs(q1, d) /\ q1.n >= q.n
               /\ \A i \in 1 .. q.n : d[i] = d0[i]
               /\ Entries(q1, d) = {s \in Slot : st1[s] = "READY"}
               /\ q1.n # 0 /\ d[1] = current_slot => q1.n = 1
  <2>1. CASE st1[current_slot] = "READY"
    <3>1. q1 = Push(q, current_slot)
      BY <2>1 DEF Requeued
    <3>2. PICK d : PushesInto(q, d0, current_slot, Push(q, current_slot), d)
      BY <1>1, <1>3, PushList
    <3> HIDE DEF q1
    <3>3. /\ Lists(q1, d) /\ Backs(q1, d) /\ q1.n = q.n + 1
          /\ Entries(q1, d) = Entries(q, d0) \union {current_slot}
          /\ \A i \in 1 .. q.n : d[i] = d0[i]
      BY <1>1, <3>1, <3>2 DEF PushesInto
    <3>4. Entries(q, d0) \union {current_slot} = {s \in Slot : st1[s] = "READY"}
      BY <1>1, <1>2, <1>3, <2>1
    <3>5. q.n # 0 => d[1] = d0[1] /\ d0[1] \in Entries(q, d0)
      <4>1. q.n # 0 => 1 \in 1 .. q.n
        BY <1>1
      <4>2. QED
        BY <3>3, <4>1 DEF Entries
    <3>6. d[1] = current_slot => q1.n = 1
      BY <1>1, <1>3, <3>3, <3>5
    <3>7. QED
      BY <1>1, <3>3, <3>4, <3>6
  <2>2. CASE st1[current_slot] # "READY"
    <3>1. q1 = q
      BY <2>2 DEF Requeued
    <3> HIDE DEF q1
    <3>2. Entries(q, d0) = {s \in Slot : st1[s] = "READY"}
      BY <1>1, <1>2, <1>3, <2>2
    <3>3. q.n # 0 => d0[1] \in Entries(q, d0)
      <4>1. q.n # 0 => 1 \in 1 .. q.n
        BY <1>1
      <4>2. QED
        BY <4>1 DEF Entries
    <3>4. QED
      BY <1>1, <1>3, <3>1, <3>2, <3>3
  <2>3. QED
    BY <2>1, <2>2
<1> HIDE DEF q1
<1>6. /\ q1.err = "none" /\ q1.n \in Nat /\ q1 \in Queue
      /\ d \in [1 .. q1.n -> Slot] /\ \A i, j \in 1 .. q1.n : d[i] = d[j] => i = j
  BY <1>5, QueueFields DEF Lists
<1>7. CASE q1.n = 0
  <2>1. Stop("panic")
    BY <1>6, <1>7 DEF SwitchToNextTask, st1, q1
  <2>2. {s \in Slot : st1[s] = "READY"} = {}
    BY <1>5, <1>7 DEF Entries
  <2>3. st[current_slot] # "RUNNING"
    BY <1>1, <1>4, <2>2
  <2>4. Entries(q, d0) = {}
    BY <1>1, <1>2, <1>3, <2>2
  <2>5. QED
    BY <2>1, <2>3, <2>4
<1>8. CASE q1.n # 0
  <2>1. 1 \in 1 .. q1.n /\ d[1] \in Slot
    BY <1>6, <1>8
  <2>2. \A i \in 1 .. q1.n : st1[d[i]] = "READY"
    BY <1>5 DEF Entries
  <2>3. n = d[1]
    BY <1>5, <1>8, <2>2, NextIsHead
  <2>4. n \in Slot /\ st1[n] = "READY"
    BY <2>1, <2>2, <2>3
  <2>5. Dispatch(n, q1, frame, st, sl, mask)
    BY <1>6, <1>8, <2>4 DEF SwitchToNextTask, st1, q1
  <2>6. PICK k \in Slot : k = d[1]
    BY <2>1
  <2> HIDE DEF n
  <2>7. /\ tasks' = [st1 EXCEPT ![k] = "RUNNING"] /\ qready' = Remove(q1, k)
        /\ current_slot' = k /\ status' = "run"
    BY <2>3, <2>5, <2>6 DEF Dispatch, st1
  <2>8. RemovesFrom(q1, d, 1, Remove(q1, d[1]))
    BY <1>5, <2>1, RemoveList
  <2>9. /\ Lists(qready', Removed(d, q1.n, 1)) /\ Backs(qready', Removed(d, q1.n, 1))
        /\ qready'.n = q1.n - 1
    BY <2>6, <2>7, <2>8 DEF RemovesFrom
  <2>10. ReadySlots' = {d[i] : i \in 1 .. q1.n} \ {d[1]}
    <3>1. ReadySlots' = {s \in Slot : st1[s] = "READY"} \ {k}
      BY <1>2, <2>7 DEF ReadySlots
    <3>2. QED
      BY <1>5, <2>6, <3>1 DEF Entries
  <2>11. st[current_slot] = "RUNNING" => current_slot \in {d[i] : i \in 1 .. q1.n}
    BY <1>1, <1>4, <1>5 DEF Entries
  <2>12. q1.n >= qready.n /\ \A i \in 1 .. qready.n : d[i] = c[i]
    BY <1>1, <1>5, <1>6
  <2>13. RotatesBy(c, st[current_slot], q1.n, d)
    BY <1>6, <1>8, <2>6, <2>7, <2>9, <2>10, <2>11, <2>12 DEF RotatesBy
  <2>14. QED
    BY <2>7, <2>13 DEF Rotates
<1>9. QED
  BY <1>7, <1>8

(* The steps of the running kernel, as far as the queue is concerned.                 *)
Keeps ==
  /\ UNCHANGED <<tasks, qready, current_slot, status>>
  /\ Kind[cpu.pc] = "yield" => cpu' = cpu
  /\ time_slice[current_slot] = 1 => time_slice'[current_slot] = 1

Panics ==
  /\ Stop("panic")
  /\ \/ Kind[cpu.pc] = "fault"
     \/ Kind[cpu.pc] \in {"exit", "getc"} /\ ReadySlots = {}

Switches(c) == \E x : Rotates(c, x) /\ (Kind[cpu.pc] \in {"exit", "getc"} \/ x = "RUNNING")

FifoStep(c) == Keeps \/ Panics \/ Switches(c)

LEMMA InterruptFifo ==
  ASSUME EqualRanks, IInv, status = "run", NEW c, Holds(c), NEW irq, NEW sl,
         sl[current_slot] # 0 => (time_slice[current_slot] = 1 => sl[current_slot] = 1),
         HandleInterrupt(irq, sl)
  PROVE  FifoStep(c)
<1>1. /\ current_slot \in Slot /\ tasks[current_slot] = "RUNNING" /\ tasks \in [Slot -> TaskState]
      /\ \A s \in Slot : tasks[s] = "RUNNING" => s = current_slot
      /\ \A s \in Slot : tasks[s] = "BLOCKED_IRQ" <=> wait_irq_mask[s] # {}
  BY DEF IInv, TypeInv, RunningInv, BlockedInv
<1>2. \A s \in Slot : s \in Woken(irq) => tasks[s] = "BLOCKED_IRQ"
  BY <1>1 DEF Woken
<1>3. \A s \in Slot : s \in Woken(irq) => s \notin Entries(qready, c)
  BY <1>2 DEF Holds, ReadySlots
<1>4. PICK d0 : Grows(qready, c, Woken(irq), WokenQueue(irq), d0)
  BY <1>3, WokenList DEF Holds
<1>5. WokenQueue(irq).err = "none"
  BY <1>4 DEF Grows, Lists
<1>6. ~\E s \in Slot : wait_irq_mask[s] # {} /\ tasks[s] # "BLOCKED_IRQ"
  BY <1>1
<1>7. CASE sl[current_slot] = 0 \/ Woken(irq) # {}
  <2>1. SwitchToNextTask(cpu, WokenStates(irq), sl, WokenQueue(irq), ClearedMask(irq))
    BY <1>5, <1>6, <1>7 DEF HandleInterrupt
  <2>2. /\ WokenStates(irq) \in [Slot -> TaskState]
        /\ WokenStates(irq)[current_slot] = "RUNNING"
        /\ \A s \in Slot : s # current_slot => WokenStates(irq)[s] # "RUNNING"
    BY <1>1, <1>2 DEF WokenStates, TaskState
  <2>3. {s \in Slot : WokenStates(irq)[s] = "READY"} = Entries(WokenQueue(irq), d0)
    <3>1. Entries(WokenQueue(irq), d0) = ReadySlots \union Woken(irq)
      BY <1>4 DEF Grows, Holds
    <3>2. Woken(irq) \subseteq Slot
      BY DEF Woken
    <3>3. QED
      BY <3>1, <3>2 DEF WokenStates, ReadySlots
  <2>4. Rotates(c, WokenStates(irq)[current_slot])
    BY <1>4, <2>1, <2>2, <2>3, SwitchFifo
  <2>5. QED
    BY <2>2, <2>4 DEF FifoStep, Switches
<1>8. CASE ~(sl[current_slot] = 0 \/ Woken(irq) # {})
  <2>1. /\ time_slice' = sl /\ sl[current_slot] # 0
        /\ UNCHANGED <<tasks, current_slot, qready, cpu, status>>
    BY <1>5, <1>6, <1>8 DEF HandleInterrupt
  <2>2. Keeps
    BY <2>1 DEF Keeps
  <2>3. QED
    BY <2>2 DEF FifoStep
<1>9. QED
  BY <1>7, <1>8

LEMMA RunFifo ==
  ASSUME EqualRanks, IInv, NEW c, Holds(c), Run
  PROVE  FifoStep(c)
<1>1. /\ status = "run" /\ current_slot \in Slot /\ tasks \in [Slot -> TaskState]
      /\ tasks[current_slot] = "RUNNING"
      /\ \A s \in Slot : tasks[s] = "RUNNING" => s = current_slot
  BY DEF Run, Compute, Yield, Exit, Getc, GetcBlocks, Fault, At, IInv, TypeInv, RunningInv
<1>2. CASE Compute \/ Getc
  <2>1. Keeps
    BY <1>2 DEF Keeps, Compute, Getc, At, taskVars
  <2>2. QED
    BY <2>1 DEF FifoStep
<1>3. /\ Grows(qready, c, {}, qready, c)
      /\ ReadySlots = Entries(qready, c)
  <2>1. Entries(qready, c) = Entries(qready, c) \union {} /\ qready.n \in Nat
    BY QueueFields DEF Holds, Lists
  <2>2. QED
    BY <2>1 DEF Grows, Holds
<1>4. CASE Yield
  <2>1. PICK frame : SwitchToNextTask(frame, tasks, time_slice, qready, wait_irq_mask)
    BY <1>4 DEF Yield
  <2>2. {s \in Slot : tasks[s] = "READY"} = Entries(qready, c)
    BY <1>3 DEF ReadySlots
  <2>3. Rotates(c, tasks[current_slot])
    BY <1>1, <1>3, <2>1, <2>2, SwitchFifo
  <2>4. QED
    BY <1>1, <2>3 DEF FifoStep, Switches
<1>5. ASSUME NEW x \in {"TERMINATED", "BLOCKED_IRQ"}, NEW mask, Kind[cpu.pc] \in {"exit", "getc"},
             SwitchToNextTask(cpu, [tasks EXCEPT ![current_slot] = x], time_slice, qready, mask)
      PROVE  FifoStep(c)
  <2> DEFINE st == [tasks EXCEPT ![current_slot] = x]
  <2>1. /\ st \in [Slot -> TaskState] /\ st[current_slot] = x
        /\ \A s \in Slot : s # current_slot => st[s] # "RUNNING"
        /\ {s \in Slot : st[s] = "READY"} = ReadySlots
    BY <1>1 DEF TaskState, ReadySlots
  <2>2. SwitchToNextTask(cpu, st, time_slice, qready, mask)
    BY <1>5
  <2> HIDE DEF st
  <2>3. st[current_slot] \in {"RUNNING", "TERMINATED", "BLOCKED_IRQ"}
    BY <2>1
  <2>4. {s \in Slot : st[s] = "READY"} = Entries(qready, c)
    BY <1>3, <2>1
  <2>5. \/ Stop("panic") /\ Entries(qready, c) = {}
        \/ Rotates(c, st[current_slot])
    BY <1>1, <1>3, <2>1, <2>2, <2>3, <2>4, SwitchFifo
  <2>6. QED
    BY <1>3, <1>5, <2>5 DEF FifoStep, Panics, Switches
<1>6. CASE Exit
  BY <1>5, <1>6 DEF Exit, At
<1>7. CASE GetcBlocks
  BY <1>5, <1>7 DEF GetcBlocks, BlockedFrame, At
<1>8. CASE Fault
  BY <1>8 DEF Fault, At, FifoStep, Panics
<1>9. QED
  BY <1>2, <1>4, <1>6, <1>7, <1>8 DEF Run

LEMMA RunningFifo ==
  ASSUME EqualRanks, IInv, status = "run", NEW c, Holds(c), [Next]_vars
  PROVE  FifoStep(c)
<1>1. CASE Arrive \/ UNCHANGED vars
  <2>1. Keeps
    BY <1>1 DEF Arrive, vars, taskVars, Keeps
  <2>2. QED
    BY <2>1 DEF FifoStep
<1>2. CASE TimerInterrupt
  <2> DEFINE sl == [time_slice EXCEPT ![current_slot] = Ticked(@)]
  <2>1. HandleInterrupt("TIMER", sl)
    BY <1>2 DEF TimerInterrupt
  <2>2. sl[current_slot] # 0 => (time_slice[current_slot] = 1 => sl[current_slot] = 1)
    BY DEF IInv, TypeInv, Ticked
  <2> HIDE DEF sl
  <2>3. QED
    BY <2>1, <2>2, InterruptFifo
<1>3. CASE ExternalInterrupt
  <2>1. HandleInterrupt("EXTERNAL", time_slice)
    BY <1>3 DEF ExternalInterrupt
  <2>2. QED
    BY <2>1, InterruptFifo
<1>4. CASE Run
  BY <1>4, RunFifo
<1>5. ~Spawn /\ ~StartSchedule
  BY DEF Spawn, StartSchedule
<1>6. QED
  BY <1>1, <1>2, <1>3, <1>4, <1>5 DEF Next

-----------------------------------------------------------------------------
LEMMA BootFifo == EqualRanks /\ QueueInv /\ status = "boot" => FifoInv
<1> SUFFICES ASSUME EqualRanks, QueueInv, status = "boot" PROVE FifoInv
  OBVIOUS
<1>1. PICK c : Lists(qready, c) /\ Entries(qready, c) = 0 .. n_task - 1 /\ Backs(qready, c)
  BY DEF QueueInv, SpawnedInv, Queues
<1>2. 0 .. n_task - 1 = ReadySlots
  <2>1. n_task \in 0 .. NTask /\ \A s \in Slot : tasks[s] = "READY" <=> s < n_task
    BY DEF QueueInv, SpawnedInv
  <2>2. PICK k \in Nat : k = n_task /\ k <= MaxTasks
    BY <2>1, BootFacts, SlotType
  <2>3. 0 .. k - 1 = {s \in Slot : s < k}
    BY <2>2, SlotType DEF Slot
  <2>4. QED
    BY <2>1, <2>2, <2>3 DEF ReadySlots
<1>3. QED
  BY <1>1, <1>2 DEF FifoInv, Holds

LEMMA NextFifo ==
  ASSUME EqualRanks, IInv, QueueInv, FifoInv, [Next]_vars
  PROVE  FifoInv'
<1>1. PICK c : Holds(c)
  BY DEF FifoInv
<1>2. CASE UNCHANGED <<tasks, qready>>
  <2>1. Holds(c)'
    BY <1>1, <1>2 DEF Holds, ReadySlots
  <2>2. QED
    BY <2>1 DEF FifoInv
<1>3. CASE status = "run"
  <2>1. CASE Keeps \/ Panics
    BY <1>2, <2>1 DEF Keeps, Panics, Stop, taskVars
  <2>2. CASE Switches(c)
    <3>1. PICK x, m, d : RotatesBy(c, x, m, d)
      BY <2>2 DEF Switches, Rotates
    <3>2. /\ Lists(qready', Removed(d, m, 1)) /\ Backs(qready', Removed(d, m, 1))
          /\ ReadySlots' = {d[i] : i \in 1 .. m} \ {d[1]}
          /\ m \in Nat \ {0} /\ d \in [1 .. m -> Slot] /\ qready'.n = m - 1
          /\ \A i, j \in 1 .. m : d[i] = d[j] => i = j
      BY <3>1 DEF RotatesBy
    <3> DEFINE e == Removed(d, m, 1)
    <3>3. \A i \in 1 .. m - 1 : e[i] = d[i + 1]
      BY <3>2 DEF Removed
    <3> HIDE DEF e
    <3>4. {e[i] : i \in 1 .. m - 1} = {d[i] : i \in 1 .. m} \ {d[1]}
      <4>1. \A i \in 1 .. m - 1 : i + 1 \in 1 .. m /\ i + 1 # 1 /\ 1 \in 1 .. m
        BY <3>2
      <4>2. \A i \in 1 .. m : d[i] # d[1] => i - 1 \in 1 .. m - 1 /\ (i - 1) + 1 = i
        BY <3>2
      <4>3. \A i \in 1 .. m - 1 : d[i + 1] # d[1]
        BY <3>2, <4>1
      <4>4. ASSUME NEW i \in 1 .. m, d[i] # d[1] PROVE d[i] \in {e[j] : j \in 1 .. m - 1}
        <5>1. i - 1 \in 1 .. m - 1 /\ e[i - 1] = d[i]
          BY <3>3, <4>2, <4>4
        <5>2. QED
          BY <5>1
      <4>5. \A i \in 1 .. m - 1 : e[i] \in {d[j] : j \in 1 .. m} \ {d[1]}
        BY <3>3, <4>1, <4>3
      <4>6. QED
        BY <4>4, <4>5
    <3>5. Entries(qready', e) = ReadySlots'
      BY <3>2, <3>4 DEF Entries
    <3>6. Holds(e)'
      BY <3>2, <3>5 DEF Holds, e
    <3>7. QED
      BY <3>6 DEF FifoInv
  <2>3. QED
    BY <1>1, <1>3, <2>1, <2>2, RunningFifo DEF FifoStep
<1>4. CASE status = "boot"
  <2>1. CASE Spawn
    <3>1. QueueInv' /\ status' = "boot"
      BY <2>1, SpawnQueue
    <3>2. (EqualRanks /\ QueueInv /\ status = "boot" => FifoInv)'
      BY BootFifo, PTL
    <3>3. QED
      BY <3>1, <3>2 DEF EqualRanks
  <2>2. CASE StartSchedule
    <3>1. /\ qready' = Remove(qready, EntryTask) /\ tasks' = [tasks EXCEPT ![EntryTask] = "RUNNING"]
          /\ tasks[EntryTask] = "READY" /\ EntryTask \in Slot /\ tasks \in [Slot -> TaskState]
      BY <2>2, StartQueue, BootFacts DEF IInv, TypeInv
    <3>2. EntryTask \in Entries(qready, c)
      BY <1>1, <3>1 DEF Holds, ReadySlots
    <3>3. PICK k \in 1 .. qready.n : c[k] = EntryTask
      BY <3>2 DEF Entries
    <3>4. RemovesFrom(qready, c, k, Remove(qready, c[k]))
      BY <1>1, RemoveList DEF Holds
    <3>5. /\ Lists(qready', Removed(c, qready.n, k)) /\ Backs(qready', Removed(c, qready.n, k))
          /\ Entries(qready', Removed(c, qready.n, k)) = ReadySlots \ {EntryTask}
      BY <1>1, <3>1, <3>3, <3>4 DEF RemovesFrom, Holds
    <3>6. ReadySlots' = ReadySlots \ {EntryTask}
      BY <3>1 DEF ReadySlots
    <3>7. \E e : Lists(qready', e) /\ Backs(qready', e) /\ Entries(qready', e) = ReadySlots'
      BY <3>5, <3>6
    <3>8. QED
      BY <3>7 DEF FifoInv, Holds
  <2>3. CASE Arrive \/ UNCHANGED vars
    BY <1>2, <2>3 DEF Arrive, vars, taskVars
  <2>4. ~TimerInterrupt /\ ~ExternalInterrupt /\ ~Run
    BY <1>4 DEF TimerInterrupt, ExternalInterrupt, Run, Compute, Yield, Exit, Getc, GetcBlocks, Fault, At
  <2>5. QED
    BY <2>1, <2>2, <2>3, <2>4 DEF Next
<1>5. CASE status \notin {"boot", "run"}
  <2>1. ~TimerInterrupt /\ ~ExternalInterrupt /\ ~Run /\ ~Spawn /\ ~StartSchedule
    BY <1>5 DEF TimerInterrupt, ExternalInterrupt, Run, Compute, Yield, Exit, Getc, GetcBlocks,
                Fault, At, Spawn, StartSchedule
  <2>2. QED
    BY <1>2, <2>1 DEF Next, Arrive, vars, taskVars
<1>6. QED
  BY <1>3, <1>4, <1>5

(* Between tasks of one priority the ready queue is a list of the READY tasks, linked  *)
(* both ways (scheduler.c:11-90).                                                  *)
THEOREM FifoInvariant == EqualRanks /\ Spec => []FifoInv
<1> SUFFICES ASSUME EqualRanks PROVE Spec => []FifoInv
  OBVIOUS
<1>1. Init => FifoInv
  BY InitQueue, BootFifo DEF Init
<1>2. IInv /\ QueueInv /\ FifoInv /\ [Next]_vars => FifoInv'
  BY NextFifo
<1>3. QED
  BY <1>1, <1>2, InductiveInvariant, QueueInvariant, PTL DEF Spec

(* The links forward and back, the head and the count are those of one list of the     *)
(* READY tasks, each once, whatever its entries did before.                        *)
THEOREM QueueSound == EqualRanks /\ Spec => []QueueIsAList
<1> SUFFICES ASSUME EqualRanks PROVE Spec => []QueueIsAList
  OBVIOUS
<1>1. FifoInv => QueueIsAList
  <2> SUFFICES ASSUME FifoInv PROVE QueueIsAList
    OBVIOUS
  <2>1. PICK c : Holds(c)
    BY DEF FifoInv
  <2>2. /\ Chain(qready) = c /\ c \in [1 .. qready.n -> Slot] /\ qready.n \in Nat
        /\ \A i, j \in 1 .. qready.n : c[i] = c[j] => i = j
        /\ Entries(qready, c) = ReadySlots
    BY <2>1, ChainIs, QueueFields DEF Holds, Lists
  <2>3. DOMAIN c = 1 .. qready.n /\ Len(c) = qready.n
    BY <2>2
  <2>4. Range(c) = ReadySlots
    BY <2>2, <2>3 DEF Range, Entries
  <2>5. \A i \in DOMAIN c : qready.prev[c[i]] = IF i = 1 THEN NIL ELSE c[i - 1]
    BY <2>1, <2>3 DEF Holds, Backs
  <2>6. QED
    BY <2>2, <2>3, <2>4, <2>5 DEF QueueIsAList, ReadySlots
<1>2. QED
  BY <1>1, FifoInvariant, PTL

(* Every task that waits for the processor is in the queue, and the counts are exact.   *)
THEOREM WaitingAreQueued == EqualRanks /\ Spec => []ReadyTasksAreQueued
<1> SUFFICES ASSUME EqualRanks PROVE Spec => []ReadyTasksAreQueued
  OBVIOUS
<1>1. QueueInv /\ FifoInv => ReadyTasksAreQueued
  <2> SUFFICES ASSUME QueueInv, FifoInv PROVE ReadyTasksAreQueued
    OBVIOUS
  <2>1. PICK c : Holds(c)
    BY DEF FifoInv
  <2>2. /\ Chain(qready) = c /\ c \in [1 .. qready.n -> Slot]
        /\ Entries(qready, c) = ReadySlots
    BY <2>1, ChainIs DEF Holds, Lists
  <2>3. Linked(qready) = ReadySlots
    BY <2>2 DEF Linked, Range, Entries
  <2>4. qready.n = Cardinality(ReadySlots)
    BY <2>1, <2>2, ListSize DEF Holds
  <2>5. n_task = Cardinality(Created)
    BY DEF QueueInv, CountInv
  <2>6. QED
    BY <2>3, <2>4, <2>5 DEF ReadyTasksAreQueued, WaitingTasksAreFound, ReadySlots, Created
<1>2. QED
  BY <1>1, FifoInvariant, QueueInvariant, PTL

LEMMA YieldsToAnother ==
  ASSUME EqualRanks, IInv, status = "run", FifoInv, [Next]_vars,
         \/ Kind[cpu.pc] = "yield" /\ cpu' # cpu
         \/ time_slice[current_slot] = 1 /\ time_slice'[current_slot] # 1,
         NEW s \in Slot, tasks[s] = "READY"
  PROVE  current_slot' # current_slot
<1>1. PICK c : Holds(c)
  BY DEF FifoInv
<1>2. FifoStep(c)
  BY <1>1, RunningFifo
<1>3. ~Keeps
  BY DEF Keeps
<1>4. ~Panics
  BY DEF Panics, Stop, taskVars
<1>5. PICK x, m, d : RotatesBy(c, x, m, d)
  BY <1>2, <1>3, <1>4 DEF FifoStep, Switches, Rotates
<1>6. PICK i \in 1 .. qready.n : c[i] = s
  BY <1>1 DEF Holds, Entries, ReadySlots
<1>7. 1 \in 1 .. qready.n /\ qready.n \in Nat
  BY <1>1, QueueFields DEF Holds, Lists
<1>8. c[1] \in ReadySlots
  BY <1>1, <1>7 DEF Holds, Entries
<1>9. current_slot' = c[1]
  BY <1>5, <1>7 DEF RotatesBy
<1>10. tasks[current_slot] = "RUNNING"
  BY DEF IInv, RunningInv
<1>11. QED
  BY <1>8, <1>9, <1>10 DEF ReadySlots

(* A task that yields, or whose last tick is over, gives way (scheduler.c:142).         *)
THEOREM YieldsGiveWay == EqualRanks /\ Spec => GivesWay
<1> SUFFICES ASSUME EqualRanks PROVE Spec => GivesWay
  OBVIOUS
<1> DEFINE A == (/\ status = "run"
                 /\ \/ Kind[cpu.pc] = "yield" /\ cpu' # cpu
                    \/ time_slice[current_slot] = 1 /\ time_slice'[current_slot] # 1
                 /\ \E s \in Slot : tasks[s] = "READY")
                => current_slot' # current_slot
<1>1. IInv /\ FifoInv /\ [Next]_vars => [A]_vars
  BY YieldsToAnother
<1> HIDE DEF A
<1>2. Spec => [][A]_vars
  BY <1>1, InductiveInvariant, FifoInvariant, PTL DEF Spec
<1>3. QED
  BY <1>2 DEF GivesWay, A

LEMMA OrderIsKept ==
  ASSUME EqualRanks, IInv, IInv', status = "run", FifoInv, [Next]_vars,
         NEW s \in Slot, NEW r \in Slot, s # r,
         tasks[s] = "READY", tasks'[s] = "READY",
         tasks[r] = "READY" => Ahead(qready, s, r)
  PROVE  /\ r # current_slot => tasks'[r] # "RUNNING"
         /\ tasks'[r] = "READY" => Ahead(qready', s, r)
<1>1. PICK c : Holds(c)
  BY DEF FifoInv
<1>2. CASE UNCHANGED <<tasks, qready>>
  <2>1. Ahead(qready', s, r) <=> Ahead(qready, s, r)
    BY <1>2 DEF Ahead
  <2>2. QED
    BY <1>2, <2>1 DEF IInv, RunningInv
<1>3. ASSUME NEW x, Rotates(c, x)
      PROVE  /\ r # current_slot => tasks'[r] # "RUNNING"
             /\ tasks'[r] = "READY" => Ahead(qready', s, r)
  <2>1. PICK m, d : RotatesBy(c, x, m, d)
    BY <1>3 DEF Rotates
  <2>2. /\ m \in Nat \ {0} /\ m >= qready.n /\ qready.n \in Nat
        /\ d \in [1 .. m -> Slot] /\ \A i, j \in 1 .. m : d[i] = d[j] => i = j
        /\ \A i \in 1 .. qready.n : d[i] = c[i]
        /\ Lists(qready', Removed(d, m, 1)) /\ qready'.n = m - 1
        /\ ReadySlots' = {d[i] : i \in 1 .. m} \ {d[1]}
        /\ current_slot' = d[1]
    BY <1>1, <2>1, QueueFields DEF RotatesBy, Holds, Lists
  <2>3. /\ c \in [1 .. qready.n -> Slot] /\ Chain(qready) = c
        /\ \A i, j \in 1 .. qready.n : c[i] = c[j] => i = j
        /\ {c[i] : i \in 1 .. qready.n} = ReadySlots
    BY <1>1, ChainIs DEF Holds, Lists, Entries
  <2>4. PICK i \in 1 .. qready.n : c[i] = s
    BY <2>3 DEF ReadySlots
  <2>5. ASSUME NEW j \in 1 .. m, d[j] = r PROVE j > i
    <3>1. CASE tasks[r] = "READY"
      <4>1. PICK a, b \in 1 .. qready.n : a < b /\ c[a] = s /\ c[b] = r
        BY <2>3, <3>1 DEF Ahead
      <4>2. a = i
        BY <2>3, <2>4, <4>1
      <4>3. b \in 1 .. m /\ d[b] = r
        BY <2>2, <4>1
      <4>4. b = j
        BY <2>2, <2>5, <4>3
      <4>5. QED
        BY <4>1, <4>2, <4>4
    <3>2. CASE tasks[r] # "READY"
      <4>1. j \notin 1 .. qready.n
        BY <2>2, <2>3, <2>5, <3>2 DEF ReadySlots
      <4>2. QED
        BY <2>2, <4>1
    <3>3. QED
      BY <3>1, <3>2
  <2>6. 1 \in 1 .. m /\ i \in 1 .. m /\ d[i] = s
    BY <2>2, <2>4
  <2>7. d[1] # r
    BY <2>5, <2>6
  <2>8. tasks'[r] # "RUNNING"
    BY <2>2, <2>7 DEF IInv, RunningInv
  <2>9. ASSUME tasks'[r] = "READY" PROVE Ahead(qready', s, r)
    <3>1. PICK j \in 1 .. m : d[j] = r
      BY <2>2, <2>9 DEF ReadySlots
    <3>2. j > i /\ s # d[1]
      <4>1. s \in ReadySlots'
        BY DEF ReadySlots
      <4>2. QED
        BY <2>2, <2>5, <3>1, <4>1
    <3>3. i # 1
      BY <2>6, <3>2
    <3> DEFINE e == Removed(d, m, 1)
    <3>4. \A k \in 1 .. m - 1 : e[k] = d[k + 1]
      BY <2>2 DEF Removed
    <3>5. DOMAIN e = 1 .. m - 1
      BY DEF Removed
    <3>6. Chain(qready') = e
      BY <2>2, ChainIs
    <3> HIDE DEF e
    <3>7. /\ i - 1 \in 1 .. m - 1 /\ (i - 1) + 1 = i
          /\ j - 1 \in 1 .. m - 1 /\ (j - 1) + 1 = j
          /\ i - 1 < j - 1
      BY <2>2, <2>6, <3>2, <3>3
    <3>8. e[i - 1] = s /\ e[j - 1] = r
      BY <2>6, <3>1, <3>4, <3>7
    <3>9. QED
      BY <3>5, <3>6, <3>7, <3>8 DEF Ahead
  <2>10. QED
    BY <2>8, <2>9
<1>4. FifoStep(c)
  BY <1>1, RunningFifo
<1>5. Keeps \/ Panics => UNCHANGED <<tasks, qready>>
  BY DEF Keeps, Panics, Stop, taskVars
<1>6. QED
  BY <1>2, <1>3, <1>4, <1>5 DEF FifoStep, Switches

(* The task that has waited longest runs first (scheduler.h:16-17).                    *)
THEOREM LongestWaitFirst == EqualRanks /\ Spec => RoundRobin
<1> SUFFICES ASSUME EqualRanks PROVE Spec => RoundRobin
  OBVIOUS
<1> DEFINE A == \A s, r \in Slot :
        /\ status = "run" /\ s # r /\ Priority[s] = Priority[r]
        /\ tasks[s] = "READY" /\ tasks'[s] = "READY"
        /\ tasks[r] = "READY" => Ahead(qready, s, r)
        => /\ r # current_slot => tasks'[r] # "RUNNING"
           /\ tasks'[r] = "READY" => Ahead(qready', s, r)
<1>1. IInv /\ IInv' /\ FifoInv /\ [Next]_vars => [A]_vars
  BY OrderIsKept
<1> HIDE DEF A
<1>2. Spec => [][A]_vars
  BY <1>1, InductiveInvariant, FifoInvariant, PTL DEF Spec
<1>3. QED
  BY <1>2 DEF RoundRobin, A

-----------------------------------------------------------------------------
(* Two tasks of different priorities, as kernel_main spawns them; a ranks below b.    *)
(* A push ahead of the head leaves the head without its link back, so removing it later *)
(* leaves it linked from b, and so on; but a stale link can only be one to a, and      *)
(* never one that the next trap trips over.                                        *)
TwoRanks == NTask = 2 /\ Priority[0] # Priority[1]

LowHigh(a, b) == Boot = {a, b} /\ a # b /\ Priority[a] < Priority[b]

\* The links of the entries: none back, and forward to a only, from entries of R.
Loose(q, R, a) ==
  /\ q \in Queue /\ q.err = "none"
  /\ \A s \in Slot : q.prev[s] = NIL
  /\ \A s \in Slot : q.next[s] = NIL \/ (s \in R /\ q.next[s] = a)

Empty(q, a)    == Loose(q, {}, a) /\ q.n = 0 /\ q.head \in {NIL, a}
Alone(q, s, a) == Loose(q, {s}, a) /\ q.n = 1 /\ q.head = s
Pair(q, a, b)  ==
  /\ q \in Queue /\ q.err = "none" /\ q.n = 2
  /\ q.head = b /\ q.next[b] = a /\ q.next[a] \in {NIL, a}
  /\ q.prev[b] = NIL /\ q.prev[a] \in {NIL, a, b}
  /\ \A s \in Slot \ {a, b} : q.prev[s] = NIL /\ q.next[s] = NIL

\* What the queue looks like when the tasks of R are in it.
Shape(q, R, a, b) ==
  \/ R = {} /\ Empty(q, a)
  \/ \E s \in {a, b} : R = {s} /\ Alone(q, s, a)
  \/ R = {a, b} /\ Pair(q, a, b)

LEMMA LowHighIs ==
  ASSUME TwoRanks
  PROVE  \E a, b : LowHigh(a, b)
<1>1. Boot = {0, 1} /\ 0 \in Slot /\ 1 \in Slot
  BY BootFacts DEF TwoRanks, Boot
<1>2. Priority[0] \in Nat /\ Priority[1] \in Nat
  BY <1>1, PriorityAssumption
<1>3. Priority[0] < Priority[1] \/ Priority[1] < Priority[0]
  BY <1>2 DEF TwoRanks
<1>4. QED
  BY <1>1, <1>3 DEF LowHigh

LEMMA LowHighFacts ==
  ASSUME NEW a, NEW b, LowHigh(a, b)
  PROVE  /\ a \in Slot /\ b \in Slot /\ a # b /\ a # NIL /\ b # NIL /\ MaxTasks >= 2
         /\ Priority[a] \in Nat /\ Priority[b] \in Nat /\ Priority[a] < Priority[b]
         /\ ~(Priority[a] >= Priority[b])
<1>1. a \in Boot /\ b \in Boot /\ a \in Slot /\ b \in Slot /\ a # b /\ Priority[a] < Priority[b]
  BY BootFacts DEF LowHigh
<1>2. MaxTasks >= 2
  BY <1>1, SlotType DEF Slot
<1>3. Priority[a] \in Nat /\ Priority[b] \in Nat
  BY <1>1, PriorityAssumption
<1>4. QED
  BY <1>1, <1>2, <1>3, SlotType

(* The first element of the queue is pushed into an empty one.                       *)
LEMMA PushFirst ==
  ASSUME NEW a, NEW b, LowHigh(a, b), NEW q, Empty(q, a), NEW e \in {a, b}
  PROVE  Alone(Push(q, e), e, a)
<1>1. /\ q \in Queue /\ q.err = "none" /\ q.n = 0 /\ q.head \in {NIL, a} /\ e \in Slot
      /\ \A s \in Slot : q.prev[s] = NIL /\ q.next[s] = NIL
      /\ q.prev \in [Slot -> Ptr] /\ q.next \in [Slot -> Ptr] /\ MaxTasks # 0
  BY LowHighFacts, SlotType, QueueFields DEF Empty, Loose
<1>2. Push(q, e) = InsertAtHead(q, e)
  BY <1>1 DEF Push, RankedFirst
<1> DEFINE r == InsertAtHead(q, e)
<1>3. /\ r \in Queue /\ r.err = "none" /\ r.head = e /\ r.n = 1
      /\ r.prev = [q.prev EXCEPT ![e] = NIL] /\ r.next = [q.next EXCEPT ![e] = q.head]
  BY <1>1, InsertAtHeadIs
<1> HIDE DEF r
<1>4. \A s \in Slot : r.prev[s] = NIL /\ (r.next[s] = NIL \/ (s = e /\ r.next[s] = a))
  BY <1>1, <1>3
<1>5. Alone(r, e, a)
  BY <1>3, <1>4 DEF Alone, Loose
<1>6. QED
  BY <1>2, <1>5 DEF r

(* b goes ahead of a.                                                            *)
LEMMA PushHigher ==
  ASSUME NEW a, NEW b, LowHigh(a, b), NEW q, Alone(q, a, a)
  PROVE  Pair(Push(q, b), a, b)
<1>1. /\ q \in Queue /\ q.err = "none" /\ q.n = 1 /\ q.head = a
      /\ \A s \in Slot : q.prev[s] = NIL
      /\ \A s \in Slot : q.next[s] = NIL \/ (s = a /\ q.next[s] = a)
      /\ q.prev \in [Slot -> Ptr] /\ q.next \in [Slot -> Ptr]
  BY QueueFields DEF Alone, Loose
<1>2. /\ a \in Slot /\ b \in Slot /\ a # b /\ a # NIL /\ MaxTasks # 1
      /\ Priority[b] > Priority[a]
  BY LowHighFacts, SlotType
<1>3. Push(q, b) = InsertAtHead(q, b)
  BY <1>1, <1>2 DEF Push, RankedFirst
<1> DEFINE r == InsertAtHead(q, b)
<1>4. /\ r \in Queue /\ r.err = "none" /\ r.head = b /\ r.n = 2
      /\ r.prev = [q.prev EXCEPT ![b] = NIL] /\ r.next = [q.next EXCEPT ![b] = a]
  BY <1>1, <1>2, InsertAtHeadIs
<1> HIDE DEF r
<1>5. /\ \A s \in Slot : r.prev[s] = NIL
      /\ r.next[b] = a /\ r.next[a] \in {NIL, a}
      /\ \A s \in Slot \ {a, b} : r.next[s] = NIL
  BY <1>1, <1>2, <1>4
<1>6. Pair(r, a, b)
  BY <1>2, <1>4, <1>5 DEF Pair
<1>7. QED
  BY <1>3, <1>6 DEF r

(* The search for the place of a goes past b; the stale link from b to a, if any,       *)
(* takes it to a itself.                                                          *)
LEMMA PushLower ==
  ASSUME NEW a, NEW b, LowHigh(a, b), NEW q, Alone(q, b, a)
  PROVE  Pair(Push(q, a), a, b)
<1>1. /\ q \in Queue /\ q.err = "none" /\ q.n = 1 /\ q.head = b
      /\ \A s \in Slot : q.prev[s] = NIL
      /\ \A s \in Slot : q.next[s] = NIL \/ (s = b /\ q.next[s] = a)
      /\ q.prev \in [Slot -> Ptr] /\ q.next \in [Slot -> Ptr]
  BY QueueFields DEF Alone, Loose
<1>2. /\ a \in Slot /\ b \in Slot /\ a # b /\ a # NIL /\ b # NIL
      /\ MaxTasks \in Nat /\ MaxTasks >= 2 /\ MaxTasks # 1
      /\ ~(Priority[a] > Priority[b]) /\ Priority[a] >= Priority[a]
  BY LowHighFacts, SlotType
<1>3. q.next[a] = NIL /\ q.next[b] \in {NIL, a}
  BY <1>1, <1>2
<1> DEFINE p == IF q.next[b] = NIL THEN b ELSE a
<1>4. p \in {a, b} /\ p \in Slot /\ q.next[p] = NIL /\ (p = a => q.next[b] = a)
  BY <1>2, <1>3
<1>5. SearchStep(q, a, b) = p /\ SearchStep(q, a, p) = p
  BY <1>2, <1>3 DEF SearchStep, MovesPast
<1> HIDE DEF p
<1>6. LastNotBelow(q, a) = p
  <2>1. PICK h \in [0 .. MaxTasks -> Slot] :
           /\ h[0] = q.head
           /\ \A i \in 1 .. MaxTasks : h[i] = SearchStep(q, a, h[i - 1])
           /\ LastNotBelow(q, a) = h[MaxTasks]
    BY <1>1, <1>2, SearchLoop
  <2>2. h[1] = p
    <3>1. 1 \in 1 .. MaxTasks /\ 1 - 1 = 0
      BY <1>2
    <3>2. QED
      BY <1>1, <1>5, <2>1, <3>1
  <2> DEFINE T == {i \in Nat : i + 1 \in 1 .. MaxTasks => h[i + 1] = p}
  <2>3. 0 \in T
    BY <2>2
  <2>4. ASSUME NEW i \in 0 .. MaxTasks - 1, i \in T PROVE i + 1 \in T
    <3>1. CASE (i + 1) + 1 \in 1 .. MaxTasks
      <4>1. i + 1 \in 1 .. MaxTasks /\ ((i + 1) + 1) - 1 = i + 1
        BY <1>2, <3>1
      <4>2. h[i + 1] = p
        BY <2>4, <4>1
      <4>3. h[(i + 1) + 1] = SearchStep(q, a, h[i + 1])
        BY <2>1, <3>1, <4>1
      <4>4. QED
        BY <1>5, <4>2, <4>3
    <3>2. QED
      BY <3>1
  <2>5. MaxTasks - 1 \in T
    <3> HIDE DEF T
    <3>1. \A i \in 0 .. MaxTasks : i \in T
      BY <1>2, <2>3, <2>4, UpTo
    <3>2. QED
      BY <1>2, <3>1
  <2>6. (MaxTasks - 1) + 1 = MaxTasks /\ MaxTasks \in 1 .. MaxTasks
    BY <1>2
  <2>7. QED
    BY <2>1, <2>5, <2>6
<1>7. Push(q, a) = InsertAfter(q, p, a)
  <2>1. ~RankedFirst(q, a) /\ ~MovesPast(q, p, a)
    BY <1>1, <1>2, <1>4 DEF RankedFirst, MovesPast
  <2>2. QED
    BY <1>1, <1>2, <1>6, <2>1 DEF Push
<1> DEFINE r == InsertAfter(q, p, a)
<1>8. /\ r \in Queue /\ r.err = "none" /\ r.head = b /\ r.n = 2
      /\ r.prev = [q.prev EXCEPT ![a] = p]
      /\ r.next = [[q.next EXCEPT ![a] = NIL] EXCEPT ![p] = a]
  <2>1. LinkedAfter(q, p, a, r) /\ r.n = q.n + 1
    BY <1>1, <1>2, <1>4, InsertAfterIs, InsertAfterCounts
  <2> HIDE DEF r
  <2>2. QED
    BY <1>1, <1>4, <2>1 DEF LinkedAfter
<1> HIDE DEF r
<1>9. /\ r.prev[b] = NIL /\ r.prev[a] \in {NIL, a, b}
      /\ r.next[b] = a /\ r.next[a] \in {NIL, a}
      /\ \A s \in Slot \ {a, b} : r.prev[s] = NIL /\ r.next[s] = NIL
  BY <1>1, <1>2, <1>3, <1>4, <1>8
<1>10. Pair(r, a, b)
  BY <1>8, <1>9 DEF Pair
<1>11. QED
  BY <1>7, <1>10 DEF r

LEMMA PushShape ==
  ASSUME NEW a, NEW b, LowHigh(a, b), NEW q, NEW R, Shape(q, R, a, b),
         NEW e \in {a, b}, e \notin R
  PROVE  Shape(Push(q, e), R \union {e}, a, b)
<1>1. CASE R = {} /\ Empty(q, a)
  BY <1>1, PushFirst DEF Shape
<1>2. ASSUME NEW s \in {a, b}, R = {s}, Alone(q, s, a)
      PROVE  Shape(Push(q, e), R \union {e}, a, b)
  <2>1. CASE s = a
    <3>1. e = b /\ Alone(q, a, a) /\ R \union {e} = {a, b}
      BY <1>2, <2>1
    <3>2. QED
      BY <3>1, PushHigher DEF Shape
  <2>2. CASE s = b
    <3>1. e = a /\ Alone(q, b, a) /\ R \union {e} = {a, b}
      BY <1>2, <2>2
    <3>2. QED
      BY <3>1, PushLower DEF Shape
  <2>3. QED
    BY <2>1, <2>2
<1>3. QED
  BY <1>1, <1>2 DEF Shape

LEMMA RemoveShape ==
  ASSUME NEW a, NEW b, LowHigh(a, b), NEW q, NEW R, Shape(q, R, a, b), NEW e \in R
  PROVE  Shape(Remove(q, e), R \ {e}, a, b)
<1> DEFINE r == Remove(q, e)
<1>1. /\ a \in Slot /\ b \in Slot /\ a # b /\ a # NIL /\ b # NIL
      /\ q \in Queue /\ q.err = "none" /\ q.n # 0 /\ e \in {a, b}
  BY LowHighFacts DEF Shape, Alone, Pair, Loose
<1>2. RemovedFields(q, e, r) /\ r \in Queue
  BY <1>1, RemoveFields, RemoveType
<1>3. /\ r.n = q.n - 1 /\ r.err = q.err
      /\ r.prev[e] = NIL /\ r.next[e] = NIL
      /\ r.head = IF q.prev[e] = NIL /\ e = q.head THEN q.next[e] ELSE q.head
      /\ \A s \in Slot : s # e /\ s # q.prev[e] => r.next[s] = q.next[s]
      /\ q.prev[e] \notin {NIL, e} => r.next[q.prev[e]] = q.next[e]
      /\ \A s \in Slot : s # e /\ s # q.next[e] => r.prev[s] = q.prev[s]
      /\ q.next[e] \notin {NIL, e} => r.prev[q.next[e]] = q.prev[e]
  BY <1>2 DEF RemovedFields
<1>4. NIL \notin Slot
  BY SlotType
<1> HIDE DEF r
<1>5. CASE R = {e} /\ Alone(q, e, a)
  <2>1. /\ q.n = 1 /\ q.head = e
        /\ \A s \in Slot : q.prev[s] = NIL
        /\ \A s \in Slot : q.next[s] = NIL \/ (s = e /\ q.next[s] = a)
    BY <1>5 DEF Alone, Loose
  <2>2. r.n = 0 /\ r.head \in {NIL, a}
    BY <1>1, <1>3, <2>1
  <2>3. \A s \in Slot : r.next[s] = NIL
    BY <1>1, <1>3, <1>4, <2>1
  <2>4. \A s \in Slot : r.prev[s] = NIL
    BY <1>1, <1>3, <1>4, <2>1
  <2>5. Empty(r, a) /\ R \ {e} = {}
    BY <1>1, <1>2, <1>3, <1>5, <2>2, <2>3, <2>4 DEF Empty, Loose
  <2>6. QED
    BY <2>5 DEF Shape, r
<1>6. CASE R = {a, b} /\ Pair(q, a, b)
  <2>1. /\ q.n = 2 /\ q.head = b /\ q.next[b] = a /\ q.next[a] \in {NIL, a}
        /\ q.prev[b] = NIL /\ q.prev[a] \in {NIL, a, b}
        /\ \A s \in Slot \ {a, b} : q.prev[s] = NIL /\ q.next[s] = NIL
    BY <1>6 DEF Pair
  <2>2. CASE e = b
    <3>1. r.n = 1 /\ r.head = a
      BY <1>3, <2>1, <2>2
    <3>2. \A s \in Slot : r.next[s] = NIL \/ (s = a /\ r.next[s] = a)
      BY <1>1, <1>3, <1>4, <2>1, <2>2
    <3>3. \A s \in Slot : r.prev[s] = NIL
      BY <1>1, <1>3, <1>4, <2>1, <2>2
    <3>4. Alone(r, a, a) /\ R \ {e} = {a}
      BY <1>1, <1>2, <1>3, <1>6, <2>2, <3>1, <3>2, <3>3 DEF Alone, Loose
    <3>5. QED
      BY <3>4 DEF Shape, r
  <2>3. CASE e = a
    <3>1. r.n = 1 /\ r.head = b
      BY <1>1, <1>3, <2>1, <2>3
    <3>2. \A s \in Slot : r.next[s] = NIL \/ (s = b /\ r.next[s] = a)
      BY <1>1, <1>3, <1>4, <2>1, <2>3
    <3>3. \A s \in Slot : r.prev[s] = NIL
      BY <1>1, <1>3, <1>4, <2>1, <2>3
    <3>4. Alone(r, b, a) /\ R \ {e} = {b}
      BY <1>1, <1>2, <1>3, <1>6, <2>3, <3>1, <3>2, <3>3 DEF Alone, Loose
    <3>5. QED
      BY <3>4 DEF Shape, r
  <2>4. QED
    BY <1>1, <2>2, <2>3
<1>7. QED
  BY <1>5, <1>6 DEF Shape

(* schedule finds the other task if both are queued.  The only queued task is found    *)
(* too, unless it is b and steps over itself, along a stale link, to a.               *)
LEMMA NextShape ==
  ASSUME NEW a, NEW b, LowHigh(a, b), NEW q, NEW R, Shape(q, R, a, b), R # {},
         NEW st, \A s \in R : st[s] = "READY"
  PROVE  /\ R = {a, b} /\ current_slot \in R => NextReady(q, st) \in R \ {current_slot}
         /\ \A s : R = {s} /\ (s # current_slot \/ s = a) => NextReady(q, st) = s
<1>1. a \in Slot /\ b \in Slot /\ a # b /\ a # NIL /\ b # NIL
  BY LowHighFacts
<1>2. CASE R = {a, b} /\ current_slot \in R
  <2>1. q.head = b /\ q.next[b] = a
    BY <1>1, <1>2 DEF Shape, Pair
  <2>2. StepOver(q, q.head) \in R \ {current_slot}
    BY <1>1, <1>2, <2>1 DEF StepOver
  <2>3. NextReady(q, st) = StepOver(q, q.head)
    BY <1>1, <2>1, <2>2, NextIsFirst
  <2>4. R # {a} /\ R # {b} /\ \A s : R # {s}
    BY <1>1, <1>2
  <2>5. QED
    BY <2>2, <2>3, <2>4
<1>3. ASSUME NEW s, R = {s}, s # current_slot \/ s = a PROVE NextReady(q, st) = s
  <2>1. s \in {a, b} /\ q.head = s /\ (q.next[s] = NIL \/ q.next[s] = a)
    BY <1>1, <1>3 DEF Shape, Alone, Loose
  <2>2. StepOver(q, q.head) = s
    BY <1>3, <2>1 DEF StepOver
  <2>3. QED
    BY <1>1, <1>3, <2>1, <2>2, NextIsFirst
<1>4. QED
  BY <1>2, <1>3

LEMMA WokenShape ==
  ASSUME NEW a, NEW b, LowHigh(a, b), NEW R, Shape(qready, R, a, b), NEW irq,
         Woken(irq) \subseteq {a, b} \ R
  PROVE  Shape(WokenQueue(irq), R \union Woken(irq), a, b)
<1>1. qready \in Queue
  BY DEF Shape, Empty, Alone, Pair, Loose
<1>2. PICK h \in [0 .. MaxTasks -> Queue] :
           /\ h[0] = qready
           /\ \A i \in 1 .. MaxTasks : h[i] = WakeSlot(irq, h[i - 1], i - 1)
           /\ WokenQueue(irq) = h[MaxTasks]
  BY <1>1, WakeLoop
<1> DEFINE W(i) == {s \in Woken(irq) : s < i}
           T == {i \in 0 .. MaxTasks : Shape(h[i], R \union W(i), a, b)}
<1>3. MaxTasks \in Nat /\ \A s \in Woken(irq) : s \in Slot /\ s \in 0 .. MaxTasks - 1
  BY SlotType DEF Woken, Slot
<1>4. 0 \in T
  <2>1. W(0) = {}
    BY <1>3
  <2> HIDE DEF W
  <2>2. h[0] = qready /\ R \union W(0) = R
    BY <1>2, <2>1
  <2>3. Shape(h[0], R \union W(0), a, b)
    BY <2>2
  <2>4. 0 \in 0 .. MaxTasks
    BY <1>3
  <2>5. QED
    BY <2>3, <2>4
<1>5. ASSUME NEW i \in 0 .. MaxTasks - 1, i \in T PROVE i + 1 \in T
  <2>1. i + 1 \in 1 .. MaxTasks /\ i + 1 \in 0 .. MaxTasks /\ (i + 1) - 1 = i
    BY <1>3
  <2>2. h[i + 1] = WakeSlot(irq, h[i], i) /\ Shape(h[i], R \union W(i), a, b)
    BY <1>2, <1>5, <2>1
  <2>3. CASE i \in Woken(irq)
    <3>1. W(i + 1) = W(i) \union {i} /\ i \notin W(i)
      <4>1. i \in Nat /\ ~(i < i) /\ \A s \in Woken(irq) : s < i + 1 <=> (s < i \/ s = i)
        BY <1>3
      <4>2. \A s : s \in W(i + 1) <=> s \in W(i) \/ s = i
        BY <2>3, <4>1
      <4>3. i \notin W(i)
        BY <4>1
      <4> HIDE DEF W
      <4>4. QED
        BY <4>2, <4>3
    <3> HIDE DEF W
    <3>2. h[i + 1] = Push(h[i], i) /\ i \in {a, b} /\ i \notin R
      BY <2>2, <2>3 DEF WakeSlot
    <3>3. i \notin R \union W(i) /\ R \union W(i + 1) = (R \union W(i)) \union {i}
      BY <3>1, <3>2
    <3>4. Shape(Push(h[i], i), (R \union W(i)) \union {i}, a, b)
      BY <2>2, <3>2, <3>3, PushShape
    <3>5. QED
      BY <2>1, <3>2, <3>3, <3>4
  <2>4. CASE i \notin Woken(irq)
    <3>1. W(i + 1) = W(i)
      BY <1>3, <2>4
    <3> HIDE DEF W
    <3>2. h[i + 1] = h[i]
      BY <2>2, <2>4 DEF WakeSlot
    <3>3. QED
      BY <2>1, <2>2, <3>1, <3>2
  <2>5. QED
    BY <2>3, <2>4
<1>6. MaxTasks \in T
  <2> HIDE DEF T
  <2>1. \A i \in 0 .. MaxTasks : i \in T
    BY <1>3, <1>4, <1>5, UpTo
  <2>2. QED
    BY <1>3, <2>1
<1>7. W(MaxTasks) = Woken(irq)
  BY <1>3
<1> HIDE DEF W
<1>8. QED
  BY <1>2, <1>6, <1>7

-----------------------------------------------------------------------------
(* What a switch does with two tasks.  R are the tasks that are queued when it begins,  *)
(* x is the state of the current one.                                              *)
Turns(a, b, R, x) ==
  /\ status' = "run"
  /\ Shape(qready', ReadySlots', a, b)
  /\ R \subseteq ReadySlots' \union {current_slot'}
  /\ x = "RUNNING" => current_slot \in ReadySlots' \union {current_slot'}
  /\ R # {} => current_slot' # current_slot

LEMMA SwitchShape ==
  ASSUME NEW a, NEW b, LowHigh(a, b), IInv, status = "run",
         NEW frame, NEW st \in [Slot -> TaskState], NEW sl, NEW q, NEW mask, NEW R,
         R = {s \in Slot : st[s] = "READY"}, Shape(q, R, a, b),
         current_slot \in {a, b},
         st[current_slot] \in {"RUNNING", "TERMINATED", "BLOCKED_IRQ"},
         \A s \in Slot : s # current_slot => st[s] # "RUNNING",
         SwitchToNextTask(frame, st, sl, q, mask)
  PROVE  \/ Stop("panic") /\ R = {} /\ (st[current_slot] # "RUNNING" \/ current_slot = b)
         \/ Turns(a, b, R, st[current_slot])
<1> DEFINE x   == st[current_slot]
           st1 == SettledStates(st)
           q1  == Requeued(st1, q)
           n   == NextReady(q1, st1)
           R1  == IF x = "RUNNING" THEN R \union {current_slot} ELSE R
<1>1. a \in Slot /\ b \in Slot /\ a # b /\ current_slot \in Slot
  BY LowHighFacts
<1>2. /\ st1 \in [Slot -> TaskState]
      /\ st1[current_slot] = Settled(x)
      /\ \A s \in Slot : s # current_slot => st1[s] = st[s]
  BY <1>1 DEF SettledStates, Settled, TaskState
<1>3. Settled(x) = "READY" <=> x = "RUNNING"
  BY DEF Settled
<1>4. /\ {s \in Slot : st1[s] = "READY"} = R1
      /\ \A s \in Slot : st1[s] # "RUNNING"
      /\ current_slot \notin R /\ R \subseteq {a, b}
  <2>1. current_slot \notin R /\ x \in {"RUNNING", "TERMINATED", "BLOCKED_IRQ"}
    OBVIOUS
  <2>2. R \subseteq {a, b}
    BY DEF Shape
  <2>3. \A s \in Slot : st1[s] # "RUNNING"
    BY <1>2 DEF Settled
  <2>4. \A s \in Slot : st1[s] = "READY" <=> s \in R1
    <3> HIDE DEF st1
    <3>1. QED
      BY <1>1, <1>2, <1>3, <2>1
  <2> HIDE DEF R1, st1
  <2>5. R1 \subseteq Slot
    BY <1>1 DEF R1
  <2>6. QED
    BY <2>1, <2>2, <2>3, <2>4, <2>5
<1>5. Shape(q1, R1, a, b)
  <2> HIDE DEF st1
  <2>1. CASE x = "RUNNING"
    BY <1>2, <1>3, <1>4, <2>1, PushShape DEF Requeued
  <2>2. CASE x # "RUNNING"
    BY <1>2, <1>3, <2>2 DEF Requeued
  <2>3. QED
    BY <2>1, <2>2
<1>6. q1.err = "none"
  BY <1>5 DEF Shape, Empty, Alone, Pair, Loose
<1>7. \/ Stop("panic") /\ (q1.n = 0 \/ n \notin Slot \/ st1[n] # "READY")
      \/ n \in Slot /\ st1[n] = "READY" /\ Dispatch(n, q1, frame, st, sl, mask)
  BY <1>6 DEF SwitchToNextTask
<1> HIDE DEF st1, q1, n
<1>8. R # {} => n \in Slot /\ st1[n] = "READY" /\ n # current_slot /\ q1.n # 0
  <2> SUFFICES ASSUME R # {} PROVE n \in Slot /\ st1[n] = "READY" /\ n # current_slot /\ q1.n # 0
    OBVIOUS
  <2>1. R1 # {} /\ \A s \in R1 : s \in Slot /\ st1[s] = "READY"
    BY <1>4
  <2>2. q1.n # 0
    BY <1>5, <2>1 DEF Shape, Alone, Pair
  <2>3. CASE x = "RUNNING"
    <3>1. R1 = {a, b} /\ current_slot \in R1
      BY <1>4, <2>3
    <3>2. n \in R1 \ {current_slot}
      BY <1>5, <2>1, <3>1, NextShape DEF n
    <3>3. QED
      BY <2>1, <2>2, <3>2
  <2>4. CASE x # "RUNNING"
    <3>1. R1 = R
      BY <2>4
    <3>2. PICK s : R = {s} /\ s # current_slot
      BY <1>4
    <3> HIDE DEF R1
    <3>3. n = s
      BY <1>5, <2>1, <3>1, <3>2, NextShape DEF n
    <3>4. QED
      BY <2>1, <2>2, <3>1, <3>2, <3>3
  <2>5. QED
    BY <2>3, <2>4
<1>9. R = {} /\ x = "RUNNING" /\ current_slot = a => n \in Slot /\ st1[n] = "READY" /\ q1.n # 0
  <2> SUFFICES ASSUME R = {}, x = "RUNNING", current_slot = a
               PROVE  n \in Slot /\ st1[n] = "READY" /\ q1.n # 0
    OBVIOUS
  <2>1. R1 = {a} /\ st1[a] = "READY"
    BY <1>1, <1>4
  <2> HIDE DEF R1
  <2>2. n = a
    BY <1>5, <2>1, NextShape DEF n
  <2>3. q1.n # 0
    BY <1>5, <2>1 DEF Shape, Alone, Pair
  <2>4. QED
    BY <1>1, <2>1, <2>2, <2>3
<1>10. CASE Stop("panic") /\ (q1.n = 0 \/ n \notin Slot \/ st1[n] # "READY")
  BY <1>8, <1>9, <1>10
<1>11. CASE n \in Slot /\ st1[n] = "READY" /\ Dispatch(n, q1, frame, st, sl, mask)
  <2>1. /\ tasks' = [st1 EXCEPT ![n] = "RUNNING"] /\ qready' = Remove(q1, n)
        /\ current_slot' = n /\ status' = "run"
    BY <1>11 DEF Dispatch, st1
  <2>2. n \in R1
    BY <1>4, <1>11
  <2>3. ReadySlots' = R1 \ {n}
    BY <1>2, <1>4, <1>11, <2>1 DEF ReadySlots
  <2> HIDE DEF R1
  <2>4. Shape(qready', ReadySlots', a, b)
    BY <1>5, <2>1, <2>2, <2>3, RemoveShape
  <2>5. R \subseteq R1 /\ (x = "RUNNING" => current_slot \in R1)
    BY DEF R1
  <2>6. Turns(a, b, R, x)
    BY <1>8, <2>1, <2>3, <2>4, <2>5 DEF Turns
  <2>7. QED
    BY <2>6
<1>12. QED
  BY <1>7, <1>10, <1>11

(* The invariant: the queue holds the READY tasks, in one of its three shapes.         *)
TwoInv(a, b) == Shape(qready, ReadySlots, a, b)

(* The steps of the running kernel.                                               *)
TwoPanics(b) ==
  /\ Stop("panic")
  /\ \/ Kind[cpu.pc] = "fault"
     \/ ReadySlots = {} /\ (Kind[cpu.pc] \in {"exit", "getc"} \/ current_slot = b)

TwoTurns(a, b) ==
  \E R, x : /\ ReadySlots \subseteq R
            /\ Turns(a, b, R, x)
            /\ Kind[cpu.pc] \in {"exit", "getc"} \/ x = "RUNNING"

TwoStep(a, b) == Keeps \/ TwoPanics(b) \/ TwoTurns(a, b)

(* The current task is one of the two, and it is not queued.                         *)
LEMMA TwoFacts ==
  ASSUME NEW a, NEW b, LowHigh(a, b), IInv, QueueInv, status = "run"
  PROVE  /\ current_slot \in {a, b} /\ current_slot \in Slot
         /\ tasks \in [Slot -> TaskState] /\ tasks[current_slot] = "RUNNING"
         /\ \A s \in Slot : tasks[s] = "RUNNING" => s = current_slot
         /\ \A s \in Slot : tasks[s] = "BLOCKED_IRQ" <=> wait_irq_mask[s] # {}
         /\ \A s \in Slot : tasks[s] # "NOT_CREATED" => s \in {a, b}
<1>1. /\ current_slot \in Slot /\ tasks \in [Slot -> TaskState] /\ tasks[current_slot] = "RUNNING"
      /\ \A s \in Slot : tasks[s] = "RUNNING" => s = current_slot
      /\ \A s \in Slot : tasks[s] = "BLOCKED_IRQ" <=> wait_irq_mask[s] # {}
  BY DEF IInv, TypeInv, RunningInv, BlockedInv
<1>2. \A s \in Slot : tasks[s] # "NOT_CREATED" => s \in {a, b}
  BY DEF QueueInv, CountInv, Created, LowHigh
<1>3. QED
  BY <1>1, <1>2

LEMMA InterruptShape ==
  ASSUME NEW a, NEW b, LowHigh(a, b), IInv, QueueInv, TwoInv(a, b), status = "run",
         NEW irq, NEW sl,
         sl[current_slot] # 0 => (time_slice[current_slot] = 1 => sl[current_slot] = 1),
         HandleInterrupt(irq, sl)
  PROVE  TwoStep(a, b)
<1>1. /\ current_slot \in {a, b} /\ current_slot \in Slot
      /\ tasks \in [Slot -> TaskState] /\ tasks[current_slot] = "RUNNING"
      /\ \A s \in Slot : tasks[s] = "RUNNING" => s = current_slot
      /\ \A s \in Slot : tasks[s] = "BLOCKED_IRQ" <=> wait_irq_mask[s] # {}
      /\ \A s \in Slot : tasks[s] # "NOT_CREATED" => s \in {a, b}
  BY TwoFacts
<1>2. \A s \in Woken(irq) : s \in Slot /\ tasks[s] = "BLOCKED_IRQ"
  BY <1>1 DEF Woken
<1>3. Woken(irq) \subseteq {a, b} \ ReadySlots
  BY <1>1, <1>2 DEF ReadySlots
<1> DEFINE R == ReadySlots \union Woken(irq)
<1>4. Shape(WokenQueue(irq), R, a, b)
  BY <1>3, WokenShape DEF TwoInv
<1>5. WokenQueue(irq).err = "none"
  BY <1>4 DEF Shape, Empty, Alone, Pair, Loose
<1>6. ~\E s \in Slot : wait_irq_mask[s] # {} /\ tasks[s] # "BLOCKED_IRQ"
  BY <1>1
<1>7. CASE sl[current_slot] = 0 \/ Woken(irq) # {}
  <2>1. SwitchToNextTask(cpu, WokenStates(irq), sl, WokenQueue(irq), ClearedMask(irq))
    BY <1>5, <1>6, <1>7 DEF HandleInterrupt
  <2>2. /\ WokenStates(irq) \in [Slot -> TaskState]
        /\ WokenStates(irq)[current_slot] = "RUNNING"
        /\ \A s \in Slot : s # current_slot => WokenStates(irq)[s] # "RUNNING"
    BY <1>1, <1>2 DEF WokenStates, TaskState
  <2>3. R = {s \in Slot : WokenStates(irq)[s] = "READY"}
    BY <1>2 DEF WokenStates, ReadySlots
  <2>4. ReadySlots \subseteq R /\ (R = {} => ReadySlots = {})
    OBVIOUS
  <2> HIDE DEF R
  <2>5. \/ Stop("panic") /\ R = {} /\ current_slot = b
        \/ Turns(a, b, R, "RUNNING")
    BY <1>1, <1>4, <2>1, <2>2, <2>3, SwitchShape
  <2>6. QED
    BY <2>4, <2>5 DEF TwoStep, TwoPanics, TwoTurns
<1>8. CASE ~(sl[current_slot] = 0 \/ Woken(irq) # {})
  <2>1. /\ time_slice' = sl /\ sl[current_slot] # 0
        /\ UNCHANGED <<tasks, current_slot, qready, cpu, status>>
    BY <1>5, <1>6, <1>8 DEF HandleInterrupt
  <2>2. Keeps
    BY <2>1 DEF Keeps
  <2>3. QED
    BY <2>2 DEF TwoStep
<1>9. QED
  BY <1>7, <1>8

LEMMA RunShape ==
  ASSUME NEW a, NEW b, LowHigh(a, b), IInv, QueueInv, TwoInv(a, b), Run
  PROVE  TwoStep(a, b)
<1>1. status = "run"
  BY DEF Run, Compute, Yield, Exit, Getc, GetcBlocks, Fault, At
<1>2. /\ current_slot \in {a, b} /\ current_slot \in Slot
      /\ tasks \in [Slot -> TaskState] /\ tasks[current_slot] = "RUNNING"
      /\ \A s \in Slot : tasks[s] = "RUNNING" => s = current_slot
  BY <1>1, TwoFacts
<1>3. CASE Compute \/ Getc
  <2>1. Keeps
    BY <1>3 DEF Keeps, Compute, Getc, At, taskVars
  <2>2. QED
    BY <2>1 DEF TwoStep
<1>4. CASE Yield
  <2>1. PICK frame : SwitchToNextTask(frame, tasks, time_slice, qready, wait_irq_mask)
    BY <1>4 DEF Yield
  <2>2. ReadySlots = {s \in Slot : tasks[s] = "READY"}
    BY DEF ReadySlots
  <2> HIDE DEF ReadySlots
  <2>3. \/ Stop("panic") /\ ReadySlots = {} /\ current_slot = b
        \/ Turns(a, b, ReadySlots, "RUNNING")
    <3>1. \/ Stop("panic") /\ ReadySlots = {}
             /\ (tasks[current_slot] # "RUNNING" \/ current_slot = b)
          \/ Turns(a, b, ReadySlots, tasks[current_slot])
      BY <1>1, <1>2, <2>1, <2>2, SwitchShape DEF TwoInv
    <3>2. QED
      BY <1>2, <3>1
  <2>4. QED
    BY <2>3 DEF TwoStep, TwoPanics, TwoTurns
<1>5. ASSUME NEW x \in {"TERMINATED", "BLOCKED_IRQ"}, NEW mask, Kind[cpu.pc] \in {"exit", "getc"},
             SwitchToNextTask(cpu, [tasks EXCEPT ![current_slot] = x], time_slice, qready, mask)
      PROVE  TwoStep(a, b)
  <2> DEFINE st == [tasks EXCEPT ![current_slot] = x]
  <2>1. /\ st \in [Slot -> TaskState] /\ st[current_slot] = x
        /\ \A s \in Slot : s # current_slot => st[s] # "RUNNING"
        /\ ReadySlots = {s \in Slot : st[s] = "READY"}
    BY <1>2 DEF TaskState, ReadySlots
  <2>2. SwitchToNextTask(cpu, st, time_slice, qready, mask)
    BY <1>5
  <2>3. st[current_slot] \in {"RUNNING", "TERMINATED", "BLOCKED_IRQ"}
    BY <2>1
  <2> HIDE DEF st, ReadySlots
  <2>4. \/ Stop("panic") /\ ReadySlots = {}
        \/ Turns(a, b, ReadySlots, st[current_slot])
    BY <1>1, <1>2, <2>1, <2>2, <2>3, SwitchShape DEF TwoInv
  <2>5. QED
    BY <1>5, <2>4 DEF TwoStep, TwoPanics, TwoTurns
<1>6. CASE Exit
  BY <1>5, <1>6 DEF Exit, At
<1>7. CASE GetcBlocks
  BY <1>5, <1>7 DEF GetcBlocks, BlockedFrame, At
<1>8. CASE Fault
  BY <1>8 DEF Fault, At, TwoStep, TwoPanics
<1>9. QED
  BY <1>3, <1>4, <1>6, <1>7, <1>8 DEF Run

LEMMA RunningShape ==
  ASSUME NEW a, NEW b, LowHigh(a, b), IInv, QueueInv, TwoInv(a, b), status = "run", [Next]_vars
  PROVE  TwoStep(a, b)
<1>1. CASE Arrive \/ UNCHANGED vars
  <2>1. Keeps
    BY <1>1 DEF Arrive, vars, taskVars, Keeps
  <2>2. QED
    BY <2>1 DEF TwoStep
<1>2. CASE TimerInterrupt
  <2> DEFINE sl == [time_slice EXCEPT ![current_slot] = Ticked(@)]
  <2>1. HandleInterrupt("TIMER", sl)
    BY <1>2 DEF TimerInterrupt
  <2>2. sl[current_slot] # 0 => (time_slice[current_slot] = 1 => sl[current_slot] = 1)
    BY DEF IInv, TypeInv, Ticked
  <2> HIDE DEF sl
  <2>3. QED
    BY <2>1, <2>2, InterruptShape
<1>3. CASE ExternalInterrupt
  <2>1. HandleInterrupt("EXTERNAL", time_slice)
    BY <1>3 DEF ExternalInterrupt
  <2>2. QED
    BY <2>1, InterruptShape
<1>4. CASE Run
  BY <1>4, RunShape
<1>5. ~Spawn /\ ~StartSchedule
  BY DEF Spawn, StartSchedule
<1>6. QED
  BY <1>1, <1>2, <1>3, <1>4, <1>5 DEF Next

LEMMA InitShape ==
  ASSUME NEW a, NEW b, LowHigh(a, b), Init
  PROVE  TwoInv(a, b)
<1>1. /\ qready.n = 0 /\ qready.err = "none" /\ qready.head = NIL /\ qready \in Queue
      /\ \A s \in Slot : qready.prev[s] = NIL /\ qready.next[s] = NIL
  BY DEF Init, EmptyQueue, Queue, Ptr
<1>2. ReadySlots = {}
  BY DEF Init, ReadySlots
<1>3. Empty(qready, a)
  BY <1>1 DEF Empty, Loose
<1>4. QED
  BY <1>2, <1>3 DEF TwoInv, Shape

LEMMA NextShapeInv ==
  ASSUME NEW a, NEW b, LowHigh(a, b), IInv, QueueInv, TwoInv(a, b), [Next]_vars
  PROVE  TwoInv(a, b)'
<1>1. CASE UNCHANGED <<tasks, qready>>
  BY <1>1 DEF TwoInv, ReadySlots
<1>2. CASE status = "run"
  <2>1. CASE Keeps \/ TwoPanics(b)
    BY <1>1, <2>1 DEF Keeps, TwoPanics, Stop, taskVars
  <2>2. CASE TwoTurns(a, b)
    BY <2>2 DEF TwoTurns, Turns, TwoInv
  <2>3. QED
    BY <1>2, <2>1, <2>2, RunningShape DEF TwoStep
<1>3. CASE Spawn
  <2>1. status = "boot" /\ n_task < NTask
    BY <1>3 DEF Spawn
  <2>2. FreeSlot = n_task /\ n_task \in Slot /\ n_task \in Boot
    BY <2>1, FreeSlotIs
  <2>3. /\ tasks \in [Slot -> TaskState] /\ tasks[n_task] # "READY"
    BY <2>1, <2>2, BootFacts DEF QueueInv, SpawnedInv, IInv, TypeInv
  <2>4. CASE Push(qready, n_task).err # "none"
    <3>1. StopOn(Push(qready, n_task).err)
      BY <1>3, <2>2, <2>4 DEF Spawn
    <3>2. QED
      BY <1>1, <3>1 DEF StopOn, Stop, taskVars
  <2>5. CASE Push(qready, n_task).err = "none"
    <3>1. qready' = Push(qready, n_task) /\ tasks' = [tasks EXCEPT ![n_task] = "READY"]
      BY <1>3, <2>2, <2>5 DEF Spawn
    <3>2. ReadySlots' = ReadySlots \union {n_task} /\ n_task \notin ReadySlots
      BY <2>2, <2>3, <3>1 DEF ReadySlots
    <3>3. n_task \in {a, b}
      BY <2>2 DEF LowHigh
    <3> HIDE DEF ReadySlots
    <3>4. QED
      BY <3>1, <3>2, <3>3, PushShape DEF TwoInv
  <2>6. QED
    BY <2>4, <2>5
<1>4. CASE StartSchedule
  <2>1. /\ qready' = Remove(qready, EntryTask) /\ tasks' = [tasks EXCEPT ![EntryTask] = "RUNNING"]
        /\ tasks[EntryTask] = "READY" /\ EntryTask \in Slot /\ tasks \in [Slot -> TaskState]
    BY <1>4, StartQueue, BootFacts DEF IInv, TypeInv
  <2>2. ReadySlots' = ReadySlots \ {EntryTask} /\ EntryTask \in ReadySlots
    BY <2>1 DEF ReadySlots
  <2> HIDE DEF ReadySlots
  <2>3. QED
    BY <2>1, <2>2, RemoveShape DEF TwoInv
<1>5. CASE Arrive \/ UNCHANGED vars
  BY <1>1, <1>5 DEF Arrive, vars, taskVars
<1>6. CASE status # "run"
  <2>1. ~TimerInterrupt /\ ~ExternalInterrupt /\ ~Run
    BY <1>6 DEF TimerInterrupt, ExternalInterrupt, Run, Compute, Yield, Exit, Getc, GetcBlocks,
                Fault, At
  <2>2. QED
    BY <1>3, <1>4, <1>5, <2>1 DEF Next
<1>7. QED
  BY <1>2, <1>6

LEMMA TwoInvariant ==
  ASSUME NEW a, NEW b, LowHigh(a, b)
  PROVE  Spec => []TwoInv(a, b)
<1>1. Init => TwoInv(a, b)
  BY InitShape
<1>2. IInv /\ QueueInv /\ TwoInv(a, b) /\ [Next]_vars => TwoInv(a, b)'
  BY NextShapeInv
<1>3. QED
  BY <1>1, <1>2, InductiveInvariant, QueueInvariant, PTL DEF Spec

-----------------------------------------------------------------------------
(* The first two entries that are reached from the head, whatever comes after them.    *)
LEMMA ExtendedIs ==
  ASSUME NEW q \in Queue, NEW c \in Seq(Slot)
  PROVE  LET d == Extended(q, c)
         IN  /\ d \in Seq(Slot) /\ Len(d) >= Len(c)
             /\ \A i \in 1 .. Len(c) : d[i] = c[i]
             /\ c = <<>> /\ q.head \in Slot => Len(d) = 1 /\ d[1] = q.head
             /\ Len(c) = 1 /\ q.next[c[1]] \in Slot => Len(d) = 2 /\ d[2] = q.next[c[1]]
<1> DEFINE x == IF c = <<>> THEN q.head ELSE q.next[c[Len(c)]]
           d == Extended(q, c)
<1>1. Len(c) \in Nat /\ (c # <<>> => Len(c) \in 1 .. Len(c) /\ c[Len(c)] \in Slot)
  OBVIOUS
<1>2. x \in Ptr
  BY <1>1, QueueFields
<1>3. d = IF x = NIL THEN c ELSE Append(c, x)
  BY DEF Extended
<1>4. Len(c) = 1 => c # <<>> /\ x = q.next[c[1]]
  BY <1>1
<1>5. c = <<>> => Len(c) = 0 /\ x = q.head
  OBVIOUS
<1> HIDE DEF x, d
<1>6. CASE x = NIL
  BY <1>1, <1>3, <1>4, <1>5, <1>6, SlotType DEF d
<1>7. CASE x \in Slot
  <2>1. d = Append(c, x)
    BY <1>3, <1>7, SlotType
  <2>2. /\ d \in Seq(Slot) /\ Len(d) = Len(c) + 1 /\ d[Len(c) + 1] = x
        /\ \A i \in 1 .. Len(c) : d[i] = c[i]
    BY <1>1, <1>7, <2>1
  <2>3. QED
    BY <1>1, <1>4, <1>5, <2>2 DEF d
<1>8. QED
  BY <1>2, <1>6, <1>7 DEF Ptr

LEMMA ChainBegins ==
  ASSUME NEW q \in Queue, q.head \in Slot
  PROVE  /\ q.head \in Linked(q)
         /\ MaxTasks >= 2 /\ q.next[q.head] \in Slot => q.next[q.head] \in Linked(q)
<1> DEFINE Body(h) == [i \in 0 .. MaxTasks |-> IF i = 0 THEN <<>> ELSE Extended(q, h[i - 1])]
           g == CHOOSE h : h = Body(h)
           S == Seq(Slot)
           F == [x \in Nat \X S |-> Extended(q, x[2])]
<1>1. MaxTasks \in Nat /\ MaxTasks >= 1 /\ <<>> \in S
  BY SlotType
<1>2. F \in [Nat \X S -> S]
  BY ExtendedIs
<1>3. \A i \in Nat : \A c \in S : F[<<i, c>>] = Extended(q, c)
  OBVIOUS
<1> HIDE DEF F, S
<1>4. PICK h : Loops(S, <<>>, F, MaxTasks, h)
  <2> HIDE DEF Body, g
  <2>1. QED
    BY <1>1, <1>2, Iterates
<1>5. /\ h \in [0 .. MaxTasks -> S] /\ h[0] = <<>>
      /\ \A i \in 1 .. MaxTasks : h[i] = F[<<i, h[i - 1]>>]
  BY <1>4 DEF Loops
<1>6. ASSUME NEW i \in 1 .. MaxTasks
      PROVE  i \in Nat /\ i - 1 \in 0 .. MaxTasks /\ h[i - 1] \in S /\ h[i] = Extended(q, h[i - 1])
  <2>1. i \in Nat /\ i - 1 \in 0 .. MaxTasks
    BY <1>1
  <2>2. h[i - 1] \in S /\ h[i] = F[<<i, h[i - 1]>>]
    BY <1>5, <2>1
  <2>3. QED
    BY <1>3, <2>1, <2>2
<1>7. h = Body(h)
  <2>1. \A i \in 0 .. MaxTasks : h[i] = Body(h)[i]
    BY <1>1, <1>5, <1>6
  <2>2. DOMAIN Body(h) = 0 .. MaxTasks
    OBVIOUS
  <2>3. QED
    BY <1>5, <2>1, <2>2
<1>8. g = Body(g)
  BY <1>7
<1>9. Chain(q) = g[MaxTasks]
  BY DEF Chain
<1> HIDE DEF g
<1>10. g[0] = <<>> /\ \A i \in 1 .. MaxTasks : g[i] = Extended(q, g[i - 1])
  BY <1>1, <1>8
<1> DEFINE One(c) == c \in Seq(Slot) /\ Len(c) >= 1 /\ c[1] = q.head
           Two(c) == One(c) /\ Len(c) >= 2 /\ c[2] = q.next[q.head]
           B == q.next[q.head] \in Slot
           Known(i) == /\ i = 0 => g[i] = <<>>
                       /\ i = 1 => Len(g[i]) = 1
                       /\ i >= 1 => One(g[i])
                       /\ i >= 2 /\ B => Two(g[i])
           T == {i \in 0 .. MaxTasks : Known(i)}
<1>11. 0 \in T
  BY <1>1, <1>10
<1>12. ASSUME NEW c, One(c)
       PROVE  /\ One(Extended(q, c))
              /\ Two(c) => Two(Extended(q, c))
              /\ B /\ Len(c) = 1 => Two(Extended(q, c))
  <2> DEFINE d == Extended(q, c)
  <2>1. /\ c \in Seq(Slot) /\ Len(c) >= 1 /\ c[1] = q.head /\ Len(c) \in Nat
    BY <1>12
  <2>2. /\ d \in Seq(Slot) /\ Len(d) >= Len(c) /\ Len(d) \in Nat
        /\ \A i \in 1 .. Len(c) : d[i] = c[i]
        /\ Len(c) = 1 /\ q.next[c[1]] \in Slot => Len(d) = 2 /\ d[2] = q.next[c[1]]
    BY <2>1, ExtendedIs
  <2> HIDE DEF d
  <2>3. d[1] = q.head /\ Len(d) >= 1
    BY <2>1, <2>2
  <2>4. Two(c) => Two(d)
    BY <2>1, <2>2, <2>3
  <2>5. B /\ Len(c) = 1 => Two(d)
    BY <2>1, <2>2, <2>3
  <2>6. QED
    BY <2>2, <2>3, <2>4, <2>5 DEF d
<1>13. ASSUME NEW i \in 0 .. MaxTasks - 1, i \in T PROVE i + 1 \in T
  <2>1. i \in Nat /\ i + 1 \in 1 .. MaxTasks /\ i + 1 \in 0 .. MaxTasks /\ (i + 1) - 1 = i
    BY <1>1
  <2>2. g[i + 1] = Extended(q, g[i]) /\ Known(i)
    BY <1>10, <1>13, <2>1
  <2>3. CASE i = 0
    <3>1. g[i] = <<>> /\ <<>> \in Seq(Slot)
      BY <2>2, <2>3
    <3>2. g[i + 1] \in Seq(Slot) /\ Len(g[i + 1]) = 1 /\ g[i + 1][1] = q.head
      <4>1. PICK c \in Seq(Slot) : c = g[i] /\ c = <<>>
        BY <3>1
      <4>2. LET d == Extended(q, c) IN d \in Seq(Slot) /\ Len(d) = 1 /\ d[1] = q.head
        BY <4>1, ExtendedIs
      <4>3. g[i + 1] = Extended(q, c)
        BY <2>2, <4>1
      <4>4. QED
        BY <4>2, <4>3
    <3>3. Known(i + 1)
      BY <2>1, <2>3, <3>2
    <3>4. QED
      BY <2>1, <3>3
  <2>4. CASE i # 0
    <3>1. One(g[i])
      BY <2>1, <2>2, <2>4
    <3>2. /\ One(g[i + 1])
          /\ Two(g[i]) => Two(g[i + 1])
          /\ B /\ Len(g[i]) = 1 => Two(g[i + 1])
      <4> HIDE DEF One, Two, B
      <4>1. QED
        BY <1>12, <2>2, <3>1
    <3>3. B => Two(g[i + 1])
      <4>1. i = 1 => Len(g[i]) = 1
        BY <2>2
      <4>2. i >= 2 /\ B => Two(g[i])
        BY <2>2
      <4> HIDE DEF One, Two, B
      <4>3. i = 1 \/ i >= 2
        BY <2>1, <2>4
      <4>4. QED
        BY <3>2, <4>1, <4>2, <4>3
    <3> HIDE DEF One, Two, B
    <3>4. Known(i + 1)
      BY <2>1, <2>4, <3>2, <3>3
    <3>5. QED
      BY <2>1, <3>4
  <2>5. QED
    BY <2>3, <2>4
<1>14. Known(MaxTasks)
  <2>1. \A i \in 0 .. MaxTasks : i \in T
    <3> HIDE DEF T
    <3>1. QED
      BY <1>1, <1>11, <1>13, UpTo
  <2> HIDE DEF Known
  <2>2. QED
    BY <1>1, <2>1
<1>15. One(Chain(q)) /\ (MaxTasks >= 2 /\ B => Two(Chain(q)))
  BY <1>1, <1>9, <1>14
<1> DEFINE c == Chain(q)
<1> HIDE DEF c
<1>16. c \in Seq(Slot) /\ Len(c) \in Nat /\ DOMAIN c = 1 .. Len(c) /\ Len(c) >= 1 /\ c[1] = q.head
  BY <1>15 DEF c
<1>17. MaxTasks >= 2 /\ q.next[q.head] \in Slot => Len(c) >= 2 /\ c[2] = q.next[q.head]
  BY <1>15 DEF c
<1>18. Linked(q) = {c[i] : i \in DOMAIN c}
  BY DEF Linked, Range, c
<1>19. 1 \in DOMAIN c /\ (Len(c) >= 2 => 2 \in DOMAIN c)
  BY <1>16
<1>20. QED
  BY <1>16, <1>17, <1>18, <1>19

(* With two tasks of different priorities every task that waits can be found from the   *)
(* head, and the counts are exact, whatever has become of the links (scheduler.c:20-96). *)
THEOREM TwoRanksAreQueued == TwoRanks /\ Spec => []ReadyTasksAreQueued
<1> SUFFICES ASSUME TwoRanks PROVE Spec => []ReadyTasksAreQueued
  OBVIOUS
<1>1. PICK a, b : LowHigh(a, b)
  BY LowHighIs
<1>2. QueueInv /\ TwoInv(a, b) => ReadyTasksAreQueued
  <2> SUFFICES ASSUME QueueInv, TwoInv(a, b) PROVE ReadyTasksAreQueued
    OBVIOUS
  <2>1. /\ a \in Slot /\ b \in Slot /\ a # b /\ MaxTasks >= 2
    BY <1>1, LowHighFacts
  <2>2. Shape(qready, ReadySlots, a, b) /\ qready \in Queue
    BY DEF TwoInv, QueueInv
  <2> HIDE DEF ReadySlots
  <2>3. \A s \in ReadySlots : s \in Linked(qready)
    BY <2>1, <2>2, ChainBegins DEF Shape, Alone, Pair
  <2>4. qready.n = Cardinality(ReadySlots)
    <3>1. CASE ReadySlots = {} /\ Empty(qready, a)
      BY <3>1, FS_EmptySet DEF Empty
    <3>2. ASSUME NEW s, ReadySlots = {s}, Alone(qready, s, a) PROVE qready.n = Cardinality(ReadySlots)
      BY <3>2, FS_Singleton DEF Alone
    <3>3. CASE ReadySlots = {a, b} /\ Pair(qready, a, b)
      <4>1. Cardinality({a}) = 1 /\ IsFiniteSet({a}) /\ {a, b} = {a} \union {b} /\ b \notin {a}
        BY <2>1, FS_Singleton
      <4>2. Cardinality({a} \union {b}) = Cardinality({a}) + 1
        BY <4>1, FS_AddElement
      <4>3. QED
        BY <3>3, <4>1, <4>2 DEF Pair
    <3>4. QED
      BY <2>2, <3>1, <3>2, <3>3 DEF Shape
  <2>5. n_task = Cardinality(Created)
    BY DEF QueueInv, CountInv
  <2>6. QED
    BY <2>3, <2>4, <2>5 DEF ReadyTasksAreQueued, WaitingTasksAreFound, ReadySlots, Created
<1>3. Spec => []TwoInv(a, b)
  BY <1>1, TwoInvariant
<1>4. QED
  BY <1>2, <1>3, QueueInvariant, PTL

(* Of two tasks of different priorities, one that yields, or whose last tick is over,   *)
(* gives way to the other if that is READY, even to the one that ranks below it.        *)
THEOREM TwoRanksGiveWay == TwoRanks /\ Spec => GivesWay
<1> SUFFICES ASSUME TwoRanks PROVE Spec => GivesWay
  OBVIOUS
<1>1. PICK a, b : LowHigh(a, b)
  BY LowHighIs
<1> DEFINE A ==
      (/\ status = "run"
       /\ \/ Kind[cpu.pc] = "yield" /\ cpu' # cpu
          \/ time_slice[current_slot] = 1 /\ time_slice'[current_slot] # 1
       /\ \E s \in Slot : tasks[s] = "READY")
      => current_slot' # current_slot
<1>2. IInv /\ QueueInv /\ TwoInv(a, b) /\ [Next]_vars => [A]_vars
  <2> SUFFICES ASSUME IInv, QueueInv, TwoInv(a, b), [Next]_vars, status = "run",
                      \/ Kind[cpu.pc] = "yield" /\ cpu' # cpu
                      \/ time_slice[current_slot] = 1 /\ time_slice'[current_slot] # 1,
                      NEW s \in Slot, tasks[s] = "READY"
               PROVE  current_slot' # current_slot
    OBVIOUS
  <2>1. s \in ReadySlots
    BY DEF ReadySlots
  <2>2. TwoStep(a, b)
    BY <1>1, RunningShape
  <2>3. ~Keeps
    BY DEF Keeps
  <2>4. ~TwoPanics(b)
    BY <2>1 DEF TwoPanics, Stop, taskVars
  <2>5. QED
    BY <2>1, <2>2, <2>3, <2>4 DEF TwoStep, TwoTurns, Turns
<1> HIDE DEF A
<1>3. Spec => []TwoInv(a, b)
  BY <1>1, TwoInvariant
<1>4. Spec => [][A]_vars
  BY <1>2, <1>3, InductiveInvariant, QueueInvariant, PTL DEF Spec
<1>5. QED
  BY <1>4 DEF GivesWay, A

-----------------------------------------------------------------------------
(* The idle task of kernel_main, in slot 0: its program never leaves the nodes I, at    *)
(* none of which it blocks, exits or faults.                                       *)
IdleProgram(I) ==
  /\ I \in SUBSET Node /\ Start[0] \in I
  /\ \A n \in I : Kind[n] \in {"work", "call", "yield"} /\ Succ[n] \subseteq I

IdleTask == \E I : IdleProgram(I)

IdleInv(I) ==
  /\ Registers[0] \in Context /\ Registers[0].pc \in I
  /\ status = "run" => tasks[0] \in {"READY", "RUNNING"}
  /\ OnlyFaultsStopTheKernel

LEMMA IdleInit ==
  ASSUME NEW I, IdleProgram(I)
  PROVE  Init => IdleInv(I)
<1> SUFFICES ASSUME Init PROVE IdleInv(I)
  OBVIOUS
<1>1. 0 \in Boot /\ 0 \in Slot
  BY BootFacts, SlotType DEF Boot
<1>2. InitContext(0) \in Context /\ InitContext(0).pc \in I
  BY <1>1, ProgramAssumption DEF InitContext, Context, IdleProgram
<1>3. Registers[0] = InitContext(0) /\ status = "boot"
  BY <1>1 DEF Init, Registers, InitContext
<1>4. QED
  BY <1>2, <1>3 DEF IdleInv, OnlyFaultsStopTheKernel

LEMMA IdleRegisters ==
  ASSUME NEW I, IdleProgram(I), Registers[0] \in Context, Registers[0].pc \in I,
         [P!Next]_<<Registers, rx>>
  PROVE  Registers'[0] \in Context /\ Registers'[0].pc \in I
<1>1. 0 \in Boot /\ Registers = [s \in Boot |-> Registers[s]]
  BY BootFacts DEF Boot, Registers
<1>2. PICK k \in Boot : k = 0
  BY <1>1
<1> DEFINE x == Registers[k]
<1>3. x \in Context /\ x.pc \in I /\ Kind[x.pc] \in {"work", "call", "yield"} /\ Succ[x.pc] \subseteq I
  BY <1>2 DEF IdleProgram
<1>4. CASE Registers' = Registers
  BY <1>4
<1>5. ASSUME NEW p \in Boot, P!Step(p), p # k PROVE Registers'[k] = x
  <2>1. PICK y : Registers' = [Registers EXCEPT ![p] = y]
    BY <1>5 DEF P!Step, P!Local, P!Receive, P!Leave
  <2>2. QED
    BY <1>1, <1>5, <2>1
<1>6. ASSUME P!Step(k) PROVE Registers'[k] \in Context /\ Registers'[k].pc \in I
  <2>1. P!Local(k)
    BY <1>3, <1>6 DEF P!Step, P!Receive, P!Leave, P!At
  <2>2. PICK n \in Succ[x.pc] : Registers' = [Registers EXCEPT ![k].pc = n]
    BY <2>1 DEF P!Local
  <2>3. n \in I /\ n \in Node
    BY <1>3 DEF IdleProgram
  <2>4. Registers'[k] = [x EXCEPT !.pc = n]
    BY <1>1, <2>2
  <2> HIDE DEF x
  <2>5. [x EXCEPT !.pc = n] \in Context /\ [x EXCEPT !.pc = n].pc = n
    BY <1>3, <2>3 DEF Context
  <2>6. QED
    BY <2>3, <2>4, <2>5
<1>7. Registers' = Registers \/ \E p \in Boot : P!Step(p)
  BY DEF P!Next, P!Arrive
<1>8. QED
  BY <1>2, <1>3, <1>4, <1>5, <1>6, <1>7

(* What a step of the running kernel does to the idle task: it fails only if the      *)
(* current one faults, and otherwise the idle task waits or runs as before.           *)
IdleGoesOn ==
  \/ Keeps
  \/ Stop("panic") /\ Kind[cpu.pc] = "fault"
  \/ status' = "run" /\ tasks'[0] \in {"READY", "RUNNING"}

LEMMA IdleNow ==
  ASSUME NEW I, IdleProgram(I), IInv, QueueInv, IdleInv(I), status = "run"
  PROVE  /\ 0 \in Slot /\ tasks[0] \in {"READY", "RUNNING"}
         /\ tasks[0] # "READY" => current_slot = 0 /\ Kind[cpu.pc] \in {"work", "call", "yield"}
<1>1. 0 \in Boot /\ 0 \in Slot
  BY BootFacts, SlotType DEF Boot
<1>2. tasks[0] \in {"READY", "RUNNING"}
  BY DEF IdleInv
<1>3. tasks[0] = "RUNNING" => current_slot = 0
  BY <1>1 DEF IInv, RunningInv
<1>4. current_slot = 0 => cpu.pc \in I
  BY <1>1, RegistersOfCurrent DEF IdleInv
<1>5. QED
  BY <1>1, <1>2, <1>3, <1>4 DEF IdleProgram

\* among tasks of one priority
LEMMA IdleFifo ==
  ASSUME EqualRanks, NEW I, IdleProgram(I), IInv, IInv', QueueInv, FifoInv, IdleInv(I),
         status = "run", [Next]_vars
  PROVE  IdleGoesOn
<1>1. PICK c : Holds(c)
  BY DEF FifoInv
<1>2. /\ 0 \in Slot /\ tasks[0] \in {"READY", "RUNNING"}
      /\ tasks[0] # "READY" => current_slot = 0 /\ Kind[cpu.pc] \in {"work", "call", "yield"}
  BY IdleNow
<1>3. CASE Keeps
  BY <1>3 DEF IdleGoesOn
<1>4. CASE Panics
  BY <1>2, <1>4 DEF Panics, ReadySlots, IdleGoesOn
<1>5. CASE Switches(c)
  <2>1. PICK x : Rotates(c, x) /\ (Kind[cpu.pc] \in {"exit", "getc"} \/ x = "RUNNING")
    BY <1>5 DEF Switches
  <2>2. PICK m, d : RotatesBy(c, x, m, d)
    BY <2>1 DEF Rotates
  <2>3. 0 \in {d[i] : i \in 1 .. m}
    <3>1. CASE tasks[0] = "READY"
      <4>1. PICK i \in 1 .. qready.n : c[i] = 0
        BY <1>1, <1>2, <3>1 DEF Holds, Entries, ReadySlots
      <4>2. d[i] = 0 /\ i \in 1 .. m
        <5>1. qready.n \in Nat
          BY <1>1, QueueFields DEF Holds, Lists
        <5>2. m \in Nat /\ m >= qready.n /\ d[i] = c[i]
          BY <2>2 DEF RotatesBy
        <5>3. QED
          BY <4>1, <5>1, <5>2
      <4>3. QED
        BY <4>2
    <3>2. CASE tasks[0] # "READY"
      BY <1>2, <2>1, <2>2, <3>2 DEF RotatesBy
    <3>3. QED
      BY <3>1, <3>2
  <2>4. status' = "run" /\ current_slot' = d[1] /\ ReadySlots' = {d[i] : i \in 1 .. m} \ {d[1]}
    BY <2>1, <2>2 DEF Rotates, RotatesBy
  <2>5. tasks'[current_slot'] = "RUNNING"
    BY <2>4 DEF IInv, RunningInv
  <2>6. tasks'[0] \in {"READY", "RUNNING"}
    BY <2>3, <2>4, <2>5 DEF ReadySlots
  <2>7. QED
    BY <2>4, <2>6 DEF IdleGoesOn
<1>6. QED
  BY <1>1, <1>3, <1>4, <1>5, RunningFifo DEF FifoStep

\* as the lower of two ranks
LEMMA IdleShape ==
  ASSUME NEW a, NEW b, LowHigh(a, b), a = 0, NEW I, IdleProgram(I), IInv, IInv', QueueInv,
         TwoInv(a, b), IdleInv(I), status = "run", [Next]_vars
  PROVE  IdleGoesOn
<1>1. /\ 0 \in Slot /\ tasks[0] \in {"READY", "RUNNING"} /\ b # 0
      /\ tasks[0] # "READY" => current_slot = 0 /\ Kind[cpu.pc] \in {"work", "call", "yield"}
  BY IdleNow, LowHighFacts
<1>2. CASE Keeps
  BY <1>2 DEF IdleGoesOn
<1>3. CASE TwoPanics(b)
  BY <1>1, <1>3 DEF TwoPanics, ReadySlots, IdleGoesOn
<1>4. CASE TwoTurns(a, b)
  <2>1. PICK R, x : /\ ReadySlots \subseteq R
                    /\ Turns(a, b, R, x)
                    /\ Kind[cpu.pc] \in {"exit", "getc"} \/ x = "RUNNING"
    BY <1>4 DEF TwoTurns
  <2>2. 0 \in ReadySlots' \union {current_slot'}
    BY <1>1, <2>1 DEF Turns, ReadySlots
  <2>3. status' = "run" /\ tasks'[current_slot'] = "RUNNING"
    BY <2>1 DEF Turns, IInv, RunningInv
  <2>4. QED
    BY <2>2, <2>3 DEF ReadySlots, IdleGoesOn
<1>5. QED
  BY <1>2, <1>3, <1>4, RunningShape DEF TwoStep

LEMMA IdleStep ==
  ASSUME NEW I, IdleProgram(I), IInv, IInv', QueueInv, IdleInv(I), [Next]_vars,
         status = "run" => IdleGoesOn
  PROVE  IdleInv(I)'
<1>1. Registers'[0] \in Context /\ Registers'[0].pc \in I
  BY StepRefines, IdleRegisters DEF IdleInv
<1>2. 0 \in Boot /\ 0 \in Slot
  BY BootFacts, SlotType DEF Boot
<1>3. CASE UNCHANGED <<tasks, status>> /\ (status \in {"boot", "run"} \/ cpu' = cpu)
  BY <1>1, <1>3 DEF IdleInv, OnlyFaultsStopTheKernel
<1>4. CASE status = "run"
  <2>1. CASE Keeps
    BY <1>3, <1>4, <2>1 DEF Keeps
  <2>2. CASE Stop("panic") /\ Kind[cpu.pc] = "fault"
    BY <1>1, <2>2 DEF Stop, IdleInv, OnlyFaultsStopTheKernel
  <2>3. CASE status' = "run" /\ tasks'[0] \in {"READY", "RUNNING"}
    BY <1>1, <2>3 DEF IdleInv, OnlyFaultsStopTheKernel
  <2>4. QED
    BY <1>4, <2>1, <2>2, <2>3 DEF IdleGoesOn
<1>5. CASE status # "run"
  <2>1. CASE Spawn
    <3>1. status' = "boot"
      BY <2>1, SpawnQueue
    <3>2. QED
      BY <1>1, <3>1 DEF IdleInv, OnlyFaultsStopTheKernel
  <2>2. CASE StartSchedule
    <3>1. /\ status' = "run" /\ tasks' = [tasks EXCEPT ![EntryTask] = "RUNNING"]
          /\ tasks[0] = "READY"
      BY <1>2, <2>2, StartQueue
    <3>2. tasks'[0] \in {"READY", "RUNNING"}
      BY <1>2, <3>1 DEF IInv, TypeInv
    <3>3. QED
      BY <1>1, <3>1, <3>2 DEF IdleInv, OnlyFaultsStopTheKernel
  <2>3. CASE Arrive \/ UNCHANGED vars
    BY <1>3, <2>3 DEF Arrive, vars, taskVars
  <2>4. ~TimerInterrupt /\ ~ExternalInterrupt /\ ~Run
    BY <1>5 DEF TimerInterrupt, ExternalInterrupt, Run, Compute, Yield, Exit, Getc, GetcBlocks, Fault, At
  <2>5. QED
    BY <2>1, <2>2, <2>3, <2>4 DEF Next
<1>6. QED
  BY <1>4, <1>5

(* Slot 0 ranks below the other of two tasks, as idle (0) does below user_entry (50).    *)
IdleRanksLower == NTask = 2 /\ Priority[0] < Priority[1]

(* With an idle task that does not rank above the others the kernel stops only when a   *)
(* task faults: schedule always finds a task, no push fails, and no search goes astray  *)
(* or runs for ever.  Of two tasks the idle one may rank lower, as it does in            *)
(* kernel_main; if it ranked higher it could step over itself along a stale link and     *)
(* find nobody.                                                                   *)
THEOREM OnlyFaultsStop ==
  (EqualRanks \/ IdleRanksLower) /\ IdleTask /\ Spec => []OnlyFaultsStopTheKernel
<1>1. ASSUME NEW I, IdleProgram(I)
      PROVE  /\ Init => IdleInv(I)
             /\ /\ IInv /\ IInv' /\ QueueInv /\ IdleInv(I) /\ [Next]_vars
                /\ status = "run" => IdleGoesOn
                => IdleInv(I)'
             /\ IdleInv(I) => OnlyFaultsStopTheKernel
  BY <1>1, IdleInit, IdleStep DEF IdleInv
<1>2. ASSUME EqualRanks, NEW I, IdleProgram(I) PROVE Spec => []OnlyFaultsStopTheKernel
  <2>1. /\ IInv /\ IInv' /\ QueueInv /\ FifoInv /\ IdleInv(I) /\ status = "run"
        /\ [Next]_vars
        => IdleGoesOn
    BY <1>2, IdleFifo
  <2>2. Spec => []FifoInv
    BY <1>2, FifoInvariant
  <2>3. QED
    BY <1>1, <1>2, <2>1, <2>2, InductiveInvariant, QueueInvariant, PTL DEF Spec
<1>3. ASSUME IdleRanksLower, NEW I, IdleProgram(I) PROVE Spec => []OnlyFaultsStopTheKernel
  <2>1. PICK a, b : LowHigh(a, b) /\ a = 0
    <3>1. Boot = {0, 1}
      BY <1>3 DEF IdleRanksLower, Boot
    <3>2. LowHigh(0, 1)
      BY <1>3, <3>1 DEF IdleRanksLower, LowHigh
    <3>3. QED
      BY <3>2
  <2>2. Spec => []TwoInv(a, b)
    BY <2>1, TwoInvariant
  <2>3. /\ IInv /\ IInv' /\ QueueInv /\ TwoInv(a, b) /\ IdleInv(I) /\ status = "run"
        /\ [Next]_vars
        => IdleGoesOn
    BY <1>3, <2>1, IdleShape
  <2>4. QED
    BY <1>1, <1>3, <2>2, <2>3, InductiveInvariant, QueueInvariant, PTL DEF Spec
<1>4. QED
  BY <1>2, <1>3 DEF IdleTask
=============================================================================
