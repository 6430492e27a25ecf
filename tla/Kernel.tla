------------------------------- MODULE Kernel -------------------------------
(***************************************************************************)
(* The boot kernel of src/sw/bootc: tasks (kernel/task.c), the scheduler    *)
(* (kernel/scheduler.c), the trap handler (trap_handler.c) and the system   *)
(* calls that schedule (sys/ksys.c, sys/ksys_dispatch.c), with the tasks    *)
(* they run.                                                                *)
(*                                                                          *)
(* The machine takes a trap with mstatus.MIE cleared and the handler never  *)
(* sets it, so a trap is one action: from the interrupted instruction,      *)
(* through trap_entry, the handler, the switch and mret, to the next        *)
(* instruction of whichever task runs then.  What interleaves is the code   *)
(* of the tasks, the two interrupts and the arrival of characters.          *)
(*                                                                          *)
(* A context is abstracted to the pc, the register a0 that returns the      *)
(* character of getc, and sp, which names the stack it points into by the   *)
(* slot that stack was allocated for.  The program of a task is a graph on  *)
(* Node; Kind says what the instruction at a node is, Succ where it goes.   *)
(***************************************************************************)
EXTENDS ReadyQueue

CONSTANTS
  NTask,      \* the number of spawn_task calls of kernel_main
  EntryTask,  \* the slot kernel_main passes to start_schedule
  Quantum,    \* SCHED_QUANTUM_TICKS
  Bonus,      \* SCHED_PRIORITY_BONUS_TICKS
  MaxWord,    \* the largest size_t (2^32 - 1): time_slice wraps to it
  Node, Kind, Succ, Start,  \* the programs; Start[s] is the entry point of slot s
  Char, NoChar              \* what a terminal sends, and the empty receive register

Boot      == 0 .. NTask - 1
Interrupt == {"TIMER", "EXTERNAL"}
TaskState == {"NOT_CREATED", "READY", "RUNNING", "BLOCKED_IRQ", "TERMINATED"}
Context   == [pc : Node, a0 : Char \union {NoChar}, sp : Slot]

ASSUME NTaskAssumption   == NTask \in 1 .. MaxTasks /\ EntryTask \in Boot
ASSUME SliceAssumption   == /\ Quantum \in Nat \ {0} /\ Bonus \in Nat
                            /\ MaxWord \in Nat \ {0}
ASSUME ProgramAssumption ==
  /\ Kind \in [Node -> {"work", "getc", "yield", "call", "exit", "fault"}]
  /\ Succ \in [Node -> SUBSET Node]
  /\ Start \in [Slot -> Node]
ASSUME CharAssumption    == NoChar \notin Char

VARIABLES
  tasks,         \* tasks[s].state
  time_slice,    \* tasks[s].time_slice
  ctx,           \* tasks[s].ctx
  n_task,
  current_slot,
  qready,        \* the ready queue (module ReadyQueue)
  wait_irq_mask, \* qblocked[s]: the interrupts waited for, {} when not blocked
  mie,           \* the interrupts enabled in the mie register
  cpu,           \* the registers of the processor
  rx,            \* RXDATA of the UART; NoChar when rx_valid is clear
  status         \* "boot", "run", or how the kernel stopped for good

taskVars == <<tasks, time_slice, n_task, wait_irq_mask>>
vars == <<taskVars, ctx, current_slot, qready, mie, cpu, rx, status>>

InitContext(s) == [pc |-> Start[s], a0 |-> NoChar, sp |-> s]
FullSlice(s)   == Quantum + Priority[s] * Bonus

Init ==
  /\ tasks         = [s \in Slot |-> "NOT_CREATED"]
  /\ time_slice    = [s \in Slot |-> 0]
  /\ ctx           = [s \in Slot |-> InitContext(s)]
  /\ n_task        = 0
  /\ current_slot  = 0
  /\ qready        = EmptyQueue
  /\ wait_irq_mask = [s \in Slot |-> {}]
  /\ mie           = {}
  /\ cpu           = InitContext(EntryTask)
  /\ rx            = NoChar
  /\ status        = "boot"

\* how the kernel stops after an operation on the queue that ends with err
How(err) == IF err = "full" THEN "panic" ELSE IF err = "hang" THEN "hang" ELSE "wild"

\* panic() and the two other ways never to return: nothing runs any more, so
\* what the handler had written by then is left out.
Stop(how) ==
  /\ status' = how
  /\ UNCHANGED <<taskVars, ctx, current_slot, qready, mie, cpu, rx>>

StopOn(err) == Stop(How(err))

-----------------------------------------------------------------------------
(* kernel_main: spawn_task for each task, then start_schedule.               *)

FreeSlot == CHOOSE s \in Slot : /\ tasks[s] = "NOT_CREATED"
                                /\ \A r \in Slot : r < s => tasks[r] # "NOT_CREATED"

\* spawn_task: create_task takes the first free slot and add_task_to_schedule
\* queues it.  The two allocations of create_task cannot fail at this point
\* (at most 8 * 2 * 1040 of 32768 bytes, see module Heap).
Spawn ==
  /\ status = "boot"
  /\ n_task < NTask
  /\ LET s == FreeSlot
         q == Push(qready, s)
     IN  IF q.err # "none" THEN StopOn(q.err)
         ELSE /\ tasks'      = [tasks EXCEPT ![s] = "READY"]
              /\ time_slice' = [time_slice EXCEPT ![s] = FullSlice(s)]
              /\ ctx'        = [ctx EXCEPT ![s] = InitContext(s)]
              /\ n_task'     = n_task + 1
              /\ qready'     = q
              /\ UNCHANGED <<wait_irq_mask, current_slot, mie, cpu, rx, status>>

\* start_schedule: mie is not assigned here, only by schedule.
StartSchedule ==
  /\ status = "boot"
  /\ n_task = NTask
  /\ IF tasks[EntryTask] # "READY" THEN Stop("panic")
     ELSE /\ current_slot' = EntryTask
          /\ tasks'  = [tasks EXCEPT ![EntryTask] = "RUNNING"]
          /\ qready' = Remove(qready, EntryTask)
          /\ cpu'    = ctx[EntryTask]
          /\ status' = "run"
          /\ UNCHANGED <<time_slice, n_task, wait_irq_mask, ctx, mie, rx>>

-----------------------------------------------------------------------------
(* The scheduler.  These operators take the values that the handler has      *)
(* computed so far and say how the trap ends.                                *)

\* The search of schedule for a READY entry, from the head of the queue; the
\* current task's entry is stepped over when another one follows it.  NIL when
\* the loop ends in one of its panics.
MutStepOverNever(q, p) == p

StepOver(q, p) == IF p = current_slot /\ q.next[p] # NIL THEN q.next[p] ELSE p

\* One iteration of the loop, from next = l.p and count = l.c.
Inspect(q, st, l) ==
  LET x == StepOver(q, l.p)
  IN  IF l.p = NIL \/ l.c > MaxTasks THEN [l EXCEPT !.p = NIL]
      ELSE IF st[x] = "READY" THEN l
      ELSE [p |-> q.next[x], c |-> l.c + (IF x = l.p THEN 1 ELSE 2)]

NextReady(q, st) ==
  LET after[i \in 0 .. MaxTasks + 1] ==
        IF i = 0 THEN [p |-> q.head, c |-> 0] ELSE Inspect(q, st, after[i-1])
      last == after[MaxTasks + 1].p
  IN  IF last = NIL THEN NIL ELSE StepOver(q, last)

MutRequestedTimerOnly(mask) == {"TIMER"}

Requested(mask) == {"TIMER"} \union UNION {mask[s] : s \in Slot}

\* switch_to_next_task and schedule, with the registers of the interrupted task
\* in frame.  k_exit comes here with a TERMINATED task, whose context is not
\* saved and whose slot schedule frees (destroy_task).
MutSavedContextUnlessBlocked(frame, st) ==
  IF st[current_slot] \in {"TERMINATED", "BLOCKED_IRQ"} THEN ctx
  ELSE [ctx EXCEPT ![current_slot] = frame]

SavedContext(frame, st) ==
  IF st[current_slot] = "TERMINATED" THEN ctx
  ELSE [ctx EXCEPT ![current_slot] = frame]

MutSettledExitOnly(s) == IF s = "TERMINATED" THEN "NOT_CREATED" ELSE s

Settled(s) == IF s = "RUNNING" THEN "READY"
              ELSE IF s = "TERMINATED" THEN "NOT_CREATED" ELSE s

\* destroy_task, called by schedule for a task that has exited
MutTasksLeftAll(st) == n_task

TasksLeft(st) == IF st[current_slot] = "TERMINATED" THEN n_task - 1 ELSE n_task

MutRefillNever(sl, n) == sl

Refill(sl, n) == IF sl[n] = 0 THEN [sl EXCEPT ![n] = FullSlice(n)] ELSE sl

\* The current task goes back to the queue if it is still READY.
Requeued(st, q) == IF st[current_slot] = "READY" THEN Push(q, current_slot) ELSE q

SettledStates(st) == [st EXCEPT ![current_slot] = Settled(@)]

\* The processor goes to task n, taken from the queue q.
Dispatch(n, q, frame, st, sl, mask) ==
  /\ tasks'         = [SettledStates(st) EXCEPT ![n] = "RUNNING"]
  /\ n_task'        = TasksLeft(st)
  /\ time_slice'    = Refill(sl, n)
  /\ qready'        = Remove(q, n)
  /\ wait_irq_mask' = mask
  /\ mie'           = Requested(mask)
  /\ ctx'           = SavedContext(frame, st)
  /\ cpu'           = IF n = current_slot THEN frame ELSE SavedContext(frame, st)[n]
  /\ current_slot'  = n
  /\ UNCHANGED status

\* (The quantifiers over one value name intermediate results.)
SwitchToNextTask(frame, st, sl, q, mask) ==
  \E st1 \in {SettledStates(st)} :
  \E q1 \in {Requeued(st1, q)} :
  \E n \in {NextReady(q1, st1)} :
    IF q1.err # "none" THEN StopOn(q1.err)
    ELSE IF q1.n = 0 \/ n \notin Slot \/ st1[n] # "READY" THEN Stop("panic")
    ELSE Dispatch(n, q1, frame, st, sl, mask)

-----------------------------------------------------------------------------
(* Interrupts: trap_handler, with wake_irq_tasks.                            *)

Woken(irq)       == {s \in Slot : irq \in wait_irq_mask[s]}
WokenStates(irq) == [s \in Slot |-> IF s \in Woken(irq) THEN "READY" ELSE tasks[s]]

MutClearedMaskKept(irq) == wait_irq_mask

ClearedMask(irq) == [s \in Slot |-> IF s \in Woken(irq) THEN {} ELSE wait_irq_mask[s]]

\* The woken tasks are pushed in slot order.
WakeSlot(irq, q, s) == IF s \in Woken(irq) THEN Push(q, s) ELSE q
WokenQueue(irq) ==
  LET after[i \in 0 .. MaxTasks] ==
        IF i = 0 THEN qready ELSE WakeSlot(irq, after[i-1], i - 1)
  IN  after[MaxTasks]

HandleInterrupt(irq, sl) ==
  /\ UNCHANGED rx
  /\ \E q \in {WokenQueue(irq)} :
       IF \E s \in Slot : wait_irq_mask[s] # {} /\ tasks[s] # "BLOCKED_IRQ"
       THEN Stop("panic")
       ELSE IF q.err # "none" THEN StopOn(q.err)
       ELSE IF sl[current_slot] = 0 \/ Woken(irq) # {}
       THEN SwitchToNextTask(cpu, WokenStates(irq), sl, q, ClearedMask(irq))
       ELSE /\ time_slice' = sl
            /\ UNCHANGED <<tasks, n_task, wait_irq_mask, ctx, current_slot, qready,
                           mie, cpu, status>>

\* The timer: time_slice-- in 32 bits, and mtimecmp moves on by TICK_LENGTH, so
\* that a later tick is due again.  When it is due is left open.
Ticked(x)     == IF x = 0 THEN MaxWord ELSE x - 1

TimerInterrupt ==
  /\ status = "run"
  /\ "TIMER" \in mie
  /\ HandleInterrupt("TIMER",
                     [time_slice EXCEPT ![current_slot] = Ticked(@)])

\* The external interrupt is pending as long as RXDATA holds a character.
ExternalInterrupt ==
  /\ status = "run"
  /\ "EXTERNAL" \in mie
  /\ rx # NoChar
  /\ HandleInterrupt("EXTERNAL", time_slice)

-----------------------------------------------------------------------------
(* The current task executes the instruction at its pc.                      *)

At(kind)     == status = "run" /\ Kind[cpu.pc] = kind
Advance(c)   == {[c EXCEPT !.pc = p] : p \in Succ[c.pc]}   \* pc += 4, then the code up to the next node

\* An instruction that neither traps nor waits, and a system call that returns
\* DONE without scheduling (k_putc, k_puts, k_malloc, k_free).
Compute ==
  /\ At("work") \/ At("call")
  /\ cpu' \in Advance(cpu)
  /\ UNCHANGED <<taskVars, ctx, current_slot, qready, mie, rx, status>>

MutYieldReturns ==
  /\ At("yield")
  /\ cpu' \in Advance(cpu)
  /\ UNCHANGED <<taskVars, ctx, current_slot, qready, mie, rx, status>>

Yield ==
  /\ At("yield")
  /\ \E frame \in Advance(cpu) :
       SwitchToNextTask(frame, tasks, time_slice, qready, wait_irq_mask)
  /\ UNCHANGED rx

Exit ==
  /\ At("exit")
  /\ SwitchToNextTask(cpu, [tasks EXCEPT ![current_slot] = "TERMINATED"],
                      time_slice, qready, wait_irq_mask)
  /\ UNCHANGED rx

\* k_getc: a character is taken from RXDATA, whose read clears rx_valid.
Getc ==
  /\ At("getc")
  /\ rx # NoChar
  /\ cpu' \in Advance([cpu EXCEPT !.a0 = rx])
  /\ rx' = NoChar
  /\ UNCHANGED <<taskVars, ctx, current_slot, qready, mie, status>>

\* k_getc without a character: the task blocks and the pc stays at the ecall,
\* which is executed again once the task is woken.
MutBlockedFrameAdvanced == CHOOSE f \in Advance(cpu) : f.pc # cpu.pc

BlockedFrame == cpu

GetcBlocks ==
  /\ At("getc")
  /\ rx = NoChar
  /\ SwitchToNextTask(BlockedFrame, [tasks EXCEPT ![current_slot] = "BLOCKED_IRQ"],
                      time_slice, qready,
                      [wait_irq_mask EXCEPT ![current_slot] = @ \union {"EXTERNAL"}])
  /\ UNCHANGED rx

\* A misaligned or faulting access, or an illegal instruction: trap_handler panics.
Fault == At("fault") /\ Stop("panic")

\* The terminal fills the empty receive register (term_controller.cpp).
Arrive ==
  /\ rx = NoChar
  /\ rx' \in Char
  /\ UNCHANGED <<taskVars, ctx, current_slot, qready, mie, cpu, status>>

Run  == Compute \/ Yield \/ Exit \/ Getc \/ GetcBlocks \/ Fault
Next == Spawn \/ StartSchedule \/ TimerInterrupt \/ ExternalInterrupt \/ Run \/ Arrive

Spec == Init /\ [][Next]_vars

\* The processor goes on executing kernel_main; a pending enabled interrupt is
\* taken; a task that has the processor again and again executes instructions
\* (a tick is 10 * 101 cycles, many instructions long, so ticks alone do not
\* keep a task from its next instruction).
Fairness ==
  /\ WF_vars(Spawn \/ StartSchedule)
  /\ WF_vars(TimerInterrupt)
  /\ WF_vars(ExternalInterrupt)
  /\ \A s \in Slot : SF_vars(current_slot = s /\ Run)

FairSpec == Spec /\ Fairness
=============================================================================
