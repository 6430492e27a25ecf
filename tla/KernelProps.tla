----------------------------- MODULE KernelProps ----------------------------
(***************************************************************************)
(* The correctness properties of module Kernel.                             *)
(***************************************************************************)
EXTENDS Kernel

CONSTANT Gone   \* stands for the registers of a process that has exited

ASSUME GoneAssumption == Gone \notin Context

(* Every variable holds a value of its C type.  TypeInv is the part that does     *)
(* not depend on the ready queue.                                            *)
TypeInv ==
  /\ tasks \in [Slot -> TaskState]
  /\ time_slice \in [Slot -> Nat]
  /\ ctx \in [Slot -> Context]
  /\ current_slot \in Slot
  /\ wait_irq_mask \in [Slot -> SUBSET Interrupt]
  /\ mie \in SUBSET Interrupt
  /\ cpu \in Context
  /\ rx \in Char \union {NoChar}
  /\ status \in {"boot", "run", "panic", "hang", "wild"}

TypeOK == TypeInv /\ n_task \in Nat /\ qready \in Queue

(* task.h:49-51: at most one task is RUNNING.  set_task_running writes one    *)
(* task and the demotion of the previous one is elsewhere, in schedule, so    *)
(* this depends on every path to a switch.                                   *)
AtMostOneRunning ==
  \A s, r \in Slot : tasks[s] = "RUNNING" /\ tasks[r] = "RUNNING" => s = r

(* While tasks run, the RUNNING one is the one current_task names, it has     *)
(* ticks left (the handler decrements an unsigned time_slice and compares     *)
(* with 0 afterwards: at 0 it would wrap to 2^32 - 1), and the processor      *)
(* works on the stack that create_task gave to it.                           *)
CurrentTaskRuns ==
  status = "run" => /\ tasks[current_slot] = "RUNNING"
                    /\ time_slice[current_slot] # 0
                    /\ cpu.sp = current_slot

(* A task is BLOCKED_IRQ exactly while its qblocked entry waits for some      *)
(* interrupt, and every interrupt waited for is enabled in mie; otherwise it   *)
(* would sleep through its wake-up (wake_irq_tasks, mie in schedule).          *)
BlockedCanBeWoken ==
  status = "run" => /\ \A s \in Slot : tasks[s] = "BLOCKED_IRQ" <=> wait_irq_mask[s] # {}
                    /\ \A s \in Slot : wait_irq_mask[s] \subseteq mie

(* The kernel neither panics nor loops nor writes through NULL unless a task   *)
(* itself faulted; in particular the queue it searches stays sound.           *)
OnlyFaultsStopTheKernel ==
  status \in {"boot", "run"} \/ (status = "panic" /\ Kind[cpu.pc] = "fault")

(* scheduler.h:16: every task that waits for the processor can be found from    *)
(* qready_head, where schedule looks for the next one.                        *)
WaitingTasksAreFound == \A s \in Slot : tasks[s] = "READY" => s \in Linked(qready)

(* ... and n_ready and n_task count the tasks that they stand for.             *)
ReadyTasksAreQueued ==
  /\ WaitingTasksAreFound
  /\ qready.n = Cardinality({s \in Slot : tasks[s] = "READY"})
  /\ n_task = Cardinality({s \in Slot : tasks[s] # "NOT_CREATED"})

(* Between tasks of one priority qready is a proper doubly linked list: from the    *)
(* head it leads through the READY tasks, each once and no other task, as many   *)
(* as n_ready says, and every prev points at the entry in front, with no link    *)
(* left over from an earlier place in the list (scheduler.c:29-91).             *)
QueueIsAList ==
  LET c == Chain(qready)
  IN  /\ Range(c) = {s \in Slot : tasks[s] = "READY"}
      /\ \A i, j \in DOMAIN c : c[i] = c[j] => i = j
      /\ \A i \in DOMAIN c : qready.prev[c[i]] = IF i = 1 THEN NIL ELSE c[i - 1]
      /\ qready.n = Len(c)

(* Between tasks of different priorities the list does not stay a proper one (the  *)
(* prev of the old head is left unset at line 36, so that a later removal of it    *)
(* leaves stale links), but the comment at scheduler.c:51 still holds of the      *)
(* tasks that wait: the search from the head comes to the one of higher priority  *)
(* before it meets the other, none is lost, the counts are exact, and a prev that   *)
(* is set is true.                                                            *)
QueueIsOrdered ==
  LET ready == {s \in Slot : tasks[s] = "READY"}
  IN  /\ ReadyTasksAreQueued
      /\ \A s, r \in ready : Priority[s] > Priority[r] => FoundBefore(qready, s, r)
      /\ \A s \in ready : qready.prev[s] # NIL => qready.next[qready.prev[s]] = s

(* scheduler.c:142: a task that yields, or whose last tick is over, gives way   *)
(* to another one if there is any READY, whatever their priorities.            *)
GivesWay ==
  [][ (/\ status = "run"
       /\ \/ Kind[cpu.pc] = "yield" /\ cpu' # cpu
          \/ time_slice[current_slot] = 1 /\ time_slice'[current_slot] # 1
       /\ \E s \in Slot : tasks[s] = "READY")
      => current_slot' # current_slot ]_vars

(* scheduler.h:16-17: among tasks of equal priority the one that has waited    *)
(* longest runs first.  While s waits, a task that is behind s in the queue or   *)
(* only becomes ready now neither runs nor gets ahead of s.                     *)
RoundRobin ==
  [][ \A s, r \in Slot :
        /\ status = "run" /\ s # r /\ Priority[s] = Priority[r]
        /\ tasks[s] = "READY" /\ tasks'[s] = "READY"
        /\ tasks[r] = "READY" => Ahead(qready, s, r)
        => /\ r # current_slot => tasks'[r] # "RUNNING"
           /\ tasks'[r] = "READY" => Ahead(qready', s, r) ]_vars

-----------------------------------------------------------------------------
(* Refinement.  A process has the registers of the processor while its task    *)
(* is current, and the saved context otherwise.                               *)
Registers ==
  [s \in Boot |->
     IF status = "boot" THEN InitContext(s)
     ELSE IF tasks[s] = "NOT_CREATED" THEN Gone
     ELSE IF s = current_slot THEN cpu
     ELSE ctx[s]]

P == INSTANCE Processes WITH Process <- Boot, proc <- Registers, port <- rx

(* Interrupts, blocking, wake-ups and switches are invisible to the tasks: no   *)
(* register is lost or leaks from one task to another, no system call is        *)
(* skipped or executed twice, and no character is lost or delivered twice.      *)
ImplementsProcesses == P!Spec

(* Moreover, once a switch has enabled the timer, every task makes progress     *)
(* whatever the others do: no task that can execute waits for ever.             *)
FairOnceTicking == <>("TIMER" \in mie) => P!Progress
=============================================================================
