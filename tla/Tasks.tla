--------------------------------- MODULE Tasks ---------------------------------
(***************************************************************************)
(* The task table of src/sw/bootc/kernel/task.c on top of the kernel's global  *)
(* heap: create_task takes a slot, a stack and a heap, and gives the stack back *)
(* if the second allocation fails; destroy_task gives both back.  A call is a   *)
(* sequence of steps, one for each call of the allocator; calls do not overlap, *)
(* since the kernel runs with interrupts disabled.                            *)
(*                                                                          *)
(* What schedule does with a created task is the subject of Kernel.  Here a     *)
(* slot is created or not, and the calls come in any order, with any id that    *)
(* has ever been given out.                                                  *)
(***************************************************************************)
EXTENDS Heap, FiniteSetsExt

CONSTANTS
  MaxTasks,    \* MAX_TASKS
  GenMod,      \* 2^16, t_gen is a uint16_t
  StackSize, TaskHeapSize   \* STACK_INIT_SIZE, HEAP_INIT_SIZE

\* An id holds the slot in eight bits; the kernel's heap holds more than a task's.
ASSUME TasksAssumption == /\ MaxTasks \in 1 .. 256 /\ GenMod \in Nat \ {0}
                          /\ StackSize \in 0 .. HeapSize /\ TaskHeapSize \in 0 .. HeapSize

Slot == 0 .. MaxTasks - 1

VARIABLES
  task_id, created, stack_base, heap_head,   \* the Task in each slot
  n_task, t_gen,
  call,       \* the call in progress: what it does next, and for which slot
  known,      \* history: an id that spawn_task has returned
  known_age,  \* history: the tasks that create_task has numbered since
  known_live  \* history: that task has not been destroyed

table    == <<task_id, created, stack_base, heap_head, n_task, t_gen>>
history  == <<known, known_age, known_live>>
taskVars == <<table, call, history>>
allVars  == <<vars, taskVars>>

None == -1
Idle == [step |-> "idle", slot |-> 0]

TaskId(slot, gen) == gen * 256 + slot
TaskSlot(tid)     == tid % 256

\* the generation is not compared
MutNames(tid, s) == s = TaskSlot(tid)

\* get_task_of_id returns slot s
Names(tid, s) == s = TaskSlot(tid) /\ task_id[s] = tid

TaskInit ==
  /\ Init
  /\ task_id    = [s \in Slot |-> 0]
  /\ created    = [s \in Slot |-> FALSE]
  /\ stack_base = [s \in Slot |-> NULL]
  /\ heap_head  = [s \in Slot |-> NULL]
  /\ n_task = 0 /\ t_gen = 0
  /\ call = Idle
  /\ known = None /\ known_age = 0 /\ known_live = FALSE

-----------------------------------------------------------------------------
(* spawn_task, as a call from outside.  It changes nothing when the table is     *)
(* full.                                                                    *)
TakeSlot ==
  /\ call = Idle /\ n_task < MaxTasks
  /\ LET free == {s \in Slot : ~created[s]}
     IN  /\ free # {}
         /\ task_id' = [task_id EXCEPT ![Min(free)] = TaskId(Min(free), t_gen)]
         /\ call' = [step |-> "stack", slot |-> Min(free)]
  /\ t_gen' = (t_gen + 1) % GenMod
  /\ known_age' = Min({known_age + 1, GenMod})
  /\ UNCHANGED <<vars, created, stack_base, heap_head, n_task, known, known_live>>

Allocated(n) == IF FirstFit(n) = NULL THEN NULL ELSE FirstFit(n) + Hdr

AllocStack ==
  /\ call.step = "stack"
  /\ Alloc(StackSize)
  /\ LET p == Allocated(StackSize)
     IN  IF p = NULL
         THEN call' = Idle /\ UNCHANGED stack_base
         ELSE /\ call' = [call EXCEPT !.step = "heap"]
              /\ stack_base' = [stack_base EXCEPT ![call.slot] = p]
  /\ UNCHANGED <<task_id, created, heap_head, n_task, t_gen, history>>

\* the stack is kept
MutAfterNoHeap == Idle
AfterNoHeap == [call EXCEPT !.step = "give_back"]

(* The second allocation, and, when it has been made, the rest of spawn_task:    *)
(* add_task_to_schedule finds room, for the queue holds created tasks only.     *)
AllocTaskHeap ==
  /\ call.step = "heap"
  /\ Alloc(TaskHeapSize)
  /\ LET p == Allocated(TaskHeapSize)
     IN  IF p = NULL
         THEN call' = AfterNoHeap /\ UNCHANGED <<created, heap_head, n_task, history>>
         ELSE /\ call'      = Idle
              /\ created'   = [created EXCEPT ![call.slot] = TRUE]
              /\ heap_head' = [heap_head EXCEPT ![call.slot] = p]
              /\ n_task'    = n_task + 1
              /\ \/ UNCHANGED history
                 \/ known' = task_id[call.slot] /\ known_age' = 0 /\ known_live' = TRUE
  /\ UNCHANGED <<task_id, stack_base, t_gen>>

GiveStackBack ==
  /\ call.step = "give_back"
  /\ Free(stack_base[call.slot])
  /\ call' = Idle
  /\ UNCHANGED <<table, history>>

-----------------------------------------------------------------------------
\* a task that has been destroyed is destroyed again
MutDestroyable(tid, s) == Names(tid, s)
Destroyable(tid, s) == Names(tid, s) /\ created[s]

(* destroy_task, for a task that has exited or with any id that a caller still   *)
(* has; it changes nothing when the id is that of no created task.             *)
DestroyTask(tid) ==
  /\ call = Idle
  /\ \E s \in Slot : /\ Destroyable(tid, s)
                     /\ call' = [step |-> "free_stack", slot |-> s]
  /\ UNCHANGED <<vars, table, history>>

FreeStack ==
  /\ call.step = "free_stack"
  /\ Free(stack_base[call.slot])
  /\ call' = [call EXCEPT !.step = "free_heap"]
  /\ UNCHANGED <<table, history>>

FreeTaskHeap ==
  /\ call.step = "free_heap"
  /\ Free(heap_head[call.slot])
  /\ created' = [created EXCEPT ![call.slot] = FALSE]
  /\ n_task'  = n_task - 1
  /\ call'    = Idle
  /\ known_live' = (known_live /\ TaskSlot(known) # call.slot)
  /\ UNCHANGED <<task_id, stack_base, heap_head, t_gen, known, known_age>>

Ids == Range(task_id) \union ({known} \ {None})

Spawning   == TakeSlot \/ AllocStack \/ AllocTaskHeap \/ GiveStackBack
Destroying == \/ \E tid \in Ids : DestroyTask(tid)
              \/ FreeStack \/ FreeTaskHeap

TaskNext == Spawning \/ Destroying

TaskSpec == TaskInit /\ [][TaskNext]_allVars

-----------------------------------------------------------------------------
(* Between calls the heap's clients hold exactly the stacks and heaps of the     *)
(* created tasks, all different, and n_task counts them: an allocation that     *)
(* fails half way leaves nothing behind (task.c:47-51), and when every task has *)
(* gone the heap is one free block again.                                    *)
MemoryFollowsTasks ==
  call = Idle =>
    LET made   == {s \in Slot : created[s]}
        memory_of == {stack_base[s] : s \in made} \union {heap_head[s] : s \in made}
    IN  /\ n_task = Cardinality(made)
        /\ DOMAIN live = memory_of /\ Cardinality(memory_of) = 2 * n_task
        /\ made = {} => Blocks = {Base} /\ total_allocated = 0

(* No order of spawns, exits and calls with ids of tasks long gone frees a block *)
(* twice: free_heap does not panic (heap.c:105, task.c:110).                   *)
NoDoubleFree == status = "ok"

(* The id of a task names that task as long as it lives, and no other task       *)
(* afterwards, until t_gen has come round (task.h:21-26, task.c:14-21).          *)
IdsNameOneTask ==
  known # None /\ known_age < GenMod =>
    \A s \in Slot : (Names(known, s) /\ created[s])
                      <=> (known_live /\ s = TaskSlot(known))
=============================================================================
