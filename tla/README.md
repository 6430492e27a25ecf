# A verification of COTM32

COTM32 is a pipelined RV32IM processor in SystemVerilog, run by Verilator under an ImGui simulator, together with the
boot firmware that runs on it: a small preemptive kernel with tasks, system calls and a heap. This directory models the
parts of it whose behaviour depends on the order in which things happen, checks the models with TLC, and proves what can
be proved with TLAPS. File and line references are to `src/`.

- [The system](#the-system)
- [Modules and the code they model](#modules-and-the-code-they-model)
- [Runs](#runs)
- [What the runs found](#what-the-runs-found)
- [Bounds](#bounds)
- [Fairness](#fairness)
- [Proofs](#proofs)
- [Not modelled](#not-modelled)
- [Plan](#plan)

Check a run with `tlc -config <cfg> <module>`, the proofs with `tlapm <module>` for the eight modules whose names
end in `Proof`.

## The system

| Component | State | Operations | What makes it correct |
|---|---|---|---|
| Ready queue (`sw/bootc/kernel/scheduler.c:11-90`) | statically allocated entries with `prev`/`next`, `qready_head`, `n_ready` | `push_ready_task`, `remove_ready_task` | a proper list of exactly the READY tasks, by priority, first come first served among equals |
| Tasks and scheduler (`task.c`, `scheduler.c`, `kernel.c`) | `tasks[]` (id, state, slice, context, stack, heap), `current_slot`, `n_task`, `t_gen`, `qblocked`, `mie` | spawn, `create_task`, `destroy_task`, `start_schedule`, `schedule`, block, wake, exit | one task runs, on its own stack; switches are invisible to tasks; no wake-up is lost; no task starves; memory comes and goes with its task; an id names one task |
| Traps and system calls (`trap_entry.s`, `trap_handler.c`, `sys/`) | trap frame, `mscratch`, `mepc`, `mstatus` | the two interrupts, exceptions, the system calls | a system call happens once; a blocked one is repeated after its wake-up |
| Heap (`kernel/heap.c`) | block headers in memory, `total_allocated` | `init_heap`, `alloc_heap`, `free_heap`, `is_valid_heap_ptr` | live blocks do not overlap; the list tiles the heap; the accounting is exact |
| User program (`user/entry.c`, `user/syscall.c`) | a line buffer and an index | a loop of getc, echo and puts | the row on the screen is the line in the buffer, and that line is printed; nothing is written outside the buffer |
| Pipeline (`rtl/cpu/processor_core.sv`, `pipeline/`, `core/`) | pc, four stage registers, register file, multiplier, memory | one clock edge | the same results as executing one instruction after another |
| Traps in hardware (`rtl/cpu/priv/`) | CSRs, privilege mode, sleep | trap entry, `mret`, `wfi`, interrupt dispatch, the checks of `cu`, `csr_file` and `lsu` | precise traps, wake-up from `wfi`, user mode is confined |
| CLINT (`rtl/peripheral/clint.sv`, `sw/bootc/clint.h`) | prescaler, `mtime`, `mtimecmp` | loads and stores of 32-bit halves, one clock edge | times read are real ones; ticks neither drift nor come early |
| UART (`rtl/peripheral/uart/uart_term.sv`) | `tx_valid`/`tx_data`, `rx_valid`/`rx_data` | a store to TXDATA, a load of RXDATA, one clock edge | no character is lost or doubled in either direction |
| Terminal (`sim/src/controllers/term_controller.cpp`, `ring_buffer.hpp`) | parser, cursor, ring buffer of rows, viewport, keyboard queue | one character, the scroll wheel, a key, a reset | stays inside its buffer; shows what is written; keeps its scrollback |
| Simulation loop (`sdl_window.cpp`, `time_controller.cpp`, `dump_controller.cpp`, `verilated_container.cpp`, `mem_drawer.cpp`) | auto/step/reset requests, time owed, dump flag, trace file, inspector offset | one frame: events, time, dump, rendering; the user's clicks | requests are neither lost nor repeated; no paused time is caught up; a trace is whole; the inspector stays inside its memory |
| Loader, views, drawers, window | - | rendering and file input | - |

How they interact. The kernel's tasks enter it through traps only: `ecall`, the timer interrupt of the CLINT (level
`mtime >= mtimecmp`), and the external interrupt (level `rx_valid`). A trap clears `mstatus.MIE` and nothing in the kernel
sets it before `mret`, so handlers are not interrupted. `schedule` saves and restores contexts in the trap frame and
recomputes `mie` from the tasks that are blocked. `create_task` takes stacks and heaps from the global heap. The processor
reaches CLINT, UART and memory through the load-store unit. The terminal is called after each clock edge with the UART's
registers; it shows what was stored and refills the receive register with the next key. The user scrolls, types and
resets between two clock edges. `SdlWindow::run` draws frames: in each the time controller runs as many ticks of the
machine as real time owes it, each tick samples the trace, the dump controller looks whether the trace has ended, and the
panels take what the user clicks, which the next frame acts on.

The hard behaviours are: a preemption between any two instructions of a task; an interrupt that comes between the test
and the block of a getc, or together with the end of a quantum; exits, blocks and wake-ups in any order over a list whose
links are never cleaned up; stalls, flushes, forwarding and traps that meet at one clock edge; 64-bit registers read and
written in halves while they count; the mode, looked at in two stages while an instruction in front of them changes it; an
escape-sequence parser whose sequences move a cursor over rows that may not exist yet; and flags that one frame sets and
another one tests. `PROJECT.json` lists each of these hazards at its line, with the properties aimed at it.

## Modules and the code they model

`PROJECT.json` maps every definition to its lines.

**ReadyQueue** has the queue as a value: a record of the link fields of every entry (the unlinked ones keep what the code
leaves in them), the head and the count. `Push` and `Remove` are `push_ready_task` and `remove_ready_task` with their
error outcomes: full, a search that runs round a cycle, a write through NULL.

**Kernel** is the kernel with the tasks it runs. A trap is one action, from the interrupted instruction to the next
instruction of whichever task runs then, because handlers run with interrupts disabled; what interleaves is the code of
the tasks (`Compute`, `Yield`, `Exit`, `Getc`, `GetcBlocks`, `Fault`), the two interrupts (`TimerInterrupt`,
`ExternalInterrupt`), and the arrival of characters (`Arrive`). `Spawn` and `StartSchedule` are `kernel_main`.
`SwitchToNextTask` is the whole of `schedule` and `switch_to_next_task`: settle the task that stops, look for the next
one, step over the current one, destroy, refill, requeue, recompute `mie`, save and restore. A context is a program
counter, the register in which getc returns its character, and a stack pointer that remembers whose stack it points
into. Programs are graphs of instructions given as constants.

**Processes** is the abstract specification: independent sequential processes that share one input port. **KernelProps**
states the properties and the refinement. The proofs about a module are in the module of its name with `Proof` behind it.

**Heap** has the fields of the block header at every aligned address, the ones of merged blocks too, so that a stale header
can be found again. `Malloc` and `Free` are one system call each, with the first fit, split, merge and accounting of the
code in 32-bit arithmetic, and with double frees. A pointer given to a client makes the left-over headers in its bytes
`soiled` (`Covered`): the flag of such a header reads as anything, and once `free_heap` takes it for one in use the status is "corrupt"
and the model ends. **Allocator** is its abstract specification: disjoint ranges.

**Tasks** extends Heap with the task table: `create_task` and `destroy_task`, split at their calls of the allocator
(`TakeSlot`, `AllocStack`, `AllocTaskHeap`, `GiveStackBack`; `DestroyTask`, `FreeStack`, `FreeTaskHeap`), with ids made of slot and
generation. Calls come in any order, with any id that is or was in use. Kernel has the scheduling of tasks and identifies
them with slots; Tasks has their memory and names. `add_task_to_schedule` cannot fail in `spawn_task`, since the queue holds
created tasks only, and `task_exists` stays TRUE of a destroyed task (`task.c:122`), which no caller minds.

**LineEditor** is `user_entry` on the terminal of Screen: a key starts a sequence of characters (`Backspace`, `Insert`,
`Newline`, `PrintLine`) that `Send` gives to the terminal one by one. `n_buf` is a number modulo `SizeMod`. A key is whatever
the terminal delivers: it cuts characters down to a byte (`term_drawer.cpp:92-93`), so that NUL, CR and ESC may come as well (`Keys`).
The wheel is not here, for it moves nothing while the buffer has no more rows than the screen, as is so until the line ends; Console
has the scrolling. Left out: the branch in which malloc fails, which prints a message and exits.

**Pipeline** has one step per clock edge. Its operators are the wires (hazard unit, forwarding unit, branch, trap and wfi
logic); `Clock` gives every register its next value. **Isa** executes one instruction or takes one trap per step; the
refinement mapping takes as architectural program counter that of the oldest instruction not yet past MEM, and as registers
the register file with the write of WB done. Two choices are free at every edge: whether an interrupt is pending, and
what `cu.sv` leaves on a register address that it does not assign for an opcode (the value of an earlier instruction). The
mode is a register like the others: `Decoded` is the check of `cu` in ID, `CsrIllegal` and `AccessFault` are those of `csr_file` and
`lsu` in MEM, `NextPriv` is trap entry and `mret`. UART and CLINT together are one counter of the accesses they have answered.

**Clint** has the timer and the software that drives it, one clock cycle per step, each with at most one load or store of
a half word. `GetTimeHigh` to `GetTimeReturns` are the loop of `get_time`, `SetTimecmpHigh` and `SetTimecmpLow` the two
stores of `set_timecmp`, and `TimerInterrupt` to `GetTimecmpLow` the tick in `trap_handler`. Any number of other cycles
comes in between (`Compute`), and a reset may come at any moment.

**Screen** is what a character does to the terminal: parser, cursor, rows and viewport as operators on a record of the
terminal's fields; each case of `per_tick_update` is one operator. **Console** puts it together with the UART, the
software that stores and loads (`Putc`, `Getc`), and the user (`EnqueueChar`, `Scroll`, `Reset`); a step is a tick of the
simulation, clock edge first and terminal second, as in `TimeController::tick_update`.

**Simulation** is the frame loop. A frame goes through the phases time, ticks, dump, render and panels. The time phase is
`TimeController::update` by its returns: `ResetFrame`, `PausedFrame`, `StepFrame`, `AutoFrame` with its loop of `Tick`; `StartDump` and
`KeepDump` are `DumpController::update`; `RenderInspector` is the memory inspector; the user's clicks come at the end. The trace
file of `VerilatedContainer` is `Started`, `Update` and `Closed`. `Quit` closes the window before the update of a frame, and
`TickThrows` is an exception of the terminal, which ends the program without `finish` and closes the file in the destructor.
`m_is_dumping` has either value at the start. `ran` and `ticked` are history variables for the properties.

The **MC** modules give constants their values; their definitions are the programs, alphabets and priorities.

## Runs

| Run | Module, config | Shows |
|---|---|---|
| `kernel_boot` | MCKernelBoot | the two tasks of `kernel_main` and the control flow of `user_entry`: types, no panic, no READY task dropped, refinement of `Processes`, and progress of every task once the timer is enabled |
| `kernel_pool` | MCKernelPool | four tasks with arbitrary programs, the idle one below three equal ones: one running task, quantum never 0, blocked tasks can be woken, no READY task is dropped and those that wait stand in order of priority although stale links arise, round-robin among equals, giving way, refinement |
| `heap` | MCHeap | all sequences of requests, frees and double frees: the blocks tile the heap, exact accounting, disjoint pointers, double frees are caught unless a client may have written over the header, NULL only when nothing fits, refinement of `Allocator` |
| `tasks` | MCTasks | every order of spawns, exits and calls with stale ids, on a heap that is too small for all tasks: memory follows tasks, also when the second allocation fails; no double free; an id names one task until the generations come round |
| `pipeline` | MCPipeline | kernel code in machine mode and tasks in user mode that try what they may not, with every handler of the instance and an interrupt possible at every edge: refinement of `Isa`, confinement of user mode, no lock-up |
| `clint` | MCClint | times read lie between call and return, deadlines are exactly `TICK_LENGTH` apart however late they are served, no tick is early |
| `console` | MCConsole | every stream of characters and cursor sequences, with typing, scrolling and resets in between: rows stay in range, scrollback is immutable, output is visible, keys arrive in order |
| `line_editor` | MCLineEditor | every sequence of keys, those that move the cursor and NUL included: the row shows the line as long as no key in it moves the cursor, the line is printed up to the first NUL typed, nothing is written outside the buffer unless a backspace came on an empty line |
| `simulation` | MCSimulation | every sequence of frames and clicks: the dump flag follows the file, a trace is whole and ends, a step is made, no paused time is caught up, the inspector stays inside |
| `kernel_ranks`, `pipeline_mu`, `console_erase` | | violations, see below |

`kernel_pool`, `heap` and `line_editor` may stop: every task may have exited or faulted, the kernel has panicked on a double free, the line
has been printed; only these configurations switch the deadlock check off. The temporal properties of the kernel, the
pipeline and the simulation are checked under the fairness below; all other properties need none.

## What the runs found

- `kernel_ranks`: `push_ready_task` in front of the head does not set the old head's `prev` (`scheduler.c:36-39`). With
  tasks of three rising priorities a READY task becomes unreachable from `qready_head`. The shipped kernel has two tasks
  and does not meet it, which `kernel_boot` checks and `TwoRanksAreQueued` proves; tasks of one priority do not either
  (`WaitingAreQueued`, `QueueSound`), nor do three of one priority above the idle one (`kernel_pool`): there links go stale, so
  that `QueueIsAList` would not hold, but the tasks that wait stay reachable and in order. Priorities 0, 0, 1 or 1, 0, 0 of
  three tasks lose one as the rising ones do. The two tasks get by only because the idle one ranks lower, see Proofs.
- `pipeline_mu`: a multiplication that an interrupt flushes leaves the multiplier busy, and the lock it causes meets a
  load-use stall or a branch at the start of the handler: an instruction is lost.
- `console_erase`: `ESC [ J` uses rows that the buffer does not have yet; the exception ends the simulation. The same
  loops assign through a reference instead of rebinding it, so that they blank the active row only.

What the models show besides, where nothing in the repository says otherwise; the properties and instances name it:

- `start_schedule` leaves `mie` at 0, so the first task is not preempted until it first traps into `schedule`; a task that
  never does keeps the processor for ever. `FairOnceTicking` has this as its premise.
- Sizes close to 2^32 wrap in `alloc_heap` (`heap.c:84`), which then returns a block smaller than requested; no caller asks for
  them, and the heap run does not.
- `free_heap` takes the bytes in front of the pointer for a header. After `p1 = malloc(0)`, `p2 = malloc(16)`, `free(p1)`, `free(p2)`,
  `p = malloc(16)`, the header of `p2` lies in the memory of `p`; if its owner has written there, `free(p2)` is caught or not according
  to what was written (`heap.c:105`), also after `free(p)`. `DoubleFreeIsCaught` excepts this case and no other.
- The order of the two stores of `set_timecmp` cannot be observed: both callers run with interrupts disabled. The wrong value
  between them would be seen by a caller that does not.
- The core wakes only if MEM holds a valid instruction while it sleeps. With a multiplication right behind the `wfi` it
  holds a bubble and the core sleeps for ever; with a `wfi` in machine mode right in front of an `mret`, it enters user mode
  asleep (hence `sleep' => sleep` in `UserIsConfined`).
- A load from a device in user mode is refused, but the device has answered it (`lsu.sv:115`): a task that loads from RXDATA
  takes a key away. `UserIsConfined` excepts loads from what it says of devices. The same load with interrupts enabled may be
  answered twice, once before and once after the interrupt; the kernel does it with interrupts off.
- A backspace on an empty line makes `n_buf` wrap (`entry.c:24`): further keys are dropped, and the newline writes its `'\0'` in
  front of the buffer. `PrintsTheLine` and `StraysOnlyAfterUnderflow` hold up to there. After a tabulator or a
  carriage return the screen and the line disagree, since a backspace moves the cursor by one column; an escape swallows the prompt
  behind it; and a NUL in the line ends what is printed of it. `RowShowsTheLine` and `PrintsTheLine` say so.
- Once the row buffer is full, the terminal no longer scrolls and overwrites its last row (`term_controller.cpp:300-304`). A
  reset leaves the parser in the middle of an escape sequence.
- A frame that only resets does not count as paused: it keeps `m_prev_time`, so the time since then is run when automatic mode
  goes on at once. A step that is pending when automatic mode begins is made when it ends. A dump of length 0 has one
  sample. The uninitialised `m_is_dumping` does no harm: the first update repairs it before anything shows it.

The pipeline run is restricted to what the shipped firmware does, and says so in MCPipeline: behind a `wfi` comes an ALU
instruction, a branch or a jump; handlers begin with a `csrrw` or a store; no multiplication follows an `mret`; devices are
read by handlers.

## Bounds

- Kernel: 2 tasks, 3 to show the defect of the queue, and 4 in `kernel_pool`: three that take turns give the queue a head,
  a middle and a tail, so that one can be overtaken while two alternate, and the idle one stands behind them. `Quantum` is 1
  or 2 ticks: only whether the slice has ended matters, and with the priority bonus there are ticks that do not end it.
  `MaxWord` is 9, far above any slice, so that a wrap is recognised. Two different characters tell a lost one from a doubled
  one.
- Heap: seven headers' worth of memory, in which up to three blocks lie side by side, the fewest for merges on both
  sides; sizes 0, one unit and one more than one unit are those around every rounding and split. Words have 16 bits.
- Tasks: three slots, and a heap of 192 bytes in which the stack of a third task fits but not its heap, so that the second
  allocation fails. The shipped heap of 32 KiB has room for all eight tasks. Generations come round after 4, so that
  both sides of the premise of `IdsNameOneTask` occur; one id at a time is followed, chosen freely.
- Pipeline: addresses and values modulo 7, so that a program has three user instructions, three of the handler and
  one behind it; five stages hold no more than that, wrong-path fetches included. A multiplication takes 4 cycles: longer than
  the distance from EX to the end of the pipeline, so that it outlasts whatever is in front of it, and a flush. Three registers, one of
  them x0, allow every combination of equal and different operands. In machine mode all bodies of two instructions are
  tried with every handler, followed by a third instruction; in user mode every privileged instruction is tried in front
  of and behind the unprivileged ones.
- Clint: words of 5 values and deadlines 3 apart, so that deadlines fall on every low half and the carry comes between any
  two accesses; time ends at 17, after three carries and five deadlines, and behaviours end there (except for a reset). A
  prescaler of 1 gives ticks that come at two different phases of an access.
- Console: a screen of 2 x 2 with one row of scrollback distinguishes the first, the last and a scrolled row and column; one number
  per sequence has one digit, 0 (which wraps in `H`), 2 (beyond every edge) or absent, and an optional second one. `TabWidth` is 1, so that a tab both moves and
  wraps. Two keys at a time: one in the register and one behind it.
- LineEditor: a buffer of 4, so that lines of 0 to 3 characters and full buffers occur, on a row of 5 columns and a screen
  of 2 rows without scrollback; tab stops every 4 columns, as in the code. One printable key, the blank, the underscore,
  NUL, TAB, CR and ESC are all the keys that the buffer or the screen tells apart. Two backspaces on an empty line show the
  wrap.
- Simulation: at most 2 ticks per frame; periods of 1 and 4 and frames of 1 and 3 units of time make frames that owe no tick,
  one, and more than may be run; real time above `MaxDebt` = 6 is not told apart. Dumps of 0 and 3 samples, the second of
  which ends in the middle of a tick. Two memories of 3 and 4 rows with a table of 2 rows of 4 bytes.

## Fairness

- Kernel: the boot code runs on; an interrupt that stays pending and enabled is taken (both are level signals that only
  the handler clears); and a task that is current again and again executes instructions (strong fairness of
  `current_slot = s /\ Run`), because a tick is 10 * 101 clock cycles (`clint.h:6`, `clint.sv:76-81`), far longer
  than a handler and a switch. Nothing is assumed of the arrival of characters.
- Pipeline: the clock runs, and an interrupt that could be taken again and again is taken (the CLINT holds its level until
  `mtimecmp` is moved on, `clint.sv:39`).
- Simulation: nothing in `SdlWindow::run` waits for the user, so frames go on being drawn (weak fairness of `Frame`). Nothing
  is assumed of what the user does.
- Heap, Tasks, Clint, Console and LineEditor are checked for safety only and state no fairness.

## Proofs

All theorems hold for every value of the constants, under the named assumptions of the modules, which TLC evaluates in
every run. Those that need more have it as a hypothesis, which the table names.

| Module | Theorem | Says |
|---|---|---|
| KernelProof | `InductiveInvariant` | `IInv` holds in every reachable state |
| | `OneRunning` | `AtMostOneRunning` |
| | `CurrentRuns` | `CurrentTaskRuns`: the current task is the running one, with ticks left, on its own stack |
| | `BlockedWaits` | `BlockedCanBeWoken`: blocked exactly while waiting, and every interrupt waited for is enabled |
| | `QueueInvariant`, `TypesCorrect` | `TypeOK`: all types, the ready queue and the task count included |
| | `Refinement` | `ImplementsProcesses`, for any tasks, priorities, programs and timing of interrupts |
| | `FifoInvariant`, `QueueSound`, `WaitingAreQueued` | if `EqualRanks`: `QueueIsAList` and `ReadyTasksAreQueued` |
| | `YieldsGiveWay`, `LongestWaitFirst` | if `EqualRanks`: `GivesWay` and `RoundRobin` |
| | `TwoRanksAreQueued`, `TwoRanksGiveWay` | if `TwoRanks`: `ReadyTasksAreQueued` and `GivesWay` |
| | `OnlyFaultsStop` | if `IdleTask`, and `EqualRanks` or `IdleRanksLower`: `OnlyFaultsStopTheKernel` |
| HeapProof | `InductiveInvariant` | if `NoWrap`: the blocks tile the heap, the counter and the clients' pointers agree with them |
| | `HeapIsTiled`, `CounterIsExact`, `PointersStayGood` | `BlocksTileTheHeap`, `TotalIsExact`, `LivePointersAreBlocks` |
| | `DoubleFreePanics`, `FailsOnlyWhenFull` | `DoubleFreeIsCaught`, with its exception of headers written over, and `NullOnlyWhenFull` |
| | `Refinement` | `ImplementsAllocator` |
| TasksProof | `TasksInductiveInvariant` | the memory, the calls and the ids of tasks agree |
| | `NothingFreedTwice`, `NoMemoryIsLost`, `IdsAreUnique` | `NoDoubleFree`, `MemoryFollowsTasks`, `IdsNameOneTask` |
| PipelineProof | `InductiveInvariant` | types of all registers, `ModeInv` and `SlotInv` |
| | `Confined` | `UserIsConfined`, for any program, handler, multiplier latency and timing of interrupts |
| | `FlowInvariant`, `Refinement` | if always `FollowsRules`: the contents of the stages fit together, and `ImplementsIsa` |
| | `CodeRefinement` | if `KeepsRules` of every program: `ImplementsIsa` |
| ClintProof | `InductiveInvariant` | what is half read or half written agrees with the clock |
| | `TimeWasRead`, `DeadlinesDoNotDrift`, `TicksAreDue` | `ReadsATimeThatWas`, `TicksDoNotDrift`, `NoTickIsEarly`, for words of any width |
| ConsoleProof | `InOrder` | `KeysInOrder`, for any number of keys and whatever is printed |
| | `ScreenInvariant`, `NothingIsThrown`, `HistoryIsKept` | if `EraseFree`: `NeverOutOfRange` and `ScrollbackKept`, for screens of any size |
| | `OutputIsShown` | if `EraseFree` and the screen has more than one row: `WrittenIsShown` |
| LineEditorProof | `StaysInBuffer`, `LineIsPrinted` | `StraysOnlyAfterUnderflow` and `PrintsTheLine`, for any keys and any buffer that fits in a row with the prompt |
| | `RowInvariant`, `LineIsShown` | `RowShowsTheLine` |
| SimulationProof | `NeverCatchesUp` | `NoCatchUp`, for any clock periods and frame times |
| | `FlagAgrees`, `DumpsAreWhole` | `DumpFlagAgrees` and `TraceIsWhole`, for dumps of any length |
| | `InspectorSafe` | `InspectorStaysInside`, for memories of any number of whole rows |

The hypotheses:

- `EqualRanks`: all tasks have one priority. For three tasks of different ones the theorems about the queue are false, see
  `kernel_ranks`.
- `TwoRanks`: there are two tasks and their priorities differ. `IdleRanksLower`: moreover, slot 0 has the lower one. This is
  what `kernel_main` spawns: `idle` with 0 and `user_entry` with 50.
- `IdleTask`: the program of slot 0 stays among instructions that compute, make system calls that return, or yield, as
  the idle loop of `kernel_main` does. Without such a task all may be blocked or gone, and `schedule` panics as intended.
- `FollowsRules`, of the instruction that the program is at: in machine mode no `mu` comes behind an `mret`, and behind a `wfi` comes an
  instruction that may be held in MEM (and no `mu` behind that one, unless it jumps away); a device is read in machine mode with
  interrupts off; and if the program multiplies, the handler does not begin with a `mu`, branch, jump or load. The firmware keeps to
  this (see the restrictions of run `pipeline` above), and tasks need not: what they try in user mode traps. `pipeline_mu` shows
  what the last rule is for; the others keep a multiplication from starting without being waited for, a device from being read
  twice, and the core from acting again on what it holds in MEM or from sleeping for good. `KeepsRules` says the same of all the code, executed or not.
- `NoWrap`: every request leaves room for a header and one more block below `Word`, which is 2^32. Without it `heap.c:84` wraps.
  Tasks does not need it: its two requests fit in the heap (`TasksAssumption`).
- `EraseFree`: the software sends no `J`, which throws (`console_erase`). No program in the repository does.
- A screen of one row cannot show the last character of a full line: it has scrolled by then.

**Kernel.** None of the first three properties is inductive by itself. "One task is RUNNING" needs that it is the current one (else
`schedule` would demote the wrong task), which before `start_schedule` is that none is (`BootInv`). "Ticks left" needs that
every dispatch refills or keeps a slice that is not 0, which depends on the queued tasks of `BootInv`. "On its own stack"
needs that every saved context is on the stack of its own slot (`StackInv`). The relation of states, masks and `mie`
(`BlockedInv`) must hold also while the kernel is stopped. `IInv` is the conjunction of these parts with `TypeInv`. The proof
has one lemma for a task switch (`schedule` in all its cases), one for a step that leaves states and masks alone, one for
waking, and a step for each action. It uses nothing about the links of the ready queue: `schedule` tests the state of the
task that it finds, so these properties survive even the defect of `kernel_ranks`.

That the kernel implements Processes does not depend on the queue either, once the tasks run: a switch saves the context of
the task that stops and loads the one that was saved for the task it found, so the mapped registers of all tasks stay
(`SwitchRegisters`). Only the boot needs that `kernel_main`'s pushes succeed, which `QueueInv` says: the queue is a list with the
entries of the slots spawned so far.

A queue is described by a function `c` from positions to entries: `Lists` says that `next` leads from each to the one behind it,
that `head` is the first and that no entry comes twice, and `Backs` that `prev` leads back. `PushList` and `RemoveList` say what
`push_ready_task` and `remove_ready_task` do to `c`, with the loops of the code as computations whose states are known one by one
(`Iterates`). `FifoInv` says that some `c` holds exactly the READY tasks. A switch appends the woken tasks and perhaps the current
one to `c`, then takes the head off (`SwitchFifo`): order, completeness, round-robin and giving way follow from that rotation.

Two tasks of different priorities, as shipped, do lose links. When the higher one `b` is pushed ahead of the lower one `a`, `a`
gets no link back; taken out later it is believed to be the head and stays linked from `b`; the next search for the place of `a`
follows that link and links `a` to itself. `TwoInv` says how far this goes: a link that should not be there leads to `a`, no entry
outside the queue has one, and the queue has one of three shapes, with none, one or both of the tasks (`Shape`). `PushShape`, `RemoveShape` and
`NextShape` go through them. One case remains in which `schedule` is led astray: `b` is alone, keeps a stale link to `a`, which is blocked, and
steps over itself. An idle task in slot `a` is never blocked, which is why `OnlyFaultsStop` asks that the idle task rank lower; TLC
finds the panic if it ranks higher.

**Heap.** `IInv` has the set `B` of the addresses where blocks begin. They tile the heap, and what a merged block left in memory
is not in `B`. No header in `B` is soiled (`Clean`), since a client's bytes end before the next block: so `free_heap` never
misjudges a block in use, and what it may be wrong about is a pointer freed before. After such a free nothing is claimed: the
model has stopped there. A split adds an address, a merge takes one away; each has a lemma about links alone (`Cut`, `Absorbs`),
and what `Malloc` and `Free` do is one or two of these. The properties speak of the chain of `next` links and of sums over it,
so it is shown that the chain visits exactly `B` (`WalkExists`), and that a sum changes by what one block changes
(`SumIsChosen`).

**Tasks.** The invariant says who owns each block in use: the stack or the heap of a created task, or the stack of one under creation or
destruction, all different (`MemInv`). The allocator's own steps come from HeapProof. For ids, `KnownInv` follows one id through
the generations: it stays in its slot, and its generation comes back only after `GenMod` spawns.

**Pipeline.** That user mode is confined depends on the stages behind the one that acts. `csr_file` and `lsu` look at the mode when
the instruction is in MEM, but `cu` does so when it is in ID, up to two instructions earlier. `ModeInv` says that no `mret` or `wfi` is
in EX or MEM in user mode; it is preserved because the `mret` that lowers the mode flushes both, and a stalled stage keeps
what it has. `SlotInv` says that what is not valid is a `nop`: `lsu` refuses only valid accesses, so a bubble must not look like one. The
types are needed because `Decoded` is applied to whatever ID holds.

That the pipeline implements `Isa` follows from what the stages hold (`FlowInv`). `CodeInv`: the instruction of its address, decoded for the
present mode. `PathInv`: each stage the successor of the one in front, so that the architectural pc moves from an instruction
to its successor when MEM is emptied (`MovesPc`). `OperandInv`: EX has read the register file, which is two writes behind, and
forwarding gives it the rest (`ForwardIsNew`), so that what is in MEM has the values its predecessors leave. `MuInv`: a multiplier
that is busy works for the instruction in EX, whose forwarded operands it has latched, or for nobody, after a trap; then nothing has been
executed since, and the first instruction of the handler is only held up (`LockHolds`). `SleepInv` and `FullInv` are about `wfi`, which lets its
successor into MEM and holds it there. A step is one of three: a trap or an `mret`, which empty the stages; a
sleeping one, which changes nothing that a program sees; or a move, in which MEM completes its instruction (`MoveIsOrdinary`)
or was empty (`EmptyIsStutter`).

**Clint.** The invariant says of what times the halves come that `get_time` has loaded so far, each read no earlier than the one
before (`GetTimeInv`), and that `mtimecmp` is the deadline or, while it is being written, has the high half of the
new one already or is the previous one still, which has passed (`DeadlineInv`).

**Simulation.** `NoCatchUp` needs that ticks run in automatic mode only, and that `ran` is never above `MaxDebt`, where both it
and the time owed stop. `DumpFlagAgrees` holds when the panels are drawn; between a tick and the update of the dump controller
only half of it does, that an open file is known, and that is what the proof carries. `TraceIsWhole` needs besides that an open file
that has samples has more to come. For the inspector the offset is a
multiple of a row and not above the last one at which the table fits; the rest is arithmetic of multiples.

**Console.** The queue and the register hold the keys behind the last one read, element by element (`Holds`), which
each of the two halves of a tick preserves. The screen is `Sound` if, with the viewport brought back to the newest rows, the row
under the cursor is in the buffer: the user may have scrolled when a character comes, but the first thing that does is bring
the viewport back. Each operator of Screen has a lemma that says that it keeps this, and that the rows that there are stay
(`Extends`) but for the one that is written. That the numbers in a sequence are numbers is again a computation known step by
step (`ParseUintIsNat`).

**LineEditor.** The editor's buffer agrees with the line at every index, and `Terminate` writes a `'\0'` behind it, so that the
first `'\0'` is that one or the first that was typed. The row is followed from character to character (`Echo`): what is still to be sent
determines what is drawn already. After a backspace on an empty line `n_buf` is so large that nothing is inserted any more, and the
line stays empty, so the row goes on showing it.

Induction: the library's induction theorems take operators, which the provers cannot instantiate. Where a proof needs
induction it takes the least element of a set of counterexamples (`LeastNat`, from well-foundedness of `<`).

Only model-checked: the liveness properties `FairOnceTicking`, `KeepsExecuting`, `StepIsMade`
and `DumpEnds`, which the prover's temporal logic does not reach; and `QueueIsOrdered`, `RoundRobin` and `GivesWay` for tasks
of which some are equal and some are not, the instance of `kernel_pool`.

## Not modelled

- Start-up code, the linker script and `cstr.c`: straight-line code that runs once. The top level is wiring.
- Spawning while the tasks run: `spawn_task` is called by `kernel_main` only, so Kernel spawns at boot, and Tasks, where spawns
  come at any time, leaves scheduling out.
- Exception causes and `mtval`, the address map, widths and alignment of loads and stores, and instruction encodings: the
  pipeline model has one representative of each way through the stages. The arithmetic is left to the unit testbenches.
  The bits of `mie` and `mip` are one interrupt wire. The multiplier has one latency, its results are an abstract function.
- Writes to `msip` and `mtime`, which no software makes.
- Glyphs and colours of the terminal: a cell is blank, marked or an underscore. The terminal truncates characters
  from 0x100 on (`term_drawer.cpp:92-93`); LineEditor has the bytes this may give, while Console numbers its keys and looks at
  their order only.
- The ELF loader, the views and the other drawers: they read files once, or draw values of the simulation and keep no state
  that anything else depends on. The unit testbenches test single units.

## Plan

1. Done: ready queue, kernel, heap, task table, pipeline with modes, timer, console, line editor, simulation loop; their runs;
   the proofs above.
2. Revision: deeper properties in place of shallow ones, tighter bounds, and the review of the map against the code.
