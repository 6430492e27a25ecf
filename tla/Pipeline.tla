------------------------------ MODULE Pipeline ------------------------------
(***************************************************************************)
(* The five stages of src/rtl/cpu/processor_core.sv with the units that      *)
(* steer them: hazard_unit.sv, fwd_unit.sv, the pipeline registers, the      *)
(* multiplier's handshake (mu.sv), traps (exception_dispatch.sv,              *)
(* interrupt_dispatch.sv, csr_file.sv, trap_control.sv) and wfi.sv.          *)
(*                                                                          *)
(* One step is one rising clock edge.  The operators below are the wires:     *)
(* functions of the registers before the edge; Clock gives every register its *)
(* value after it.  The instructions are those of module Isa.               *)
(***************************************************************************)
EXTENDS Integers

CONSTANTS
  Modulus,     \* of addresses and values
  Mtvec,       \* where traps go
  MuLatency,   \* MU_MUL_LATENCY
  Starts       \* programs, each with the mode that it is started in

VARIABLES
  pc,     \* o_addr of inst_fetch
  id,     \* IF/ID: [valid, pc, inst]
  ex,     \* ID/EX: [valid, pc, inst, a, b]
  mm,     \* EX/MEM: [valid, pc, inst, a, b, out]
  wb,     \* MEM/WB: [valid, inst, val]
  rf,     \* register_file
  mem,    \* data_mem
  dev,    \* how many loads and stores the UART and the CLINT have answered
  csr,    \* mscratch and mepc
  mie, mpie, mpp,   \* the fields of mstatus
  priv,   \* o_priv_mode
  mu,     \* [busy, timer, a, b]
  sleep,
  prog

vars == <<pc, id, ex, mm, wb, rf, mem, dev, csr, mie, mpie, mpp, priv, mu, sleep, prog>>

I == INSTANCE Isa WITH reg <- rf   \* for its constants and the operations

Nop     == [op |-> "nop", rd |-> 0, rs1 |-> 0, rs2 |-> 0, to |-> 0, csr |-> "mscratch"]
IdNone  == [valid |-> FALSE, pc |-> 0, inst |-> Nop]
ExNone  == [valid |-> FALSE, pc |-> 0, inst |-> Nop, a |-> 0, b |-> 0]
MmNone  == [valid |-> FALSE, pc |-> 0, inst |-> Nop, a |-> 0, b |-> 0, out |-> 0]
WbNone  == [valid |-> FALSE, inst |-> Nop, val |-> 0]

ASSUME PipelineAssumption == /\ Modulus \in Nat \ {0} /\ Mtvec \in I!Val
                             /\ MuLatency \in Nat \ {0}
                             /\ \A s \in Starts : /\ s.code \in [I!Val -> I!Inst]
                                                 /\ s.mode \in {"U", "M"}

-----------------------------------------------------------------------------
(* Register file: WB writes, ID reads, a read sees the write of its cycle.   *)
WbWrites(r) == wb.valid /\ I!WritesReg(wb.inst) /\ wb.inst.rd = r /\ r # 0

ReadReg(r) == IF r = 0 THEN 0 ELSE IF WbWrites(r) THEN wb.val ELSE rf[r]

(* MEM: mem_reg_wb, the value an instruction in MEM will write back.         *)
MemValue ==
  CASE mm.inst.op = "load"  -> mem
    [] mm.inst.op = "devload" -> dev
    [] mm.inst.op = "jal"   -> I!Plus1(mm.pc)
    [] mm.inst.op = "csrrw" -> csr[mm.inst.csr]
    [] OTHER                -> mm.out

(* fwd_unit: the operand r of the instruction in EX, read as v in ID.        *)
MutForwardAnyStage(r, v) ==
  IF I!WritesReg(mm.inst) /\ mm.inst.rd # 0 /\ mm.inst.rd = r THEN MemValue
  ELSE v

Forward(r, v) ==
  IF mm.valid /\ I!WritesReg(mm.inst) /\ mm.inst.rd # 0 /\ mm.inst.rd = r THEN MemValue
  ELSE IF WbWrites(r) THEN wb.val
  ELSE v

ExA == Forward(ex.inst.rs1, ex.a)
ExB == Forward(ex.inst.rs2, ex.b)

(* mu: it starts when EX holds one of its operations, whether or not that     *)
(* instruction is about to be flushed; the result uses the latched operands.  *)
MuStart == ~mu.busy /\ ex.inst.op = "mu"
MuDone  == mu.busy /\ mu.timer = 1
ExOut   == IF ex.inst.op = "mu" THEN I!MuOut(mu.a, mu.b) ELSE I!AluOut(ExA, ExB)

MuNext ==
  IF MuStart THEN [busy |-> TRUE, timer |-> MuLatency, a |-> ExA, b |-> ExB]
  ELSE IF mu.busy THEN [mu EXCEPT !.timer = @ - 1, !.busy = mu.timer # 1]
  ELSE mu

(* What user mode may not do is found in two places: cu decodes mret and wfi     *)
(* as illegal instructions in ID; csr_file and lsu refuse in MEM.               *)
MutDecoded(i) == IF priv = "U" /\ i.op = "mret" THEN [i EXCEPT !.op = "illegal"] ELSE i

Decoded(i) ==
  IF priv = "U" /\ i.op \in {"mret", "wfi"} THEN [i EXCEPT !.op = "illegal"] ELSE i

CsrIllegal  == mm.inst.op = "csrrw" /\ priv = "U"
AccessFault == mm.inst.op \in {"devload", "devstore"} /\ priv = "U"

(* Traps are taken by the instruction in MEM; exceptions go first.            *)
ExceptionReq      == /\ mm.valid
                     /\ mm.inst.op \in {"ecall", "illegal"} \/ CsrIllegal \/ AccessFault
InterruptReq(irq) == mm.valid /\ mie /\ irq
TrapReq(irq)      == ExceptionReq \/ InterruptReq(irq)
TrapMret          == mm.inst.op = "mret"

(* hazard_unit.  cu.sv leaves the source addresses that an instruction does     *)
(* not use unassigned, so that they keep those of an earlier one; stale says     *)
(* that one of them happens to match.                                        *)
ReadsTwo(i) == i.op \in {"alu", "mu", "store", "branch", "devstore"}

LoadUse(stale) ==
  /\ ex.inst.op \in {"load", "devload"} /\ ex.valid /\ ex.inst.rd # 0
  /\ \/ ex.inst.rd \in {id.inst.rs1, id.inst.rs2}
     \/ stale /\ ~ReadsTwo(id.inst)

LockEx     == ex.valid /\ (mu.busy \/ MuStart) /\ ~MuDone
TakeBranch == ex.valid /\ I!Taken(ex.inst, ExA, ExB)

Redirect(irq) == TrapReq(irq) \/ TrapMret

StallIfid(stale)      == LoadUse(stale) \/ LockEx \/ sleep
StallIdex             == LockEx \/ sleep
FlushIfid(irq)        == TakeBranch \/ Redirect(irq)
FlushIdex(irq, stale) == LoadUse(stale) \/ TakeBranch \/ Redirect(irq)
FlushExmem(irq)       == LockEx \/ Redirect(irq)

-----------------------------------------------------------------------------
(* The registers after the edge.                                            *)

NextPc(irq, stale) ==
  IF TrapReq(irq) THEN Mtvec
  ELSE IF TrapMret THEN csr.mepc
  ELSE IF TakeBranch THEN ex.inst.to
  ELSE IF StallIfid(stale) THEN pc
  ELSE I!Plus1(pc)

\* what each stage hands to the register behind it
IfData       == [valid |-> TRUE, pc |-> pc, inst |-> prog[pc]]
IdData       == [valid |-> id.valid, pc |-> id.pc, inst |-> Decoded(id.inst),
                 a |-> ReadReg(id.inst.rs1), b |-> ReadReg(id.inst.rs2)]
ExData       == [valid |-> ex.valid, pc |-> ex.pc, inst |-> ex.inst,
                 a |-> ExA, b |-> ExB, out |-> ExOut]
MemData(irq) == [valid |-> mm.valid /\ ~TrapReq(irq), inst |-> mm.inst, val |-> MemValue]

NextId(irq, stale) ==
  IF FlushIfid(irq) THEN IdNone ELSE IF StallIfid(stale) THEN id ELSE IfData

NextEx(irq, stale) ==
  IF FlushIdex(irq, stale) THEN ExNone ELSE IF StallIdex THEN ex ELSE IdData

NextMm(irq) ==
  IF FlushExmem(irq) THEN MmNone ELSE IF sleep THEN mm ELSE ExData

NextWb(irq) == IF sleep THEN WbNone ELSE MemData(irq)

NextCsr(irq) ==
  IF TrapReq(irq) THEN [csr EXCEPT !.mepc = mm.pc]
  ELSE IF mm.inst.op = "csrrw" /\ mm.valid THEN [csr EXCEPT ![mm.inst.csr] = mm.a]
  ELSE csr

(* A device sees a store unless there is a trap, and a load in any case, as long  *)
(* as the instruction is in MEM.                                             *)
NextDev(irq) ==
  IF mm.inst.op = "devload" \/ (mm.inst.op = "devstore" /\ ~TrapReq(irq))
  THEN I!Plus1(dev) ELSE dev

MutNextSleepKept(irq) == sleep \/ (mm.inst.op = "wfi" /\ ~TrapReq(irq))

NextSleep(irq) ==
  IF sleep THEN ~InterruptReq(irq) ELSE mm.inst.op = "wfi" /\ ~TrapReq(irq)

NextPriv(irq) == IF TrapReq(irq) THEN "M" ELSE IF TrapMret THEN mpp ELSE priv

Clock(irq, stale) ==
  /\ pc'    = NextPc(irq, stale)
  /\ id'    = NextId(irq, stale)
  /\ ex'    = NextEx(irq, stale)
  /\ mm'    = NextMm(irq)
  /\ wb'    = NextWb(irq)
  /\ rf'    = [r \in I!Reg |-> IF WbWrites(r) THEN wb.val ELSE rf[r]]
  /\ mem'   = IF mm.inst.op = "store" /\ mm.valid /\ ~TrapReq(irq) THEN mm.b ELSE mem
  /\ dev'   = NextDev(irq)
  /\ csr'   = NextCsr(irq)
  /\ mie'   = IF TrapReq(irq) THEN FALSE ELSE IF TrapMret THEN mpie ELSE mie
  /\ mpie'  = IF TrapReq(irq) THEN mie ELSE IF TrapMret THEN TRUE ELSE mpie
  /\ mpp'   = IF TrapReq(irq) THEN priv ELSE IF TrapMret THEN "U" ELSE mpp
  /\ priv'  = NextPriv(irq)
  /\ mu'    = MuNext
  /\ sleep' = NextSleep(irq)
  /\ UNCHANGED prog

\* Reset, with mstatus.MIE set and the mode as they are while tasks run.
Init ==
  /\ pc = 0 /\ id = IdNone /\ ex = ExNone /\ mm = MmNone /\ wb = WbNone
  /\ rf = [r \in I!Reg |-> 0] /\ mem = 0
  /\ csr = [mscratch |-> 0, mepc |-> 0]
  /\ dev = 0
  /\ mie = TRUE /\ mpie = TRUE
  /\ mpp = "U"
  /\ mu = [busy |-> FALSE, timer |-> 0, a |-> 0, b |-> 0]
  /\ sleep = FALSE
  /\ \E s \in Starts : prog = s.code /\ priv = s.mode

Next == \E irq, stale \in BOOLEAN : Clock(irq, stale)
Spec == Init /\ [][Next]_vars

(* The clock runs.  The CLINT raises its interrupt time and again and holds it   *)
(* until the handler has moved mtimecmp (clint.sv:39), so that an interrupt      *)
(* that can be taken over and over again is taken.                             *)
InterruptTaken == InterruptReq(TRUE) /\ \E stale \in BOOLEAN : Clock(TRUE, stale)
FairSpec == Spec /\ WF_vars(Next) /\ SF_vars(InterruptTaken)

-----------------------------------------------------------------------------
(* Properties.                                                              *)

(* What is still in flight has not happened yet: the program counter is that of *)
(* the oldest instruction that has not left MEM, and the registers are those of *)
(* the register file with the write of WB done.                               *)
ArchPc == IF mm.valid THEN mm.pc ELSE IF ex.valid THEN ex.pc
          ELSE IF id.valid THEN id.pc ELSE pc
ArchReg == [r \in I!Reg |-> IF WbWrites(r) THEN wb.val ELSE rf[r]]

A == INSTANCE Isa WITH pc <- ArchPc, reg <- ArchReg

(* Every edge completes one instruction or takes one trap, at an instruction   *)
(* boundary, or changes nothing that a program can see: no instruction is        *)
(* lost, repeated or reordered, or reads a value older than its predecessors',   *)
(* whatever is stalled, forwarded or flushed, and whenever an interrupt comes.   *)
ImplementsIsa == A!Spec

(* A task in user mode reaches nothing of the machine's: as long as it runs,      *)
(* the CSRs and the mode stay as they are, the core is not put to sleep, and the   *)
(* task leaves its mode only into the handler, with interrupts off and the         *)
(* instruction that was interrupted on record (cu.sv:230-241, csr_file.sv:121-130), *)
(* whatever is in flight behind or in front of that instruction.  Stores do not     *)
(* reach a device; a load does before it is refused (lsu.sv:45, 107-134).          *)
EntersHandler ==
  /\ priv' = "M" /\ mpp' = "U" /\ ~mie' /\ mpie' = mie /\ ArchPc' = Mtvec
  /\ csr' = [csr EXCEPT !.mepc = ArchPc]

UserIsConfined ==
  [][priv = "U" => /\ EntersHandler \/ UNCHANGED <<csr, mie, mpie, mpp, priv>>
                   /\ sleep' => sleep
                   /\ dev' # dev => mm.inst.op = "devload"]_vars

(* The stages never lock up: instructions go on completing, also after a wfi.     *)
KeepsExecuting == A!Progress
=============================================================================
