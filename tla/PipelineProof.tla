---------------------------- MODULE PipelineProof ----------------------------
(***************************************************************************)
(* Proofs about module Pipeline, for any programs, handlers, latency of the    *)
(* multiplier and size of addresses: user mode is confined, and the pipeline    *)
(* implements Isa as long as the software keeps to the rules below.            *)
(*                                                                          *)
(* The checks of csr_file and lsu are made in MEM, in the mode that holds when   *)
(* the instruction acts.  That of cu is made in ID, so the proof has to show     *)
(* that an instruction decoded in machine mode is never in EX or MEM when the    *)
(* mode has become user mode: whatever lowers it flushes them.  And an access   *)
(* is refused only if it is valid, so that bubbles must not look like one.      *)
(***************************************************************************)
EXTENDS Pipeline, TLAPS

Csrs == [mscratch : I!Val, mepc : I!Val]

TypeInv ==
  /\ pc \in I!Val
  /\ id \in [valid : BOOLEAN, pc : I!Val, inst : I!Inst]
  /\ ex \in [valid : BOOLEAN, pc : I!Val, inst : I!Inst, a : I!Val, b : I!Val]
  /\ mm \in [valid : BOOLEAN, pc : I!Val, inst : I!Inst, a : I!Val, b : I!Val, out : I!Val]
  /\ wb \in [valid : BOOLEAN, inst : I!Inst, val : I!Val]
  /\ rf \in [I!Reg -> I!Val]
  /\ mem \in I!Val /\ dev \in I!Val
  /\ csr \in Csrs
  /\ mie \in BOOLEAN /\ mpie \in BOOLEAN
  /\ mpp \in {"U", "M"} /\ priv \in {"U", "M"}
  /\ mu \in [busy : BOOLEAN, timer : Int, a : I!Val, b : I!Val]
  /\ sleep \in BOOLEAN
  /\ prog \in [I!Val -> I!Inst]

Decided == {"mret", "wfi"}   \* what cu decodes by the mode

ModeInv == priv = "U" => ex.inst.op \notin Decided /\ mm.inst.op \notin Decided

(* What is not valid is an empty slot, so that it reaches no device.           *)
SlotInv == \A s \in {id, ex, mm} : s.valid \/ s.inst.op = "nop"

IInv == TypeInv /\ ModeInv /\ SlotInv

-----------------------------------------------------------------------------
(* The operations of the instructions stay within the addresses.               *)
LEMMA Arithmetic ==
  /\ 0 \in I!Val
  /\ \A p \in I!Val : I!Plus1(p) \in I!Val
  /\ \A a, b \in I!Val : I!AluOut(a, b) \in I!Val /\ I!MuOut(a, b) \in I!Val
<1>1. Modulus \in Nat \ {0}
  BY PipelineAssumption
<1>2. \A n \in Nat : n % Modulus \in 0 .. Modulus - 1
  BY <1>1
<1>3. \A a, b \in I!Val : a + 1 \in Nat /\ a + b + 1 \in Nat /\ 2 * a + b \in Nat
  BY <1>1 DEF I!Val
<1>4. 0 \in I!Val
  BY <1>1 DEF I!Val
<1>5. QED
  BY <1>1, <1>2, <1>3, <1>4 DEF I!Val, I!Plus1, I!AluOut, I!MuOut

LEMMA Bubbles ==
  /\ Nop \in I!Inst
  /\ IdNone \in [valid : BOOLEAN, pc : I!Val, inst : I!Inst]
  /\ ExNone \in [valid : BOOLEAN, pc : I!Val, inst : I!Inst, a : I!Val, b : I!Val]
  /\ MmNone \in [valid : BOOLEAN, pc : I!Val, inst : I!Inst, a : I!Val, b : I!Val, out : I!Val]
  /\ WbNone \in [valid : BOOLEAN, inst : I!Inst, val : I!Val]
<1>1. Nop \in I!Inst
  BY Arithmetic DEF Nop, I!Inst, I!Reg
<1>2. QED
  BY <1>1, Arithmetic DEF IdNone, ExNone, MmNone, WbNone

(* The values on the wires of the data path.                                  *)
LEMMA WireTypes ==
  ASSUME TypeInv
  PROVE  /\ \A r \in I!Reg : ReadReg(r) \in I!Val
         /\ MemValue \in I!Val
         /\ ExA \in I!Val /\ ExB \in I!Val /\ ExOut \in I!Val
         /\ Decoded(id.inst) \in I!Inst
<1> USE DEF TypeInv
<1>1. \A r \in I!Reg : ReadReg(r) \in I!Val
  BY Arithmetic DEF ReadReg
<1>2. mm.inst.csr \in {"mscratch", "mepc"} /\ csr[mm.inst.csr] \in I!Val
  BY DEF I!Inst, Csrs
<1>3. MemValue \in I!Val
  BY <1>2, Arithmetic DEF MemValue
<1>4. \A r, v : v \in I!Val => Forward(r, v) \in I!Val
  BY <1>3 DEF Forward
<1>5. ExA \in I!Val /\ ExB \in I!Val
  BY <1>4 DEF ExA, ExB
<1>6. ExOut \in I!Val
  BY <1>5, Arithmetic DEF ExOut
<1>7. Decoded(id.inst) \in I!Inst
  BY DEF Decoded, I!Inst
<1>8. QED
  BY <1>1, <1>3, <1>5, <1>6, <1>7

-----------------------------------------------------------------------------
LEMMA InitInv == Init => IInv
<1> SUFFICES ASSUME Init PROVE IInv
  OBVIOUS
<1>1. PICK s \in Starts : prog = s.code /\ priv = s.mode
  BY DEF Init
<1>2. prog \in [I!Val -> I!Inst] /\ priv \in {"U", "M"}
  BY <1>1, PipelineAssumption
<1>3. rf \in [I!Reg -> I!Val] /\ csr \in Csrs
  BY Arithmetic DEF Init, Csrs
<1>4. mu \in [busy : BOOLEAN, timer : Int, a : I!Val, b : I!Val]
  BY Arithmetic DEF Init
<1>5. TypeInv
  BY <1>2, <1>3, <1>4, Arithmetic, Bubbles DEF Init, TypeInv
<1>6. ModeInv /\ SlotInv
  BY DEF Init, ModeInv, SlotInv, IdNone, ExNone, MmNone, Nop, Decided
<1>7. QED
  BY <1>5, <1>6 DEF IInv

LEMMA TypeStep ==
  ASSUME TypeInv, NEW irq \in BOOLEAN, NEW stale \in BOOLEAN, Clock(irq, stale)
  PROVE  TypeInv'
<1> USE DEF TypeInv
<1>1. pc' \in I!Val
  <2>1. pc' = NextPc(irq, stale)
    BY DEF Clock
  <2>2. ex.inst.to \in I!Val /\ csr.mepc \in I!Val /\ Mtvec \in I!Val /\ I!Plus1(pc) \in I!Val
    BY Arithmetic, PipelineAssumption DEF I!Inst, Csrs
  <2>3. QED
    BY <2>1, <2>2 DEF NextPc
<1>2. id' \in [valid : BOOLEAN, pc : I!Val, inst : I!Inst]
  <2>1. id' = NextId(irq, stale)
    BY DEF Clock
  <2>2. IfData \in [valid : BOOLEAN, pc : I!Val, inst : I!Inst]
    BY DEF IfData
  <2>3. QED
    BY <2>1, <2>2, Bubbles DEF NextId
<1>3. ex' \in [valid : BOOLEAN, pc : I!Val, inst : I!Inst, a : I!Val, b : I!Val]
  <2>1. ex' = NextEx(irq, stale)
    BY DEF Clock
  <2>2. id.inst.rs1 \in I!Reg /\ id.inst.rs2 \in I!Reg
    BY DEF I!Inst
  <2>3. IdData \in [valid : BOOLEAN, pc : I!Val, inst : I!Inst, a : I!Val, b : I!Val]
    BY <2>2, WireTypes DEF IdData
  <2>4. QED
    BY <2>1, <2>3, Bubbles DEF NextEx
<1>4. mm' \in [valid : BOOLEAN, pc : I!Val, inst : I!Inst, a : I!Val, b : I!Val, out : I!Val]
  <2>1. mm' = NextMm(irq)
    BY DEF Clock
  <2>2. ExData \in [valid : BOOLEAN, pc : I!Val, inst : I!Inst, a : I!Val, b : I!Val, out : I!Val]
    BY WireTypes DEF ExData
  <2>3. QED
    BY <2>1, <2>2, Bubbles DEF NextMm
<1>5. wb' \in [valid : BOOLEAN, inst : I!Inst, val : I!Val]
  <2>1. wb' = NextWb(irq)
    BY DEF Clock
  <2>2. (mm.valid /\ ~TrapReq(irq)) \in BOOLEAN
    OBVIOUS
  <2>3. MemData(irq) \in [valid : BOOLEAN, inst : I!Inst, val : I!Val]
    BY <2>2, WireTypes DEF MemData
  <2>4. QED
    BY <2>1, <2>3, Bubbles DEF NextWb
<1>6. rf' \in [I!Reg -> I!Val]
  BY DEF Clock
<1>7. mem' \in I!Val /\ dev' \in I!Val
  BY Arithmetic DEF Clock, NextDev
<1>8. csr' \in Csrs
  <2>1. csr' = NextCsr(irq)
    BY DEF Clock
  <2>2. mm.inst.csr \in {"mscratch", "mepc"}
    BY DEF I!Inst
  <2>3. \A c \in {"mscratch", "mepc"}, v \in I!Val : [csr EXCEPT ![c] = v] \in Csrs
    BY DEF Csrs
  <2>4. [csr EXCEPT !.mepc = mm.pc] \in Csrs
    BY DEF Csrs
  <2>5. QED
    BY <2>1, <2>2, <2>3, <2>4 DEF NextCsr
<1>9. /\ mie' \in BOOLEAN /\ mpie' \in BOOLEAN /\ sleep' \in BOOLEAN
      /\ mpp' \in {"U", "M"} /\ priv' \in {"U", "M"}
  BY DEF Clock, NextSleep, NextPriv, InterruptReq
<1>10. mu' \in [busy : BOOLEAN, timer : Int, a : I!Val, b : I!Val]
  <2>1. mu' = MuNext
    BY DEF Clock
  <2>2. MuLatency \in Int
    BY PipelineAssumption
  <2>3. (mu.timer # 1) \in BOOLEAN /\ mu.timer - 1 \in Int
    OBVIOUS
  <2>4. QED
    BY <2>1, <2>2, <2>3, WireTypes DEF MuNext
<1>11. prog' \in [I!Val -> I!Inst]
  BY DEF Clock
<1>12. QED
  BY <1>1, <1>2, <1>3, <1>4, <1>5, <1>6, <1>7, <1>8, <1>9, <1>10, <1>11

(* In user mode ID hands on no instruction that cu would have refused.          *)
LEMMA UserDecodes ==
  ASSUME TypeInv, priv = "U"
  PROVE  IdData.inst.op \notin Decided
  BY DEF TypeInv, IdData, Decoded, Decided, I!Inst

LEMMA BubblesAct == ExNone.inst.op \notin Decided /\ MmNone.inst.op \notin Decided
  BY DEF ExNone, MmNone, Nop, Decided

LEMMA ModeStep ==
  ASSUME IInv, NEW irq \in BOOLEAN, NEW stale \in BOOLEAN, Clock(irq, stale)
  PROVE  ModeInv'
<1> SUFFICES ASSUME priv' = "U" PROVE ex'.inst.op \notin Decided /\ mm'.inst.op \notin Decided
  BY DEF ModeInv
<1>1. ex' = NextEx(irq, stale) /\ mm' = NextMm(irq) /\ priv' = NextPriv(irq)
  BY DEF Clock
<1>2. ~TrapReq(irq)
  BY <1>1 DEF NextPriv
<1>3. CASE TrapMret
  <2>1. ex' = ExNone /\ mm' = MmNone
    BY <1>1, <1>3 DEF NextEx, NextMm, FlushIdex, FlushExmem, Redirect
  <2>2. QED
    BY <2>1, BubblesAct
<1>4. CASE ~TrapMret
  <2>1. priv = "U"
    BY <1>1, <1>2, <1>4 DEF NextPriv
  <2>2. ex.inst.op \notin Decided /\ mm.inst.op \notin Decided
    BY <2>1 DEF IInv, ModeInv
  <2>3. ex' \in {ExNone, ex, IdData}
    BY <1>1 DEF NextEx
  <2>4. mm' \in {MmNone, mm, ExData}
    BY <1>1 DEF NextMm
  <2>5. ExData.inst = ex.inst
    BY DEF ExData
  <2>6. IdData.inst.op \notin Decided
    BY <2>1, UserDecodes DEF IInv
  <2>7. QED
    BY <2>2, <2>3, <2>4, <2>5, <2>6, BubblesAct
<1>5. QED
  BY <1>3, <1>4

LEMMA SlotStep ==
  ASSUME IInv, NEW irq \in BOOLEAN, NEW stale \in BOOLEAN, Clock(irq, stale)
  PROVE  SlotInv'
<1> DEFINE Slot(s) == s.valid \/ s.inst.op = "nop"
<1>1. Slot(id) /\ Slot(ex) /\ Slot(mm)
  BY DEF IInv, SlotInv
<1>2. Slot(IdNone) /\ Slot(ExNone) /\ Slot(MmNone) /\ Slot(IfData) /\ Slot(ExData)
  BY <1>1 DEF IdNone, ExNone, MmNone, Nop, IfData, ExData
<1>3. Slot(IdData)
  BY <1>1 DEF IdData, Decoded
<1>4. id' \in {IdNone, id, IfData}
  BY DEF Clock, NextId
<1>5. ex' \in {ExNone, ex, IdData}
  BY DEF Clock, NextEx
<1>6. mm' \in {MmNone, mm, ExData}
  BY DEF Clock, NextMm
<1>7. Slot(id') /\ Slot(ex') /\ Slot(mm')
  BY <1>1, <1>2, <1>3, <1>4, <1>5, <1>6
<1>8. QED
  BY <1>7 DEF SlotInv

LEMMA InductiveStep == IInv /\ [Next]_vars => IInv'
<1> SUFFICES ASSUME IInv, [Next]_vars PROVE IInv'
  OBVIOUS
<1>1. CASE Next
  <2>1. PICK irq \in BOOLEAN, stale \in BOOLEAN : Clock(irq, stale)
    BY <1>1 DEF Next
  <2>2. QED
    BY <2>1, TypeStep, ModeStep, SlotStep DEF IInv
<1>2. CASE UNCHANGED vars
  BY <1>2 DEF IInv, TypeInv, ModeInv, SlotInv, vars
<1>3. QED
  BY <1>1, <1>2

-----------------------------------------------------------------------------
(* Every register keeps its type, and in user mode no mret or wfi is executed:    *)
(* cu.sv:229-242 with the flushes of hazard_unit.sv and priv_control.sv.          *)
THEOREM InductiveInvariant == Spec => []IInv
<1>1. QED
  BY InitInv, InductiveStep, PTL DEF Spec

(* A trap in user mode, seen from the program.                                 *)
LEMMA TrapEnters ==
  ASSUME IInv, NEW irq \in BOOLEAN, NEW stale \in BOOLEAN, Clock(irq, stale),
         priv = "U", TrapReq(irq)
  PROVE  EntersHandler
<1>1. mm.valid
  BY DEF TrapReq, ExceptionReq, InterruptReq
<1>2. csr' = [csr EXCEPT !.mepc = ArchPc]
  BY <1>1 DEF Clock, NextCsr, ArchPc
<1>3. ArchPc' = Mtvec
  <2>1. id' = IdNone /\ ex' = ExNone /\ mm' = MmNone /\ pc' = Mtvec
    BY DEF Clock, NextId, NextEx, NextMm, NextPc, FlushIfid, FlushIdex, FlushExmem, Redirect
  <2>2. QED
    BY <2>1 DEF ArchPc, IdNone, ExNone, MmNone
<1>4. priv' = "M" /\ mpp' = "U" /\ ~mie' /\ mpie' = mie
  BY DEF Clock, NextPriv
<1>5. QED
  BY <1>2, <1>3, <1>4 DEF EntersHandler

(* User mode is confined: property UserIsConfined for every program, handler and  *)
(* timing of interrupts.                                                     *)
THEOREM Confined == Spec => UserIsConfined
<1>1. ASSUME IInv, [Next]_vars, priv = "U", ~UNCHANGED vars
      PROVE  /\ EntersHandler \/ UNCHANGED <<csr, mie, mpie, mpp, priv>>
             /\ sleep' => sleep
             /\ dev' # dev => mm.inst.op = "devload"
  <2>1. PICK irq \in BOOLEAN, stale \in BOOLEAN : Clock(irq, stale)
    BY <1>1 DEF Next
  <2>2. mm.inst.op \notin Decided
    BY <1>1 DEF IInv, ModeInv
  <2>3. EntersHandler \/ UNCHANGED <<csr, mie, mpie, mpp, priv>>
    <3>1. CASE TrapReq(irq)
      BY <1>1, <2>1, <3>1, TrapEnters
    <3>2. CASE ~TrapReq(irq)
      <4>1. ~TrapMret
        BY <2>2 DEF TrapMret, Decided
      <4>2. ~(mm.inst.op = "csrrw" /\ mm.valid)
        BY <1>1, <3>2 DEF TrapReq, ExceptionReq, CsrIllegal
      <4>3. QED
        BY <2>1, <3>2, <4>1, <4>2 DEF Clock, NextCsr, NextPriv
    <3>3. QED
      BY <3>1, <3>2
  <2>4. sleep' => sleep
    BY <2>1, <2>2 DEF Clock, NextSleep, Decided
  <2>5. dev' # dev => mm.inst.op = "devload"
    <3>1. mm.inst.op = "devstore" => mm.valid
      BY <1>1 DEF IInv, SlotInv
    <3>2. mm.inst.op = "devstore" => TrapReq(irq)
      BY <1>1, <3>1 DEF TrapReq, ExceptionReq, AccessFault
    <3>3. QED
      BY <2>1, <3>2 DEF Clock, NextDev
  <2>6. QED
    BY <2>3, <2>4, <2>5
<1>2. QED
  BY <1>1, InductiveInvariant, PTL DEF Spec, UserIsConfined

-----------------------------------------------------------------------------
(* The pipeline implements Isa.                                                     *)
(*                                                                                  *)
(* What the software must keep to, said of the program as it executes: the          *)
(* handler does not begin with an instruction that a multiplication which it        *)
(* interrupted would disturb; no multiplication follows an mret, which would        *)
(* start it without waiting for it; a device is read in machine mode with           *)
(* interrupts off, as a load that is interrupted has been seen by the device; and   *)
(* behind a wfi comes an instruction that may be held in MEM.                       *)
Hasty == {"mu", "branch", "jal", "load", "devload"}
Waits == {"alu", "branch", "jal", "load", "nop"}

Multiplies(p) == \E x \in I!Val : p[x].op = "mu"

MayFollow(p, x) ==
  LET next == p[I!Plus1(x)]
  IN  /\ p[x].op = "mret" => next.op # "mu"
      /\ p[x].op = "wfi" => /\ next.op \in Waits
                            /\ p[I!Plus1(I!Plus1(x))].op = "mu" => next.op = "jal"

FollowsRules ==
  /\ Multiplies(prog) => prog[Mtvec].op \notin Hasty
  /\ priv = "M" => MayFollow(prog, ArchPc)
  /\ prog[ArchPc].op = "devload" => priv = "M" /\ ~mie

(* Where the instruction behind EX, and that behind MEM, is; and where the one      *)
(* behind instruction i at p has to be.                                             *)
BehindEx == IF id.valid THEN id.pc ELSE pc
BehindMm == IF ex.valid THEN ex.pc ELSE BehindEx
Target(i, p, a, b) == IF I!Taken(i, a, b) THEN i.to ELSE I!Plus1(p)

(* A stage holds the instruction of its address, as cu decodes it in this mode.     *)
CodeInv ==
  /\ id.valid => id.inst = prog[id.pc]
  /\ ex.valid => ex.inst = Decoded(prog[ex.pc])
  /\ mm.valid => mm.inst = Decoded(prog[mm.pc])

(* There is no gap behind EX, and none behind a wfi in MEM.                         *)
FullInv == (ex.valid => id.valid) /\ (mm.inst.op = "wfi" => ex.valid)

(* While the core sleeps, MEM holds the instruction behind the wfi.                 *)
SleepInv == sleep => /\ mm.valid /\ mm.inst.op \in Waits
                     /\ ~mu.busy /\ ex.inst.op # "mu"

(* Each stage holds the successor of the one in front of it.  (A branch behind a    *)
(* wfi redirects the fetch again and again while the core sleeps.)                  *)
PathInv == ~sleep =>
  /\ id.valid => pc = I!Plus1(id.pc)
  /\ ex.valid => BehindEx = I!Plus1(ex.pc)
  /\ mm.valid => BehindMm = Target(mm.inst, mm.pc, mm.a, mm.b)

(* The operands in EX are those of the register file, which is two writes behind;   *)
(* those in MEM are up to date.                                                     *)
ExOperands == ex.a = rf[ex.inst.rs1] /\ ex.b = rf[ex.inst.rs2]
MmOperands ==
  /\ mm.inst.op # "mu" => mm.a = ArchReg[mm.inst.rs1] /\ mm.b = ArchReg[mm.inst.rs2]
  /\ mm.inst.op = "alu" => mm.out = I!AluOut(mm.a, mm.b)
  /\ mm.inst.op = "mu" => mm.out = I!MuOut(ArchReg[mm.inst.rs1], ArchReg[mm.inst.rs2])

OperandInv ==
  /\ rf[0] = 0
  /\ ~sleep => /\ ex.valid /\ ~(mu.busy /\ ex.inst.op = "mu") => ExOperands
               /\ mm.valid => MmOperands

(* A multiplication that is under way is that in EX, with its operands; or the one  *)
(* that was flushed by the trap whose handler is about to begin.                    *)
Own    == /\ ex.inst.op = "mu"
          /\ mu.a = ArchReg[ex.inst.rs1] /\ mu.b = ArchReg[ex.inst.rs2]
Orphan == ~wb.valid /\ ArchPc = Mtvec /\ prog[Mtvec].op \notin Hasty
MuInv  == mu.busy => ~mm.valid /\ ~sleep /\ (Own \/ Orphan)

FlowInv == CodeInv /\ FullInv /\ SleepInv /\ PathInv /\ OperandInv /\ MuInv

-----------------------------------------------------------------------------
LEMMA InitFlow == Init => FlowInv
<1> SUFFICES ASSUME Init PROVE FlowInv
  OBVIOUS
<1>1. ~id.valid /\ ~ex.valid /\ ~mm.valid /\ mm.inst.op = "nop" /\ ~sleep /\ ~mu.busy
  BY DEF Init, IdNone, ExNone, MmNone, Nop
<1>2. rf[0] = 0
  BY DEF Init, I!Reg
<1>3. QED
  BY <1>1, <1>2 DEF FlowInv, CodeInv, FullInv, SleepInv, PathInv, OperandInv, MuInv

(* The program counter and the registers as a program sees them.                    *)
LEMMA ArchTypes ==
  ASSUME TypeInv
  PROVE  ArchPc \in I!Val /\ ArchReg \in [I!Reg -> I!Val]
  BY DEF TypeInv, ArchPc, ArchReg

LEMMA WhereMmIs ==
  ASSUME IInv, FlowInv
  PROVE  /\ mm.inst.op # "nop" => mm.valid
         /\ mm.valid => ArchPc = mm.pc /\ mm.inst = Decoded(prog[ArchPc])
         /\ mm.inst.op \notin {"nop", "illegal"} => mm.inst = prog[ArchPc]
<1>1. mm.inst.op # "nop" => mm.valid
  BY DEF IInv, SlotInv
<1>2. mm.valid => ArchPc = mm.pc /\ mm.inst = Decoded(prog[ArchPc])
  BY DEF FlowInv, CodeInv, ArchPc
<1>3. ArchPc \in I!Val /\ prog[ArchPc] \in I!Inst
  BY ArchTypes DEF IInv, TypeInv
<1>4. Decoded(prog[ArchPc]).op # "illegal" => Decoded(prog[ArchPc]) = prog[ArchPc]
  BY <1>3 DEF Decoded, I!Inst
<1>5. QED
  BY <1>1, <1>2, <1>4

(* The rules, said of the instructions in the stages.                               *)
LEMMA RulesInStages ==
  ASSUME IInv, FlowInv, FollowsRules
  PROVE  /\ mm.inst.op = "devload" => priv = "M" /\ ~mie
         /\ mm.inst.op = "mret" => ex.inst.op # "mu"
         /\ mm.inst.op = "wfi" => /\ ex.inst.op \in Waits
                                  /\ id.inst.op = "mu" => ex.inst.op = "jal"
<1>1. mm.inst.op = "devload" => priv = "M" /\ ~mie
  BY WhereMmIs DEF FollowsRules
<1> DEFINE i == prog[ArchPc]
           next == prog[I!Plus1(ArchPc)]
           third == prog[I!Plus1(I!Plus1(ArchPc))]
<1>2. ASSUME mm.inst.op \in Decided
      PROVE  /\ mm.valid /\ ArchPc = mm.pc /\ MayFollow(prog, ArchPc) /\ i = mm.inst
             /\ ex.valid => ex.inst = Decoded(next)
             /\ ex.valid /\ id.valid => id.inst = third
  <2>1. mm.valid /\ ArchPc = mm.pc /\ i = mm.inst
    BY <1>2, WhereMmIs DEF Decided
  <2>2. priv = "M"
    BY <1>2 DEF IInv, ModeInv, TypeInv
  <2>3. ~sleep
    BY <1>2 DEF FlowInv, SleepInv, Waits, Decided
  <2>4. BehindMm = I!Plus1(mm.pc)
    BY <1>2, <2>1, <2>3 DEF FlowInv, PathInv, Target, I!Taken, Decided
  <2>5. ex.valid => ex.pc = I!Plus1(ArchPc)
    BY <2>1, <2>4 DEF BehindMm
  <2>6. ex.valid /\ id.valid => id.pc = I!Plus1(ex.pc)
    BY <2>3 DEF FlowInv, PathInv, BehindEx
  <2>7. QED
    BY <2>1, <2>2, <2>5, <2>6 DEF FlowInv, CodeInv, FollowsRules
<1>3. prog[I!Plus1(ArchPc)] \in I!Inst
  BY ArchTypes, Arithmetic DEF IInv, TypeInv
<1>4. mm.inst.op = "mret" => ex.inst.op # "mu"
  <2>1. ex.inst.op = "mu" => ex.valid
    BY DEF IInv, SlotInv
  <2>2. Decoded(next).op = "mu" => next.op = "mu"
    BY <1>3 DEF Decoded, I!Inst
  <2>3. QED
    BY <1>2, <2>1, <2>2 DEF MayFollow, Decided
<1>5. ASSUME mm.inst.op = "wfi"
      PROVE  ex.inst.op \in Waits /\ (id.inst.op = "mu" => ex.inst.op = "jal")
  <2>1. ex.valid /\ id.valid
    BY <1>5 DEF FlowInv, FullInv
  <2>2. next.op \in Waits => Decoded(next) = next
    BY <1>3 DEF Decoded, Waits
  <2>3. QED
    BY <1>2, <1>5, <2>1, <2>2 DEF MayFollow, Decided
<1>6. QED
  BY <1>1, <1>4, <1>5

(* A trap or an mret empties the stages.                                            *)
LEMMA Flushes ==
  ASSUME NEW irq \in BOOLEAN, NEW stale \in BOOLEAN, Clock(irq, stale), Redirect(irq)
  PROVE  id' = IdNone /\ ex' = ExNone /\ mm' = MmNone /\ ArchPc' = pc'
<1>1. id' = IdNone /\ ex' = ExNone /\ mm' = MmNone
  BY DEF Clock, NextId, NextEx, NextMm, FlushIfid, FlushIdex, FlushExmem
<1>2. QED
  BY <1>1 DEF ArchPc, IdNone, ExNone, MmNone

(* What the register file and the write under way will be.                          *)
LEMMA NextRegisters ==
  ASSUME NEW irq \in BOOLEAN, NEW stale \in BOOLEAN, Clock(irq, stale)
  PROVE  /\ \A r \in I!Reg : rf'[r] = ArchReg[r]
         /\ ArchReg' = [r \in I!Reg |-> IF WbWrites(r)' THEN wb'.val ELSE ArchReg[r]]
<1>1. rf' = [r \in I!Reg |-> IF WbWrites(r) THEN wb.val ELSE rf[r]]
  BY DEF Clock
<1>2. QED
  BY <1>1 DEF ArchReg

LEMMA ZeroStays ==
  ASSUME FlowInv, NEW irq \in BOOLEAN, NEW stale \in BOOLEAN, Clock(irq, stale)
  PROVE  rf'[0] = 0
<1>1. rf[0] = 0 /\ 0 \in I!Reg
  BY DEF FlowInv, OperandInv, I!Reg
<1>2. ArchReg[0] = rf[0]
  BY <1>1 DEF ArchReg, WbWrites
<1>3. QED
  BY <1>1, <1>2, NextRegisters

LEMMA SleepEndsByInterrupt ==
  ASSUME FlowInv, NEW irq \in BOOLEAN, sleep, Redirect(irq)
  PROVE  InterruptReq(irq)
  BY DEF FlowInv, SleepInv, Redirect, TrapReq, TrapMret, ExceptionReq, CsrIllegal, AccessFault,
         Waits

LEMMA FlushFlow ==
  ASSUME IInv, FlowInv, FollowsRules,
         NEW irq \in BOOLEAN, NEW stale \in BOOLEAN, Clock(irq, stale), Redirect(irq)
  PROVE  FlowInv'
<1>1. ~id'.valid /\ ~ex'.valid /\ ~mm'.valid /\ mm'.inst.op = "nop"
  BY Flushes DEF IdNone, ExNone, MmNone, Nop
<1>2. ~sleep'
  <2>1. sleep' = NextSleep(irq)
    BY DEF Clock
  <2>2. QED
    BY <2>1, SleepEndsByInterrupt DEF NextSleep, Redirect, TrapMret
<1>3. CodeInv' /\ FullInv' /\ SleepInv' /\ PathInv'
  BY <1>1, <1>2 DEF CodeInv, FullInv, SleepInv, PathInv
<1>4. OperandInv'
  BY <1>1, ZeroStays DEF OperandInv
<1>5. MuInv'
  <2>1. SUFFICES ASSUME mu'.busy PROVE Orphan'
    BY <1>1, <1>2 DEF MuInv
  <2>2. mm.valid
    <3>1. TrapMret => mm.valid
      BY WhereMmIs DEF TrapMret
    <3>2. QED
      BY <3>1 DEF Redirect, TrapReq, ExceptionReq, InterruptReq
  <2>3. MuStart
    BY <2>1, <2>2 DEF FlowInv, MuInv, Clock, MuNext
  <2>4. TrapReq(irq)
    BY <2>3, RulesInStages DEF MuStart, Redirect, TrapMret
  <2>5. ArchPc' = Mtvec
    BY <2>4, Flushes DEF Clock, NextPc
  <2>6. ~wb'.valid
    BY <2>4 DEF Clock, NextWb, WbNone, MemData
  <2>7. Multiplies(prog)
    <3>1. ex.valid
      BY <2>3 DEF MuStart, IInv, SlotInv
    <3>2. ex.pc \in I!Val /\ prog[ex.pc] \in I!Inst /\ Decoded(prog[ex.pc]).op = "mu"
      BY <2>3, <3>1 DEF MuStart, FlowInv, CodeInv, IInv, TypeInv
    <3>3. prog[ex.pc].op = "mu"
      BY <3>2 DEF Decoded, I!Inst
    <3>4. QED
      BY <3>2, <3>3 DEF Multiplies
  <2>8. prog' = prog
    BY DEF Clock
  <2>9. QED
    BY <2>5, <2>6, <2>7, <2>8 DEF Orphan, FollowsRules
<1>6. QED
  BY <1>3, <1>4, <1>5 DEF FlowInv

(* A core that sleeps changes nothing that a program can see.                       *)
LEMMA Sleeps ==
  ASSUME IInv, FlowInv, NEW irq \in BOOLEAN, NEW stale \in BOOLEAN, Clock(irq, stale),
         sleep, ~Redirect(irq)
  PROVE  FlowInv' /\ UNCHANGED <<ArchPc, ArchReg, mem, csr, prog, dev, mie, mpie, priv, mpp>>
<1>1. /\ mm.valid /\ mm.inst.op \in Waits /\ ~mu.busy /\ ex.inst.op # "mu"
      /\ ~TrapReq(irq) /\ ~TrapMret /\ ~LockEx
  BY DEF FlowInv, SleepInv, Redirect, LockEx, MuStart
<1>2. mm' = mm /\ mu' = mu /\ wb' = WbNone
  BY <1>1 DEF Clock, NextMm, NextWb, MuNext, MuStart, FlushExmem
<1>3. sleep'
  BY <1>1 DEF Clock, NextSleep, TrapReq
<1>4. id' \in {IdNone, id} /\ ex' \in {ExNone, ex} /\ (id' = IdNone => ex' = ExNone \/ id = IdNone)
  BY <1>1 DEF Clock, NextId, NextEx, FlushIfid, FlushIdex, StallIfid, StallIdex
<1>5. UNCHANGED <<mem, csr, prog, dev, mie, mpie, priv, mpp>>
  BY <1>1 DEF Clock, NextDev, NextCsr, NextPriv, Waits
<1>6. UNCHANGED <<ArchPc, ArchReg>>
  <2>1. ArchPc' = ArchPc
    BY <1>1, <1>2 DEF ArchPc
  <2>2. ArchReg' = [r \in I!Reg |-> ArchReg[r]]
    BY <1>2, NextRegisters DEF WbWrites, WbNone
  <2>3. QED
    BY <2>1, <2>2 DEF ArchReg
<1>7. CodeInv'
  <2>1. \A i : Decoded(i)' = Decoded(i)
    BY <1>5 DEF Decoded
  <2>2. id'.valid => id' = id
    BY <1>4 DEF IdNone
  <2>3. ex'.valid => ex' = ex
    BY <1>4 DEF ExNone
  <2>4. QED
    BY <1>2, <1>5, <2>1, <2>2, <2>3 DEF CodeInv, FlowInv, Decoded
<1>8. FullInv'
  <2>1. ex.valid => id.valid
    BY DEF FlowInv, FullInv
  <2>2. ex'.valid => id'.valid
    BY <1>4, <2>1 DEF IdNone, ExNone
  <2>3. QED
    BY <1>1, <1>2, <2>2 DEF FullInv, Waits
<1>9. SleepInv'
  <2>1. ex'.inst.op # "mu"
    BY <1>1, <1>4 DEF ExNone, Nop
  <2>2. QED
    BY <1>1, <1>2, <2>1 DEF SleepInv
<1>10. PathInv' /\ OperandInv' /\ MuInv'
  BY <1>1, <1>2, <1>3, ZeroStays DEF PathInv, OperandInv, MuInv
<1>11. QED
  BY <1>5, <1>6, <1>7, <1>8, <1>9, <1>10 DEF FlowInv

-----------------------------------------------------------------------------
(* The other steps: no trap, no mret and no sleep.                                  *)
Moves(irq, stale) == Clock(irq, stale) /\ ~sleep /\ ~Redirect(irq)

LEMMA MovesMode ==
  ASSUME NEW irq \in BOOLEAN, NEW stale \in BOOLEAN, Moves(irq, stale)
  PROVE  UNCHANGED <<mie, mpie, priv, mpp, prog>>
  BY DEF Moves, Redirect, Clock, NextPriv

LEMMA MovesRegisters ==
  ASSUME NEW irq \in BOOLEAN, NEW stale \in BOOLEAN, Moves(irq, stale)
  PROVE  /\ wb'.valid <=> mm.valid
         /\ \A r \in I!Reg :
              ArchReg'[r] = IF mm.valid /\ I!WritesReg(mm.inst) /\ mm.inst.rd = r /\ r # 0
                            THEN MemValue ELSE ArchReg[r]
<1>1. wb' = MemData(irq) /\ ~TrapReq(irq)
  BY DEF Moves, Redirect, Clock, NextWb
<1>2. (wb'.valid <=> mm.valid) /\ wb'.inst = mm.inst /\ wb'.val = MemValue
  BY <1>1 DEF MemData
<1>3. QED
  BY <1>2, NextRegisters DEF WbWrites, Moves

(* fwd_unit gives EX the register as it will be after this step, whatever is on its *)
(* way to the register file.                                                        *)
LEMMA ForwardIsNew ==
  ASSUME NEW irq \in BOOLEAN, NEW stale \in BOOLEAN, Moves(irq, stale), NEW r \in I!Reg
  PROVE  Forward(r, rf[r]) = ArchReg'[r]
<1>1. ArchReg[r] = IF WbWrites(r) THEN wb.val ELSE rf[r]
  BY DEF ArchReg
<1>2. QED
  BY <1>1, MovesRegisters DEF Forward

LEMMA ReadIsNew ==
  ASSUME FlowInv, NEW irq \in BOOLEAN, NEW stale \in BOOLEAN, Moves(irq, stale), NEW r \in I!Reg
  PROVE  ReadReg(r) = rf'[r]
<1>1. rf'[r] = IF WbWrites(r) THEN wb.val ELSE rf[r]
  BY NextRegisters DEF ArchReg, Moves
<1>2. r = 0 => rf'[r] = 0
  BY ZeroStays DEF Moves
<1>3. QED
  BY <1>1, <1>2 DEF ReadReg

(* What locks EX neither branches nor loads.                                        *)
LEMMA LockHolds ==
  ASSUME IInv, FlowInv, NEW irq \in BOOLEAN, NEW stale \in BOOLEAN, Moves(irq, stale), LockEx
  PROVE  /\ id' = id /\ ex' = ex /\ mm' = MmNone /\ pc' = pc
         /\ ex.inst.op \notin {"branch", "jal", "load", "devload"}
         /\ mu.busy /\ ~Own => ex.inst.op # "mu"
<1>1. ex.valid /\ (mu.busy \/ ex.inst.op = "mu")
  BY DEF LockEx, MuStart
<1>2. mu.busy /\ ~Own => ex.inst.op \notin Hasty
  <2>1. SUFFICES ASSUME mu.busy, ~Own PROVE ex.inst.op \notin Hasty
    OBVIOUS
  <2>2. ~mm.valid /\ ArchPc = Mtvec /\ prog[Mtvec].op \notin Hasty
    BY <2>1 DEF FlowInv, MuInv, Orphan
  <2>3. ex.inst = Decoded(prog[Mtvec])
    BY <1>1, <2>2 DEF FlowInv, CodeInv, ArchPc
  <2>4. prog[Mtvec] \in I!Inst
    BY PipelineAssumption DEF IInv, TypeInv
  <2>5. QED
    BY <2>2, <2>3, <2>4 DEF Decoded, Hasty, I!Inst
<1>3. ex.inst.op \notin {"branch", "jal", "load", "devload"}
  BY <1>1, <1>2 DEF Own, Hasty
<1>4. ~TakeBranch /\ ~LoadUse(stale)
  BY <1>3 DEF TakeBranch, I!Taken, LoadUse
<1>5. ~TrapReq(irq) /\ ~TrapMret /\ ~Redirect(irq)
  BY DEF Moves, Redirect
<1>6. id' = id /\ ex' = ex /\ mm' = MmNone /\ pc' = pc
  BY <1>4, <1>5 DEF Moves, Clock, NextId, NextEx, NextMm, NextPc, FlushIfid, FlushIdex, FlushExmem,
                    StallIfid, StallIdex
<1>7. QED
  BY <1>2, <1>3, <1>6 DEF Hasty

(* The stages move on: EX goes to MEM, and behind it there is a branch taken, a load *)
(* waited for, or neither.                                                          *)
Branches == TakeBranch /\ id' = IdNone /\ ex' = ExNone /\ pc' = ex.inst.to
Waiting  == /\ ex.valid /\ ex.inst.op \in {"load", "devload"} /\ ~TakeBranch
            /\ id' = id /\ ex' = ExNone /\ pc' = pc
Advances == ~TakeBranch /\ id' = IfData /\ ex' = IdData /\ pc' = I!Plus1(pc)

LEMMA MovesOn ==
  ASSUME IInv, FlowInv, NEW irq \in BOOLEAN, NEW stale \in BOOLEAN, Moves(irq, stale), ~LockEx
  PROVE  mm' = ExData /\ (Branches \/ Waiting \/ Advances)
<1>1. ~TrapReq(irq) /\ ~TrapMret /\ ~Redirect(irq) /\ ~sleep
  BY DEF Moves, Redirect
<1>2. mm' = ExData
  BY <1>1 DEF Moves, Clock, NextMm, FlushExmem
<1>3. /\ FlushIfid(irq) <=> TakeBranch
      /\ FlushIdex(irq, stale) <=> LoadUse(stale) \/ TakeBranch
      /\ StallIfid(stale) <=> LoadUse(stale)
      /\ ~StallIdex
  BY <1>1 DEF FlushIfid, FlushIdex, StallIfid, StallIdex
<1>4. /\ id' = IF TakeBranch THEN IdNone ELSE IF LoadUse(stale) THEN id ELSE IfData
      /\ ex' = IF LoadUse(stale) \/ TakeBranch THEN ExNone ELSE IdData
      /\ pc' = IF TakeBranch THEN ex.inst.to ELSE IF LoadUse(stale) THEN pc ELSE I!Plus1(pc)
  BY <1>1, <1>3 DEF Moves, Clock, NextId, NextEx, NextPc
<1>5. TakeBranch => Branches
  BY <1>4 DEF Branches
<1>6. ~TakeBranch /\ LoadUse(stale) => Waiting
  BY <1>4 DEF LoadUse, Waiting
<1>7. ~TakeBranch /\ ~LoadUse(stale) => Advances
  BY <1>4 DEF Advances
<1>8. QED
  BY <1>2, <1>5, <1>6, <1>7

(* A multiplication leaves EX only when it is done, and no other instruction is held *)
(* up for its result.                                                               *)
LEMMA MovingMu ==
  ASSUME IInv, FlowInv, NEW irq \in BOOLEAN, NEW stale \in BOOLEAN, Moves(irq, stale), ~LockEx
  PROVE  /\ ex.inst.op = "mu" => mu.busy /\ MuDone /\ Own
         /\ mu'.busy => mu.busy /\ ~ex.valid /\ ~mm.valid /\ Orphan
<1>1. ex.inst.op = "mu" => ex.valid
  BY DEF IInv, SlotInv
<1>2. ex.inst.op = "mu" => mu.busy /\ MuDone
  BY <1>1 DEF LockEx, MuStart, MuDone
<1>3. ex.inst.op = "mu" => Own
  <2>1. SUFFICES ASSUME ex.inst.op = "mu", Orphan, ~mm.valid PROVE FALSE
    BY <1>2 DEF FlowInv, MuInv
  <2>2. ex.inst = Decoded(prog[Mtvec]) /\ prog[Mtvec] \in I!Inst
    BY <1>1, <2>1, PipelineAssumption DEF FlowInv, CodeInv, ArchPc, Orphan, IInv, TypeInv
  <2>3. QED
    BY <2>1, <2>2 DEF Decoded, Hasty, Orphan, I!Inst
<1>4. ASSUME mu'.busy PROVE mu.busy /\ ~ex.valid /\ ~mm.valid /\ Orphan
  <2>1. mu' = MuNext /\ mu \in [busy : BOOLEAN, timer : Int, a : I!Val, b : I!Val]
    BY DEF Moves, Clock, IInv, TypeInv
  <2>2. ~MuStart
    BY <1>2 DEF MuStart
  <2>3. mu.busy /\ ~MuDone
    BY <1>4, <2>1, <2>2 DEF MuNext, MuDone
  <2>4. ~ex.valid
    BY <2>3 DEF LockEx
  <2>5. QED
    BY <1>1, <2>3, <2>4 DEF FlowInv, MuInv, Own
<1>5. QED
  BY <1>2, <1>3, <1>4

(* The program counter moves to the successor, or stays if MEM is empty.            *)
LEMMA MovesPc ==
  ASSUME IInv, FlowInv, NEW irq \in BOOLEAN, NEW stale \in BOOLEAN, Moves(irq, stale)
  PROVE  ArchPc' = BehindMm
<1>1. CASE LockEx
  BY <1>1, LockHolds DEF ArchPc, BehindMm, MmNone, LockEx
<1>2. CASE ~LockEx
  <2>1. mm'.valid = ex.valid /\ mm'.pc = ex.pc
    BY <1>2, MovesOn DEF ExData
  <2>2. ASSUME ~ex.valid PROVE ArchPc' = BehindEx
    <3>1. Advances
      BY <1>2, <2>2, MovesOn DEF Branches, Waiting, TakeBranch
    <3>2. QED
      BY <2>1, <2>2, <3>1 DEF Advances, IfData, IdData, ArchPc, BehindEx
  <2>3. QED
    BY <2>1, <2>2 DEF ArchPc, BehindMm
<1>3. QED
  BY <1>1, <1>2

LEMMA MovesCode ==
  ASSUME IInv, FlowInv, NEW irq \in BOOLEAN, NEW stale \in BOOLEAN, Moves(irq, stale)
  PROVE  CodeInv' /\ (ex'.valid => id'.valid)
<1>1. prog' = prog /\ \A i : Decoded(i)' = Decoded(i)
  BY MovesMode DEF Decoded
<1>2. /\ id.valid => id.inst = prog[id.pc]
      /\ ex.valid => ex.inst = Decoded(prog[ex.pc])
      /\ ex.valid => id.valid
  BY DEF FlowInv, CodeInv, FullInv
<1>3. ~IdNone.valid /\ ~ExNone.valid /\ ~MmNone.valid
  BY DEF IdNone, ExNone, MmNone
<1>4. CASE LockEx
  BY <1>1, <1>2, <1>3, <1>4, LockHolds DEF CodeInv, Decoded
<1>5. CASE ~LockEx
  <2>1. mm'.valid => mm'.inst = Decoded(prog[mm'.pc])
    BY <1>2, <1>5, MovesOn DEF ExData
  <2>2. id'.valid => id'.inst = prog[id'.pc]
    BY <1>2, <1>3, <1>5, MovesOn DEF Branches, Waiting, Advances, IfData
  <2>3. ex'.valid => id'.valid /\ ex'.inst = Decoded(prog[ex'.pc])
    BY <1>2, <1>3, <1>5, MovesOn DEF Branches, Waiting, Advances, IfData, IdData
  <2>4. QED
    BY <1>1, <2>1, <2>2, <2>3 DEF CodeInv, Decoded
<1>6. QED
  BY <1>4, <1>5

(* The instruction in EX has the operands that are up to date after this step.      *)
LEMMA MovesOperands ==
  ASSUME IInv, FlowInv, NEW irq \in BOOLEAN, NEW stale \in BOOLEAN, Moves(irq, stale),
         ex.valid, ~(mu.busy /\ ex.inst.op = "mu")
  PROVE  ExA = ArchReg'[ex.inst.rs1] /\ ExB = ArchReg'[ex.inst.rs2]
<1>1. ex.inst.rs1 \in I!Reg /\ ex.inst.rs2 \in I!Reg
  BY DEF IInv, TypeInv, I!Inst
<1>2. ex.a = rf[ex.inst.rs1] /\ ex.b = rf[ex.inst.rs2]
  BY DEF FlowInv, OperandInv, ExOperands, Moves
<1>3. QED
  BY <1>1, <1>2, ForwardIsNew DEF ExA, ExB

LEMMA MovesPath ==
  ASSUME IInv, FlowInv, NEW irq \in BOOLEAN, NEW stale \in BOOLEAN, Moves(irq, stale)
  PROVE  /\ id'.valid => pc' = I!Plus1(id'.pc)
         /\ ex'.valid => BehindEx' = I!Plus1(ex'.pc)
         /\ mm'.valid => BehindMm' = Target(mm'.inst, mm'.pc, mm'.a, mm'.b)
<1>1. /\ id.valid => pc = I!Plus1(id.pc)
      /\ ex.valid => BehindEx = I!Plus1(ex.pc)
      /\ ex.valid => id.valid
  BY DEF FlowInv, PathInv, FullInv, Moves
<1>2. ~IdNone.valid /\ ~ExNone.valid /\ ~MmNone.valid
  BY DEF IdNone, ExNone, MmNone
<1>3. CASE LockEx
  BY <1>1, <1>2, <1>3, LockHolds DEF BehindEx
<1>4. CASE ~LockEx
  <2>1. /\ mm'.valid = ex.valid /\ mm'.pc = ex.pc /\ mm'.inst = ex.inst
        /\ mm'.a = ExA /\ mm'.b = ExB
    BY <1>4, MovesOn DEF ExData
  <2>2. id'.valid => pc' = I!Plus1(id'.pc)
    BY <1>1, <1>2, <1>4, MovesOn DEF Branches, Waiting, Advances, IfData
  <2>3. ex'.valid => BehindEx' = I!Plus1(ex'.pc)
    BY <1>1, <1>2, <1>4, MovesOn DEF Branches, Waiting, Advances, IfData, IdData, BehindEx
  <2>4. ASSUME ex.valid PROVE BehindMm' = Target(ex.inst, ex.pc, ExA, ExB)
    <3>1. CASE Branches
      BY <1>2, <2>4, <3>1 DEF Branches, TakeBranch, BehindMm, BehindEx, Target
    <3>2. CASE Waiting
      BY <1>1, <1>2, <2>4, <3>2 DEF Waiting, TakeBranch, BehindMm, BehindEx, Target
    <3>3. CASE Advances
      BY <1>1, <2>4, <3>3 DEF Advances, TakeBranch, BehindMm, BehindEx, Target, IdData, IfData
    <3>4. QED
      BY <1>4, <3>1, <3>2, <3>3, MovesOn
  <2>5. QED
    BY <2>1, <2>2, <2>3, <2>4
<1>5. QED
  BY <1>3, <1>4

LEMMA MovesExOperands ==
  ASSUME IInv, FlowInv, NEW irq \in BOOLEAN, NEW stale \in BOOLEAN, Moves(irq, stale),
         ex'.valid, ~(mu'.busy /\ ex'.inst.op = "mu")
  PROVE  ExOperands'
<1>1. CASE LockEx
  <2>1. ex' = ex /\ ex.inst.rs1 \in I!Reg /\ ex.inst.rs2 \in I!Reg
    BY <1>1, LockHolds DEF IInv, TypeInv, I!Inst
  <2>2. mu.busy /\ ~MuDone
    <3>1. mu \in [busy : BOOLEAN, timer : Int, a : I!Val, b : I!Val] /\ mu' = MuNext
      BY DEF IInv, TypeInv, Moves, Clock
    <3>2. MuStart => mu'.busy /\ ex'.inst.op = "mu"
      BY <2>1, <3>1 DEF MuNext, MuStart
    <3>3. QED
      BY <1>1, <3>2 DEF LockEx
  <2>3. ex.inst.op # "mu"
    <3>1. mu \in [busy : BOOLEAN, timer : Int, a : I!Val, b : I!Val] /\ mu' = MuNext
      BY DEF IInv, TypeInv, Moves, Clock
    <3>2. mu'.busy
      BY <2>2, <3>1 DEF MuNext, MuStart, MuDone
    <3>3. QED
      BY <2>1, <3>2
  <2>4. ex.a = rf[ex.inst.rs1] /\ ex.b = rf[ex.inst.rs2]
    BY <2>1, <2>3 DEF FlowInv, OperandInv, ExOperands, Moves
  <2>5. ~wb.valid
    BY <2>2, <2>3 DEF FlowInv, MuInv, Own, Orphan
  <2>6. \A r \in I!Reg : rf'[r] = rf[r]
    BY <2>5, NextRegisters DEF ArchReg, WbWrites, Moves
  <2>7. QED
    BY <2>1, <2>4, <2>6 DEF ExOperands
<1>2. CASE ~LockEx
  <2>1. ex' = IdData
    BY <1>2, MovesOn DEF Branches, Waiting, Advances, ExNone
  <2>2. id.inst.rs1 \in I!Reg /\ id.inst.rs2 \in I!Reg /\ id.inst \in I!Inst
    BY DEF IInv, TypeInv, I!Inst
  <2>3. Decoded(id.inst).rs1 = id.inst.rs1 /\ Decoded(id.inst).rs2 = id.inst.rs2
    BY <2>2 DEF Decoded, I!Inst
  <2>4. /\ ex'.inst.rs1 = id.inst.rs1 /\ ex'.inst.rs2 = id.inst.rs2
        /\ ex'.a = ReadReg(id.inst.rs1) /\ ex'.b = ReadReg(id.inst.rs2)
    BY <2>1, <2>3 DEF IdData
  <2>5. QED
    BY <2>2, <2>4, ReadIsNew DEF ExOperands
<1>3. QED
  BY <1>1, <1>2

LEMMA MovesMmOperands ==
  ASSUME IInv, FlowInv, NEW irq \in BOOLEAN, NEW stale \in BOOLEAN, Moves(irq, stale), mm'.valid
  PROVE  MmOperands'
<1>1. ~LockEx
  BY LockHolds DEF MmNone
<1>2. /\ ex.valid /\ mm'.inst = ex.inst
      /\ mm'.a = ExA /\ mm'.b = ExB /\ mm'.out = ExOut
  BY <1>1, MovesOn DEF ExData
<1>3. CASE ex.inst.op # "mu"
  BY <1>2, <1>3, MovesOperands DEF MmOperands, ExOut
<1>4. CASE ex.inst.op = "mu"
  <2>1. mu.busy /\ Own
    BY <1>1, <1>4, MovingMu
  <2>2. ~mm.valid
    BY <2>1 DEF FlowInv, MuInv
  <2>3. ex.inst.rs1 \in I!Reg /\ ex.inst.rs2 \in I!Reg
    BY DEF IInv, TypeInv, I!Inst
  <2>4. ArchReg'[ex.inst.rs1] = mu.a /\ ArchReg'[ex.inst.rs2] = mu.b
    BY <2>1, <2>2, <2>3, MovesRegisters DEF Own
  <2>5. QED
    BY <1>2, <1>4, <2>4 DEF MmOperands, ExOut
<1>5. QED
  BY <1>3, <1>4

LEMMA MovesIntoSleep ==
  ASSUME IInv, FlowInv, FollowsRules,
         NEW irq \in BOOLEAN, NEW stale \in BOOLEAN, Moves(irq, stale), sleep'
  PROVE  /\ mm'.valid /\ mm'.inst.op \in Waits
         /\ ~mu'.busy /\ ex'.inst.op # "mu"
<1>1. mm.inst.op = "wfi"
  BY DEF Moves, Clock, NextSleep
<1>2. ex.valid /\ mm.valid
  BY <1>1, WhereMmIs DEF FlowInv, FullInv
<1>3. ex.inst.op \in Waits /\ (id.inst.op = "mu" => ex.inst.op = "jal")
  BY <1>1, RulesInStages
<1>4. ~mu.busy /\ ~LockEx
  BY <1>2, <1>3 DEF FlowInv, MuInv, LockEx, MuStart, Waits
<1>5. mm'.valid /\ mm'.inst.op \in Waits
  BY <1>2, <1>3, <1>4, MovesOn DEF ExData
<1>6. ~mu'.busy
  BY <1>4, MovingMu
<1>7. ex'.inst.op # "mu"
  <2>1. ExNone.inst.op # "mu"
    BY DEF ExNone, Nop
  <2>2. id.inst.op = "mu" => TakeBranch
    BY <1>2, <1>3 DEF TakeBranch, I!Taken
  <2>3. id.inst \in I!Inst
    BY DEF IInv, TypeInv
  <2>4. Decoded(id.inst).op = "mu" => id.inst.op = "mu"
    BY <2>3 DEF Decoded, I!Inst
  <2>5. QED
    BY <1>4, <2>1, <2>2, <2>4, MovesOn DEF Branches, Waiting, Advances, IdData
<1>8. QED
  BY <1>5, <1>6, <1>7

(* Behind a wfi that comes to MEM there is no gap.                                  *)
LEMMA MovesFull ==
  ASSUME IInv, FlowInv, NEW irq \in BOOLEAN, NEW stale \in BOOLEAN, Moves(irq, stale),
         mm'.inst.op = "wfi"
  PROVE  ex'.valid
<1>1. ~LockEx
  BY LockHolds DEF MmNone, Nop
<1>2. ex.inst.op = "wfi"
  BY <1>1, MovesOn DEF ExData
<1>3. ex.valid /\ id.valid
  BY <1>2 DEF IInv, SlotInv, FlowInv, FullInv
<1>4. ~TakeBranch
  BY <1>2 DEF TakeBranch, I!Taken
<1>5. Advances
  BY <1>1, <1>2, <1>4, MovesOn DEF Branches, Waiting
<1>6. QED
  BY <1>3, <1>5 DEF Advances, IdData

LEMMA MovesMu ==
  ASSUME IInv, FlowInv, FollowsRules,
         NEW irq \in BOOLEAN, NEW stale \in BOOLEAN, Moves(irq, stale), mu'.busy
  PROVE  ~mm'.valid /\ ~sleep' /\ (Own' \/ Orphan')
<1>1. ~sleep'
  BY MovesIntoSleep
<1>2. mu' = MuNext /\ mu \in [busy : BOOLEAN, timer : Int, a : I!Val, b : I!Val]
  BY DEF Moves, Clock, IInv, TypeInv
<1>3. ex.inst.rs1 \in I!Reg /\ ex.inst.rs2 \in I!Reg
  BY DEF IInv, TypeInv, I!Inst
<1>4. ASSUME Orphan, ~mm.valid PROVE Orphan'
  <2>1. ~wb'.valid
    BY <1>4, MovesRegisters
  <2>2. ArchPc' = ArchPc
    BY <1>4, MovesPc DEF ArchPc, BehindMm, BehindEx
  <2>3. QED
    BY <1>4, <2>1, <2>2, MovesMode DEF Orphan
<1>5. CASE LockEx
  <2>1. ~mm'.valid /\ ex' = ex
    BY <1>5, LockHolds DEF MmNone
  <2>2. CASE MuStart
    <3>1. ex.valid /\ ~(mu.busy /\ ex.inst.op = "mu")
      BY <1>5, <2>2 DEF LockEx, MuStart
    <3>2. mu'.a = ExA /\ mu'.b = ExB
      BY <1>2, <2>2 DEF MuNext
    <3>3. Own'
      BY <2>1, <2>2, <3>1, <3>2, MovesOperands DEF Own, MuStart
    <3>4. QED
      BY <1>1, <2>1, <3>3
  <2>3. CASE ~MuStart
    <3>1. mu.busy
      BY <1>5, <2>3 DEF LockEx
    <3>2. ~mm.valid
      BY <3>1 DEF FlowInv, MuInv
    <3>3. CASE Own
      <4>1. mu'.a = mu.a /\ mu'.b = mu.b
        BY <1>2, <2>3, <3>1 DEF MuNext
      <4>2. Own'
        BY <1>3, <2>1, <3>2, <3>3, <4>1, MovesRegisters DEF Own
      <4>3. QED
        BY <1>1, <2>1, <4>2
    <3>4. CASE ~Own
      BY <1>1, <1>4, <2>1, <3>1, <3>2, <3>4 DEF FlowInv, MuInv
    <3>5. QED
      BY <3>3, <3>4
  <2>4. QED
    BY <2>2, <2>3
<1>6. CASE ~LockEx
  <2>1. mu.busy /\ ~ex.valid /\ ~mm.valid /\ Orphan
    BY <1>6, MovingMu
  <2>2. ~mm'.valid
    BY <1>6, <2>1, MovesOn DEF ExData
  <2>3. QED
    BY <1>1, <1>4, <2>1, <2>2
<1>7. QED
  BY <1>5, <1>6

LEMMA MovesFlow ==
  ASSUME IInv, FlowInv, FollowsRules,
         NEW irq \in BOOLEAN, NEW stale \in BOOLEAN, Moves(irq, stale)
  PROVE  FlowInv'
<1>1. CodeInv' /\ FullInv'
  BY MovesCode, MovesFull DEF FullInv
<1>2. SleepInv'
  BY MovesIntoSleep DEF SleepInv
<1>3. PathInv'
  BY MovesPath DEF PathInv
<1>4. OperandInv'
  BY MovesExOperands, MovesMmOperands, ZeroStays DEF OperandInv, Moves
<1>5. MuInv'
  BY MovesMu DEF MuInv
<1>6. QED
  BY <1>1, <1>2, <1>3, <1>4, <1>5 DEF FlowInv

-----------------------------------------------------------------------------
(* What a step does to the machine that the program sees.                           *)
LEMMA TrapIsTrap ==
  ASSUME IInv, FlowInv, FollowsRules,
         NEW irq \in BOOLEAN, NEW stale \in BOOLEAN, Clock(irq, stale), TrapReq(irq)
  PROVE  A!Next
<1>1. mm.valid /\ ArchPc = mm.pc /\ mm.inst = Decoded(prog[ArchPc])
  BY WhereMmIs DEF TrapReq, ExceptionReq, InterruptReq
<1>2. ArchPc' = Mtvec
  BY Flushes DEF Clock, NextPc, Redirect
<1>3. ArchReg' = ArchReg
  <2>1. ~wb'.valid
    BY DEF Clock, NextWb, WbNone, MemData
  <2>2. ArchReg' = [r \in I!Reg |-> ArchReg[r]]
    BY <2>1, NextRegisters DEF WbWrites
  <2>3. QED
    BY <2>2 DEF ArchReg
<1>4. csr' = [csr EXCEPT !.mepc = ArchPc]
  BY <1>1 DEF Clock, NextCsr
<1>5. mpie' = mie /\ mie' = FALSE /\ mpp' = priv /\ priv' = "M" /\ UNCHANGED <<mem, prog>>
  BY DEF Clock, NextPriv
<1>6. dev' = dev
  <2>1. mm.inst.op = "devload" => ~TrapReq(irq)
    BY RulesInStages DEF TrapReq, ExceptionReq, InterruptReq, CsrIllegal, AccessFault
  <2>2. QED
    BY <2>1 DEF Clock, NextDev
<1>7. A!Trap
  BY <1>2, <1>3, <1>4, <1>5, <1>6 DEF A!Trap
<1>8. CASE ExceptionReq
  <2>1. prog[ArchPc] \in I!Inst
    BY ArchTypes DEF IInv, TypeInv
  <2>2. A!Faults(prog[ArchPc], priv)
    BY <1>1, <1>8, <2>1 DEF ExceptionReq, CsrIllegal, AccessFault, Decoded, A!Faults, A!Privileged,
                            I!Inst
  <2>3. QED
    BY <1>7, <2>2 DEF A!Next, A!Execute
<1>9. CASE ~ExceptionReq
  BY <1>7, <1>9 DEF TrapReq, InterruptReq, A!Next, A!Interrupt
<1>10. QED
  BY <1>8, <1>9

LEMMA NoFault ==
  ASSUME IInv, FlowInv, mm.valid, ~ExceptionReq
  PROVE  mm.inst = prog[ArchPc] /\ ~A!Faults(prog[ArchPc], priv)
<1>1. mm.inst.op # "illegal"
  BY DEF ExceptionReq
<1>2. mm.inst = Decoded(prog[ArchPc]) /\ prog[ArchPc] \in I!Inst
  BY WhereMmIs, ArchTypes DEF IInv, TypeInv
<1>3. mm.inst = prog[ArchPc]
  BY <1>1, <1>2 DEF Decoded, I!Inst
<1>4. priv = "U" => mm.inst.op \notin Decided
  BY DEF IInv, ModeInv
<1>5. QED
  BY <1>3, <1>4 DEF ExceptionReq, CsrIllegal, AccessFault, A!Faults, A!Privileged, Decided

LEMMA MretIsReturn ==
  ASSUME IInv, FlowInv, FollowsRules,
         NEW irq \in BOOLEAN, NEW stale \in BOOLEAN, Clock(irq, stale), TrapMret, ~TrapReq(irq)
  PROVE  A!Next
<1>1. mm.valid /\ ~ExceptionReq /\ mm.inst.op = "mret"
  BY WhereMmIs DEF TrapMret, TrapReq
<1>2. mm.inst = prog[ArchPc] /\ ~A!Faults(prog[ArchPc], priv)
  BY <1>1, NoFault
<1>3. ArchPc' = csr.mepc
  BY Flushes DEF Clock, NextPc, Redirect
<1>4. ArchReg' = ArchReg
  <2>1. wb' = MemData(irq) \/ wb' = WbNone
    BY DEF Clock, NextWb
  <2>2. \A r \in I!Reg : ~WbWrites(r)'
    BY <1>1, <2>1 DEF WbWrites, MemData, WbNone, I!WritesReg
  <2>3. ArchReg' = [r \in I!Reg |-> ArchReg[r]]
    BY <2>2, NextRegisters
  <2>4. QED
    BY <2>3 DEF ArchReg
<1>5. /\ mie' = mpie /\ mpie' = TRUE /\ priv' = mpp /\ mpp' = "U"
      /\ UNCHANGED <<mem, dev, csr, prog>>
  BY <1>1 DEF Clock, NextPriv, NextDev, NextCsr, TrapMret
<1>6. QED
  BY <1>1, <1>2, <1>3, <1>4, <1>5 DEF A!Next, A!Execute, A!Return

(* The value that an instruction writes back is that of Isa.                        *)
LEMMA WritesResult ==
  ASSUME IInv, FlowInv, ~sleep, mm.valid, I!WritesReg(mm.inst)
  PROVE  MemValue = A!Result(mm.inst)
<1>1. ArchPc = mm.pc
  BY WhereMmIs
<1>2. MmOperands
  BY DEF FlowInv, OperandInv
<1>3. CASE mm.inst.op \in {"alu", "mu"}
  BY <1>2, <1>3 DEF MemValue, MmOperands, A!Result, I!AluOut, I!MuOut, A!AluOut, A!MuOut
<1>4. CASE mm.inst.op \in {"load", "devload", "jal", "csrrw"}
  BY <1>1, <1>4 DEF MemValue, A!Result, I!Plus1, A!Plus1
<1>5. QED
  BY <1>3, <1>4 DEF I!WritesReg

LEMMA MoveIsOrdinary ==
  ASSUME IInv, FlowInv, FollowsRules,
         NEW irq \in BOOLEAN, NEW stale \in BOOLEAN, Moves(irq, stale), mm.valid
  PROVE  A!Next
<1> DEFINE i == mm.inst
<1>1. ~sleep /\ ~TrapReq(irq) /\ ~TrapMret /\ ~ExceptionReq /\ i.op # "mret"
  BY DEF Moves, Redirect, TrapReq, TrapMret
<1>2. i = prog[ArchPc] /\ ~A!Faults(i, priv) /\ ArchPc = mm.pc /\ i \in I!Inst
  BY <1>1, NoFault, WhereMmIs DEF IInv, TypeInv
<1>3. i.rs1 \in I!Reg /\ i.rs2 \in I!Reg /\ i.rd \in I!Reg
  BY <1>2 DEF I!Inst
<1>4. i.op # "mu" => mm.a = ArchReg[i.rs1] /\ mm.b = ArchReg[i.rs2]
  BY <1>1 DEF FlowInv, OperandInv, MmOperands
<1>5. ArchPc' = IF A!Taken(i, ArchReg[i.rs1], ArchReg[i.rs2]) THEN i.to ELSE A!Plus1(ArchPc)
  <2>1. ArchPc' = Target(i, mm.pc, mm.a, mm.b)
    BY <1>1, MovesPc DEF FlowInv, PathInv
  <2>2. I!Taken(i, mm.a, mm.b) <=> A!Taken(i, ArchReg[i.rs1], ArchReg[i.rs2])
    BY <1>4 DEF I!Taken, A!Taken
  <2>3. QED
    BY <1>2, <2>1, <2>2 DEF Target, I!Plus1, A!Plus1
<1>6. ArchReg' = IF A!WritesReg(i) /\ i.rd # 0 THEN [ArchReg EXCEPT ![i.rd] = A!Result(i)]
                 ELSE ArchReg
  <2>1. \A r \in I!Reg :
          ArchReg'[r] = IF I!WritesReg(i) /\ i.rd = r /\ r # 0 THEN A!Result(i) ELSE ArchReg[r]
    BY <1>1, MovesRegisters, WritesResult
  <2>2. DOMAIN ArchReg = I!Reg /\ DOMAIN ArchReg' = I!Reg
    BY DEF ArchReg
  <2>3. ArchReg = [r \in I!Reg |-> ArchReg[r]] /\ ArchReg' = [r \in I!Reg |-> ArchReg'[r]]
    BY DEF ArchReg
  <2>4. CASE I!WritesReg(i) /\ i.rd # 0
    BY <1>3, <2>1, <2>2, <2>3, <2>4 DEF I!WritesReg, A!WritesReg
  <2>5. CASE ~(I!WritesReg(i) /\ i.rd # 0)
    BY <2>1, <2>3, <2>5 DEF I!WritesReg, A!WritesReg
  <2>6. QED
    BY <2>4, <2>5
<1>7. mem' = IF i.op = "store" THEN ArchReg[i.rs2] ELSE mem
  BY <1>1, <1>4 DEF Moves, Clock
<1>8. csr' = IF i.op = "csrrw" THEN [csr EXCEPT ![i.csr] = ArchReg[i.rs1]] ELSE csr
  BY <1>1, <1>4 DEF Moves, Clock, NextCsr
<1>9. dev' = IF i.op \in {"devload", "devstore"} THEN A!Plus1(dev) ELSE dev
  BY <1>1 DEF Moves, Clock, NextDev, I!Plus1, A!Plus1
<1>10. UNCHANGED <<mie, mpie, priv, mpp, prog>>
  BY MovesMode
<1>11. A!Ordinary(i)
  BY <1>5, <1>6, <1>7, <1>8, <1>9, <1>10 DEF A!Ordinary
<1>12. QED
  BY <1>1, <1>2, <1>11 DEF A!Next, A!Execute

LEMMA EmptyIsStutter ==
  ASSUME IInv, FlowInv, NEW irq \in BOOLEAN, NEW stale \in BOOLEAN, Moves(irq, stale), ~mm.valid
  PROVE  UNCHANGED A!vars
<1>1. mm.inst.op = "nop"
  BY DEF IInv, SlotInv
<1>2. ArchPc' = ArchPc
  BY MovesPc DEF ArchPc, BehindMm, BehindEx
<1>3. ArchReg' = ArchReg
  <2>1. \A r \in I!Reg : ~WbWrites(r)'
    BY MovesRegisters DEF WbWrites
  <2>2. ArchReg' = [r \in I!Reg |-> ArchReg[r]]
    BY <2>1, NextRegisters DEF Moves
  <2>3. QED
    BY <2>2 DEF ArchReg
<1>4. UNCHANGED <<mem, csr, dev>>
  BY <1>1, MovesMode DEF Moves, Redirect, Clock, NextCsr, NextDev
<1>5. QED
  BY <1>2, <1>3, <1>4, MovesMode DEF A!vars

LEMMA FlowStep ==
  ASSUME IInv, FlowInv, FollowsRules, [Next]_vars
  PROVE  FlowInv' /\ [A!Next]_(A!vars)
<1>1. CASE Next
  <2>1. PICK irq \in BOOLEAN, stale \in BOOLEAN : Clock(irq, stale)
    BY <1>1 DEF Next
  <2>2. CASE Redirect(irq)
    <3>1. FlowInv'
      BY <2>1, <2>2, FlushFlow
    <3>2. A!Next
      BY <2>1, <2>2, TrapIsTrap, MretIsReturn DEF Redirect
    <3>3. QED
      BY <3>1, <3>2
  <2>3. CASE ~Redirect(irq) /\ sleep
    BY <2>1, <2>3, Sleeps DEF A!vars
  <2>4. CASE ~Redirect(irq) /\ ~sleep
    <3>1. Moves(irq, stale)
      BY <2>1, <2>4 DEF Moves
    <3>2. FlowInv'
      BY <3>1, MovesFlow
    <3>3. A!Next \/ UNCHANGED A!vars
      BY <3>1, MoveIsOrdinary, EmptyIsStutter
    <3>4. QED
      BY <3>2, <3>3
  <2>5. QED
    BY <2>2, <2>3, <2>4
<1>2. CASE UNCHANGED vars
  <2>1. UNCHANGED A!vars
    BY <1>2 DEF vars, A!vars, ArchPc, ArchReg, WbWrites
  <2>2. FlowInv'
    BY <1>2 DEF vars, FlowInv, CodeInv, FullInv, SleepInv, PathInv, OperandInv, MuInv, Decoded,
                BehindEx, BehindMm, ExOperands, MmOperands, Own, Orphan, ArchPc, ArchReg, WbWrites
  <2>3. QED
    BY <2>1, <2>2
<1>3. QED
  BY <1>1, <1>2

LEMMA InitIsInit == Init => A!Init
<1> SUFFICES ASSUME Init PROVE A!Init
  OBVIOUS
<1>1. ArchPc = 0
  BY DEF Init, ArchPc, IdNone, ExNone, MmNone
<1>2. ArchReg = [r \in I!Reg |-> 0]
  BY DEF Init, ArchReg, WbWrites, WbNone
<1>3. prog \in [I!Val -> I!Inst] /\ priv \in {"U", "M"}
  BY InitInv DEF IInv, TypeInv
<1>4. QED
  BY <1>1, <1>2, <1>3 DEF Init, A!Init, A!Reg, A!Val, A!Inst, I!Reg, I!Val, I!Inst

(* What is in the stages of a program that follows the rules: the right instructions, *)
(* in order, with the operands that their predecessors leave                        *)
(* (hazard_unit.sv, fwd_unit.sv, mu.sv, wfi.sv).                                    *)
THEOREM FlowInvariant == Spec /\ []FollowsRules => []FlowInv
<1>1. IInv /\ FlowInv /\ FollowsRules /\ [Next]_vars => FlowInv'
  BY FlowStep
<1>2. QED
  BY <1>1, InitFlow, InductiveInvariant, PTL DEF Spec

(* The pipeline executes one instruction after another: property ImplementsIsa for  *)
(* every program that follows the rules, every latency of the multiplier and every  *)
(* timing of interrupts.                                                            *)
THEOREM Refinement == Spec /\ []FollowsRules => ImplementsIsa
<1> DEFINE Step == [A!Next]_(A!vars)
<1>1. IInv /\ FlowInv /\ FollowsRules /\ [Next]_vars => Step
  BY FlowStep
<1> HIDE DEF Step
<1>2. Spec /\ []FollowsRules => [][A!Next]_(A!vars)
  BY <1>1, FlowInvariant, InductiveInvariant, PTL DEF Spec, Step
<1>3. QED
  BY <1>2, InitIsInit, PTL DEF Spec, ImplementsIsa, A!Spec

(* Code that keeps to the rules wherever it is entered, and reads no device.        *)
KeepsRules(p) ==
  /\ Multiplies(p) => p[Mtvec].op \notin Hasty
  /\ \A x \in I!Val : MayFollow(p, x) /\ p[x].op # "devload"

LEMMA CodeStays == Init /\ KeepsRules(prog) /\ [][Next]_vars => []KeepsRules(prog)
<1>1. KeepsRules(prog) /\ [Next]_vars => KeepsRules(prog)'
  BY DEF Next, Clock, vars, KeepsRules, Multiplies, MayFollow
<1>2. QED
  BY <1>1, PTL

(* Of such code that can be said before it is executed: property ImplementsIsa if all *)
(* programs are of this kind.                                                       *)
THEOREM CodeRefinement == (\A s \in Starts : KeepsRules(s.code)) => (Spec => ImplementsIsa)
<1> SUFFICES ASSUME \A s \in Starts : KeepsRules(s.code)
             PROVE  Spec => ImplementsIsa
  OBVIOUS
<1>1. Init => KeepsRules(prog)
  BY DEF Init
<1>2. IInv /\ KeepsRules(prog) => FollowsRules
  BY ArchTypes DEF IInv, FollowsRules, KeepsRules
<1>3. QED
  BY <1>1, <1>2, CodeStays, InductiveInvariant, Refinement, PTL DEF Spec
=============================================================================
