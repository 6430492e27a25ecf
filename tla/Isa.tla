-------------------------------- MODULE Isa ---------------------------------
(***************************************************************************)
(* The instruction set as a program sees it: one instruction after another,  *)
(* or a trap in between.  README.md of the repository promises RV32I, M and   *)
(* Zicsr; module Pipeline shows what the five stages make of it.             *)
(*                                                                          *)
(* One instruction stands for each way that an instruction can move through  *)
(* the stages.  Addresses count instructions, and registers, memory and CSRs  *)
(* hold values of 0 .. Modulus - 1; memory is one cell.                      *)
(***************************************************************************)
EXTENDS Integers

CONSTANTS Modulus, Mtvec

Reg == 0 .. 2
Val == 0 .. Modulus - 1
Inst == [op  : {"alu", "mu", "load", "store", "branch", "jal", "csrrw",
                "ecall", "mret", "wfi", "nop",
                "devload", "devstore",     \* a load and a store of a device
                "illegal"},
         rd  : Reg, rs1 : Reg, rs2 : Reg,
         to  : Val,                        \* the target of branch and jal
         csr : {"mscratch", "mepc"}]

\* What the operations compute; all that matters is that the two differ and
\* depend on both operands.
AluOut(a, b) == (a + b + 1) % Modulus
MuOut(a, b)  == (2 * a + b) % Modulus
Plus1(p)     == (p + 1) % Modulus
Taken(i, a, b) == i.op = "jal" \/ (i.op = "branch" /\ a = b)
WritesReg(i) == i.op \in {"alu", "mu", "load", "devload", "jal", "csrrw"}

\* What user mode may not do: it traps as an illegal instruction or as an
\* access fault.
Privileged == {"mret", "wfi", "csrrw", "devload", "devstore"}
Faults(i, mode) == i.op \in {"ecall", "illegal"} \/ (mode = "U" /\ i.op \in Privileged)

VARIABLES
  pc, reg, mem, csr, prog,
  dev,              \* how many loads and stores the devices have answered
  mie, mpie,        \* the bits of mstatus
  priv, mpp         \* the mode, and the one to return to

vars == <<pc, reg, mem, csr, prog, dev, mie, mpie, priv, mpp>>

Trap ==
  /\ pc'   = Mtvec
  /\ csr'  = [csr EXCEPT !.mepc = pc]
  /\ mpie' = mie
  /\ mie'  = FALSE
  /\ mpp'  = priv
  /\ priv' = "M"
  /\ UNCHANGED <<reg, mem, dev, prog>>

Interrupt == mie /\ Trap

Return ==
  /\ pc'   = csr.mepc
  /\ mie'  = mpie
  /\ mpie' = TRUE
  /\ priv' = mpp
  /\ mpp'  = "U"
  /\ UNCHANGED <<reg, mem, dev, csr, prog>>

Result(i) ==
  CASE i.op = "alu"   -> AluOut(reg[i.rs1], reg[i.rs2])
    [] i.op = "mu"    -> MuOut(reg[i.rs1], reg[i.rs2])
    [] i.op = "load"  -> mem
    [] i.op = "devload" -> dev
    [] i.op = "jal"   -> Plus1(pc)
    [] i.op = "csrrw" -> csr[i.csr]

Ordinary(i) ==
  /\ pc'  = IF Taken(i, reg[i.rs1], reg[i.rs2]) THEN i.to ELSE Plus1(pc)
  /\ reg' = IF WritesReg(i) /\ i.rd # 0 THEN [reg EXCEPT ![i.rd] = Result(i)] ELSE reg
  /\ mem' = IF i.op = "store" THEN reg[i.rs2] ELSE mem
  /\ csr' = IF i.op = "csrrw" THEN [csr EXCEPT ![i.csr] = reg[i.rs1]] ELSE csr
  /\ dev' = IF i.op \in {"devload", "devstore"} THEN Plus1(dev) ELSE dev
  /\ UNCHANGED <<mie, mpie, priv, mpp, prog>>

Execute ==
  LET i == prog[pc]
  IN  \/ Faults(i, priv) /\ Trap
      \/ ~Faults(i, priv) /\ i.op = "mret" /\ Return
      \/ ~Faults(i, priv) /\ i.op # "mret" /\ Ordinary(i)

Init ==
  /\ pc = 0 /\ reg = [r \in Reg |-> 0] /\ mem = 0
  /\ csr = [mscratch |-> 0, mepc |-> 0]
  /\ mie = TRUE /\ mpie = TRUE
  /\ dev = 0
  /\ priv \in {"U", "M"} /\ mpp = "U"
  /\ prog \in [Val -> Inst]

Next == Execute \/ Interrupt
Spec == Init /\ [][Next]_vars

\* The machine never stops executing.
Progress == WF_vars(Next)
=============================================================================
