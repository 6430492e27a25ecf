----------------------------- MODULE MCPipeline -----------------------------
(* A user program of three instructions at 0 .. 2, a trap handler at 3 .. 5   *)
(* (Mtvec = 3) and what the fetch runs into behind it at 6.                   *)
EXTENDS Pipeline, TLC

MCInst(op, rd, rs1, rs2) ==
  [op |-> op, rd |-> rd, rs1 |-> rs1, rs2 |-> rs2, to |-> 0, csr |-> "mscratch"]

MCAdd    == MCInst("alu", 1, 1, 2)
MCCopy   == MCInst("alu", 2, 1, 0)
MCMu     == MCInst("mu", 1, 1, 2)
MCLoad   == MCInst("load", 1, 0, 0)
MCStore  == MCInst("store", 0, 0, 1)
MCBranch == MCInst("branch", 0, 1, 2)
MCJal    == MCInst("jal", 2, 0, 0)
MCSwap   == MCInst("csrrw", 1, 1, 0)
MCSetEpc == [MCInst("csrrw", 1, 2, 0) EXCEPT !.csr = "mepc"]
MCEcall  == MCInst("ecall", 0, 0, 0)
MCMret   == MCInst("mret", 0, 0, 0)
MCWfi    == MCInst("wfi", 0, 0, 0)
MCRxData == MCInst("devload", 1, 0, 0)
MCTxData == MCInst("devstore", 0, 0, 1)

MCUnprivileged == {MCAdd, MCMu, MCLoad, MCStore, MCBranch, MCJal, MCEcall}
MCPrivileged   == {MCSwap, MCWfi, MCMret, MCTxData}
MCHandlers     == {<<MCSwap, MCSetEpc>>, <<MCStore, MCMu>>, <<MCStore, MCLoad>>}
MCReceive      == <<MCStore, MCRxData>>

MCProgram(a, b, c, h) ==
  0 :> a @@ 1 :> b @@ 2 :> c @@ 3 :> h[1] @@ 4 :> h[2] @@ 5 :> MCMret @@ 6 :> MCAdd

(* What the shipped firmware does: behind a wfi comes an instruction that the  *)
(* core may hold in MEM while it sleeps (kernel.c:16-20 loops); the handler      *)
(* begins with a csrrw, and no multiplication follows its mret (trap_entry.s).   *)
MCMayWait(i) == i.op \in {"alu", "branch", "jal"}
MCShipped(p) == \A x \in 0 .. 2 : p[x].op = "wfi" => MCMayWait(p[x + 1])

(* Code of the kernel and of its idle task; it runs on into the handler's, except   *)
(* where that reads a device, which is done with interrupts off (ksys.c:51-59).   *)
MCMachine ==
  LET body == MCUnprivileged \cup {MCSwap, MCWfi}
  IN  {p \in {MCProgram(a, b, MCCopy, h) : a \in body, b \in body, h \in MCHandlers}
             \cup {MCProgram(a, b, MCJal, MCReceive) : a \in body, b \in {MCMu, MCTxData}} :
         MCShipped(p)}

(* Tasks that try what they may not do.                                        *)
MCTasks ==
  {MCProgram(a, b, MCJal, MCReceive) : a \in MCUnprivileged, b \in MCPrivileged}
  \cup {MCProgram(a, b, MCCopy, <<MCSwap, MCSetEpc>>) : a \in MCPrivileged, b \in {MCMu, MCBranch}}

MCStarts == [code : MCMachine, mode : {"M"}] \cup [code : MCTasks, mode : {"U"}]

(* A multiplication in the program and a handler that begins with a load.       *)
MCLoadInHandler ==
  {[code |-> MCProgram(MCAdd, MCMu, MCJal, <<MCLoad, MCStore>>), mode |-> "M"]}
=============================================================================
