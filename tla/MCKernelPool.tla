---------------------------- MODULE MCKernelPool ----------------------------
(***************************************************************************)
(* More tasks than kernel_main spawns, as spawn_task allows (up to           *)
(* MAX_TASKS): the idle task and others that may, at every instruction,      *)
(* compute, yield, read a character, exit or fault.  Either the idle task    *)
(* ranks below the others, which share a priority, or no two ranks are the   *)
(* same.                                                                    *)
(***************************************************************************)
EXTENDS KernelProps, TLC

CONSTANTS wfi, work, yield, getc, exit, fault, a

MCIdleLow  == [s \in Slot |-> IF s = 0 THEN 0 ELSE 1]
MCRising   == [s \in Slot |-> s]

Users  == {work, yield, getc, exit, fault}
MCNode == {wfi} \union Users

MCKind == wfi  :> "work" @@ work :> "work" @@ yield :> "yield" @@
          getc :> "getc" @@ exit :> "exit" @@ fault :> "fault"

MCSucc == [n \in MCNode |-> CASE n = wfi  -> {wfi}
                              [] n = work -> Users
                              [] OTHER    -> {work}]

MCStart == [s \in Slot |-> IF s = 0 THEN wfi ELSE work]

MCChar == {a}
=============================================================================
