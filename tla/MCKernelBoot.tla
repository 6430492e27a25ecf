---------------------------- MODULE MCKernelBoot ----------------------------
(***************************************************************************)
(* The kernel as kernel_main boots it: the idle task (slot 0, the lowest    *)
(* priority) and user_entry (slot 1), whose program below is the control     *)
(* flow of user/entry.c.                                                    *)
(***************************************************************************)
EXTENDS KernelProps, TLC

CONSTANTS wfi, loop, malloc, prompt, getc, echo, newline, puts, free, exit
CONSTANTS a, b

MCPriority == 0 :> 0 @@ 1 :> 1 @@ 2 :> 0   \* 0 and 50: only the order and FullSlice depend on them

MCNode == {wfi, loop, malloc, prompt, getc, echo, newline, puts, free, exit}

MCKind == [n \in MCNode |-> CASE n \in {wfi, loop} -> "work"
                              [] n = getc -> "getc"
                              [] n = exit -> "exit"
                              [] OTHER    -> "call"]

MCSucc == wfi     :> {loop}          @@ loop   :> {wfi}    @@ malloc :> {prompt} @@ prompt :> {getc} @@
          getc    :> {echo, newline, getc} @@ echo   :> {getc}   @@
          newline :> {puts}          @@ puts   :> {free}   @@ free   :> {exit} @@
          exit    :> {}

MCStart == 0 :> wfi @@ 1 :> malloc @@ 2 :> wfi

MCChar == {a, b}
=============================================================================
