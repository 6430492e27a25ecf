----------------------------- MODULE Processes ------------------------------
(***************************************************************************)
(* What the kernel promises its tasks: each is a sequential process with    *)
(* registers of its own, which no other task and no interrupt disturbs, and  *)
(* they share one input port, each character of which goes to one getc.      *)
(* There is no scheduler here, no queue and no saved context; module Kernel   *)
(* implements this on one processor.                                        *)
(***************************************************************************)
CONSTANTS Process, Node, Kind, Succ, Start, Char, NoChar, Gone

VARIABLES proc,   \* the registers of each process, or Gone after exit
          port    \* the character at the input port, or NoChar

Init ==
  /\ proc = [p \in Process |-> [pc |-> Start[p], a0 |-> NoChar, sp |-> p]]
  /\ port = NoChar

At(p, kind) == proc[p] # Gone /\ Kind[proc[p].pc] = kind

Local(p) ==
  /\ At(p, "work") \/ At(p, "call") \/ At(p, "yield")
  /\ \E n \in Succ[proc[p].pc] : proc' = [proc EXCEPT ![p].pc = n]
  /\ UNCHANGED port

Receive(p) ==
  /\ At(p, "getc")
  /\ port # NoChar
  /\ \E n \in Succ[proc[p].pc] :
       proc' = [proc EXCEPT ![p] = [@ EXCEPT !.pc = n, !.a0 = port]]
  /\ port' = NoChar

Leave(p) ==
  /\ At(p, "exit")
  /\ proc' = [proc EXCEPT ![p] = Gone]
  /\ UNCHANGED port

Arrive ==
  /\ port = NoChar
  /\ port' \in Char
  /\ UNCHANGED proc

Step(p) == Local(p) \/ Receive(p) \/ Leave(p)
Next    == Arrive \/ \E p \in Process : Step(p)

Spec     == Init /\ [][Next]_<<proc, port>>
\* Every process makes progress, whatever the others do.
Progress == \A p \in Process : WF_<<proc, port>>(Step(p))
=============================================================================
