----------------------------- MODULE MCSimulation -----------------------------
(* Two clock periods and two frame times, so that a frame owes none, one or      *)
(* more ticks than it may run; a dump of no samples, and one that ends in the    *)
(* middle of a tick; two memories of which one is a row longer.                *)
EXTENDS Simulation

MCPeriods    == {1, 4}
MCFrameTimes == {1, 3}
MCLengths    == {0, 3}
MCSections   == {"IMEM", "DMEM"}
MCSizeOf     == [s \in MCSections |-> IF s = "IMEM" THEN 12 ELSE 16]
MCValueWidths == {1, 2, 4}
=============================================================================
