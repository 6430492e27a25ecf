------------------------------- MODULE MCClint -------------------------------
(* Words of five values, so that the clock carries into its high half every     *)
(* five ticks, and deadlines three ticks apart, so that they fall on every value *)
(* of the low half.                                                         *)
EXTENDS Clint
=============================================================================
