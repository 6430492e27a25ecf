------------------------------- MODULE MCConsole -------------------------------
(* A screen of two rows of two columns with one row of scrollback, and every     *)
(* character that the terminal tells apart.                                   *)
EXTENDS Console

MCChars == {"x", "NL", "CR", "BS", "TAB", "ESC", "[", ";", "d0", "d2", "A", "B", "C", "D", "H"}

(* The erase sequences as well.                                              *)
MCEraseChars == {"x", "NL", "ESC", "[", "d1", "d2", "d3", "B", "H", "J"}
=============================================================================
