----------------------------- MODULE MCLineEditor -----------------------------
(* A buffer of four characters on a screen of five columns and two rows, and every *)
(* key that the program or the terminal tells apart.                          *)
EXTENDS LineEditor

MCPrintable == {"x"}
=============================================================================
