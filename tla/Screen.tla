-------------------------------- MODULE Screen --------------------------------
(***************************************************************************)
(* What one character does to the terminal of the simulator: the parser, the  *)
(* cursor and the ring buffer of TerminalController                           *)
(* (src/sim/src/controllers/term_controller.cpp), as operators on a record of  *)
(* its fields.                                                             *)
(*                                                                          *)
(*   state          m_state                                                 *)
(*   args, digits   m_ansi_args, m_ansi_arg_chars                            *)
(*   row, col       m_cursor_row, m_cursor_col                               *)
(*   buf            m_buf, the rows from the oldest; row i is buf[i+1]        *)
(*   start          m_viewport_start_line                                    *)
(*   thrown         a row outside m_buf was indexed: RingBuffer throws and    *)
(*                  main ends the simulation                                 *)
(*                                                                          *)
(* A cell is Blank, or shows the underscore of a prompt or any other Mark:       *)
(* which glyph and which colours are left out.                              *)
(***************************************************************************)
EXTENDS Integers, Sequences

CONSTANTS
  Width, Height,   \* m_viewport_w, m_viewport_h
  Cap,             \* m_buf_cap
  TabWidth,        \* TAB_WIDTH
  SizeMod          \* size_t is a number modulo SizeMod

ASSUME ScreenAssumption == /\ Width \in Nat \ {0} /\ Height \in Nat \ {0}
                           /\ Cap \in Nat /\ Cap >= Height
                           /\ TabWidth \in Nat \ {0}
                           /\ SizeMod \in Nat /\ SizeMod > Cap + Height /\ SizeMod > Width

Blank    == "blank"
Mark     == "mark"
Underscore == "_"
Space    == " "
NUL      == "NUL"
Glyph(c) == CASE c \in {Space, NUL} -> Blank [] c = Underscore -> Underscore [] OTHER -> Mark
BlankRow == [c \in 0 .. Width - 1 |-> Blank]

\* the characters '0' to '3'; the rest add nothing but larger numbers
DigitValue == [d0 |-> 0, d1 |-> 1, d2 |-> 2, d3 |-> 3]

Least(m, n)     == IF m < n THEN m ELSE n
SubClamp0(v, d) == IF v > d THEN v - d ELSE 0

\* the constructor
NewScreen == [state |-> "GROUND", args |-> <<>>, digits |-> <<>>,
              row |-> 0, col |-> 0, buf |-> <<BlankRow>>, start |-> 0, thrown |-> FALSE]

Size(s)         == Len(s.buf)
ActiveRow(s)    == s.start + s.row
Ground(s)       == [s EXCEPT !.state = "GROUND"]
Throw(s)        == [s EXCEPT !.thrown = TRUE]
RestoreView(s)  == [s EXCEPT !.start = SubClamp0(Size(s), Height)]

-----------------------------------------------------------------------------
(* Rows and the cursor.                                                     *)

PopFront(b)       == Tail(b)
PushBack(b, line) == IF Len(b) = Cap THEN b ELSE Append(b, line)

PushBlankRow(s) ==
  [s EXCEPT !.buf = PushBack(IF Len(@) = Cap THEN PopFront(@) ELSE @, BlankRow)]

\* a full buffer stays as it is
PushBlankUntil(s, size) ==
  [s EXCEPT !.buf = @ \o [i \in 1 .. Least(size, Cap) - Len(@) |-> BlankRow]]

ClearBuffer(s) == [s EXCEPT !.buf = <<>>, !.start = 0]

WithActiveRow(s) ==
  IF ActiveRow(s) >= Size(s)
  THEN RestoreView(PushBlankUntil(s, ActiveRow(s) + 1))
  ELSE s

CursorNewline(s) ==
  [WithActiveRow([s EXCEPT !.row = @ + 1]) EXCEPT
     !.row = IF @ >= Cap THEN Cap - 1 ELSE Least(@, Height - 1)]

CursorAdv(s) ==
  IF s.col + 1 >= Width THEN CursorNewline([s EXCEPT !.col = 0])
                        ELSE [s EXCEPT !.col = @ + 1]

CursorTab(s) ==
  LET next_tab == (s.col \div TabWidth + 1) * TabWidth
  IN  IF next_tab < Width THEN [s EXCEPT !.col = next_tab]
                          ELSE CursorNewline([s EXCEPT !.col = 0])

\* the cursor moves first
MutWriteSymbolAhead(s, c) ==
  LET n == CursorAdv(s) IN IF ActiveRow(n) >= Size(n) THEN Throw(s)
                           ELSE [n EXCEPT !.buf[ActiveRow(n) + 1][n.col] = Glyph(c)]

WriteSymbol(s, c) ==
  IF ActiveRow(s) >= Size(s)
  THEN Throw(s)
  ELSE CursorAdv([s EXCEPT !.buf[ActiveRow(s) + 1][s.col] = Glyph(c)])

-----------------------------------------------------------------------------
(* Escape sequences.                                                        *)

ParseUint(digits) ==
  LET val[n \in 0 .. Len(digits)] ==
        IF n = 0 THEN 0 ELSE (10 * val[n - 1] + digits[n]) % SizeMod
  IN  val[Len(digits)]

PushArg(s) == [s EXCEPT !.args = Append(@, ParseUint(s.digits)), !.digits = <<>>]
LastArg(s) == IF s.digits = <<>> THEN s ELSE PushArg(s)

Arg(s, i, default) == IF Len(s.args) >= i THEN s.args[i] ELSE default

CursorUp(s)      == [s EXCEPT !.row = SubClamp0(@, Arg(s, 1, 1))]
CursorForward(s) == [s EXCEPT !.col = Least((@ + Arg(s, 1, 1)) % SizeMod, Width - 1)]
CursorBack(s)    == [s EXCEPT !.col = SubClamp0(@, Arg(s, 1, 1))]

\* a cursor that goes down without the rows for it
MutCursorDownAlone(s) == [s EXCEPT !.row = Least((@ + Arg(s, 1, 1)) % SizeMod, Height - 1)]

CursorDown(s) ==
  LET down == [s EXCEPT !.row = Least((@ + Arg(s, 1, 1)) % SizeMod, Height - 1)]
  IN  PushBlankUntil(down, ActiveRow(down) + 1)

\* a coordinate of 0 wraps and ends at the far edge
Coordinate(s, i, size) == Least((Arg(s, i, 1) - 1) % SizeMod, size - 1)

CursorTo(s) ==
  LET row == Coordinate(s, 1, Height)
  IN  [PushBlankUntil(s, s.start + row + 1) EXCEPT
         !.row = row, !.col = Coordinate(s, 2, Width)]

BlankColumns(s, r, cols) ==
  [s EXCEPT !.buf[r + 1] = [c \in 0 .. Width - 1 |-> IF c \in cols THEN Blank ELSE @[c]]]

(* "ESC [ n J".  The loops of n = 0 and n = 1 assign each further row to the   *)
(* reference of the active row, and so blank that one instead; a bound of      *)
(* active_row() - 1 wraps in row 0.                                          *)
EraseDown(s) ==
  LET last == s.start + Height - 1
  IN  IF last >= Size(s) \/ ActiveRow(s) >= Size(s)
      THEN Throw(s)
      ELSE BlankColumns(s, ActiveRow(s),
             IF ActiveRow(s) < last THEN 0 .. Width - 1 ELSE s.col .. Width - 1)

EraseUp(s) ==
  IF ActiveRow(s) >= Size(s) \/ ActiveRow(s) = 0
  THEN Throw(s)
  ELSE BlankColumns(s, ActiveRow(s),
         IF s.row > 0 THEN 0 .. Width - 1 ELSE 0 .. s.col - 1)

EraseAll(s) ==
  IF s.start + Height > Size(s)
  THEN Throw(s)
  ELSE [s EXCEPT !.buf = [i \in DOMAIN @ |-> IF i > s.start /\ i <= s.start + Height
                                             THEN BlankRow ELSE @[i]]]

Erase(s) == CASE Arg(s, 1, 0) = 0 -> EraseDown(s)
              [] Arg(s, 1, 0) = 1 -> EraseUp(s)
              [] Arg(s, 1, 0) = 2 -> EraseAll(s)
              [] Arg(s, 1, 0) = 3 -> PushBlankRow(ClearBuffer(s))
              [] OTHER            -> s

-----------------------------------------------------------------------------
InGround(s, c) ==
  CASE c = "ESC" -> [s EXCEPT !.state = "ESCAPE"]
    [] c = "CR"  -> [s EXCEPT !.col = 0]
    [] c = "NL"  -> CursorNewline([s EXCEPT !.col = 0])
    [] c = "BS"  -> [s EXCEPT !.col = SubClamp0(@, 1)]
    [] c = "TAB" -> CursorTab(s)
    [] OTHER     -> WriteSymbol(s, c)

InEscape(s, c) ==
  [s EXCEPT !.args = <<>>, !.digits = <<>>, !.state = IF c = "[" THEN "CSI" ELSE "GROUND"]

InCsi(s, c) ==
  CASE c \in DOMAIN DigitValue -> [s EXCEPT !.digits = Append(@, DigitValue[c])]
    [] c = ";"  -> PushArg(s)
    [] c = "A"  -> Ground(CursorUp(LastArg(s)))
    [] c = "B"  -> Ground(CursorDown(LastArg(s)))
    [] c = "C"  -> Ground(CursorForward(LastArg(s)))
    [] c = "D"  -> Ground(CursorBack(LastArg(s)))
    [] c = "H"  -> Ground(CursorTo(LastArg(s)))
    [] c = "J"  -> Ground(Erase(LastArg(s)))
    [] OTHER    -> Ground(s)

\* the body of per_tick_update for one character
Interpret(s, c) ==
  CASE s.state = "GROUND" -> InGround(s, c)
    [] s.state = "ESCAPE" -> InEscape(s, c)
    [] s.state = "CSI"    -> InCsi(s, c)

\* output that leaves the viewport where the user has scrolled it
MutReceiveScrolled(s, c) == Interpret(s, c)

Receive(s, c) == Interpret(RestoreView(s), c)

-----------------------------------------------------------------------------
(* The scroll wheel, a reset, and what the drawer sees.                       *)

ScrollUp(s, delta) ==
  IF Size(s) > Height THEN [s EXCEPT !.start = SubClamp0(@, delta)] ELSE s

ScrollDown(s, delta) ==
  IF Size(s) > Height THEN [s EXCEPT !.start = Least(@ + delta, Size(s) - Height)] ELSE s

\* the parser keeps its state
ResetScreen(s) == PushBlankRow(ClearBuffer([s EXCEPT !.row = 0, !.col = 0]))

SymbolAt(s, row, col) ==
  IF s.start + row < Size(s) THEN s.buf[s.start + row + 1][col] ELSE Blank
=============================================================================
