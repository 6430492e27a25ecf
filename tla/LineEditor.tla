------------------------------ MODULE LineEditor ------------------------------
(***************************************************************************)
(* The line editor of src/sw/bootc/user/entry.c on the terminal: user_entry     *)
(* reads keys into buf, echoes them with a prompt behind them, and prints the   *)
(* line when it ends.  putc and puts send their characters one by one.          *)
(*                                                                          *)
(* The buffer is a function on 0 .. BufMax - 1; n_buf is a number modulo        *)
(* SizeMod.  The user is not here: the wheel moves nothing while the screen has  *)
(* no more rows than it shows, which is so until the line ends and as long as    *)
(* no tabulator ends a row.                                                 *)
(***************************************************************************)
EXTENDS Screen, SequencesExt

CONSTANTS
  BufMax,     \* BUF_MAX
  MaxUnder,   \* a bound on the backspaces on an empty line
  Printable   \* the printable keys, but for the blank and the underscore

\* What goes into the buffer.  The terminal cuts a character of the keyboard down
\* to its lowest byte, which may be any.
Keys == Printable \union {Space, Underscore, NUL, "TAB", "CR", "ESC"}

ASSUME EditorAssumption == /\ BufMax \in 2 .. Width - 1   \* a line and its prompt do not wrap
                           /\ MaxUnder \in Nat /\ SizeMod > BufMax + MaxUnder
                           /\ Printable \cap {Space, Underscore, NUL, "ESC", "CR", "NL", "BS", "TAB"} = {}

VARIABLES
  pc,          \* "getc", "terminate", "print", "free", or "wild" after a write
               \* outside the buffer
  out,         \* the characters that putc and puts have still to send
  buf, n_buf,
  screen,
  line,        \* history: the line as the user has edited it
  underflowed, \* history: a backspace on an empty line
  moved        \* history: a key in the line that writes nothing on the screen, but
               \* moves the cursor or starts an escape sequence

editorVars == <<pc, out, buf, n_buf>>
history    == <<line, underflowed, moved>>
vars       == <<editorVars, screen, history>>

Init ==
  /\ pc = "getc" /\ out = <<Underscore, "BS">>
  /\ buf \in {[i \in 0 .. BufMax - 1 |-> x] : x \in {NUL, "garbage"}}
  /\ n_buf = 0
  /\ screen = NewScreen
  /\ line = <<>> /\ underflowed = FALSE /\ moved = FALSE

Waiting == pc = "getc" /\ out = <<>>

-----------------------------------------------------------------------------
\* no blank over the prompt, which stays behind the cursor
MutRubOut == <<"BS", Underscore, "BS">>
RubOut == <<Space, "BS", "BS", Underscore, "BS">>

Backspace ==
  /\ Waiting
  /\ n_buf # (-MaxUnder) % SizeMod
  /\ out' = RubOut
  /\ n_buf' = (n_buf - 1) % SizeMod
  /\ line' = IF line = <<>> THEN <<>> ELSE Front(line)
  /\ underflowed' = (underflowed \/ line = <<>>)
  /\ UNCHANGED <<pc, buf, screen, moved>>

\* room for the key, but not for the '\0' behind it
MutHasRoom == n_buf < BufMax
HasRoom == n_buf < BufMax - 1

Insert(c) ==
  /\ Waiting
  /\ HasRoom
  /\ out' = <<c, Underscore, "BS">>
  /\ buf' = [buf EXCEPT ![n_buf] = c]
  /\ n_buf' = n_buf + 1
  /\ line' = Append(line, c)
  /\ moved' = (moved \/ c \in {"TAB", "CR", "ESC"})
  /\ UNCHANGED <<pc, screen, underflowed>>

Newline ==
  /\ Waiting
  /\ out' = <<Space, "NL">>
  /\ pc' = "terminate"
  /\ UNCHANGED <<buf, n_buf, screen, history>>

\* a line whose length is one more than it is
MutEndOfLine == n_buf + 1
EndOfLine == n_buf

(* buf[n_buf] = '\0'                                                         *)
Terminate ==
  /\ pc = "terminate" /\ out = <<>>
  /\ IF EndOfLine \in DOMAIN buf
     THEN pc' = "print" /\ buf' = [buf EXCEPT ![EndOfLine] = NUL]
     ELSE pc' = "wild" /\ UNCHANGED buf
  /\ UNCHANGED <<out, n_buf, screen, history>>

\* the characters of k_puts: those before the first '\0'
Text(b) ==
  LET ends == {i \in DOMAIN b : b[i] = NUL}
      n    == CHOOSE i \in ends : \A j \in ends : i <= j
  IN  [i \in 1 .. n |-> b[i - 1]]

PrintLine ==
  /\ pc = "print"
  /\ out' = Text(buf) \o <<"NL">>
  /\ pc' = "free"
  /\ UNCHANGED <<buf, n_buf, screen, history>>

(* putc and puts: the next character reaches the terminal.                     *)
Send ==
  /\ out # <<>>
  /\ screen' = Receive(screen, Head(out))
  /\ out' = Tail(out)
  /\ UNCHANGED <<pc, buf, n_buf, history>>

Next == \/ Backspace \/ Newline \/ \E c \in Keys : Insert(c)
        \/ Terminate \/ PrintLine \/ Send

Spec == Init /\ [][Next]_vars

-----------------------------------------------------------------------------
(* Whenever the program waits for a key, the row on the screen shows the line:    *)
(* the characters that have not been rubbed out, the underscore with the cursor   *)
(* on it, and nothing behind it.  A line with a tabulator, a carriage return or    *)
(* an escape is not shown: those move the cursor over several columns, to the     *)
(* left edge, or swallow the underscore that is echoed behind them (entry.c:19-27). *)
RowShowsTheLine ==
  Waiting /\ ~moved =>
    /\ screen.col = Len(line)
    /\ \A col \in 0 .. Width - 1 :
         SymbolAt(screen, screen.row, col) = IF col < screen.col THEN Glyph(line[col + 1])
                                             ELSE IF col = screen.col THEN Underscore
                                             ELSE Blank

(* The line that is printed is the one that was edited, up to the first '\0' that   *)
(* was typed, whatever the buffer held before, a full buffer and rubbing out       *)
(* included (entry.c:17-30).                                                 *)
PrintsTheLine ==
  pc = "print" /\ ~underflowed =>
    LET n == Len(Text(buf))
    IN  /\ n <= Len(line)
        /\ \A i \in 1 .. n : Text(buf)[i] = line[i] /\ line[i] # NUL
        /\ n < Len(line) => line[n + 1] = NUL

(* Nothing is written outside the buffer, and no key is dropped while there is   *)
(* room for it, unless there was a backspace on an empty line: that makes n_buf  *)
(* wrap, further keys are dropped, and the '\0' of the newline goes to an        *)
(* address in front of the buffer (entry.c:20-26).                             *)
StraysOnlyAfterUnderflow ==
  ~underflowed => /\ pc # "wild"
                  /\ Waiting => (HasRoom <=> Len(line) < BufMax - 1)
=============================================================================
