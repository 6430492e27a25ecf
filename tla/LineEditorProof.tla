--------------------------- MODULE LineEditorProof ---------------------------
(***************************************************************************)
(* Proofs about module LineEditor, for a screen of any size, a buffer of any     *)
(* size that fits in a row with the prompt, and any keys: the line that is        *)
(* printed is the one that was edited, and nothing is written outside the buffer,  *)
(* as long as there is no backspace on an empty line; and the row on the screen    *)
(* shows the line, as long as there is nothing in it that moves the cursor.      *)
(***************************************************************************)
EXTENDS LineEditor, WellFoundedInduction, SequenceTheorems, TLAPS

Cells == Keys \union {"garbage"}

TypeInv ==
  /\ pc \in {"getc", "terminate", "print", "free", "wild"}
  /\ buf \in [0 .. BufMax - 1 -> Cells]
  /\ n_buf \in Nat
  /\ line \in Seq(Keys)
  /\ underflowed \in BOOLEAN

(* The program's idea of the line.                                             *)
Agrees ==
  /\ n_buf = Len(line) /\ n_buf <= BufMax - 1
  /\ \A i \in 1 .. Len(line) : buf[i - 1] = line[i]
  /\ pc # "wild"
  /\ pc = "print" => buf[n_buf] = NUL

IInv == TypeInv /\ (underflowed \/ Agrees)

-----------------------------------------------------------------------------
LEMMA Bounds == BufMax \in Nat /\ BufMax >= 2 /\ SizeMod \in Nat /\ SizeMod > BufMax
  BY EditorAssumption, ScreenAssumption

(* Of the indices of the '\0's in the buffer, one is the least.                  *)
LEMMA LeastIndex ==
  ASSUME NEW T \in SUBSET Nat, T # {}
  PROVE  \E m \in T : \A k \in T : m <= k
<1> DEFINE Below == {p \in Nat \X Nat : p[1] < p[2]}
<1>1. IsWellFoundedOn(Below, Nat)
  BY NatLessThanWellFounded DEF OpToRel
<1> HIDE DEF Below
<1>2. PICK m \in T : \A k \in T : ~(<<k, m>> \in Below)
  BY <1>1, WFMin
<1>3. \A k \in T : ~(k < m)
  BY <1>2 DEF Below
<1>4. QED
  BY <1>3

LEMMA FrontOf ==
  ASSUME NEW s \in Seq(Keys), s # <<>>
  PROVE  /\ Front(s) \in Seq(Keys) /\ Len(s) >= 1 /\ Len(Front(s)) = Len(s) - 1
         /\ \A i \in 1 .. Len(s) - 1 : Front(s)[i] = s[i]
<1>1. Len(s) \in Nat /\ Len(s) >= 1
  OBVIOUS
<1> DEFINE n == Len(s) - 1
<1>2. n \in Int /\ 1 \in Int /\ \A i \in 1 .. n : s[i] \in Keys
  BY <1>1
<1>3. Front(s) = SubSeq(s, 1, n)
  BY DEF Front
<1> HIDE DEF n
<1>4. /\ SubSeq(s, 1, n) \in Seq(Keys)
      /\ Len(SubSeq(s, 1, n)) = IF 1 <= n THEN n - 1 + 1 ELSE 0
      /\ \A i \in 1 .. n - 1 + 1 : SubSeq(s, 1, n)[i] = s[1 + i - 1]
  BY <1>2, SubSeqProperties
<1>5. n = Len(s) - 1
  BY DEF n
<1>6. Len(SubSeq(s, 1, n)) = Len(s) - 1
  BY <1>1, <1>4, <1>5
<1>7. \A i \in 1 .. Len(s) - 1 : SubSeq(s, 1, n)[i] = s[i]
  <2>1. \A i \in 1 .. Len(s) - 1 : i \in 1 .. n - 1 + 1 /\ 1 + i - 1 = i
    BY <1>1, <1>5
  <2>2. QED
    BY <1>4, <2>1
<1>8. QED
  BY <1>1, <1>3, <1>4, <1>6, <1>7, Zenon

LEMMA AppendOf ==
  ASSUME NEW s \in Seq(Keys), NEW c \in Keys
  PROVE  /\ Append(s, c) \in Seq(Keys) /\ Len(Append(s, c)) = Len(s) + 1
         /\ Append(s, c)[Len(s) + 1] = c
         /\ \A i \in 1 .. Len(s) : Append(s, c)[i] = s[i]
  OBVIOUS

-----------------------------------------------------------------------------
LEMMA InitInv == Init => IInv
<1> SUFFICES ASSUME Init PROVE IInv
  OBVIOUS
<1>1. line = <<>> /\ n_buf = 0 /\ pc = "getc"
  BY DEF Init
<1>2. underflowed \in BOOLEAN
  BY Zenon DEF Init
<1>3. PICK x \in {NUL, "garbage"} : buf = [i \in 0 .. BufMax - 1 |-> x]
  BY DEF Init
<1>4. buf \in [0 .. BufMax - 1 -> Cells]
  BY <1>3 DEF Cells, Keys
<1>5. TypeInv
  BY <1>1, <1>2, <1>4 DEF TypeInv
<1>6. Agrees
  BY <1>1, Bounds DEF Agrees
<1>7. QED
  BY <1>5, <1>6 DEF IInv

LEMMA BackspaceStep == IInv /\ Backspace => IInv'
<1> SUFFICES ASSUME IInv, Backspace PROVE IInv'
  OBVIOUS
<1>1. pc = "getc" /\ pc' = pc /\ buf' = buf /\ n_buf' = (n_buf - 1) % SizeMod
  BY DEF Backspace, Waiting
<1>2. line' = IF line = <<>> THEN <<>> ELSE Front(line)
  BY DEF Backspace
<1>3. underflowed' = (underflowed \/ line = <<>>)
  BY DEF Backspace
<1>4. n_buf' \in Nat
  BY <1>1, Bounds DEF IInv, TypeInv
<1>5. line' \in Seq(Keys)
  BY <1>2, FrontOf DEF IInv, TypeInv
<1>6. underflowed' \in BOOLEAN
  BY <1>3
<1>7. TypeInv'
  BY <1>1, <1>4, <1>5, <1>6 DEF IInv, TypeInv
<1>8. ASSUME ~underflowed' PROVE Agrees'
  <2>1. Agrees /\ line # <<>> /\ line \in Seq(Keys)
    BY <1>3, <1>8 DEF IInv, TypeInv
  <2>2. /\ line' = Front(line) /\ Len(line) >= 1 /\ Len(line') = Len(line) - 1
        /\ \A i \in 1 .. Len(line) - 1 : line'[i] = line[i]
    BY <1>2, <2>1, FrontOf
  <2>3. n_buf - 1 \in 0 .. SizeMod - 1
    BY <2>1, <2>2, Bounds DEF Agrees
  <2>4. n_buf' = n_buf - 1
    BY <1>1, <2>3, Bounds
  <2>5. n_buf' = Len(line') /\ n_buf' <= BufMax - 1
    BY <2>1, <2>2, <2>4, Bounds DEF Agrees
  <2>6. \A i \in 1 .. Len(line') : buf'[i - 1] = line'[i]
    BY <1>1, <2>1, <2>2 DEF Agrees
  <2>7. QED
    BY <1>1, <2>5, <2>6 DEF Agrees
<1>9. QED
  BY <1>7, <1>8 DEF IInv

LEMMA InsertStep == ASSUME IInv, NEW c \in Keys, Insert(c) PROVE IInv'
<1>1. pc = "getc" /\ pc' = pc /\ n_buf < BufMax - 1 /\ n_buf' = n_buf + 1
  BY DEF Insert, Waiting, HasRoom
<1>2. buf' = [buf EXCEPT ![n_buf] = c] /\ line' = Append(line, c)
  BY DEF Insert
<1>3. underflowed' = underflowed
  BY DEF Insert
<1>4. buf \in [0 .. BufMax - 1 -> Cells] /\ n_buf \in 0 .. BufMax - 1 /\ c \in Cells
  BY <1>1, Bounds DEF IInv, TypeInv, Cells
<1>5. buf' \in [0 .. BufMax - 1 -> Cells]
  BY <1>2, <1>4
<1>6. TypeInv'
  BY <1>1, <1>2, <1>3, <1>5, AppendOf DEF IInv, TypeInv
<1>7. ASSUME ~underflowed' PROVE Agrees'
  <2>1. Agrees /\ line \in Seq(Keys)
    BY <1>3, <1>7 DEF IInv, TypeInv
  <2>2. /\ Len(line') = Len(line) + 1 /\ line'[Len(line) + 1] = c
        /\ \A i \in 1 .. Len(line) : line'[i] = line[i]
    BY <1>2, <2>1, AppendOf
  <2>3. n_buf' = Len(line') /\ n_buf' <= BufMax - 1
    BY <1>1, <1>4, <2>1, <2>2, Bounds DEF Agrees
  <2>4. ASSUME NEW i \in 1 .. Len(line') PROVE buf'[i - 1] = line'[i]
    <3>1. CASE i = Len(line) + 1
      BY <1>2, <1>4, <2>1, <2>2, <3>1 DEF Agrees
    <3>2. CASE i \in 1 .. Len(line)
      <4>1. i - 1 # n_buf /\ i - 1 \in 0 .. BufMax - 1
        <5>1. i - 1 < n_buf
          BY <1>4, <2>1, <3>2 DEF Agrees
        <5>2. QED
          BY <1>4, <3>2, <5>1, Bounds
      <4>2. QED
        BY <1>2, <1>4, <2>1, <2>2, <3>2, <4>1 DEF Agrees
    <3>3. QED
      BY <2>1, <2>2, <3>1, <3>2
  <2>5. QED
    BY <1>1, <2>3, <2>4 DEF Agrees
<1>8. QED
  BY <1>6, <1>7 DEF IInv

LEMMA TerminateStep == IInv /\ Terminate => IInv'
<1> SUFFICES ASSUME IInv, Terminate PROVE IInv'
  OBVIOUS
<1>1. UNCHANGED <<n_buf, line, underflowed>>
  BY DEF Terminate, history
<1>2. CASE n_buf \in DOMAIN buf
  <2>1. pc' = "print" /\ buf' = [buf EXCEPT ![n_buf] = NUL]
    BY <1>2 DEF Terminate, EndOfLine
  <2>2. buf \in [0 .. BufMax - 1 -> Cells] /\ n_buf \in 0 .. BufMax - 1 /\ NUL \in Cells
    BY <1>2 DEF IInv, TypeInv, Cells, Keys
  <2>3. buf' \in [0 .. BufMax - 1 -> Cells] /\ buf'[n_buf] = NUL
    BY <2>1, <2>2
  <2>4. TypeInv'
    BY <1>1, <2>1, <2>3 DEF IInv, TypeInv
  <2>5. ASSUME Agrees PROVE Agrees'
    <3>1. \A i \in 1 .. Len(line) : i - 1 # n_buf /\ buf'[i - 1] = buf[i - 1]
      BY <2>1, <2>2, <2>5 DEF Agrees
    <3>2. QED
      BY <1>1, <2>1, <2>3, <2>5, <3>1 DEF Agrees
  <2>6. QED
    BY <1>1, <2>4, <2>5 DEF IInv
<1>3. CASE n_buf \notin DOMAIN buf
  <2>1. pc' = "wild" /\ buf' = buf
    BY <1>3 DEF Terminate, EndOfLine
  <2>2. ~Agrees
    BY <1>3, Bounds DEF IInv, TypeInv, Agrees
  <2>3. QED
    BY <1>1, <2>1, <2>2 DEF IInv, TypeInv
<1>4. QED
  BY <1>2, <1>3

LEMMA InductiveStep == IInv /\ [Next]_vars => IInv'
<1> SUFFICES ASSUME IInv, [Next]_vars PROVE IInv'
  OBVIOUS
<1>1. CASE Backspace
  BY <1>1, BackspaceStep
<1>2. CASE \E c \in Keys : Insert(c)
  BY <1>2, InsertStep
<1>3. CASE Terminate
  BY <1>3, TerminateStep
<1>4. CASE Newline \/ PrintLine \/ Send \/ UNCHANGED vars
  <2>1. UNCHANGED <<buf, n_buf, line, underflowed>>
    BY <1>4 DEF Newline, PrintLine, Send, vars, editorVars, history
  <2>2. pc' \in {pc, "terminate", "free"}
    BY <1>4 DEF Newline, PrintLine, Send, vars, editorVars, history
  <2>3. QED
    BY <2>1, <2>2 DEF IInv, TypeInv, Agrees
<1>5. QED
  BY <1>1, <1>2, <1>3, <1>4 DEF Next

-----------------------------------------------------------------------------
(* The buffer of entry.c holds the edited line and is not left, and has room      *)
(* exactly while the line is short (entry.c:20-26).                            *)
THEOREM StaysInBuffer == Spec => []StraysOnlyAfterUnderflow
<1>1. ASSUME IInv PROVE StraysOnlyAfterUnderflow
  <2>1. ASSUME Agrees PROVE pc # "wild" /\ (n_buf < BufMax - 1 <=> Len(line) < BufMax - 1)
    BY <2>1 DEF Agrees
  <2>2. QED
    BY <1>1, <2>1 DEF IInv, StraysOnlyAfterUnderflow, HasRoom
<1>2. QED
  BY <1>1, InitInv, InductiveStep, PTL DEF Spec

(* What is printed is the line (entry.c:17-30): the text before the first '\0'    *)
(* is all of it, or all up to the first '\0' that was typed, whatever the buffer   *)
(* held before.                                                             *)
THEOREM LineIsPrinted == Spec => []PrintsTheLine
<1>1. ASSUME IInv, pc = "print", ~underflowed
      PROVE  LET n == Len(Text(buf))
             IN  /\ n <= Len(line)
                 /\ \A i \in 1 .. n : Text(buf)[i] = line[i] /\ line[i] # NUL
                 /\ n < Len(line) => line[n + 1] = NUL
  <2>1. /\ buf \in [0 .. BufMax - 1 -> Cells] /\ line \in Seq(Keys)
        /\ n_buf = Len(line) /\ n_buf \in 0 .. BufMax - 1 /\ buf[n_buf] = NUL
        /\ \A i \in 1 .. Len(line) : buf[i - 1] = line[i]
    BY <1>1 DEF IInv, TypeInv, Agrees
  <2> DEFINE ends == {i \in DOMAIN buf : buf[i] = NUL}
             n    == CHOOSE i \in ends : \A j \in ends : i <= j
  <2>2. PICK m \in ends : \A j \in ends : m <= j
    <3>1. n_buf \in ends /\ ends \subseteq Nat
      BY <2>1
    <3>2. QED
      BY <3>1, LeastIndex
  <2>3. n \in ends /\ \A j \in ends : n <= j
    BY <2>2
  <2>4. Text(buf) = [i \in 1 .. n |-> buf[i - 1]]
    BY Zenon DEF Text
  <2> HIDE DEF n
  <2>5. n \in Nat /\ n <= n_buf /\ buf[n] = NUL /\ n_buf \in Nat
    BY <2>1, <2>3
  <2>6. Len(Text(buf)) = n /\ \A i \in 1 .. n : Text(buf)[i] = buf[i - 1]
    BY <2>4, <2>5
  <2>7. ASSUME NEW i \in 1 .. n PROVE Text(buf)[i] = line[i] /\ line[i] # NUL
    <3>1. i \in 1 .. Len(line) /\ i - 1 \in 0 .. BufMax - 1 /\ i - 1 < n
      BY <2>1, <2>5, Bounds
    <3>2. buf[i - 1] # NUL
      BY <2>1, <2>3, <2>5, <3>1
    <3>3. QED
      BY <2>1, <2>6, <3>1, <3>2
  <2>8. n < Len(line) => line[n + 1] = NUL
    <3>1. n < Len(line) => n + 1 \in 1 .. Len(line) /\ (n + 1) - 1 = n
      BY <2>1, <2>5
    <3>2. QED
      BY <2>1, <2>5, <3>1
  <2>9. QED
    BY <2>1, <2>5, <2>6, <2>7, <2>8
<1>2. IInv => PrintsTheLine
  BY <1>1 DEF PrintsTheLine
<1>3. QED
  BY <1>2, InitInv, InductiveStep, PTL DEF Spec

-----------------------------------------------------------------------------
(* The row on the screen.  A line that fits in a row never scrolls, so the screen   *)
(* has one row.                                                             *)

Rows  == [0 .. Width - 1 -> {Blank, Underscore, Mark}]
Flats == [state : {"GROUND"}, args : {<<>>}, digits : {<<>>}, row : {0},
          col : 0 .. Width - 1, buf : {<<r>> : r \in Rows}, start : {0}, thrown : {FALSE}]

Row(s) == s.buf[1]

(* The first n characters of line l, and nothing behind column k.                  *)
Around(s, l, n, k) ==
  \A c \in 0 .. Width - 1 : /\ c < n => Row(s)[c] = Glyph(l[c + 1])
                            /\ c > k => Row(s)[c] = Blank

Prompt(s, l) == Around(s, l, Len(l), Len(l)) /\ Row(s)[Len(l)] = Underscore

\* the keys that write something on the screen
Echoing == Printable \union {Space, Underscore, NUL}

(* What the screen shows of line l while the characters o are still to be sent:     *)
(* those of a key, of the prompt behind it, or of RubOut, which has blanked the      *)
(* prompt of a line of k characters before it moves back.                        *)
Echo(o, s, l) ==
  LET n == Len(l)
  IN  \/ o = <<>>                /\ s.col = n     /\ Prompt(s, l)
      \/ o = <<"BS">>            /\ s.col = n + 1 /\ Prompt(s, l)
      \/ o = <<Underscore, "BS">> /\ s.col = n    /\ Around(s, l, n, n)
      \/ \E c \in Echoing : /\ o = <<c, Underscore, "BS">>
                            /\ s.col + 1 = n /\ c = l[n] /\ Around(s, l, n - 1, n - 1)
      \/ \E k \in 0 .. BufMax - 1 :
           /\ n = SubClamp0(k, 1) /\ Around(s, l, n, k)
           /\ \/ o = RubOut /\ s.col = k
              \/ /\ Row(s)[k] = Blank
                 /\ \/ o = <<"BS", "BS", Underscore, "BS">> /\ s.col = k + 1
                    \/ o = <<"BS", Underscore, "BS">>       /\ s.col = k

(* After a backspace on an empty line the line stays empty: n_buf has wrapped.      *)
Underflow ==
  underflowed => line = <<>> /\ n_buf \in SizeMod - MaxUnder .. SizeMod - 1

EchoInv ==
  pc = "getc" /\ ~moved => screen \in Flats /\ Echo(out, screen, line)

RowInv == IInv /\ Underflow /\ EchoInv

LEMMA Sizes ==
  /\ Width \in Nat /\ Height \in Nat /\ Height >= 1 /\ BufMax \in Nat /\ BufMax >= 2
  /\ BufMax < Width /\ MaxUnder \in Nat /\ SizeMod \in Nat /\ SizeMod > BufMax + MaxUnder
  BY EditorAssumption, ScreenAssumption

LEMMA FlatRow ==
  ASSUME NEW s \in Flats
  PROVE  /\ Row(s) \in Rows /\ s.buf = <<Row(s)>> /\ Size(s) = 1 /\ s.col \in 0 .. Width - 1
         /\ s.row = 0 /\ s.start = 0 /\ s.state = "GROUND" /\ RestoreView(s) = s
<1>1. PICK r \in Rows : s.buf = <<r>>
  BY DEF Flats
<1>2. /\ s.col \in 0 .. Width - 1 /\ s.row = 0 /\ s.start = 0 /\ s.state = "GROUND"
  BY DEF Flats
<1>3. Row(s) = r /\ Size(s) = 1
  BY <1>1 DEF Row, Size
<1>4. SubClamp0(1, Height) = 0
  BY Sizes DEF SubClamp0
<1>5. RestoreView(s) = s
  BY <1>2, <1>3, <1>4 DEF RestoreView, Flats
<1>6. QED
  BY <1>1, <1>2, <1>3, <1>5

(* A symbol that is not in the last column.                                      *)
LEMMA SymbolSent ==
  ASSUME NEW s \in Flats, s.col + 1 < Width, NEW c \in Echoing
  PROVE  LET t == Receive(s, c)
         IN  /\ t \in Flats /\ t.col = s.col + 1
             /\ Row(t) = [Row(s) EXCEPT ![s.col] = Glyph(c)]
<1> DEFINE r == [s.buf[1] EXCEPT ![s.col] = Glyph(c)]
           b == [s.buf EXCEPT ![1] = r]
           u == [s EXCEPT !.buf = b]
           t == [u EXCEPT !.col = s.col + 1]
<1>1. /\ Row(s) \in Rows /\ s.buf = <<Row(s)>> /\ Size(s) = 1 /\ s.col \in 0 .. Width - 1
      /\ s.row = 0 /\ s.start = 0 /\ s.state = "GROUND" /\ RestoreView(s) = s
  BY FlatRow
<1>2. c \notin {"ESC", "CR", "NL", "BS", "TAB"}
  <2>1. \A x \in {Space, Underscore, NUL} : x \notin {"ESC", "CR", "NL", "BS", "TAB"}
    BY Zenon DEF Space, Underscore, NUL
  <2>2. QED
    BY <2>1, EditorAssumption DEF Echoing
<1>3. Receive(s, c) = WriteSymbol(s, c)
  BY <1>1, <1>2 DEF Receive, Interpret, InGround
<1>4. ActiveRow(s) = 0
  BY <1>1 DEF ActiveRow
<1>5. Glyph(c) \in {Blank, Underscore, Mark}
  BY DEF Glyph
<1>6. r \in Rows /\ s.buf[1] = Row(s)
  BY <1>1, <1>5 DEF Row, Rows
<1>7. WriteSymbol(s, c) = CursorAdv(u)
  BY <1>1, <1>4 DEF WriteSymbol
<1> HIDE DEF r
<1>8. b = <<r>>
  BY <1>1
<1> HIDE DEF b
<1>9. u \in Flats /\ u.col = s.col /\ u.buf = b
  BY <1>6, <1>8 DEF Flats
<1> HIDE DEF u
<1>10. CursorAdv(u) = t
  BY <1>1, <1>9, Sizes DEF CursorAdv
<1>11. t \in Flats /\ t.col = s.col + 1 /\ t.buf = b
  <2>1. s.col + 1 \in 0 .. Width - 1
    BY <1>1, Sizes
  <2>2. QED
    BY <1>9, <2>1 DEF Flats
<1> HIDE DEF t
<1>12. Row(t) = r
  BY <1>8, <1>11 DEF Row
<1>13. QED
  BY <1>3, <1>6, <1>7, <1>10, <1>11, <1>12 DEF r

LEMMA BackSent ==
  ASSUME NEW s \in Flats
  PROVE  LET t == Receive(s, "BS")
         IN  t \in Flats /\ t.col = SubClamp0(s.col, 1) /\ Row(t) = Row(s)
<1> DEFINE c == SubClamp0(s.col, 1)
           t == [s EXCEPT !.col = c]
<1>1. s.col \in 0 .. Width - 1 /\ s.state = "GROUND" /\ RestoreView(s) = s
  BY FlatRow
<1>2. Receive(s, "BS") = t
  BY <1>1 DEF Receive, Interpret, InGround
<1>3. c \in 0 .. Width - 1
  BY <1>1, Sizes DEF SubClamp0
<1> HIDE DEF c
<1>4. t \in Flats /\ t.col = c /\ t.buf = s.buf
  BY <1>3 DEF Flats
<1> HIDE DEF t
<1>5. QED
  BY <1>2, <1>4 DEF Row, c

(* A column behind the first n characters, in which something is written.          *)
LEMMA AroundWritten ==
  ASSUME NEW s, NEW t, NEW l, NEW n \in Nat, NEW k \in 0 .. Width - 1, n <= k,
         \A i \in 0 .. Width - 1 : i # k => Row(t)[i] = Row(s)[i],
         Around(s, l, n, k)
  PROVE  Around(t, l, n, k)
  BY DEF Around

LEMMA GlyphOf == Glyph(Space) = Blank /\ Glyph(Underscore) = Underscore
<1>1. Space # Underscore /\ NUL # Underscore
  BY Zenon DEF Space, Underscore, NUL
<1>2. QED
  BY <1>1 DEF Glyph

(* One more character is sent.                                                 *)
LEMMA EchoSent ==
  ASSUME NEW s \in Flats, NEW l \in Seq(Keys), Len(l) \in 0 .. BufMax - 1,
         NEW o, Echo(o, s, l), o # <<>>
  PROVE  LET t == Receive(s, Head(o)) IN t \in Flats /\ Echo(Tail(o), t, l)
<1> DEFINE t == Receive(s, Head(o))
           n == Len(l)
<1>1. n \in 0 .. Width - 1 /\ n + 1 < Width /\ n \in Nat
  BY Sizes
<1>2. s.col \in 0 .. Width - 1 /\ Row(s) \in Rows
  BY FlatRow
<1> HIDE DEF n
<1>3. CASE o = <<"BS">> /\ s.col = n + 1 /\ Prompt(s, l)
  <2>1. Head(o) = "BS" /\ Tail(o) = <<>>
    BY <1>3
  <2>2. t \in Flats /\ t.col = SubClamp0(n + 1, 1) /\ Row(t) = Row(s)
    BY <1>3, <2>1, BackSent
  <2> HIDE DEF t
  <2>3. t.col = n
    BY <1>1, <2>2 DEF SubClamp0
  <2>4. Prompt(t, l)
    BY <1>3, <2>2 DEF Prompt, Around
  <2>5. QED
    BY <2>1, <2>2, <2>3, <2>4 DEF Echo, t, n
<1>4. CASE o = <<Underscore, "BS">> /\ s.col = n /\ Around(s, l, n, n)
  <2>1. Head(o) = Underscore /\ Tail(o) = <<"BS">>
    BY <1>4
  <2>2. /\ t \in Flats /\ t.col = n + 1
        /\ Row(t) = [Row(s) EXCEPT ![n] = Underscore]
    BY <1>1, <1>4, <2>1, SymbolSent, GlyphOf DEF Echoing
  <2> HIDE DEF t
  <2>3. Around(t, l, n, n) /\ Row(t)[n] = Underscore
    <3>1. Row(t)[n] = Underscore /\ \A i \in 0 .. Width - 1 : i # n => Row(t)[i] = Row(s)[i]
      BY <1>1, <1>2, <2>2 DEF Rows
    <3>2. QED
      BY <1>1, <1>4, <3>1, AroundWritten
  <2>4. Prompt(t, l)
    BY <2>3 DEF Prompt, n
  <2>5. QED
    BY <2>1, <2>2, <2>4 DEF Echo, t, n
<1>5. ASSUME NEW c \in Echoing, o = <<c, Underscore, "BS">>,
             s.col + 1 = n, c = l[n], Around(s, l, n - 1, n - 1)
      PROVE  t \in Flats /\ Echo(Tail(o), t, l)
  <2>1. Head(o) = c /\ Tail(o) = <<Underscore, "BS">>
    BY <1>5
  <2>2. n - 1 \in 0 .. Width - 1 /\ n - 1 \in Nat /\ s.col = n - 1 /\ s.col + 1 < Width
    BY <1>1, <1>2, <1>5, Sizes
  <2>3. t \in Flats /\ t.col = n /\ Row(t) = [Row(s) EXCEPT ![n - 1] = Glyph(c)]
    BY <1>5, <2>1, <2>2, SymbolSent
  <2> HIDE DEF t
  <2>4. Around(t, l, n - 1, n - 1) /\ Row(t)[n - 1] = Glyph(c)
    <3>1. /\ Row(t)[n - 1] = Glyph(c)
          /\ \A i \in 0 .. Width - 1 : i # n - 1 => Row(t)[i] = Row(s)[i]
      BY <1>2, <2>2, <2>3 DEF Rows
    <3>2. QED
      BY <1>5, <2>2, <3>1, AroundWritten
  <2>5. Around(t, l, n, n)
    <3>1. ASSUME NEW i \in 0 .. Width - 1, i < n PROVE Row(t)[i] = Glyph(l[i + 1])
      <4>1. CASE i < n - 1
        BY <2>4, <4>1 DEF Around
      <4>2. CASE i = n - 1
        <5>1. l[i + 1] = c
          BY <1>1, <1>5, <4>2
        <5>2. QED
          BY <2>4, <4>2, <5>1
      <4>3. QED
        BY <1>1, <3>1, <4>1, <4>2
    <3>2. \A i \in 0 .. Width - 1 : i > n => Row(t)[i] = Blank
      BY <1>1, <2>4 DEF Around
    <3>3. QED
      BY <3>1, <3>2 DEF Around
  <2>6. QED
    BY <2>1, <2>3, <2>5 DEF Echo, t, n
<1>6. ASSUME NEW k \in 0 .. BufMax - 1, n = SubClamp0(k, 1), Around(s, l, n, k),
             \/ o = RubOut /\ s.col = k
             \/ /\ Row(s)[k] = Blank
                /\ \/ o = <<"BS", "BS", Underscore, "BS">> /\ s.col = k + 1
                   \/ o = <<"BS", Underscore, "BS">>       /\ s.col = k
      PROVE t \in Flats /\ Echo(Tail(o), t, l)
  <2>1. k \in 0 .. Width - 1 /\ k + 1 < Width /\ k \in Nat /\ n <= k
    BY <1>6, Sizes DEF SubClamp0
  <2>2. CASE o = RubOut /\ s.col = k
    <3>1. Head(o) = Space /\ Tail(o) = <<"BS", "BS", Underscore, "BS">>
      BY <2>2 DEF RubOut
    <3>2. t \in Flats /\ t.col = k + 1 /\ Row(t) = [Row(s) EXCEPT ![k] = Blank]
      BY <2>1, <2>2, <3>1, SymbolSent, GlyphOf DEF Echoing
    <3> HIDE DEF t
    <3>3. Around(t, l, n, k) /\ Row(t)[k] = Blank
      <4>1. Row(t)[k] = Blank /\ \A i \in 0 .. Width - 1 : i # k => Row(t)[i] = Row(s)[i]
        BY <1>2, <2>1, <3>2 DEF Rows
      <4>2. QED
        BY <1>1, <1>6, <2>1, <4>1, AroundWritten
    <3>4. QED
      BY <1>6, <3>1, <3>2, <3>3 DEF Echo, t, n
  <2>3. CASE Row(s)[k] = Blank /\ o = <<"BS", "BS", Underscore, "BS">> /\ s.col = k + 1
    <3>1. Head(o) = "BS" /\ Tail(o) = <<"BS", Underscore, "BS">>
      BY <2>3
    <3>2. t \in Flats /\ t.col = SubClamp0(k + 1, 1) /\ Row(t) = Row(s)
      BY <2>3, <3>1, BackSent
    <3> HIDE DEF t
    <3>3. t.col = k
      BY <2>1, <3>2 DEF SubClamp0
    <3>4. Around(t, l, n, k) /\ Row(t)[k] = Blank
      BY <1>6, <2>3, <3>2 DEF Around
    <3>5. QED
      BY <1>6, <3>1, <3>2, <3>3, <3>4 DEF Echo, t, n
  <2>4. CASE Row(s)[k] = Blank /\ o = <<"BS", Underscore, "BS">> /\ s.col = k
    <3>1. Head(o) = "BS" /\ Tail(o) = <<Underscore, "BS">>
      BY <2>4
    <3>2. t \in Flats /\ t.col = n /\ Row(t) = Row(s)
      BY <1>6, <2>4, <3>1, BackSent
    <3> HIDE DEF t
    <3>3. k = n + 1 \/ (k = 0 /\ n = 0)
      BY <1>6, <2>1 DEF SubClamp0
    <3>4. \A c \in 0 .. Width - 1 : c > n => c = k \/ c > k
      BY <1>1, <2>1, <3>3
    <3>5. Around(t, l, n, n)
      BY <1>6, <2>4, <3>2, <3>4 DEF Around
    <3>6. QED
      BY <3>1, <3>2, <3>5 DEF Echo, t, n
  <2>5. QED
    BY <1>6, <2>2, <2>3, <2>4
<1> HIDE DEF t
<1>7. QED
  BY <1>3, <1>4, <1>5, <1>6 DEF Echo, t, n

LEMMA NothingToSend ==
  ASSUME NEW s, NEW l, NEW o, Echo(o, s, l), o = <<>>
  PROVE  s.col = Len(l) /\ Prompt(s, l)
<1>1. \A c : o # <<c, Underscore, "BS">>
  OBVIOUS
<1>2. o # RubOut
  BY DEF RubOut
<1>3. /\ o # <<"BS">> /\ o # <<Underscore, "BS">>
      /\ o # <<"BS", "BS", Underscore, "BS">> /\ o # <<"BS", Underscore, "BS">>
  OBVIOUS
<1>4. QED
  BY <1>1, <1>2, <1>3 DEF Echo

LEMMA LineFits == IInv /\ Underflow => Len(line) \in 0 .. BufMax - 1
<1> SUFFICES ASSUME IInv, Underflow PROVE Len(line) \in 0 .. BufMax - 1
  OBVIOUS
<1>1. line \in Seq(Keys)
  BY DEF IInv, TypeInv
<1>2. CASE underflowed
  BY <1>2, Sizes DEF Underflow
<1>3. CASE ~underflowed
  BY <1>1, <1>3, Sizes DEF IInv, Agrees
<1>4. QED
  BY <1>2, <1>3

LEMMA UnderflowStep == IInv /\ Underflow /\ [Next]_vars => Underflow'
<1> SUFFICES ASSUME IInv, Underflow, [Next]_vars PROVE Underflow'
  OBVIOUS
<1>1. CASE Backspace
  <2> SUFFICES ASSUME underflowed' PROVE Underflow'
    BY DEF Underflow
  <2>1. /\ n_buf # (-MaxUnder) % SizeMod /\ n_buf' = (n_buf - 1) % SizeMod
        /\ line' = IF line = <<>> THEN <<>> ELSE Front(line)
    BY <1>1 DEF Backspace
  <2>2. underflowed' = (underflowed \/ line = <<>>)
    BY <1>1 DEF Backspace
  <2>3. line = <<>>
    BY <2>2 DEF Underflow
  <2>4. line' = <<>>
    BY <2>1, <2>3
  <2>5. MaxUnder = 0 => (-MaxUnder) % SizeMod = 0
    BY Sizes
  <2>6. MaxUnder > 0 => (-MaxUnder) % SizeMod = SizeMod - MaxUnder
    BY Sizes
  <2>7. n_buf' \in SizeMod - MaxUnder .. SizeMod - 1
    <3>1. CASE underflowed
      <4>1. n_buf \in SizeMod - MaxUnder .. SizeMod - 1
        BY <3>1 DEF Underflow
      <4>2. n_buf # SizeMod - MaxUnder
        BY <2>1, <2>6, <4>1, Sizes
      <4>3. n_buf - 1 \in 0 .. SizeMod - 1
        BY <4>1, <4>2, Sizes
      <4>4. n_buf' = n_buf - 1
        BY <2>1, <4>3, Sizes
      <4>5. QED
        BY <4>1, <4>2, <4>4, Sizes
    <3>2. CASE ~underflowed
      <4>1. n_buf = 0
        BY <2>3, <3>2 DEF IInv, Agrees
      <4>2. MaxUnder > 0
        BY <2>1, <2>5, <4>1, Sizes
      <4>3. n_buf' = SizeMod - 1
        BY <2>1, <4>1, Sizes
      <4>4. QED
        BY <4>2, <4>3, Sizes
    <3>3. QED
      BY <3>1, <3>2
  <2>8. QED
    BY <2>4, <2>7 DEF Underflow
<1>2. CASE \E c \in Keys : Insert(c)
  <2>1. n_buf < BufMax - 1 /\ n_buf \in Nat
    BY <1>2 DEF Insert, HasRoom, IInv, TypeInv
  <2>2. ~underflowed
    BY <2>1, Sizes DEF Underflow
  <2>3. underflowed' = underflowed
    BY <1>2 DEF Insert
  <2>4. QED
    BY <2>2, <2>3 DEF Underflow
<1>3. CASE Newline \/ Terminate \/ PrintLine \/ Send \/ UNCHANGED vars
  BY <1>3 DEF Newline, Terminate, PrintLine, Send, vars, editorVars, history, Underflow
<1>4. QED
  BY <1>1, <1>2, <1>3 DEF Next

LEMMA EchoStep == RowInv /\ [Next]_vars => EchoInv'
<1> SUFFICES ASSUME RowInv, [Next]_vars, pc' = "getc", ~moved'
             PROVE  screen' \in Flats /\ Echo(out', screen', line')
  BY DEF EchoInv
<1>1. Len(line) \in 0 .. BufMax - 1 /\ line \in Seq(Keys)
  BY LineFits DEF RowInv, IInv, TypeInv
<1>2. pc = "getc"
  BY DEF Next, Backspace, Newline, Insert, Terminate, PrintLine, Send, vars, editorVars
<1>3. moved => moved'
  BY Zenon DEF Next, Backspace, Newline, Insert, Terminate, PrintLine, Send, vars, history
<1>4. screen \in Flats /\ Echo(out, screen, line)
  BY <1>2, <1>3 DEF RowInv, EchoInv
<1>5. CASE Backspace
  <2>1. out = <<>> /\ out' = RubOut /\ screen' = screen
    BY <1>5 DEF Backspace, Waiting
  <2>2. line' = IF line = <<>> THEN <<>> ELSE Front(line)
    BY <1>5 DEF Backspace
  <2>3. screen.col = Len(line) /\ Around(screen, line, Len(line), Len(line))
    BY <1>4, <2>1, NothingToSend DEF Prompt
  <2>4. /\ Len(line') = SubClamp0(Len(line), 1) /\ Len(line') <= Len(line)
        /\ \A i \in 1 .. Len(line') : line'[i] = line[i]
    <3>1. CASE line = <<>>
      BY <2>2, <3>1 DEF SubClamp0
    <3>2. CASE line # <<>>
      BY <1>1, <2>2, <3>2, FrontOf DEF SubClamp0
    <3>3. QED
      BY <3>1, <3>2
  <2>5. Around(screen, line', Len(line'), Len(line))
    <3>1. ASSUME NEW c \in 0 .. Width - 1, c < Len(line')
          PROVE  Row(screen)[c] = Glyph(line'[c + 1])
      <4>1. c + 1 \in 1 .. Len(line') /\ c < Len(line)
        BY <1>1, <2>4, <3>1 DEF SubClamp0
      <4>2. QED
        BY <2>3, <2>4, <4>1 DEF Around
    <3>2. QED
      BY <2>3, <3>1 DEF Around
  <2>6. QED
    BY <1>1, <1>4, <2>1, <2>3, <2>4, <2>5 DEF Echo
<1>6. CASE \E c \in Keys : Insert(c)
  <2>1. PICK c \in Keys : Insert(c)
    BY <1>6
  <2>2. out = <<>> /\ out' = <<c, Underscore, "BS">> /\ screen' = screen /\ line' = Append(line, c)
    BY <2>1 DEF Insert, Waiting
  <2>3. c \in Echoing
    <3>1. c \notin {"TAB", "CR", "ESC"}
      BY <2>1 DEF Insert
    <3>2. QED
      BY <3>1 DEF Keys, Echoing
  <2>4. screen.col = Len(line) /\ Around(screen, line, Len(line), Len(line))
    BY <1>4, <2>2, NothingToSend DEF Prompt
  <2>5. /\ Len(line') = Len(line) + 1 /\ Len(line') - 1 = Len(line) /\ line'[Len(line')] = c
        /\ \A i \in 1 .. Len(line) : line'[i] = line[i]
    BY <1>1, <2>2, AppendOf
  <2>6. Around(screen, line', Len(line') - 1, Len(line') - 1)
    <3>1. ASSUME NEW i \in 0 .. Width - 1, i < Len(line)
          PROVE  Row(screen)[i] = Glyph(line'[i + 1])
      <4>1. i + 1 \in 1 .. Len(line)
        BY <1>1, <3>1
      <4>2. QED
        BY <2>4, <2>5, <3>1, <4>1 DEF Around
    <3>2. QED
      BY <2>4, <2>5, <3>1 DEF Around
  <2>7. QED
    BY <1>4, <2>2, <2>3, <2>4, <2>5, <2>6 DEF Echo
<1>7. CASE Send
  <2>1. out # <<>> /\ screen' = Receive(screen, Head(out)) /\ out' = Tail(out) /\ line' = line
    BY <1>7 DEF Send, history
  <2>2. QED
    BY <1>1, <1>4, <2>1, EchoSent
<1>8. CASE UNCHANGED vars
  BY <1>4, <1>8 DEF vars, editorVars, history
<1>9. ~(Newline \/ Terminate \/ PrintLine)
  BY <1>2 DEF Newline, Terminate, PrintLine
<1>10. QED
  BY <1>5, <1>6, <1>7, <1>8, <1>9 DEF Next

LEMMA InitRow == Init => RowInv
<1> SUFFICES ASSUME Init PROVE RowInv
  OBVIOUS
<1>1. /\ out = <<Underscore, "BS">> /\ screen = NewScreen /\ line = <<>>
  BY DEF Init
<1>2. ~underflowed
  BY Zenon DEF Init
<1>3. BlankRow \in Rows
  BY DEF BlankRow, Rows
<1>4. screen \in Flats /\ screen.col = 0 /\ Row(screen) = BlankRow
  <2> DEFINE e == <<>>
             b == <<BlankRow>>
             t == [state |-> "GROUND", args |-> e, digits |-> e,
                   row |-> 0, col |-> 0, buf |-> b, start |-> 0, thrown |-> FALSE]
  <2>1. screen = t
    BY <1>1 DEF NewScreen
  <2>2. b \in {<<r>> : r \in Rows} /\ e \in {<<>>} /\ 0 \in 0 .. Width - 1
    BY <1>3, Sizes
  <2> HIDE DEF b, e
  <2>3. t \in Flats /\ t.col = 0 /\ t.buf = b
    BY <2>2 DEF Flats
  <2> HIDE DEF t
  <2>4. QED
    BY <2>1, <2>3 DEF Row, b
<1>5. Around(screen, line, 0, 0)
  BY <1>4, Sizes DEF Around, BlankRow
<1>6. Len(line) = 0
  BY <1>1
<1>7. Echo(out, screen, line)
  BY <1>1, <1>4, <1>5, <1>6 DEF Echo
<1>8. QED
  BY <1>2, <1>4, <1>7, InitInv DEF RowInv, EchoInv, Underflow

(* The invariant of the line on the screen.                                     *)
THEOREM RowInvariant == Spec => []RowInv
<1>1. RowInv /\ [Next]_vars => RowInv'
  BY InductiveStep, UnderflowStep, EchoStep DEF RowInv
<1>2. QED
  BY <1>1, InitRow, PTL DEF Spec

(* Whenever the program waits for a key, the row shows the line, with the prompt    *)
(* behind it and nothing else, whatever was typed and rubbed out, backspaces on an  *)
(* empty line included, as long as no tabulator, carriage return or escape was      *)
(* (entry.c:19-27).                                                         *)
THEOREM LineIsShown == Spec => []RowShowsTheLine
<1>1. RowInv => RowShowsTheLine
  <2> SUFFICES ASSUME RowInv, Waiting, ~moved PROVE RowShowsTheLine
    BY DEF RowShowsTheLine
  <2> DEFINE n == Len(line)
  <2>1. screen \in Flats /\ Echo(out, screen, line) /\ out = <<>>
    BY DEF RowInv, EchoInv, Waiting
  <2>2. screen.col = n /\ Around(screen, line, n, n) /\ Row(screen)[n] = Underscore
    BY <2>1, NothingToSend DEF Prompt
  <2>3. Size(screen) = 1 /\ screen.row = 0 /\ screen.start = 0
    BY <2>1, FlatRow
  <2>4. n \in 0 .. BufMax - 1
    BY LineFits DEF RowInv
  <2> HIDE DEF n
  <2>5. ASSUME NEW col \in 0 .. Width - 1
        PROVE  SymbolAt(screen, 0, col) = IF col < n THEN Glyph(line[col + 1])
                                          ELSE IF col = n THEN Underscore ELSE Blank
    <3>1. SymbolAt(screen, 0, col) = Row(screen)[col]
      BY <2>3 DEF SymbolAt, Row
    <3>2. /\ col < n => Row(screen)[col] = Glyph(line[col + 1])
          /\ col > n => Row(screen)[col] = Blank
          /\ Row(screen)[n] = Underscore
      BY <2>2 DEF Around
    <3>3. col < n \/ col = n \/ col > n
      BY <2>4, Sizes
    <3>4. QED
      BY <2>4, <3>1, <3>2, <3>3, Sizes
  <2>6. QED
    BY <2>2, <2>3, <2>5 DEF RowShowsTheLine, n
<1>2. QED
  BY <1>1, RowInvariant, PTL
=============================================================================
