----------------------------- MODULE ConsoleProof -----------------------------
(***************************************************************************)
(* Proofs about module Console, for screens, buffers, alphabets and numbers of   *)
(* keys of any size.  The keys reach the software in the order in which they are  *)
(* typed.  And as long as the software sends no erase sequence, the terminal uses  *)
(* no row that it does not have, keeps the rows that have scrolled off the screen,  *)
(* and shows what is written.                                               *)
(*                                                                          *)
(* The invariant of the screen is Sound: with the viewport brought back to the     *)
(* newest rows, as the first thing a character does, the row under the cursor is   *)
(* in the buffer.  Each operator of module Screen has a lemma that says that it     *)
(* keeps this, and which rows it leaves as they were.                          *)
(***************************************************************************)
EXTENDS Console, SequenceTheorems, WellFoundedInduction, TLAPS

-----------------------------------------------------------------------------
(* Keys.                                                                    *)

(* A receive register (valid and data) and a queue q hold, in their order, the      *)
(* keys behind the r-th up to the t-th.                                        *)
Holds(valid, data, q, r, t) ==
  /\ valid \in BOOLEAN /\ q \in Seq(Int) /\ r \in Nat /\ t \in Nat
  /\ valid  => /\ data = r + 1 /\ Len(q) = t - r - 1
               /\ \A i \in 1 .. Len(q) : q[i] = r + 1 + i
  /\ ~valid => /\ Len(q) = t - r
               /\ \A i \in 1 .. Len(q) : q[i] = r + i

QueueInv == Holds(rx_valid, rx_data, m_rx_queue, read, typed)

-----------------------------------------------------------------------------
(* The end of per_tick_update passes on the first key, or leaves all as they are.   *)
LEMMA FillKeeps ==
  ASSUME NEW valid \in BOOLEAN, NEW r, NEW t,
         Holds(valid, rx_data, m_rx_queue, r, t), FillRxData(valid)
  PROVE  Holds(rx_valid', rx_data', m_rx_queue', r, t)
<1> DEFINE q == m_rx_queue
<1>1. CASE q # <<>> /\ ~valid
  <2>1. rx_data' = Head(q) /\ rx_valid' = TRUE /\ m_rx_queue' = Tail(q)
    BY <1>1 DEF FillRxData
  <2>2. /\ q \in Seq(Int) /\ r \in Nat /\ t \in Nat /\ Len(q) = t - r
        /\ \A i \in 1 .. Len(q) : q[i] = r + i
    BY <1>1 DEF Holds
  <2> HIDE DEF q
  <2>3. /\ Tail(q) \in Seq(Int) /\ Len(Tail(q)) = Len(q) - 1
        /\ \A i \in 1 .. Len(Tail(q)) : Tail(q)[i] = q[i + 1]
    BY <1>1, <2>2, HeadTailProperties, Zenon
  <2>4. Len(q) \in Nat /\ Len(q) >= 1 /\ Head(q) = q[1]
    BY <1>1, <2>2
  <2>5. Head(q) = r + 1
    BY <2>2, <2>4
  <2>6. \A i \in 1 .. Len(Tail(q)) : Tail(q)[i] = r + 1 + i
    BY <2>2, <2>3, <2>4
  <2>7. Len(Tail(q)) = t - r - 1
    BY <2>2, <2>3
  <2>8. Holds(TRUE, Head(q), Tail(q), r, t)
    BY <2>2, <2>3, <2>5, <2>6, <2>7 DEF Holds
  <2>9. QED
    BY <2>1, <2>8
<1>2. CASE ~(q # <<>> /\ ~valid)
  <2>1. rx_valid' = valid /\ rx_data' = rx_data /\ m_rx_queue' = m_rx_queue
    BY <1>2 DEF FillRxData
  <2>2. QED
    BY <2>1
<1>3. QED
  BY <1>1, <1>2

LEMMA InitQueue == Init => QueueInv
<1> SUFFICES ASSUME Init PROVE QueueInv
  OBVIOUS
<1>1. rx_valid = FALSE /\ m_rx_queue = <<>> /\ read = 0 /\ typed = 0
  BY DEF Init
<1>2. Holds(FALSE, rx_data, <<>>, 0, 0)
  BY DEF Holds
<1>3. QED
  BY <1>1, <1>2 DEF QueueInv

LEMMA GetcStep == QueueInv /\ Getc => QueueInv'
<1> SUFFICES ASSUME QueueInv, Getc PROVE QueueInv'
  OBVIOUS
<1>1. rx_valid /\ read' = read + 1 /\ FillRxData(FALSE) /\ typed' = typed
  BY DEF Getc, QuietTick
<1>2. Holds(FALSE, rx_data, m_rx_queue, read + 1, typed)
  BY <1>1 DEF QueueInv, Holds
<1>3. Holds(rx_valid', rx_data', m_rx_queue', read + 1, typed)
  BY <1>1, <1>2, FillKeeps
<1>4. QED
  BY <1>1, <1>3 DEF QueueInv

LEMMA EnqueueStep == QueueInv /\ EnqueueChar => QueueInv'
<1> SUFFICES ASSUME QueueInv, EnqueueChar PROVE QueueInv'
  OBVIOUS
<1> DEFINE q == m_rx_queue
           p == Append(q, typed + 1)
<1>1. /\ m_rx_queue' = p /\ typed' = typed + 1 /\ read' = read
      /\ rx_valid' = rx_valid /\ rx_data' = rx_data
  BY DEF EnqueueChar
<1>2. q \in Seq(Int) /\ typed \in Nat /\ read \in Nat /\ rx_valid \in BOOLEAN
  BY DEF QueueInv, Holds
<1>3. /\ p \in Seq(Int) /\ Len(p) = Len(q) + 1 /\ p[Len(q) + 1] = typed + 1
      /\ \A i \in 1 .. Len(q) : p[i] = q[i]
  BY <1>2
<1>4. Len(q) \in Nat
  BY <1>2
<1> HIDE DEF p, q
<1>5. CASE rx_valid
  <2>1. /\ rx_data = read + 1 /\ Len(q) = typed - read - 1
        /\ \A i \in 1 .. Len(q) : q[i] = read + 1 + i
    BY <1>5 DEF QueueInv, Holds, q
  <2>2. ASSUME NEW i \in 1 .. Len(p) PROVE p[i] = read + 1 + i
    <3>1. CASE i \in 1 .. Len(q)
      BY <1>3, <2>1, <3>1
    <3>2. CASE i = Len(q) + 1
      BY <1>2, <1>3, <2>1, <3>2
    <3>3. QED
      BY <1>3, <1>4, <3>1, <3>2
  <2>3. Len(p) = (typed + 1) - read - 1 /\ typed + 1 \in Nat
    BY <1>2, <1>3, <2>1
  <2>4. Holds(rx_valid, rx_data, p, read, typed + 1)
    BY <1>2, <1>3, <1>5, <2>1, <2>2, <2>3 DEF Holds
  <2>5. QED
    BY <1>1, <2>4 DEF QueueInv
<1>6. CASE ~rx_valid
  <2>1. Len(q) = typed - read /\ \A i \in 1 .. Len(q) : q[i] = read + i
    BY <1>6 DEF QueueInv, Holds, q
  <2>2. \A i \in 1 .. Len(p) : p[i] = read + i
    BY <1>2, <1>3, <1>4, <2>1
  <2>3. Len(p) = (typed + 1) - read /\ typed + 1 \in Nat
    BY <1>2, <1>3, <2>1
  <2>4. Holds(rx_valid, rx_data, p, read, typed + 1)
    BY <1>2, <1>3, <1>6, <2>2, <2>3 DEF Holds
  <2>5. QED
    BY <1>1, <2>4 DEF QueueInv
<1>7. QED
  BY <1>5, <1>6

LEMMA ResetStep == Reset => QueueInv'
<1> SUFFICES ASSUME Reset PROVE QueueInv'
  OBVIOUS
<1>1. rx_valid' = FALSE /\ m_rx_queue' = <<>> /\ read' = 0 /\ typed' = 0
  BY DEF Reset
<1>2. Holds(FALSE, rx_data', <<>>, 0, 0)
  BY DEF Holds
<1>3. QED
  BY <1>1, <1>2 DEF QueueInv

LEMMA QueueStep == QueueInv /\ [Next]_vars => QueueInv'
<1> SUFFICES ASSUME QueueInv, [Next]_vars PROVE QueueInv'
  OBVIOUS
<1>1. CASE Idle \/ \E c \in Chars : Putc(c)
  <2>1. FillRxData(rx_valid) /\ read' = read /\ typed' = typed
    BY <1>1 DEF Idle, QuietTick, Putc
  <2>2. rx_valid \in BOOLEAN
    BY DEF QueueInv, Holds
  <2>3. Holds(rx_valid', rx_data', m_rx_queue', read, typed)
    BY <2>1, <2>2, FillKeeps DEF QueueInv
  <2>4. QED
    BY <2>1, <2>3 DEF QueueInv
<1>2. CASE Getc
  BY <1>2, GetcStep
<1>3. CASE EnqueueChar
  BY <1>3, EnqueueStep
<1>4. CASE (\E delta \in 1 .. Cap : Scroll(delta)) \/ UNCHANGED vars
  BY <1>4 DEF Scroll, vars, QueueInv
<1>5. CASE Reset
  BY <1>5, ResetStep
<1>6. QED
  BY <1>1, <1>2, <1>3, <1>4, <1>5 DEF Next

-----------------------------------------------------------------------------
(* Keys are neither lost, nor read twice, nor overtaken on their way through the   *)
(* terminal's queue and the UART (term_controller.cpp:247-251, uart_term.sv:47-55). *)
THEOREM InOrder == Spec => []KeysInOrder
<1>1. ASSUME QueueInv PROVE KeysInOrder
  <2> DEFINE q == m_rx_queue
  <2>1. /\ q \in Seq(Int) /\ read \in Nat /\ typed \in Nat /\ Len(q) \in Nat
        /\ q = [i \in 1 .. Len(q) |-> q[i]]
    BY <1>1 DEF QueueInv, Holds
  <2>2. CASE rx_valid
    <3>1. /\ rx_data = read + 1 /\ Len(q) = typed - read - 1
          /\ \A i \in 1 .. Len(q) : q[i] = read + 1 + i
      BY <1>1, <2>2 DEF QueueInv, Holds
    <3> DEFINE s == <<rx_data>> \o q
    <3>2. /\ s \in Seq(Int) /\ Len(s) = Len(q) + 1 /\ s[1] = rx_data
          /\ \A i \in 2 .. Len(q) + 1 : s[i] = q[i - 1]
      BY <2>1, <3>1
    <3> HIDE DEF s, q
    <3>3. \A i \in 1 .. typed - read : s[i] = read + i
      <4>1. ASSUME NEW i \in 2 .. Len(q) + 1 PROVE s[i] = read + i
        <5>1. i - 1 \in 1 .. Len(q) /\ s[i] = q[i - 1]
          BY <2>1, <3>2
        <5>2. q[i - 1] = read + 1 + (i - 1)
          BY <3>1, <5>1
        <5>3. QED
          BY <2>1, <5>1, <5>2
      <4>2. s[1] = read + 1
        BY <3>1, <3>2
      <4>3. \A i \in 1 .. typed - read : i = 1 \/ i \in 2 .. Len(q) + 1
        BY <2>1, <3>1
      <4>4. QED
        BY <4>1, <4>2, <4>3
    <3>4. s = [i \in 1 .. Len(s) |-> s[i]]
      BY <3>2
    <3>5. s = [i \in 1 .. typed - read |-> read + i]
      BY <2>1, <3>1, <3>2, <3>3, <3>4
    <3>6. QED
      BY <2>2, <3>5 DEF KeysInOrder, s, q
  <2>3. CASE ~rx_valid
    <3>1. Len(q) = typed - read /\ \A i \in 1 .. Len(q) : q[i] = read + i
      BY <1>1, <2>3 DEF QueueInv, Holds
    <3>2. <<>> \o q = q
      BY <2>1
    <3> HIDE DEF q
    <3>3. q = [i \in 1 .. typed - read |-> read + i]
      BY <2>1, <3>1
    <3>4. QED
      BY <2>3, <3>2, <3>3 DEF KeysInOrder, q
  <2>4. QED
    BY <2>2, <2>3
<1>2. QED
  BY <1>1, InitQueue, QueueStep, PTL DEF Spec
-----------------------------------------------------------------------------
(* Induction over the natural numbers, as the existence of a least element.       *)
LEMMA LeastNat ==
  ASSUME NEW T \in SUBSET Nat, T # {}
  PROVE  \E m \in T : \A k \in T : m <= k
<1> DEFINE R == {ss \in Nat \X Nat : ss[1] < ss[2]}
<1>1. IsWellFoundedOn(R, Nat)
  BY NatLessThanWellFounded DEF OpToRel
<1> HIDE DEF R
<1>2. PICK m \in T : \A k \in T : ~(<<k, m>> \in R)
  BY <1>1, WFMin
<1>3. \A k \in T : ~(k < m)
  BY <1>2 DEF R
<1>4. QED
  BY <1>3

(* Induction up to n.                                                           *)
LEMMA UpTo ==
  ASSUME NEW n \in Nat, NEW T, 0 \in T, \A i \in 0 .. n - 1 : i \in T => i + 1 \in T
  PROVE  \A i \in 0 .. n : i \in T
<1> DEFINE Bad == {i \in 0 .. n : i \notin T}
<1> SUFFICES ASSUME Bad # {} PROVE FALSE
  OBVIOUS
<1>1. PICK m \in Bad : \A k \in Bad : m <= k
  <2>1. Bad \in SUBSET Nat
    OBVIOUS
  <2> HIDE DEF Bad
  <2>2. QED
    BY <2>1, LeastNat
<1>2. m \in 0 .. n /\ m \notin T /\ m # 0
  OBVIOUS
<1>3. m - 1 \in 0 .. n - 1 /\ m - 1 \in 0 .. n
  BY <1>2
<1>4. m - 1 \in T
  BY <1>1, <1>3
<1>5. (m - 1) + 1 \in T /\ (m - 1) + 1 = m
  BY <1>2, <1>3, <1>4
<1>6. QED
  BY <1>2, <1>5

-----------------------------------------------------------------------------
(* Screens.                                                                 *)

Cells == {Blank, Underscore, Mark}
Rows  == [0 .. Width - 1 -> Cells]

Screens == [state : {"GROUND", "ESCAPE", "CSI"}, args : Seq(Nat), digits : Seq(0 .. 3),
            row : Nat, col : Nat, buf : Seq(Rows), start : Nat, thrown : {FALSE}]

\* where the viewport starts that shows the newest rows
Top(s) == SubClamp0(Size(s), Height)

(* The cursor is on the screen, and whether or not the user has scrolled, the     *)
(* row under the cursor exists once the viewport is back.                         *)
Sound(s) ==
  /\ s \in Screens
  /\ s.row \in 0 .. Height - 1 /\ s.col \in 0 .. Width - 1
  /\ Size(s) \in 1 .. Cap /\ s.start \in 0 .. Top(s)
  /\ Top(s) + s.row < Size(s)

AtHome(s) == Sound(s) /\ s.start = Top(s)

(* t has the rows of s, and perhaps more behind them.                            *)
Extends(s, t) ==
  Size(s) <= Size(t) /\ \A i \in 1 .. Size(s) : t.buf[i] = s.buf[i]

(* t has the rows of s that are above the screen.                               *)
Keeps(s, t) ==
  \A i \in 1 .. Size(s) - Height : i <= Size(t) /\ t.buf[i] = s.buf[i]

LEMMA Bounds ==
  /\ Width \in Nat /\ Width >= 1 /\ Height \in Nat /\ Height >= 1
  /\ Cap \in Nat /\ Cap >= Height /\ TabWidth \in Nat /\ TabWidth >= 1
  /\ SizeMod \in Nat /\ SizeMod > Cap + Height /\ SizeMod > Width
  BY ScreenAssumption

LEMMA Blanks == BlankRow \in Rows
  BY DEF BlankRow, Rows, Cells

LEMMA SizeIsNat == \A s \in Screens : Size(s) \in Nat /\ Top(s) \in Nat /\ Top(s) <= Size(s)
<1> SUFFICES ASSUME NEW s \in Screens PROVE Size(s) \in Nat /\ Top(s) \in Nat /\ Top(s) <= Size(s)
  OBVIOUS
<1>1. s.buf \in Seq(Rows)
  BY DEF Screens
<1>2. Size(s) \in Nat
  BY <1>1 DEF Size
<1>3. QED
  BY <1>2, Bounds DEF Top, SubClamp0

(* Fields that an operator leaves alone.                                        *)
LEMMA Viewed ==
  ASSUME NEW s \in Screens, NEW v \in Nat
  PROVE  LET t == [s EXCEPT !.start = v]
         IN  /\ t \in Screens /\ t.start = v /\ t.row = s.row /\ t.col = s.col
             /\ t.buf = s.buf /\ t.state = s.state
  BY DEF Screens

LEMMA Refilled ==
  ASSUME NEW s \in Screens, NEW b \in Seq(Rows)
  PROVE  LET t == [s EXCEPT !.buf = b]
         IN  /\ t \in Screens /\ t.buf = b /\ t.row = s.row /\ t.col = s.col
             /\ t.start = s.start /\ t.state = s.state
  BY DEF Screens

(* Only these five fields matter.                                              *)
LEMMA SoundOf ==
  ASSUME NEW s, Sound(s), NEW t \in Screens,
         t.row = s.row, t.col = s.col, t.buf = s.buf, t.start = s.start
  PROVE  Sound(t) /\ Extends(s, t) /\ Top(t) = Top(s) /\ Size(t) = Size(s)
  BY SizeIsNat DEF Sound, Extends, Size, Top

LEMMA RestoreViewStep ==
  ASSUME NEW s, Sound(s)
  PROVE  LET t == RestoreView(s)
         IN  /\ AtHome(t) /\ Size(t) = Size(s) /\ Top(t) = Top(s) /\ t.buf = s.buf
             /\ t.row = s.row /\ t.col = s.col /\ t.state = s.state
<1> DEFINE t == RestoreView(s)
<1>1. s \in Screens /\ Top(s) \in Nat
  BY SizeIsNat DEF Sound
<1>2. t = [s EXCEPT !.start = Top(s)]
  BY DEF RestoreView, Top
<1> HIDE DEF t
<1>3. /\ t \in Screens /\ t.start = Top(s) /\ t.row = s.row /\ t.col = s.col
      /\ t.buf = s.buf /\ t.state = s.state
  BY <1>1, <1>2, Viewed
<1>4. Size(t) = Size(s) /\ Top(t) = Top(s)
  BY <1>3 DEF Size, Top
<1>5. AtHome(t)
  BY <1>1, <1>3, <1>4 DEF AtHome, Sound
<1>6. QED
  BY <1>3, <1>4, <1>5 DEF t

(* Rows are appended up to a size, or to a full buffer.                          *)
LEMMA PushUntilStep ==
  ASSUME NEW s \in Screens, Size(s) <= Cap, NEW size \in Nat
  PROVE  LET t == PushBlankUntil(s, size)
         IN  /\ t \in Screens /\ Extends(s, t)
             /\ Size(t) = IF Least(size, Cap) > Size(s) THEN Least(size, Cap) ELSE Size(s)
             /\ t.row = s.row /\ t.col = s.col /\ t.start = s.start /\ t.state = s.state
<1> DEFINE t == PushBlankUntil(s, size)
           n == Least(size, Cap) - Len(s.buf)
           r == [i \in 1 .. n |-> BlankRow]
           b == s.buf \o r
<1>1. s.buf \in Seq(Rows) /\ Len(s.buf) \in Nat /\ Size(s) = Len(s.buf)
  BY DEF Screens, Size
<1>2. n \in Int /\ Least(size, Cap) \in Nat
  BY <1>1, Bounds DEF Least
<1>3. r \in Seq(Rows) /\ Len(r) = IF n > 0 THEN n ELSE 0
  <2>1. CASE n > 0
    <3>1. n \in Nat
      BY <1>2, <2>1
    <3> HIDE DEF n
    <3>2. r \in Seq(Rows) /\ Len(r) = n
      BY <3>1, Blanks
    <3>3. QED
      BY <2>1, <3>2
  <2>2. CASE ~(n > 0)
    <3>1. 1 .. n = {}
      BY <1>2, <2>2
    <3>2. r = <<>>
      BY <3>1
    <3> HIDE DEF r, n
    <3>3. QED
      BY <2>2, <3>2
  <2>3. QED
    BY <2>1, <2>2
<1>4. t = [s EXCEPT !.buf = b]
  BY DEF PushBlankUntil
<1> HIDE DEF r
<1>5. /\ b \in Seq(Rows) /\ Len(b) = Len(s.buf) + Len(r)
      /\ \A i \in 1 .. Len(s.buf) : b[i] = s.buf[i]
  BY <1>1, <1>3
<1> HIDE DEF b, t
<1>6. /\ t \in Screens /\ t.buf = b /\ t.row = s.row /\ t.col = s.col
      /\ t.start = s.start /\ t.state = s.state
  BY <1>4, <1>5, Refilled
<1>7. Size(t) = IF Least(size, Cap) > Size(s) THEN Least(size, Cap) ELSE Size(s)
  BY <1>1, <1>2, <1>3, <1>5, <1>6 DEF Size
<1>8. Extends(s, t)
  BY <1>1, <1>2, <1>5, <1>6, <1>7 DEF Extends, Size
<1>9. QED
  BY <1>6, <1>7, <1>8 DEF t

LEMMA PushIsSound ==
  ASSUME NEW s, AtHome(s), NEW size \in Nat, size <= Top(s) + Height
  PROVE  LET t == PushBlankUntil(s, size)
         IN  AtHome(t) /\ Extends(s, t) /\ t.row = s.row /\ t.col = s.col /\ size <= Size(t)
<1> DEFINE t == PushBlankUntil(s, size)
<1>1. /\ s \in Screens /\ Size(s) \in 1 .. Cap /\ s.start = Top(s) /\ Top(s) + s.row < Size(s)
      /\ s.row \in 0 .. Height - 1 /\ s.col \in 0 .. Width - 1
  BY DEF AtHome, Sound
<1>2. /\ t \in Screens /\ Extends(s, t)
      /\ Size(t) = IF Least(size, Cap) > Size(s) THEN Least(size, Cap) ELSE Size(s)
      /\ t.row = s.row /\ t.col = s.col /\ t.start = s.start
  <2>1. Size(s) <= Cap
    BY <1>1, Bounds
  <2>2. QED
    BY <1>1, <2>1, PushUntilStep
<1> HIDE DEF t
<1>3. size <= Cap /\ Size(t) \in 1 .. Cap /\ size <= Size(t) /\ Size(s) <= Size(t)
  BY <1>1, <1>2, Bounds DEF Top, SubClamp0, Least
<1>4. Top(t) = Top(s)
  BY <1>1, <1>2, Bounds DEF Top, SubClamp0, Least
<1>5. AtHome(t)
  <2>1. Top(s) \in Nat
    BY <1>1, SizeIsNat
  <2>2. QED
    BY <1>1, <1>2, <1>3, <1>4, <2>1 DEF AtHome, Sound
<1>6. QED
  BY <1>2, <1>3, <1>5 DEF t

(* The next line, with the cursor in any column.  The row that was under the       *)
(* cursor stays on the screen where the screen has another.                      *)
LEMMA NewlineStep ==
  ASSUME NEW s, AtHome(s), NEW c \in 0 .. Width - 1
  PROVE  LET t == CursorNewline([s EXCEPT !.col = c])
         IN  /\ AtHome(t) /\ Extends(s, t) /\ Top(s) <= Top(t)
             /\ Height > 1 => Top(t) <= Top(s) + s.row
<1> DEFINE u == [[s EXCEPT !.col = c] EXCEPT !.row = @ + 1]
           w == WithActiveRow(u)
           n == IF w.row >= Cap THEN Cap - 1 ELSE Least(w.row, Height - 1)
           t == CursorNewline([s EXCEPT !.col = c])
<1>1. /\ s \in Screens /\ Size(s) \in 1 .. Cap /\ s.start = Top(s) /\ Top(s) + s.row < Size(s)
      /\ s.row \in 0 .. Height - 1 /\ Top(s) \in Nat /\ c \in Nat
  BY SizeIsNat, Bounds DEF AtHome, Sound
<1>2. t = [w EXCEPT !.row = n]
  BY DEF CursorNewline
<1>3. u = [s EXCEPT !.row = s.row + 1, !.col = c]
  BY <1>1 DEF Screens
<1> HIDE DEF u
<1>4. /\ u \in Screens /\ u.row = s.row + 1 /\ u.col = c /\ u.buf = s.buf /\ u.start = s.start
  <2>1. s.row + 1 \in Nat
    BY <1>1, Bounds
  <2>2. QED
    BY <1>1, <1>3, <2>1 DEF Screens
<1>5. Size(u) = Size(s) /\ ActiveRow(u) = Top(s) + s.row + 1
  BY <1>1, <1>4 DEF Size, ActiveRow
<1>6. /\ w \in Screens /\ w.row = s.row + 1 /\ w.col = c /\ w.start = Top(w)
      /\ Extends(s, w) /\ Size(s) <= Size(w) /\ Size(w) <= Cap
      /\ Size(w) = IF Size(s) = Top(s) + s.row + 1 /\ Size(s) < Cap THEN Size(s) + 1 ELSE Size(s)
  <2>1. CASE ActiveRow(u) >= Size(u)
    <3> DEFINE p == PushBlankUntil(u, ActiveRow(u) + 1)
    <3>1. w = RestoreView(p)
      BY <2>1 DEF WithActiveRow
    <3>2. /\ p \in Screens /\ Extends(u, p)
          /\ Size(p) = IF Least(ActiveRow(u) + 1, Cap) > Size(u)
                       THEN Least(ActiveRow(u) + 1, Cap) ELSE Size(u)
          /\ p.row = u.row /\ p.col = u.col
      <4>1. Size(u) <= Cap /\ ActiveRow(u) + 1 \in Nat
        BY <1>1, <1>5
      <4>2. QED
        BY <1>4, <4>1, PushUntilStep
    <3> HIDE DEF p, w
    <3>3. w = [p EXCEPT !.start = Top(p)]
      BY <3>1 DEF RestoreView, Top
    <3>4. Top(p) \in Nat
      BY <3>2, SizeIsNat
    <3>5. /\ w \in Screens /\ w.start = Top(p) /\ w.row = p.row /\ w.col = p.col /\ w.buf = p.buf
      BY <3>2, <3>3, <3>4, Viewed
    <3>6. Size(w) = Size(p) /\ Top(w) = Top(p)
      BY <3>5 DEF Size, Top
    <3>7. Size(w) = IF Size(s) = Top(s) + s.row + 1 /\ Size(s) < Cap THEN Size(s) + 1 ELSE Size(s)
      BY <1>1, <1>5, <2>1, <3>2, <3>6, Bounds DEF Least
    <3>8. Extends(s, w)
      BY <1>4, <3>2, <3>5 DEF Extends, Size
    <3>9. QED
      BY <1>1, <1>4, <3>2, <3>5, <3>6, <3>7, <3>8, Bounds
  <2>2. CASE ~(ActiveRow(u) >= Size(u))
    <3>1. w = u
      BY <2>2 DEF WithActiveRow
    <3> HIDE DEF w
    <3>2. Size(w) = Size(s) /\ Top(w) = Top(s) /\ Extends(s, w)
      BY <1>1, <1>4, <3>1 DEF Size, Top, Extends
    <3>3. Size(s) # Top(s) + s.row + 1
      BY <1>1, <1>5, <2>2
    <3>4. QED
      BY <1>1, <1>4, <3>1, <3>2, <3>3, Bounds
  <2>3. QED
    BY <2>1, <2>2
<1> HIDE DEF w
<1>7. n \in 0 .. Height - 1 /\ n <= w.row /\ (n = Height - 1 \/ n = w.row)
  BY <1>1, <1>6, Bounds DEF Least
<1> HIDE DEF n, t
<1>8. t \in Screens /\ t.row = n /\ t.col = c /\ t.buf = w.buf /\ t.start = w.start
  <2>1. n \in Nat
    BY <1>7, Bounds
  <2>2. QED
    BY <1>2, <1>6, <2>1 DEF Screens
<1>9. Size(t) = Size(w) /\ Top(t) = Top(w)
  BY <1>8 DEF Size, Top
<1>10. Extends(s, t)
  BY <1>6, <1>8 DEF Extends, Size
<1>11. /\ Top(t) \in Nat /\ Top(t) + t.row < Size(t) /\ Top(s) <= Top(t)
       /\ Height > 1 => Top(t) <= Top(s) + s.row
  BY <1>1, <1>6, <1>7, <1>8, <1>9, Bounds DEF Top, SubClamp0
<1>12. AtHome(t)
  BY <1>1, <1>6, <1>7, <1>8, <1>9, <1>11, Bounds DEF AtHome, Sound
<1>13. QED
  BY <1>10, <1>11, <1>12 DEF t

LEMMA AdvStep ==
  ASSUME NEW s, AtHome(s)
  PROVE  LET t == CursorAdv(s)
         IN  /\ AtHome(t) /\ Extends(s, t) /\ Top(s) <= Top(t)
             /\ Height > 1 => Top(t) <= Top(s) + s.row
<1>1. s \in Screens /\ s.row \in 0 .. Height - 1 /\ s.col \in 0 .. Width - 1 /\ Top(s) \in Nat
  BY SizeIsNat DEF AtHome, Sound
<1>2. CASE s.col + 1 >= Width
  <2>1. 0 \in 0 .. Width - 1 /\ CursorAdv(s) = CursorNewline([s EXCEPT !.col = 0])
    BY <1>2, Bounds DEF CursorAdv
  <2>2. QED
    BY <2>1, NewlineStep
<1>3. CASE s.col + 1 < Width
  <2> DEFINE t == [s EXCEPT !.col = @ + 1]
  <2>1. CursorAdv(s) = t
    BY <1>1, <1>3, Bounds DEF CursorAdv
  <2>2. /\ t \in Screens /\ t.row = s.row /\ t.col = s.col + 1 /\ t.buf = s.buf /\ t.start = s.start
    <3>1. s.col + 1 \in Nat
      BY <1>1, Bounds
    <3>2. QED
      BY <1>1, <3>1 DEF Screens
  <2> HIDE DEF t
  <2>3. Size(t) = Size(s) /\ Top(t) = Top(s) /\ Extends(s, t)
    BY <1>1, <2>2, SizeIsNat DEF Size, Top, Extends
  <2>4. AtHome(t)
    BY <1>1, <1>3, <2>2, <2>3, Bounds DEF AtHome, Sound
  <2>5. QED
    BY <1>1, <2>1, <2>3, <2>4
<1>4. QED
  BY <1>1, <1>2, <1>3, Bounds

LEMMA TabStep ==
  ASSUME NEW s, AtHome(s)
  PROVE  LET t == CursorTab(s) IN AtHome(t) /\ Extends(s, t)
<1> DEFINE tab == (s.col \div TabWidth + 1) * TabWidth
<1>1. s \in Screens /\ s.col \in 0 .. Width - 1
  BY DEF AtHome, Sound
<1>2. CASE tab < Width
  <2> DEFINE t == [s EXCEPT !.col = tab]
  <2>1. CursorTab(s) = t
    BY <1>2 DEF CursorTab
  <2>2. tab \in 0 .. Width - 1
    <3>1. s.col \div TabWidth \in Nat
      BY <1>1, Bounds
    <3> DEFINE d == s.col \div TabWidth
    <3> HIDE DEF d
    <3>2. (d + 1) * TabWidth \in Nat
      BY <3>1, Bounds DEF d
    <3>3. QED
      BY <1>2, <3>2, Bounds DEF d
  <2> HIDE DEF tab
  <2>3. /\ t \in Screens /\ t.row = s.row /\ t.col = tab /\ t.buf = s.buf /\ t.start = s.start
    <3>1. tab \in Nat
      BY <2>2, Bounds
    <3>2. QED
      BY <1>1, <3>1 DEF Screens
  <2> HIDE DEF t
  <2>4. Size(t) = Size(s) /\ Top(t) = Top(s) /\ Extends(s, t)
    BY <1>1, <2>3, SizeIsNat DEF Size, Top, Extends
  <2>5. QED
    BY <2>1, <2>2, <2>3, <2>4 DEF AtHome, Sound
<1>3. CASE ~(tab < Width)
  <2>1. 0 \in 0 .. Width - 1 /\ CursorTab(s) = CursorNewline([s EXCEPT !.col = 0])
    BY <1>3, Bounds DEF CursorTab
  <2>2. QED
    BY <2>1, NewlineStep
<1>4. QED
  BY <1>2, <1>3

(* A symbol goes to the row under the cursor, and every other row stays.           *)
LEMMA WriteStep ==
  ASSUME NEW s, AtHome(s), NEW c
  PROVE  LET t == WriteSymbol(s, c)
         IN  /\ AtHome(t) /\ Size(s) <= Size(t) /\ Top(s) <= Top(t)
             /\ t.buf[ActiveRow(s) + 1][s.col] = Glyph(c)
             /\ \A i \in 1 .. Size(s) : i # ActiveRow(s) + 1 => t.buf[i] = s.buf[i]
             /\ Height > 1 => Top(t) <= ActiveRow(s)
<1> DEFINE a == ActiveRow(s) + 1
           r == [s.buf[a] EXCEPT ![s.col] = Glyph(c)]
           b == [s.buf EXCEPT ![a] = r]
           u == [s EXCEPT !.buf = b]
           t == WriteSymbol(s, c)
<1>1. /\ s \in Screens /\ Size(s) \in 1 .. Cap /\ s.start = Top(s) /\ Top(s) + s.row < Size(s)
      /\ s.row \in 0 .. Height - 1 /\ s.col \in 0 .. Width - 1 /\ Top(s) \in Nat
  BY SizeIsNat DEF AtHome, Sound
<1>2. a \in 1 .. Size(s) /\ ActiveRow(s) = Top(s) + s.row
  BY <1>1, Bounds DEF ActiveRow
<1>3. s.buf \in Seq(Rows) /\ Size(s) = Len(s.buf)
  BY <1>1 DEF Screens, Size
<1>4. t = CursorAdv(u)
  BY <1>1, <1>2, Bounds DEF WriteSymbol, ActiveRow
<1> HIDE DEF t, a
<1>5. s.buf[a] \in Rows
  BY <1>2, <1>3
<1>6. Glyph(c) \in Cells
  BY DEF Glyph, Cells
<1>7. r \in Rows /\ r[s.col] = Glyph(c)
  BY <1>1, <1>5, <1>6 DEF Rows
<1> HIDE DEF r
<1>8. /\ b \in Seq(Rows) /\ Len(b) = Len(s.buf) /\ b[a] = r
      /\ \A i \in 1 .. Len(s.buf) : i # a => b[i] = s.buf[i]
  BY <1>2, <1>3, <1>7
<1> HIDE DEF b
<1>9. /\ u \in Screens /\ u.buf = b /\ u.row = s.row /\ u.col = s.col /\ u.start = s.start
  BY <1>1, <1>8, Refilled
<1> HIDE DEF u
<1>10. Size(u) = Size(s) /\ Top(u) = Top(s)
  BY <1>3, <1>8, <1>9 DEF Size, Top
<1>11. AtHome(u)
  BY <1>1, <1>9, <1>10 DEF AtHome, Sound
<1>12. /\ AtHome(t) /\ Extends(u, t) /\ Top(u) <= Top(t)
       /\ Height > 1 => Top(t) <= Top(u) + u.row
  BY <1>4, <1>11, AdvStep
<1>13. Size(s) <= Size(t) /\ \A i \in 1 .. Size(s) : t.buf[i] = b[i]
  BY <1>9, <1>10, <1>12 DEF Extends
<1>14. t.buf[a][s.col] = Glyph(c)
  BY <1>2, <1>7, <1>8, <1>13
<1>15. \A i \in 1 .. Size(s) : i # a => t.buf[i] = s.buf[i]
  BY <1>3, <1>8, <1>13
<1>16. QED
  BY <1>2, <1>9, <1>10, <1>12, <1>13, <1>14, <1>15 DEF t, a

-----------------------------------------------------------------------------
(* Escape sequences.                                                        *)

(* The number that the digits spell: a computation of Len(digits) steps.          *)
LEMMA ParseUintIsNat == ASSUME NEW digits \in Seq(0 .. 3) PROVE ParseUint(digits) \in Nat
<1> DEFINE n == Len(digits)
           F(v) == [i \in 0 .. n |-> IF i = 0 THEN 0 ELSE (10 * v[i - 1] + digits[i]) % SizeMod]
           val == CHOOSE v : v = F(v)
           Partial(k, f) == /\ f \in [0 .. k -> Nat] /\ f[0] = 0
                            /\ \A i \in 1 .. k : f[i] = (10 * f[i - 1] + digits[i]) % SizeMod
           T == {k \in 0 .. n : \E f : Partial(k, f)}
<1>1. n \in Nat /\ \A i \in 1 .. n : digits[i] \in Nat
  OBVIOUS
<1>2. ParseUint(digits) = val[n]
  BY DEF ParseUint
<1> HIDE DEF n
<1>3. 0 \in T
  <2>1. Partial(0, [i \in 0 .. 0 |-> 0])
    OBVIOUS
  <2> HIDE DEF Partial
  <2>2. QED
    BY <1>1, <2>1
<1>4. ASSUME NEW k \in 0 .. n - 1, k \in T PROVE k + 1 \in T
  <2>1. PICK f : Partial(k, f)
    BY <1>4
  <2> DEFINE x == (10 * f[k] + digits[k + 1]) % SizeMod
             g == [i \in 0 .. k + 1 |-> IF i = k + 1 THEN x ELSE f[i]]
  <2>2. x \in Nat
    <3>1. f[k] \in Nat /\ digits[k + 1] \in Nat
      BY <1>1, <2>1
    <3>2. 10 * f[k] + digits[k + 1] \in Int
      BY <3>1
    <3>3. QED
      BY <3>2, Bounds
  <2> HIDE DEF x
  <2>3. g \in [0 .. k + 1 -> Nat] /\ g[0] = 0
    BY <1>1, <2>1, <2>2
  <2>4. ASSUME NEW i \in 1 .. k + 1
        PROVE  g[i] = (10 * g[i - 1] + digits[i]) % SizeMod
    <3>1. CASE i = k + 1
      <4>1. g[i] = x /\ g[i - 1] = f[k]
        BY <1>1, <3>1
      <4>2. QED
        BY <3>1, <4>1 DEF x
    <3>2. CASE i \in 1 .. k
      <4>1. g[i] = f[i] /\ g[i - 1] = f[i - 1]
        BY <1>1, <3>2
      <4>2. QED
        BY <2>1, <3>2, <4>1
    <3>3. QED
      BY <1>1, <3>1, <3>2
  <2> HIDE DEF g
  <2>5. Partial(k + 1, g)
    BY <2>3, <2>4
  <2> HIDE DEF Partial
  <2>6. k + 1 \in 0 .. n
    BY <1>1
  <2>7. QED
    BY <2>5, <2>6
<1>5. n \in T
  <2> HIDE DEF T
  <2>1. \A i \in 0 .. n - 1 : i \in T => i + 1 \in T
    BY <1>4
  <2>2. \A i \in 0 .. n : i \in T
    BY <1>1, <1>3, <2>1, UpTo
  <2>3. QED
    BY <1>1, <2>2
<1>6. PICK f : Partial(n, f)
  BY <1>5
<1>7. f = F(f)
  <2>1. \A i \in 0 .. n : i = 0 \/ i \in 1 .. n
    BY <1>1
  <2>2. \A i \in 0 .. n : f[i] = IF i = 0 THEN 0 ELSE (10 * f[i - 1] + digits[i]) % SizeMod
    BY <1>6, <2>1
  <2>3. f = [i \in 0 .. n |-> f[i]]
    BY <1>6
  <2>4. QED
    BY <2>2, <2>3
<1>8. val = F(val)
  BY <1>7
<1> HIDE DEF val
<1>9. val[0] = 0 /\ \A i \in 1 .. n : val[i] = (10 * val[i - 1] + digits[i]) % SizeMod
  <2>1. \A i \in 0 .. n : val[i] = IF i = 0 THEN 0 ELSE (10 * val[i - 1] + digits[i]) % SizeMod
    BY <1>8
  <2>2. QED
    BY <1>1, <2>1
<1> DEFINE U == {i \in 0 .. n : val[i] \in Nat}
<1>10. 0 \in U /\ \A i \in 0 .. n - 1 : i \in U => i + 1 \in U
  <2>1. 0 \in U
    BY <1>1, <1>9
  <2>2. ASSUME NEW i \in 0 .. n - 1, i \in U PROVE i + 1 \in U
    <3>1. i + 1 \in 1 .. n /\ (i + 1) - 1 = i /\ val[i] \in Nat /\ digits[i + 1] \in Nat
      BY <1>1, <2>2
    <3>2. val[i + 1] = (10 * val[i] + digits[i + 1]) % SizeMod
      BY <1>9, <3>1
    <3>3. 10 * val[i] + digits[i + 1] \in Int
      BY <3>1
    <3>4. val[i + 1] \in Nat
      BY <3>2, <3>3, Bounds
    <3>5. QED
      BY <1>1, <3>1, <3>4
  <2>3. QED
    BY <2>1, <2>2
<1>11. n \in U
  <2> HIDE DEF U
  <2>1. \A i \in 0 .. n : i \in U
    BY <1>1, <1>10, UpTo
  <2>2. QED
    BY <1>1, <2>1
<1>12. QED
  BY <1>2, <1>11

(* What only touches the parser.                                              *)
LEMMA ParserStep ==
  ASSUME NEW s, AtHome(s), NEW t \in Screens,
         t.row = s.row, t.col = s.col, t.buf = s.buf, t.start = s.start
  PROVE  AtHome(t) /\ Extends(s, t)
  BY SoundOf DEF AtHome

LEMMA GroundStep ==
  ASSUME NEW s, AtHome(s)
  PROVE  LET t == Ground(s)
         IN  AtHome(t) /\ Extends(s, t)
<1> DEFINE t == Ground(s)
<1>1. s \in Screens
  BY DEF AtHome, Sound
<1>2. t \in Screens /\ t.row = s.row /\ t.col = s.col /\ t.buf = s.buf /\ t.start = s.start
  BY <1>1 DEF Ground, Screens
<1> HIDE DEF t
<1>3. QED
  BY <1>2, ParserStep DEF t

LEMMA PushArgStep ==
  ASSUME NEW s, AtHome(s)
  PROVE  LET t == PushArg(s)
         IN  AtHome(t) /\ Extends(s, t)
<1> DEFINE t == PushArg(s)
           a == Append(s.args, ParseUint(s.digits))
<1>1. s \in Screens /\ s.args \in Seq(Nat) /\ s.digits \in Seq(0 .. 3)
  BY DEF AtHome, Sound, Screens
<1>2. a \in Seq(Nat)
  BY <1>1, ParseUintIsNat
<1>3. t = [s EXCEPT !.args = a, !.digits = <<>>]
  BY DEF PushArg
<1> DEFINE d == <<>>
           u == [s EXCEPT !.args = a]
<1>4. t = [u EXCEPT !.digits = d] /\ d \in Seq(0 .. 3)
  BY <1>3
<1> HIDE DEF a, t, d
<1>5. u \in Screens /\ u.row = s.row /\ u.col = s.col /\ u.buf = s.buf /\ u.start = s.start
  BY <1>1, <1>2 DEF Screens
<1> HIDE DEF u
<1>6. t \in Screens /\ t.row = u.row /\ t.col = u.col /\ t.buf = u.buf /\ t.start = u.start
  BY <1>4, <1>5 DEF Screens
<1>7. QED
  BY <1>5, <1>6, ParserStep DEF t

LEMMA LastArgStep ==
  ASSUME NEW s, AtHome(s)
  PROVE  LET t == LastArg(s)
         IN  AtHome(t) /\ Extends(s, t)
<1>1. s \in Screens /\ Extends(s, s)
  BY SizeIsNat DEF AtHome, Sound, Extends
<1>2. QED
  BY <1>1, PushArgStep DEF LastArg

LEMMA ArgIsNat ==
  ASSUME NEW s \in Screens, NEW i \in {1, 2}
  PROVE  Arg(s, i, 1) \in Nat
<1>1. s.args \in Seq(Nat) /\ Len(s.args) \in Nat
  BY DEF Screens
<1>2. QED
  BY <1>1 DEF Arg

(* A cursor that moves to a place on the screen whose row there is.               *)
LEMMA CursorStep ==
  ASSUME NEW s, AtHome(s), NEW r \in 0 .. Height - 1, NEW c \in 0 .. Width - 1,
         Top(s) + r < Size(s), NEW t, t = [s EXCEPT !.row = r, !.col = c]
  PROVE  AtHome(t) /\ Extends(s, t)
<1>1. s \in Screens /\ r \in Nat /\ c \in Nat
  BY Bounds DEF AtHome, Sound
<1>2. t \in Screens /\ t.row = r /\ t.col = c /\ t.buf = s.buf /\ t.start = s.start
  BY <1>1 DEF Screens
<1>3. Size(t) = Size(s) /\ Top(t) = Top(s) /\ Extends(s, t)
  BY <1>1, <1>2, SizeIsNat DEF Size, Top, Extends
<1>4. QED
  BY <1>2, <1>3 DEF AtHome, Sound

LEMMA UpStep ==
  ASSUME NEW s, AtHome(s)
  PROVE  LET t == CursorUp(s) IN AtHome(t) /\ Extends(s, t)
<1> DEFINE r == SubClamp0(s.row, Arg(s, 1, 1))
<1>1. /\ s \in Screens /\ s.row \in 0 .. Height - 1 /\ s.col \in 0 .. Width - 1
      /\ Top(s) + s.row < Size(s) /\ Top(s) \in Nat /\ Size(s) \in Nat /\ Arg(s, 1, 1) \in Nat
  BY SizeIsNat, ArgIsNat DEF AtHome, Sound
<1>2. r \in 0 .. Height - 1 /\ Top(s) + r < Size(s)
  BY <1>1, Bounds DEF SubClamp0
<1>3. CursorUp(s) = [s EXCEPT !.row = r]
  BY DEF CursorUp
<1> HIDE DEF r
<1>4. [s EXCEPT !.row = r] = [s EXCEPT !.row = r, !.col = s.col]
  BY <1>1 DEF Screens
<1>5. QED
  BY <1>1, <1>2, <1>3, <1>4, CursorStep

LEMMA ColumnStep ==
  ASSUME NEW s, AtHome(s), NEW c \in 0 .. Width - 1
  PROVE  LET t == [s EXCEPT !.col = c] IN AtHome(t) /\ Extends(s, t)
<1>1. s \in Screens /\ s.row \in 0 .. Height - 1 /\ Top(s) + s.row < Size(s)
  BY DEF AtHome, Sound
<1>2. [s EXCEPT !.col = c] = [s EXCEPT !.row = s.row, !.col = c]
  BY <1>1 DEF Screens
<1>3. QED
  BY <1>1, <1>2, CursorStep

LEMMA ForwardStep ==
  ASSUME NEW s, AtHome(s)
  PROVE  LET t == CursorForward(s) IN AtHome(t) /\ Extends(s, t)
<1> DEFINE c == Least((s.col + Arg(s, 1, 1)) % SizeMod, Width - 1)
<1>1. s \in Screens /\ s.col \in 0 .. Width - 1 /\ Arg(s, 1, 1) \in Nat
  BY ArgIsNat DEF AtHome, Sound
<1>2. c \in 0 .. Width - 1
  <2>1. s.col + Arg(s, 1, 1) \in Int
    BY <1>1, Bounds
  <2>2. (s.col + Arg(s, 1, 1)) % SizeMod \in Nat
    BY <2>1, Bounds
  <2>3. QED
    BY <2>2, Bounds DEF Least
<1>3. CursorForward(s) = [s EXCEPT !.col = c]
  BY DEF CursorForward
<1> HIDE DEF c
<1>4. QED
  BY <1>2, <1>3, ColumnStep

LEMMA BackStep ==
  ASSUME NEW s, AtHome(s), NEW n \in Nat
  PROVE  LET t == [s EXCEPT !.col = SubClamp0(@, n)] IN AtHome(t) /\ Extends(s, t)
<1> DEFINE c == SubClamp0(s.col, n)
<1>1. s \in Screens /\ s.col \in 0 .. Width - 1
  BY DEF AtHome, Sound
<1>2. c \in 0 .. Width - 1
  BY <1>1, Bounds DEF SubClamp0
<1>3. [s EXCEPT !.col = SubClamp0(@, n)] = [s EXCEPT !.col = c]
  OBVIOUS
<1> HIDE DEF c
<1>4. QED
  BY <1>2, <1>3, ColumnStep

LEMMA ExtendsTwice ==
  ASSUME NEW s \in Screens, NEW t \in Screens, NEW u \in Screens, Extends(s, t), Extends(t, u)
  PROVE  Extends(s, u)
  BY SizeIsNat DEF Extends

(* Pushing rows does not care where the cursor is.                               *)
LEMMA DownStep ==
  ASSUME NEW s, AtHome(s)
  PROVE  LET t == CursorDown(s) IN AtHome(t) /\ Extends(s, t)
<1> DEFINE r == Least((s.row + Arg(s, 1, 1)) % SizeMod, Height - 1)
           p == PushBlankUntil(s, s.start + r + 1)
           d == [s EXCEPT !.row = r]
<1>1. /\ s \in Screens /\ s.row \in 0 .. Height - 1 /\ s.col \in 0 .. Width - 1
      /\ s.start = Top(s) /\ Top(s) \in Nat /\ Size(s) \in Nat /\ Arg(s, 1, 1) \in Nat
  BY SizeIsNat, ArgIsNat DEF AtHome, Sound
<1>2. r \in 0 .. Height - 1
  <2>1. s.row + Arg(s, 1, 1) \in Int
    BY <1>1, Bounds
  <2>2. (s.row + Arg(s, 1, 1)) % SizeMod \in Nat
    BY <2>1, Bounds
  <2>3. QED
    BY <2>2, Bounds DEF Least
<1>3. CursorDown(s) = PushBlankUntil(d, ActiveRow(d) + 1)
  BY DEF CursorDown
<1> HIDE DEF r
<1>4. d.start + d.row = s.start + r /\ d.buf = s.buf
  BY <1>1 DEF Screens
<1>5. CursorDown(s) = [p EXCEPT !.row = r]
  BY <1>1, <1>3, <1>4 DEF PushBlankUntil, ActiveRow, Screens
<1>6. /\ AtHome(p) /\ Extends(s, p) /\ p.row = s.row /\ p.col = s.col
      /\ s.start + r + 1 <= Size(p)
  <2>1. s.start + r + 1 \in Nat /\ s.start + r + 1 <= Top(s) + Height
    BY <1>1, <1>2, Bounds
  <2>2. QED
    BY <2>1, PushIsSound
<1>7. p.start = Top(s) /\ p.start = Top(p) /\ p \in Screens
  BY <1>1, <1>6 DEF PushBlankUntil, AtHome, Sound, Screens
<1> HIDE DEF p
<1>8. Top(p) + r < Size(p) /\ p.col \in 0 .. Width - 1
  BY <1>1, <1>2, <1>6, <1>7, SizeIsNat, Bounds
<1>9. [p EXCEPT !.row = r] = [p EXCEPT !.row = r, !.col = p.col]
  BY <1>7 DEF Screens
<1>10. AtHome(CursorDown(s)) /\ Extends(p, CursorDown(s))
  BY <1>2, <1>5, <1>6, <1>8, <1>9, CursorStep
<1>11. CursorDown(s) \in Screens
  BY <1>10 DEF AtHome, Sound
<1>12. QED
  BY <1>1, <1>6, <1>7, <1>10, <1>11, ExtendsTwice

LEMMA CoordinateBound ==
  ASSUME NEW s \in Screens, NEW i \in {1, 2}, NEW size \in Nat, size >= 1
  PROVE  Coordinate(s, i, size) \in 0 .. size - 1
<1>1. Arg(s, i, 1) - 1 \in Int
  BY ArgIsNat
<1>2. (Arg(s, i, 1) - 1) % SizeMod \in Nat
  BY <1>1, Bounds
<1>3. QED
  BY <1>2 DEF Coordinate, Least

LEMMA ToStep ==
  ASSUME NEW s, AtHome(s)
  PROVE  LET t == CursorTo(s) IN AtHome(t) /\ Extends(s, t)
<1> DEFINE r == Coordinate(s, 1, Height)
           c == Coordinate(s, 2, Width)
           p == PushBlankUntil(s, s.start + r + 1)
<1>1. s \in Screens /\ s.start = Top(s) /\ Top(s) \in Nat /\ Size(s) \in Nat
  BY SizeIsNat DEF AtHome, Sound
<1>2. r \in 0 .. Height - 1 /\ c \in 0 .. Width - 1
  BY <1>1, CoordinateBound, Bounds
<1>3. CursorTo(s) = [p EXCEPT !.row = r, !.col = c]
  BY DEF CursorTo
<1> HIDE DEF r, c
<1>4. AtHome(p) /\ Extends(s, p) /\ s.start + r + 1 <= Size(p)
  <2>1. s.start + r + 1 \in Nat /\ s.start + r + 1 <= Top(s) + Height
    BY <1>1, <1>2, Bounds
  <2>2. QED
    BY <2>1, PushIsSound
<1>5. p.start = Top(s) /\ p.start = Top(p) /\ p \in Screens
  BY <1>1, <1>4 DEF PushBlankUntil, AtHome, Sound, Screens
<1> HIDE DEF p
<1>6. Top(p) + r < Size(p)
  BY <1>1, <1>2, <1>4, <1>5, SizeIsNat, Bounds
<1>7. AtHome(CursorTo(s)) /\ Extends(p, CursorTo(s))
  BY <1>2, <1>3, <1>4, <1>6, CursorStep
<1>8. CursorTo(s) \in Screens
  BY <1>7 DEF AtHome, Sound
<1>9. QED
  BY <1>1, <1>4, <1>5, <1>7, <1>8, ExtendsTwice

-----------------------------------------------------------------------------
(* Characters.                                                              *)

(* What any character but "J" does to a screen that shows its newest rows.        *)
Written(s, t) == Sound(t) /\ Keeps(s, t)

LEMMA ExtendsKeeps ==
  ASSUME NEW s, AtHome(s), NEW t, AtHome(t), Extends(s, t)
  PROVE  Written(s, t)
<1>1. Size(s) \in Nat /\ Size(t) \in Nat
  BY SizeIsNat DEF AtHome, Sound
<1>2. Keeps(s, t)
  BY <1>1, Bounds DEF Extends, Keeps
<1>3. QED
  BY <1>2 DEF Written, AtHome

LEMMA GroundChar ==
  ASSUME NEW s, AtHome(s), NEW c
  PROVE  Written(s, InGround(s, c))
<1>1. s \in Screens /\ s.col \in 0 .. Width - 1 /\ Size(s) \in Nat
  BY SizeIsNat DEF AtHome, Sound
<1>2. CASE c = "ESC"
  <2> DEFINE t == [s EXCEPT !.state = "ESCAPE"]
  <2>1. InGround(s, c) = t
    BY <1>2 DEF InGround
  <2>2. t \in Screens /\ t.row = s.row /\ t.col = s.col /\ t.buf = s.buf /\ t.start = s.start
    BY <1>1 DEF Screens
  <2> HIDE DEF t
  <2>3. QED
    BY <2>1, <2>2, ParserStep, ExtendsKeeps
<1>3. CASE c \in {"CR", "NL"}
  <2>1. 0 \in 0 .. Width - 1
    BY Bounds
  <2> DEFINE t == [s EXCEPT !.col = 0]
             n == CursorNewline(t)
  <2>2. InGround(s, c) = t \/ InGround(s, c) = n
    BY <1>3 DEF InGround
  <2>3. AtHome(t) /\ Extends(s, t)
    BY <2>1, ColumnStep
  <2>4. AtHome(n) /\ Extends(s, n)
    BY <2>1, NewlineStep
  <2> HIDE DEF n, t
  <2>5. QED
    BY <2>2, <2>3, <2>4, ExtendsKeeps
<1>4. CASE c = "BS"
  <2> DEFINE t == [s EXCEPT !.col = SubClamp0(@, 1)]
  <2>1. InGround(s, c) = t
    BY <1>4 DEF InGround
  <2>2. AtHome(t) /\ Extends(s, t)
    BY BackStep
  <2> HIDE DEF t
  <2>3. QED
    BY <2>1, <2>2, ExtendsKeeps
<1>5. CASE c = "TAB"
  BY <1>5, TabStep, ExtendsKeeps DEF InGround
<1>6. CASE c \notin {"ESC", "CR", "NL", "BS", "TAB"}
  <2> DEFINE t == WriteSymbol(s, c)
  <2>1. InGround(s, c) = t
    BY <1>6 DEF InGround
  <2>2. /\ AtHome(t) /\ Size(s) <= Size(t)
        /\ \A i \in 1 .. Size(s) : i # ActiveRow(s) + 1 => t.buf[i] = s.buf[i]
    BY WriteStep
  <2> HIDE DEF t
  <2>3. Size(t) \in Nat /\ s.start = Top(s) /\ s.row \in Nat
    BY <2>2, SizeIsNat, Bounds DEF AtHome, Sound
  <2>4. \A i \in 1 .. Size(s) - Height : i # ActiveRow(s) + 1 /\ i \in 1 .. Size(s)
    BY <1>1, <2>3, Bounds DEF ActiveRow, Top, SubClamp0
  <2>5. Keeps(s, t)
    BY <1>1, <2>2, <2>3, <2>4, Bounds DEF Keeps
  <2>6. QED
    BY <2>1, <2>2, <2>5 DEF Written, AtHome
<1>7. QED
  BY <1>2, <1>3, <1>4, <1>5, <1>6

LEMMA EscapeChar ==
  ASSUME NEW s, AtHome(s), NEW c
  PROVE  Written(s, InEscape(s, c))
<1> DEFINE e == <<>>
           st == IF c = "[" THEN "CSI" ELSE "GROUND"
           u == [s EXCEPT !.args = e]
           v == [u EXCEPT !.digits = e]
           t == [v EXCEPT !.state = st]
<1>1. s \in Screens
  BY DEF AtHome, Sound
<1>2. e \in Seq(Nat) /\ e \in Seq(0 .. 3) /\ st \in {"GROUND", "ESCAPE", "CSI"}
  OBVIOUS
<1>3. InEscape(s, c) = t
  BY DEF InEscape
<1> HIDE DEF e, st
<1>4. u \in Screens /\ u.row = s.row /\ u.col = s.col /\ u.buf = s.buf /\ u.start = s.start
  BY <1>1, <1>2 DEF Screens
<1> HIDE DEF u
<1>5. v \in Screens /\ v.row = s.row /\ v.col = s.col /\ v.buf = s.buf /\ v.start = s.start
  BY <1>2, <1>4 DEF Screens
<1> HIDE DEF v
<1>6. t \in Screens /\ t.row = s.row /\ t.col = s.col /\ t.buf = s.buf /\ t.start = s.start
  BY <1>2, <1>5 DEF Screens
<1> HIDE DEF t
<1>7. QED
  BY <1>3, <1>6, ParserStep, ExtendsKeeps

LEMMA DigitIsSmall == \A c \in DOMAIN DigitValue : DigitValue[c] \in 0 .. 3
  BY DEF DigitValue

LEMMA CsiChar ==
  ASSUME NEW s, AtHome(s), NEW c, c # "J"
  PROVE  Written(s, InCsi(s, c))
<1> DEFINE l == LastArg(s)
<1>1. s \in Screens
  BY DEF AtHome, Sound
<1>2. AtHome(l) /\ Extends(s, l)
  BY LastArgStep
<1> HIDE DEF l
<1>3. l \in Screens
  BY <1>2 DEF AtHome, Sound
<1>4. ASSUME NEW t, AtHome(t), Extends(l, t) PROVE Written(s, Ground(t))
  <2> DEFINE g == Ground(t)
  <2>1. AtHome(g) /\ Extends(t, g)
    BY <1>4, GroundStep
  <2> HIDE DEF g
  <2>2. t \in Screens /\ g \in Screens
    BY <1>4, <2>1 DEF AtHome, Sound
  <2>3. Extends(s, t)
    BY <1>1, <1>2, <1>3, <1>4, <2>2, ExtendsTwice
  <2>4. Extends(s, g)
    BY <1>1, <2>1, <2>2, <2>3, ExtendsTwice
  <2>5. Written(s, g)
    BY <2>1, <2>4, ExtendsKeeps
  <2>6. QED
    BY <2>5 DEF g
<1>5. CASE c \in DOMAIN DigitValue
  <2> DEFINE d == Append(s.digits, DigitValue[c])
             t == [s EXCEPT !.digits = d]
  <2>1. InCsi(s, c) = t
    <3>1. c \in {"d0", "d1", "d2", "d3"}
      BY <1>5 DEF DigitValue
    <3>2. QED
      BY <1>5, <3>1 DEF InCsi
  <2>2. s.digits \in Seq(0 .. 3)
    BY <1>1 DEF Screens
  <2>3. d \in Seq(0 .. 3)
    BY <1>5, <2>2, DigitIsSmall
  <2> HIDE DEF d
  <2>4. t \in Screens /\ t.row = s.row /\ t.col = s.col /\ t.buf = s.buf /\ t.start = s.start
    BY <1>1, <2>3 DEF Screens
  <2> HIDE DEF t
  <2>5. QED
    BY <2>1, <2>4, ParserStep, ExtendsKeeps
<1>6. CASE c \notin DOMAIN DigitValue
  <2> DEFINE a == Arg(l, 1, 1)
  <2>1. a \in Nat
    BY <1>3, ArgIsNat
  <2>2. CASE c = ";"
    BY <1>6, <2>2, PushArgStep, ExtendsKeeps DEF InCsi
  <2>3. CASE c = "A"
    BY <1>2, <1>4, <1>6, <2>3, UpStep DEF InCsi, l
  <2>4. CASE c = "B"
    BY <1>2, <1>4, <1>6, <2>4, DownStep DEF InCsi, l
  <2>5. CASE c = "C"
    BY <1>2, <1>4, <1>6, <2>5, ForwardStep DEF InCsi, l
  <2>6. CASE c = "D"
    <3>1. InCsi(s, c) = Ground(CursorBack(l))
      BY <1>6, <2>6 DEF InCsi, l
    <3>2. CursorBack(l) = [l EXCEPT !.col = SubClamp0(@, a)]
      BY DEF CursorBack
    <3> HIDE DEF a
    <3>3. AtHome(CursorBack(l)) /\ Extends(l, CursorBack(l))
      BY <1>2, <2>1, <3>2, BackStep
    <3>4. QED
      BY <1>4, <3>1, <3>3
  <2>7. CASE c = "H"
    BY <1>2, <1>4, <1>6, <2>7, ToStep DEF InCsi, l
  <2>8. CASE c \notin {";", "A", "B", "C", "D", "H"}
    <3>1. InCsi(s, c) = Ground(s)
      BY <1>6, <2>8 DEF InCsi
    <3>2. QED
      BY <3>1, GroundStep, ExtendsKeeps
  <2>9. QED
    BY <2>2, <2>3, <2>4, <2>5, <2>6, <2>7, <2>8
<1>7. QED
  BY <1>5, <1>6

LEMMA ReceiveStep ==
  ASSUME NEW s, Sound(s), NEW c, c # "J"
  PROVE  Written(s, Receive(s, c))
<1> DEFINE h == RestoreView(s)
           t == Receive(s, c)
<1>1. AtHome(h) /\ Size(h) = Size(s) /\ h.buf = s.buf
  BY RestoreViewStep
<1>2. t = Interpret(h, c)
  BY DEF Receive
<1> HIDE DEF h, t
<1>3. h.state \in {"GROUND", "ESCAPE", "CSI"}
  BY <1>1 DEF AtHome, Sound, Screens
<1>4. Written(h, t)
  BY <1>1, <1>2, <1>3, GroundChar, EscapeChar, CsiChar DEF Interpret
<1>5. Keeps(s, t)
  BY <1>1, <1>4 DEF Written, Keeps, Size
<1>6. QED
  BY <1>4, <1>5 DEF Written, t

-----------------------------------------------------------------------------
(* The screen of the console, whose software sends no erase sequence: that does    *)
(* index rows that the buffer does not have.                                   *)
EraseFree == "J" \notin Chars

ScreenInv == Sound(screen)

(* What the user does leaves all rows in their places, but for a reset.           *)
LEMMA ScrollStep ==
  ASSUME NEW s, Sound(s), NEW delta \in Nat, NEW t \in {ScrollUp(s, delta), ScrollDown(s, delta)}
  PROVE  Written(s, t)
<1>1. /\ s \in Screens /\ s.start \in 0 .. Top(s) /\ Size(s) \in Nat /\ Top(s) \in Nat
  BY SizeIsNat DEF Sound
<1>2. CASE t = s
  BY <1>1, <1>2, Bounds DEF Written, Keeps
<1>3. CASE t # s
  <2>1. Size(s) > Height /\ Top(s) = Size(s) - Height
    BY <1>1, <1>3, Bounds DEF ScrollUp, ScrollDown, Top, SubClamp0
  <2> DEFINE up   == SubClamp0(s.start, delta)
             down == Least(s.start + delta, Size(s) - Height)
  <2>2. PICK v \in {up, down} : t = [s EXCEPT !.start = v]
    BY <2>1 DEF ScrollUp, ScrollDown
  <2>3. v \in 0 .. Top(s) /\ v \in Nat
    BY <1>1, <2>1, <2>2, Bounds DEF SubClamp0, Least
  <2>4. t \in Screens /\ t.start = v /\ t.row = s.row /\ t.col = s.col /\ t.buf = s.buf
    BY <1>1, <2>2, <2>3, Viewed
  <2>5. Size(t) = Size(s) /\ Top(t) = Top(s)
    BY <2>4 DEF Size, Top
  <2>6. Sound(t)
    BY <2>3, <2>4, <2>5 DEF Sound
  <2>7. Keeps(s, t)
    BY <1>1, <2>4, <2>5, Bounds DEF Keeps
  <2>8. QED
    BY <2>6, <2>7 DEF Written
<1>4. QED
  BY <1>2, <1>3

(* The screens that a program starts with and that a reset leaves.                *)
LEMMA BlankIsSound ==
  ASSUME NEW t \in Screens, t.row = 0, t.col = 0, t.start = 0, t.buf = <<BlankRow>>
  PROVE  Sound(t)
<1>1. Size(t) = 1
  BY DEF Size
<1>2. Top(t) = 0
  BY <1>1, Bounds DEF Top, SubClamp0
<1>3. QED
  BY <1>1, <1>2, Bounds DEF Sound

LEMMA NewIsSound == Sound(NewScreen)
<1>1. NewScreen \in Screens
  <2>1. <<BlankRow>> \in Seq(Rows)
    BY Blanks
  <2> DEFINE b == <<BlankRow>>
             e == <<>>
             t == [state |-> "GROUND", args |-> e, digits |-> e,
                   row |-> 0, col |-> 0, buf |-> b, start |-> 0, thrown |-> FALSE]
  <2>2. e \in Seq(Nat) /\ e \in Seq(0 .. 3) /\ b \in Seq(Rows)
    BY <2>1
  <2>3. NewScreen = t
    BY DEF NewScreen
  <2> HIDE DEF b, e
  <2>4. t \in Screens
    BY <2>2 DEF Screens
  <2>5. QED
    BY <2>3, <2>4
<1>2. /\ NewScreen.row = 0 /\ NewScreen.col = 0 /\ NewScreen.start = 0
      /\ NewScreen.buf = <<BlankRow>>
  BY DEF NewScreen
<1>3. QED
  BY <1>1, <1>2, BlankIsSound

LEMMA ResetIsSound == ASSUME NEW s \in Screens PROVE Sound(ResetScreen(s))
<1> DEFINE e == <<>>
           b == <<BlankRow>>
           m == [s EXCEPT !.row = 0, !.col = 0]
           k == [m EXCEPT !.buf = e, !.start = 0]
           t == [k EXCEPT !.buf = b]
<1>1. m \in Screens /\ m.row = 0 /\ m.col = 0
  BY DEF Screens
<1>2. e \in Seq(Rows) /\ b \in Seq(Rows) /\ Len(e) = 0 /\ Len(e) # Cap /\ Append(e, BlankRow) = b
  BY Blanks, Bounds
<1> HIDE DEF m
<1>3. k = ClearBuffer(m) /\ ResetScreen(s) = PushBlankRow(k)
  BY DEF ClearBuffer, ResetScreen, m
<1> HIDE DEF e, b
<1>4. k \in Screens /\ k.row = 0 /\ k.col = 0 /\ k.start = 0 /\ k.buf = e
  BY <1>1, <1>2 DEF Screens
<1> HIDE DEF k
<1>5. PushBlankRow(k) = t
  BY <1>2, <1>4 DEF PushBlankRow, PushBack
<1>6. t \in Screens /\ t.row = 0 /\ t.col = 0 /\ t.start = 0 /\ t.buf = b
  BY <1>2, <1>4, Refilled
<1> HIDE DEF t
<1>7. QED
  BY <1>3, <1>5, <1>6, BlankIsSound DEF b

LEMMA ScreenStep ==
  ASSUME EraseFree, ScreenInv, [Next]_vars
  PROVE  ScreenInv' /\ (~Reset => Keeps(screen, screen'))
<1>1. screen \in Screens /\ Size(screen) \in Nat
  BY SizeIsNat DEF ScreenInv, Sound
<1>2. CASE screen' = screen
  BY <1>1, <1>2, Bounds DEF ScreenInv, Keeps
<1>3. CASE \E c \in Chars : Putc(c)
  <2>1. PICK c \in Chars : screen' = screen \/ screen' = Receive(screen, c)
    BY <1>3 DEF Putc
  <2>2. c # "J"
    BY DEF EraseFree
  <2>3. Written(screen, Receive(screen, c))
    BY <2>2, ReceiveStep DEF ScreenInv
  <2>4. QED
    BY <1>2, <2>1, <2>3 DEF ScreenInv, Written
<1>4. CASE \E delta \in 1 .. Cap : Scroll(delta)
  <2>1. PICK delta \in 1 .. Cap : screen' \in {ScrollUp(screen, delta), ScrollDown(screen, delta)}
    BY <1>4 DEF Scroll
  <2>2. Written(screen, screen')
    BY <2>1, ScrollStep, Bounds DEF ScreenInv
  <2>3. QED
    BY <2>2 DEF ScreenInv, Written
<1>5. CASE Reset
  BY <1>1, <1>5, ResetIsSound DEF Reset, ScreenInv
<1>6. CASE Idle \/ Getc \/ EnqueueChar \/ UNCHANGED vars
  BY <1>2, <1>6 DEF Idle, Getc, EnqueueChar, QuietTick, vars
<1>7. QED
  BY <1>3, <1>4, <1>5, <1>6 DEF Next

(* The inductive invariant of the screen.                                      *)
THEOREM ScreenInvariant == EraseFree /\ Spec => []ScreenInv
<1> SUFFICES ASSUME EraseFree PROVE Spec => []ScreenInv
  OBVIOUS
<1>1. Init => ScreenInv
  BY NewIsSound DEF Init, ScreenInv
<1>2. ScreenInv /\ [Next]_vars => ScreenInv'
  BY ScreenStep
<1>3. QED
  BY <1>1, <1>2, PTL DEF Spec

(* Without erase sequences the terminal never uses a row that its buffer does      *)
(* not have (ring_buffer.hpp:76), and its cursor and viewport stay on the screen    *)
(* (term_controller.cpp:281-290).                                             *)
THEOREM NothingIsThrown == EraseFree /\ Spec => []NeverOutOfRange
<1> SUFFICES ASSUME EraseFree PROVE Spec => []NeverOutOfRange
  OBVIOUS
<1>1. ScreenInv => NeverOutOfRange
  <2> SUFFICES ASSUME ScreenInv PROVE NeverOutOfRange
    OBVIOUS
  <2>1. ~screen.thrown
    BY DEF ScreenInv, Sound, Screens
  <2>2. /\ screen.row \in 0 .. Height - 1 /\ screen.col \in 0 .. Width - 1
        /\ Size(screen) \in 1 .. Cap /\ screen.start \in 0 .. Top(screen)
    BY DEF ScreenInv, Sound
  <2>3. screen.start \in 0 .. Cap - Height
    BY <2>2, Bounds DEF Top, SubClamp0
  <2>4. QED
    BY <2>1, <2>2, <2>3 DEF NeverOutOfRange
<1>2. QED
  BY <1>1, ScreenInvariant, PTL

(* A row above the screen is never changed and never lost, until a reset            *)
(* (term_controller.cpp:49).                                                   *)
THEOREM HistoryIsKept == EraseFree /\ Spec => ScrollbackKept
<1> SUFFICES ASSUME EraseFree PROVE Spec => ScrollbackKept
  OBVIOUS
<1> DEFINE A == ~Reset => \A i \in 1 .. Size(screen) - Height :
                            i <= Size(screen') /\ screen'.buf[i] = screen.buf[i]
<1>1. ScreenInv /\ [Next]_vars => [A]_vars
  BY ScreenStep DEF Keeps
<1> HIDE DEF A
<1>2. Spec => [][A]_vars
  BY <1>1, ScreenInvariant, PTL DEF Spec
<1>3. QED
  BY <1>2 DEF ScrollbackKept, A

(* A character is shown where it was written, even where it makes the screen       *)
(* scroll (term_controller.cpp:76-81), on a screen of more than one row: a screen    *)
(* of one row scrolls a full line out of sight.                                *)
THEOREM OutputIsShown == Height > 1 /\ EraseFree /\ Spec => WrittenIsShown
<1> SUFFICES ASSUME Height > 1, EraseFree PROVE Spec => WrittenIsShown
  OBVIOUS
<1> DEFINE Shown == LET line == RestoreView(screen).start + screen.row - screen'.start
                    IN  line \in 0 .. Height - 1 /\ SymbolAt(screen', line, screen.col) = Mark
           A == Putc("x") /\ screen.state = "GROUND" => Shown
<1>1. ASSUME ScreenInv, Putc("x"), screen.state = "GROUND" PROVE Shown
  <2> DEFINE h == RestoreView(screen)
             t == WriteSymbol(h, "x")
             line == h.start + screen.row - t.start
  <2>1. /\ AtHome(h) /\ h.row = screen.row /\ h.col = screen.col /\ h.state = "GROUND"
    BY <1>1, RestoreViewStep DEF ScreenInv
  <2>2. screen' = t
    <3>1. screen' = Receive(screen, "x")
      BY <1>1 DEF Putc, Spaced
    <3>2. Receive(screen, "x") = InGround(h, "x")
      BY <2>1 DEF Receive, Interpret
    <3>3. InGround(h, "x") = t
      BY DEF InGround
    <3>4. QED
      BY <3>1, <3>2, <3>3
  <2> HIDE DEF h
  <2>3. /\ AtHome(t) /\ Size(h) <= Size(t) /\ Top(h) <= Top(t) /\ Top(t) <= ActiveRow(h)
        /\ t.buf[ActiveRow(h) + 1][h.col] = Glyph("x")
    BY <2>1, WriteStep
  <2> HIDE DEF t
  <2>4. /\ h.start = Top(h) /\ Top(h) \in Nat /\ Size(h) \in Nat /\ h.row \in 0 .. Height - 1
        /\ Top(h) + h.row < Size(h) /\ t.start = Top(t) /\ Top(t) \in Nat /\ Size(t) \in Nat
    BY <2>1, <2>3, SizeIsNat DEF AtHome, Sound
  <2>5. line \in 0 .. Height - 1 /\ t.start + line = ActiveRow(h)
    BY <2>1, <2>3, <2>4, Bounds DEF ActiveRow
  <2>6. ActiveRow(h) < Size(t)
    BY <2>3, <2>4, Bounds DEF ActiveRow
  <2>7. Glyph("x") = Mark
    <3>1. "x" # Space /\ "x" # NUL /\ "x" # Underscore
      BY Zenon DEF Space, NUL, Underscore
    <3>2. QED
      BY <3>1 DEF Glyph
  <2> HIDE DEF line
  <2>8. SymbolAt(t, line, h.col) = Mark
    BY <2>3, <2>5, <2>6, <2>7 DEF SymbolAt
  <2>9. QED
    BY <2>1, <2>2, <2>5, <2>8 DEF line, h
<1> HIDE DEF Shown
<1>2. ScreenInv /\ [Next]_vars => [A]_vars
  BY <1>1
<1> HIDE DEF A
<1>3. Spec => [][A]_vars
  BY <1>2, ScreenInvariant, PTL DEF Spec
<1>4. QED
  BY <1>3 DEF WrittenIsShown, A, Shown
=============================================================================
