-------------------------------- MODULE Console --------------------------------
(***************************************************************************)
(* The console: the UART of src/rtl/peripheral/uart/uart_term.sv, the terminal *)
(* of the simulator on its other side, the software that stores to TXDATA and  *)
(* loads from RXDATA, and the user at the keyboard, the scroll wheel and the    *)
(* reset button.                                                           *)
(*                                                                          *)
(* A step of the machine is TimeController::tick_update: one clock edge, and   *)
(* then per_tick_update of the terminal, which sees the registers after the    *)
(* edge.  The user acts between two ticks.  Keys are numbered in the order in   *)
(* which they are typed.                                                    *)
(***************************************************************************)
EXTENDS Screen

CONSTANTS
  Chars,       \* what the software may send: control characters, the digits
               \* d0 to d3, and printable ones
  MaxTyped,    \* a bound on the keys typed
  MaxDigits,   \* a bound on the digits of a number in an escape sequence
  MaxArgs      \* a bound on its numbers

VARIABLES
  tx_valid,          \* the UART: a character was stored in the last cycle
  rx_valid, rx_data, \* the UART: the receive register
  m_prev_tx_valid, m_rx_queue, screen,   \* the terminal
  typed, read        \* the number of keys typed, and of keys the software has read

vars == <<tx_valid, rx_valid, rx_data, m_prev_tx_valid, m_rx_queue, screen, typed, read>>

Init ==
  /\ tx_valid        = FALSE
  /\ rx_valid        = FALSE
  /\ rx_data         = 0
  /\ m_prev_tx_valid = FALSE
  /\ m_rx_queue      = <<>>
  /\ screen          = NewScreen
  /\ typed           = 0
  /\ read            = 0

-----------------------------------------------------------------------------
\* without a look at rx_valid
MutFillRxDataAlways(valid) ==
  IF m_rx_queue # <<>>
  THEN /\ rx_data'    = Head(m_rx_queue)
       /\ rx_valid'   = TRUE
       /\ m_rx_queue' = Tail(m_rx_queue)
  ELSE /\ rx_valid'   = valid
       /\ UNCHANGED <<rx_data, m_rx_queue>>

(* The end of per_tick_update: valid is rx_valid after the clock edge.         *)
FillRxData(valid) ==
  IF m_rx_queue # <<>> /\ ~valid
  THEN /\ rx_data'    = Head(m_rx_queue)
       /\ rx_valid'   = TRUE
       /\ m_rx_queue' = Tail(m_rx_queue)
  ELSE /\ rx_valid'   = valid
       /\ UNCHANGED <<rx_data, m_rx_queue>>

\* a cycle without a store to TXDATA; valid is what the edge leaves of rx_valid
QuietTick(valid) ==
  /\ ~screen.thrown
  /\ tx_valid'        = FALSE
  /\ m_prev_tx_valid' = FALSE
  /\ FillRxData(valid)
  /\ UNCHANGED <<screen, typed>>

Idle == QuietTick(rx_valid) /\ UNCHANGED read

(* k_getc loads RXDATA when STATUS says that it is valid.                     *)
Getc ==
  /\ rx_valid
  /\ read' = read + 1
  /\ QuietTick(FALSE)

\* bounds on what the parser collects
Collectable(c) ==
  screen.state = "CSI" => /\ (c \in DOMAIN DigitValue => Len(screen.digits) < MaxDigits)
                          /\ (c = ";" => Len(screen.args) < MaxArgs)

(* k_putc loads STATUS before it stores to TXDATA, so two stores are never in   *)
(* consecutive cycles, nor is one in the first cycle after a reset.            *)
Spaced == ~tx_valid /\ ~m_prev_tx_valid

(* A store to TXDATA.  The terminal takes the character only where tx_valid      *)
(* rises.                                                                   *)
Putc(c) ==
  /\ ~screen.thrown
  /\ Spaced
  /\ Collectable(c)
  /\ tx_valid'        = TRUE
  /\ m_prev_tx_valid' = TRUE
  /\ screen'          = IF m_prev_tx_valid THEN screen ELSE Receive(screen, c)
  /\ FillRxData(rx_valid)
  /\ UNCHANGED <<typed, read>>

-----------------------------------------------------------------------------
EnqueueChar ==
  /\ ~screen.thrown
  /\ typed < MaxTyped
  /\ typed'      = typed + 1
  /\ m_rx_queue' = Append(m_rx_queue, typed + 1)
  /\ UNCHANGED <<tx_valid, rx_valid, rx_data, m_prev_tx_valid, screen, read>>

Scroll(delta) ==
  /\ ~screen.thrown
  /\ screen' \in {ScrollUp(screen, delta), ScrollDown(screen, delta)}
  /\ UNCHANGED <<tx_valid, rx_valid, rx_data, m_prev_tx_valid, m_rx_queue, typed, read>>

\* TimeController::reset: one clock edge under i_rst, then the terminal's reset
Reset ==
  /\ ~screen.thrown
  /\ tx_valid'   = FALSE
  /\ rx_valid'   = FALSE
  /\ m_rx_queue' = <<>>
  /\ screen'     = ResetScreen(screen)
  /\ typed'      = 0
  /\ read'       = 0
  /\ UNCHANGED <<rx_data, m_prev_tx_valid>>

Next == \/ Idle \/ Getc
        \/ \E c \in Chars : Putc(c)
        \/ EnqueueChar
        \/ \E delta \in 1 .. Cap : Scroll(delta)
        \/ Reset

Spec == Init /\ [][Next]_vars

-----------------------------------------------------------------------------
(* "Index out of range" (ring_buffer.hpp:76): no sequence of characters, with   *)
(* scrolling and resets in between, makes the terminal use a row that its      *)
(* buffer does not have; and the cursor and the viewport stay on the screen,     *)
(* whose columns nothing checks (term_controller.cpp:281-290).                 *)
NeverOutOfRange ==
  /\ ~screen.thrown
  /\ screen.row \in 0 .. Height - 1 /\ screen.col \in 0 .. Width - 1
  /\ Size(screen) \in 1 .. Cap /\ screen.start \in 0 .. Cap - Height

(* A row that has scrolled off the top of the screen never changes and is never *)
(* lost, whatever the software sends and wherever the user has scrolled to:     *)
(* the first thing a character does is bring the viewport back                 *)
(* (term_controller.cpp:49).                                                *)
ScrollbackKept ==
  [][~Reset => \A i \in 1 .. Size(screen) - Height :
                 i <= Size(screen') /\ screen'.buf[i] = screen.buf[i]]_vars

(* A printable character is on the screen, in the row and column in which the   *)
(* cursor stood, as soon as it has been sent, even if the line it ended made    *)
(* the screen scroll (term_controller.cpp:76-81).                             *)
WrittenIsShown ==
  [][Putc("x") /\ screen.state = "GROUND" =>
       LET line == RestoreView(screen).start + screen.row - screen'.start
       IN  line \in 0 .. Height - 1 /\ SymbolAt(screen', line, screen.col) = Mark]_vars

(* The keys on their way, in the receive register and behind it in the queue,   *)
(* are those typed and not yet read, in their order: none is lost, read twice   *)
(* or overtaken (term_controller.cpp:247-251, uart_term.sv:47-55).             *)
KeysInOrder ==
  (IF rx_valid THEN <<rx_data>> ELSE <<>>) \o m_rx_queue
    = [i \in 1 .. typed - read |-> read + i]
=============================================================================
