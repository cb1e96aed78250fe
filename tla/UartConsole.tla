---------------------------- MODULE UartConsole ----------------------------
(***************************************************************************)
(* The UART (rtl/axil_uart.v) and the Linux driver that polls it           *)
(* (software/linux/drivers/zcore-uart.c): the device has one holding       *)
(* register each way and no interrupt.                                     *)
(*                                                                         *)
(* Time is counted in baud ticks: a byte is FRAME of them each way.  The   *)
(* hart's accesses take no tick, except that a tick may fall in the very   *)
(* cycle after a write to the transmitter.  Every section of the driver    *)
(* runs with interrupts off under the port lock; only an oops breaks in.   *)
(***************************************************************************)
EXTENDS Integers, Sequences

CONSTANTS FRAME,          \* ticks of a byte on the line
          POLL,           \* ticks between two polls
          BUDGET,         \* ticks after which transmit stops waiting
          TX_BURST,       \* bytes one transmit may write
          PACE,           \* ticks between two received bytes, which the host keeps
          LINE,           \* bytes of a console line
          TYPED, WRITTEN, PRINTED  \* bounds: bytes received, tty writes, console lines

\* The longest the driver looks away: a poll transmits, the next one comes due
\* in the middle of a line or of a burst, and an oops prints first.
ASSUME UartAssumption ==
  /\ {FRAME, POLL, BUDGET, TX_BURST, PACE, LINE} \subseteq Nat \ {0}
  /\ {TYPED, WRITTEN, PRINTED} \subseteq Nat
  /\ PACE > POLL + 2 * BUDGET + 2 * (LINE + 2) * (FRAME + 1)

VARIABLES
  tx_start, tx_data,      \* a byte has been written and not been seen
  tx_left, tx_shift,      \* ticks the byte in the shift register still needs
  tx_empty,
  rx_data, rx_valid,
  wire,                   \* the bytes sent so far
  to_rx, typed,           \* ticks to the next received byte, bytes so far
  to_poll,                \* ticks until poll_timer expires; 0 until it is restarted
  xmit_fifo, written,     \* the tty's queue, bytes put in it so far
  printed,                \* console lines so far
  hart,                   \* what the hart is in: a stack, its innermost part last
  budget,                 \* ticks transmit may still wait
  received,               \* the bytes the tty has got
  oopsed

tx == <<tx_start, tx_data, tx_left, tx_shift, tx_empty, wire>>
rx == <<rx_data, rx_valid, to_rx, typed>>
tty == <<xmit_fifo, written, printed, received>>
uart_vars == <<tx, rx, to_poll, tty, hart, budget, oopsed>>

Idle == hart = <<>>
Top == hart[Len(hart)]
In(what) == ~Idle /\ Top.what = what
Transmits == In("transmit") \/ In("poll") \* the latter when poll() called it
Below == SubSeq(hart, 1, Len(hart) - 1)
Replace(frame) == hart' = Append(Below, frame)

-----------------------------------------------------------------------------
(* The device *)

\* A status read while the written byte has not reached the shift register.
EmptyRegisterOnly == tx_empty \* mutant
StatusEmpty == tx_empty /\ ~tx_start

\* One clock cycle; baud_tick says whether it is a tick of the baud counter.
Transmitter(baud_tick) ==
  IF tx_left = 0
  THEN IF tx_start
       THEN tx_left' = FRAME /\ tx_shift' = tx_data /\ tx_empty' = FALSE /\ UNCHANGED wire
       ELSE UNCHANGED <<tx_left, tx_shift, tx_empty, wire>>
  ELSE IF baud_tick
       THEN /\ tx_left' = tx_left - 1
            /\ tx_empty' = (tx_left = 1)
            /\ wire' = IF tx_left = 1 THEN Append(wire, tx_shift) ELSE wire
            /\ UNCHANGED tx_shift
       ELSE UNCHANGED <<tx_left, tx_shift, tx_empty, wire>>

\* A byte that comes replaces one that has not been read.
Receiver ==
  IF to_rx = 1 /\ typed < TYPED
  THEN to_rx' = PACE /\ typed' = typed + 1 /\ rx_data' = typed + 1 /\ rx_valid' = TRUE
  ELSE to_rx' = (IF typed < TYPED THEN to_rx - 1 ELSE to_rx) /\ UNCHANGED <<typed, rx_data, rx_valid>>

\* The cycle after a write, when it is not a tick.
Cycle ==
  /\ tx_start /\ Transmitter(FALSE) /\ tx_start' = FALSE
  /\ UNCHANGED <<tx_data, rx, to_poll, tty, hart, budget, oopsed>>

\* What the hart waits for: it is idle, or polls a status that stays busy.
Waits == IF Idle THEN TRUE ELSE ~StatusEmpty /\ (Transmits => budget > 0)

Tick ==
  /\ tx_start \/ Waits
  /\ ~(Idle /\ to_poll = 0)
  /\ Transmitter(TRUE) /\ tx_start' = FALSE
  /\ Receiver
  /\ to_poll' = IF to_poll > 0 THEN to_poll - 1 ELSE 0
  /\ budget' = IF budget > 0 THEN budget - 1 ELSE 0
  /\ UNCHANGED <<tx_data, tty, hart, oopsed>>

WriteTx(c) == tx_data' = c /\ tx_start' = TRUE

-----------------------------------------------------------------------------
(* The driver *)

\* transmit(): nothing to do without a byte, else up to TX_BURST bytes.
NeverStarts(caller) == hart' = <<>> /\ UNCHANGED budget \* mutant
Transmit(caller) ==
  IF xmit_fifo' = <<>>
  THEN hart' = <<>> /\ UNCHANGED budget
  ELSE hart' = <<[what |-> caller, left |-> TX_BURST]>> /\ budget' = BUDGET

\* uart_port_tx_limited: a byte leaves the queue only once the status says
\* that there is room for it.
tx_ready_before == StatusEmpty

TransmitByte ==
  /\ Transmits /\ Top.left > 0 /\ xmit_fifo # <<>> /\ budget > 0 /\ tx_ready_before
  /\ WriteTx(Head(xmit_fifo)) /\ xmit_fifo' = Tail(xmit_fifo)
  /\ Replace([Top EXCEPT !.left = @ - 1])
  /\ UNCHANGED <<tx_left, tx_shift, tx_empty, wire, rx, to_poll, written, printed, received, budget, oopsed>>

\* hrtimer_forward_now: the next poll is due at a multiple of POLL_NS after the
\* first, so in any time up to that.
Restarts == to_poll' \in 1 .. POLL

TransmitEnds ==
  /\ Transmits /\ (Top.left = 0 \/ xmit_fifo = <<>> \/ budget = 0)
  /\ hart' = Below /\ budget' = 0
  /\ IF In("poll") THEN Restarts ELSE UNCHANGED to_poll
  /\ UNCHANGED <<tx, rx, tty, oopsed>>

\* poll(): at most one received byte, then transmit.
KeepsValid == rx_valid \* mutant
ClearedValid == FALSE

Poll ==
  /\ Idle /\ to_poll = 0
  /\ received' = IF rx_valid THEN Append(received, rx_data) ELSE received
  /\ rx_valid' = ClearedValid
  /\ UNCHANGED <<xmit_fifo, written, printed>>
  /\ Transmit("poll")
  /\ IF hart' = <<>> THEN Restarts ELSE UNCHANGED to_poll
  /\ UNCHANGED <<tx, rx_data, to_rx, typed, oopsed>>

\* The timer's interrupt is taken as soon as interrupts are on: nothing else
\* begins while a poll is due.
Begins == Idle /\ to_poll > 0

\* A process writes to the tty: uart_write queues the byte and starts transmit.
TtyWrite ==
  /\ Begins /\ written < WRITTEN
  /\ written' = written + 1 /\ xmit_fifo' = Append(xmit_fifo, written + 1)
  /\ UNCHANGED <<printed, received>>
  /\ Transmit("transmit")
  /\ UNCHANGED <<tx, rx, to_poll, oopsed>>

\* console_write: a line is written byte by byte, each after a wait.  Its
\* bytes are told from the tty's by their sign.
ConsoleByte(n) == [what |-> "wait", left |-> n]

ConsoleWrite ==
  /\ Begins /\ printed < PRINTED
  /\ printed' = printed + 1 /\ hart' = <<ConsoleByte(LINE)>>
  /\ UNCHANGED <<tx, rx, to_poll, xmit_fifo, written, received, budget, oopsed>>

\* An oops prints from wherever the hart is; it takes the port lock only if
\* nobody holds it.
AlwaysLocks == Len(hart) = 1 \* mutant
HasLock == Len(hart) = 1 \/ oopsed

Oops ==
  /\ ~oopsed /\ printed < PRINTED /\ oopsed' = TRUE
  /\ printed' = printed + 1
  /\ hart' = Append(hart, ConsoleByte(LINE))
  /\ UNCHANGED <<tx, rx, to_poll, xmit_fifo, written, received, budget>>

\* put_char: wait until the status says empty, then write.
put_char ==
  /\ In("wait") /\ Top.left > 0 /\ HasLock /\ StatusEmpty
  /\ WriteTx(-printed)
  /\ Replace(ConsoleByte(Top.left - 1))
  /\ UNCHANGED <<tx_left, tx_shift, tx_empty, wire, rx, to_poll, tty, budget, oopsed>>

ConsoleEnds ==
  /\ In("wait") /\ Top.left = 0 /\ hart' = Below
  /\ UNCHANGED <<tx, rx, to_poll, tty, budget, oopsed>>

HartStep == TransmitByte \/ TransmitEnds \/ Poll \/ put_char \/ ConsoleEnds

-----------------------------------------------------------------------------
UartInit ==
  /\ tx_start = FALSE /\ tx_data = 0 /\ tx_left = 0 /\ tx_shift = 0 /\ tx_empty = TRUE
  /\ rx_data = 0 /\ rx_valid = FALSE /\ wire = <<>>
  /\ to_rx \in {1, PACE} /\ typed = 0 /\ to_poll = POLL
  /\ xmit_fifo = <<>> /\ written = 0 /\ printed = 0
  /\ hart = <<>> /\ budget = 0 /\ received = <<>> /\ oopsed = FALSE

UartNext == Cycle \/ Tick \/ HartStep \/ TtyWrite \/ ConsoleWrite \/ Oops

UartSpec == UartInit /\ [][UartNext]_uart_vars

\* The baud counter ticks and the hart runs.
UartFairness == WF_uart_vars(Cycle) /\ WF_uart_vars(Tick) /\ WF_uart_vars(HartStep)

-----------------------------------------------------------------------------
(* Properties *)

Ascending(s) == \A i \in 1 .. Len(s) : s[i] = i
InFlight == (IF tx_left > 0 THEN <<tx_shift>> ELSE <<>>) \o (IF tx_start THEN <<tx_data>> ELSE <<>>)

\* poll(), transmit() and console_write(): every byte the tty has queued is on
\* the wire, on its way or still queued, once and in order, whatever the
\* console prints in between.  Only an oops may break into a write.
TtyBytesInOrder ==
  ~oopsed => LET sent == wire \o InFlight
                 left == written - Len(xmit_fifo)
             IN /\ {sent[i] : i \in {j \in DOMAIN sent : sent[j] > 0}} = 1 .. left
                /\ \A j \in DOMAIN sent : sent[j] > 0 => \A i \in 1 .. (j - 1) : sent[i] < sent[j]
                /\ \A k \in DOMAIN xmit_fifo : xmit_fifo[k] = left + k

\* put_char(): no byte of a console line is lost, and none of the tty's bytes
\* falls into the middle of one.
LinesAreWhole ==
  ~oopsed /\ Idle =>
    \A line \in 1 .. printed :
      \E i \in 0 .. Len(wire \o InFlight) - LINE : \A k \in 1 .. LINE : (wire \o InFlight)[i + k] = -line

\* poll(): a host that keeps its pace loses no byte and sees none twice,
\* while polls wait behind console lines and bursts of output.
ReceivedInOrder ==
  Ascending(received) /\ Len(received) + (IF rx_valid THEN 1 ELSE 0) = typed

\* A queued byte reaches the wire although nothing interrupts the driver.
QueueDrains == xmit_fifo # <<>> ~> xmit_fifo = <<>>

\* console_write() during an oops never waits for the lock of the section it
\* broke into: its line comes out.
OopsIsPrinted == oopsed ~> (Idle /\ tx_left = 0)

\* No byte is lost, doubled or put into the middle of others, in or out.
BytesAreKept == TtyBytesInOrder /\ LinesAreWhole /\ ReceivedInOrder

\* What is to be sent gets out, without interrupts and even during an oops.
OutputComes == QueueDrains /\ OopsIsPrinted
=============================================================================
