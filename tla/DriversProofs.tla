-------------------------- MODULE DriversProofs --------------------------
(***************************************************************************)
(* The theorems about three drivers: the UART keeps bytes, for every pace  *)
(* that UartAssumption allows; and of the two that read counters while     *)
(* they run, the PMU driver counts each event once, and the clock and the  *)
(* timer's line are true.                                                  *)
(***************************************************************************)
EXTENDS UartConsole, EventCounters, TimerDriver, SequenceTheorems, TLAPS

(***************************************************************************)
(* Proof that the UART keeps bytes.                                        *)
(***************************************************************************)

-----------------------------------------------------------------------------
(* The invariant *)

HartFrame == [what : {"transmit", "poll", "wait"}, left : Nat]

Registers ==
  /\ tx_start \in BOOLEAN /\ tx_data \in Int /\ tx_left \in 0 .. FRAME /\ tx_shift \in Int /\ wire \in Seq(Int)
  /\ tx_empty = (tx_left = 0)
  /\ tx_start => tx_left = 0
  /\ rx_valid \in BOOLEAN /\ rx_data \in Int /\ to_rx \in Nat \ {0} /\ typed \in Nat
  /\ to_poll \in 0 .. POLL /\ budget \in 0 .. BUDGET
  /\ xmit_fifo \in Seq(Int) /\ written \in Nat /\ printed \in Nat /\ received \in Seq(Int) /\ oopsed \in BOOLEAN

\* Sections do not nest, but for the one that an oops breaks into.
Stack ==
  /\ hart \in Seq(HartFrame) /\ Len(hart) <= 2
  /\ Len(hart) = 2 => hart[2].what = "wait" /\ oopsed

Sections ==
  /\ Stack
  /\ \A i \in 1 .. Len(hart) : hart[i].what = "wait" => printed > 0 /\ hart[i].left <= LINE
  /\ Len(hart) > 0 /\ hart[1].what = "poll" => to_poll = 0

\* The bytes sent, with those still on their way.
Sent == wire \o InFlight

TtyBytes(sent, left) ==
  /\ {sent[i] : i \in {j \in DOMAIN sent : sent[j] > 0}} = 1 .. left
  /\ \A j \in DOMAIN sent : sent[j] > 0 => \A i \in 1 .. (j - 1) : sent[i] < sent[j]

Queue(fifo, left) == \A k \in DOMAIN fifo : fifo[k] = left + k

Tty ==
  /\ Len(xmit_fifo) <= written
  /\ TtyBytes(Sent, written - Len(xmit_fifo)) /\ Queue(xmit_fifo, written - Len(xmit_fifo))

WholeLine(sent, line) == \E i \in 0 .. Len(sent) - LINE : \A k \in 1 .. LINE : sent[i + k] = -line

\* A line begun is the end of what has been sent.
Begun(sent, line, n) ==
  /\ n <= Len(sent)
  /\ \A k \in 1 .. n : sent[Len(sent) - n + k] = -line

Lines ==
  ~oopsed =>
    \/ /\ \A i \in 1 .. Len(hart) : hart[i].what # "wait"
       /\ \A line \in 1 .. printed : WholeLine(Sent, line)
    \/ /\ Len(hart) = 1 /\ hart[1].what = "wait"
       /\ \A line \in 1 .. (printed - 1) : WholeLine(Sent, line)
       /\ Begun(Sent, printed, LINE - hart[1].left)

Input ==
  /\ Ascending(received) /\ Len(received) + (IF rx_valid THEN 1 ELSE 0) = typed
  /\ rx_valid => rx_data = typed

(* How many ticks may pass before the next received byte is looked for *)

Byte == FRAME + 1
Frames(n) == n * Byte
Busy == IF tx_start THEN Byte ELSE tx_left
Slack == IF budget > 0 THEN budget ELSE IF tx_start THEN 1 ELSE 0

Wait == IF budget > 0 THEN budget ELSE 1

\* Until the section is left.
RemainingOf(h, busy, slack, wait) ==
  IF h = <<>> THEN 0
  ELSE IF Len(h) = 1
  THEN IF h[1].what = "wait" THEN Frames(h[1].left) + busy ELSE slack
  ELSE Frames(h[2].left) + busy + (IF h[1].what = "wait" THEN Frames(h[1].left) ELSE wait)

Remaining == RemainingOf(hart, Busy, Slack, Wait)

LongestSection == BUDGET + Frames(LINE) + Byte
OopsToCome == IF oopsed THEN 0 ELSE Frames(LINE) + Byte + 1

\* Until poll() looks.
UartRest(polling, remaining, due) ==
  IF polling THEN remaining + POLL + LongestSection
  ELSE IF due = 0 THEN remaining
  ELSE IF remaining >= due + LongestSection THEN remaining ELSE due + LongestSection

Polling(h) == Len(h) > 0 /\ h[1].what = "poll"
ToLook == OopsToCome + UartRest(Polling(hart), Remaining, to_poll)

Pace ==
  /\ ToLook < PACE
  /\ rx_valid /\ typed < TYPED => ToLook < to_rx

UartInv == Registers /\ Sections /\ Tty /\ Lines /\ Input /\ Pace

-----------------------------------------------------------------------------
(* Sequences of bytes *)

\* What appending one byte to a sequence does.
LEMMA Appended ==
  ASSUME NEW S, NEW s \in Seq(S), NEW c \in S
  PROVE /\ Append(s, c) \in Seq(S) /\ Len(s) \in Nat /\ Len(Append(s, c)) = Len(s) + 1
        /\ DOMAIN s = 1 .. Len(s) /\ DOMAIN Append(s, c) = 1 .. (Len(s) + 1)
        /\ Append(s, c)[Len(s) + 1] = c
        /\ \A i \in 1 .. Len(s) : Append(s, c)[i] = s[i] /\ Append(s, c)[i] \in S
OBVIOUS

\* The tty's next byte goes out after those before it.
LEMMA TtyByteSent ==
  ASSUME NEW s \in Seq(Int), NEW left \in Nat, TtyBytes(s, left)
  PROVE TtyBytes(Append(s, left + 1), left + 1)
<1> DEFINE t == Append(s, left + 1)
<1>1. /\ t \in Seq(Int) /\ Len(s) \in Nat /\ DOMAIN s = 1 .. Len(s) /\ DOMAIN t = 1 .. (Len(s) + 1)
      /\ t[Len(s) + 1] = left + 1 /\ \A i \in 1 .. Len(s) : t[i] = s[i] /\ t[i] \in Int
  BY Appended
<1> HIDE DEF t
<1>2. /\ {s[i] : i \in {j \in DOMAIN s : s[j] > 0}} = 1 .. left
      /\ \A j \in DOMAIN s : s[j] > 0 => \A i \in 1 .. (j - 1) : s[i] < s[j]
  BY DEF TtyBytes
<1>3. \A i \in DOMAIN s : s[i] \in Int /\ s[i] <= left
  <2> TAKE i \in DOMAIN s
  <2>1. s[i] \in Int
    BY <1>1
  <2>2. CASE s[i] > 0
    <3>1. s[i] \in 1 .. left
      BY <1>2, <2>2
    <3> QED BY <3>1
  <2>3. CASE ~(s[i] > 0)
    BY <2>1, <2>3
  <2> QED BY <2>1, <2>2, <2>3
<1>4. {t[i] : i \in {j \in DOMAIN t : t[j] > 0}} = 1 .. (left + 1)
  <2>1. ASSUME NEW i \in DOMAIN t, t[i] > 0 PROVE t[i] \in 1 .. (left + 1)
    <3>1. CASE i = Len(s) + 1
      BY <1>1, <3>1
    <3>2. CASE i # Len(s) + 1
      <4>1. i \in DOMAIN s /\ t[i] = s[i]
        BY <1>1, <3>2
      <4> QED BY <4>1, <1>3, <2>1
    <3> QED BY <3>1, <3>2
  <2>2. ASSUME NEW c \in 1 .. (left + 1) PROVE \E i \in DOMAIN t : t[i] > 0 /\ t[i] = c
    <3>1. CASE c = left + 1
      <4>1. Len(s) + 1 \in DOMAIN t /\ t[Len(s) + 1] = c /\ c > 0
        BY <1>1, <3>1
      <4> QED BY <4>1
    <3>2. CASE c # left + 1
      <4>1. c \in {s[i] : i \in {j \in DOMAIN s : s[j] > 0}}
        <5>1. c \in 1 .. left
          BY <3>2
        <5> QED BY ONLY <5>1, <1>2
      <4>2. PICK i \in DOMAIN s : s[i] > 0 /\ c = s[i]
        BY <4>1
      <4>3. i \in DOMAIN t /\ t[i] = s[i]
        BY <1>1
      <4> QED BY <4>2, <4>3
    <3> QED BY <3>1, <3>2
  <2> QED BY <2>1, <2>2
<1>5. \A j \in DOMAIN t : t[j] > 0 => \A i \in 1 .. (j - 1) : t[i] < t[j]
  <2> SUFFICES ASSUME NEW j \in DOMAIN t, t[j] > 0, NEW i \in 1 .. (j - 1) PROVE t[i] < t[j]
    OBVIOUS
  <2>1. i \in DOMAIN s /\ t[i] = s[i]
    BY <1>1
  <2>2. CASE j = Len(s) + 1
    <3>1. t[j] = left + 1 /\ s[i] \in Int /\ s[i] <= left
      BY <1>1, <1>3, <2>1, <2>2
    <3> QED BY <3>1, <2>1
  <2>3. CASE j # Len(s) + 1
    <3>1. j \in 1 .. Len(s)
      BY <1>1, <2>3
    <3>2. j \in DOMAIN s /\ t[j] = s[j]
      BY <1>1, <3>1
    <3> QED BY <3>2, <2>1, <1>2
  <2> QED BY <2>2, <2>3
<1> QED BY <1>4, <1>5 DEF TtyBytes, t

\* A byte of a console line is none of the tty's.
LEMMA ConsoleByteSent ==
  ASSUME NEW s \in Seq(Int), NEW left, NEW c \in Int, c <= 0, TtyBytes(s, left)
  PROVE TtyBytes(Append(s, c), left)
<1> DEFINE t == Append(s, c)
<1>1. /\ t \in Seq(Int) /\ Len(s) \in Nat /\ DOMAIN s = 1 .. Len(s) /\ DOMAIN t = 1 .. (Len(s) + 1)
      /\ t[Len(s) + 1] = c /\ \A i \in 1 .. Len(s) : t[i] = s[i] /\ t[i] \in Int
  BY Appended
<1> HIDE DEF t
<1>2. /\ {s[i] : i \in {j \in DOMAIN s : s[j] > 0}} = 1 .. left
      /\ \A j \in DOMAIN s : s[j] > 0 => \A i \in 1 .. (j - 1) : s[i] < s[j]
  BY DEF TtyBytes
<1>3. ASSUME NEW i \in DOMAIN t, t[i] > 0 PROVE i \in DOMAIN s /\ t[i] = s[i]
  BY <1>1, <1>3
<1>4. ASSUME NEW i \in DOMAIN s PROVE i \in DOMAIN t /\ t[i] = s[i]
  BY <1>1
<1>5. {j \in DOMAIN t : t[j] > 0} = {j \in DOMAIN s : s[j] > 0}
  BY <1>3, <1>4
<1>6. {t[i] : i \in {j \in DOMAIN t : t[j] > 0}} = {s[i] : i \in {j \in DOMAIN s : s[j] > 0}}
  BY <1>4, <1>5
<1>7. \A j \in DOMAIN t : t[j] > 0 => \A i \in 1 .. (j - 1) : t[i] < t[j]
  <2> SUFFICES ASSUME NEW j \in DOMAIN t, t[j] > 0, NEW i \in 1 .. (j - 1) PROVE t[i] < t[j]
    OBVIOUS
  <2>1. j \in DOMAIN s /\ t[j] = s[j]
    BY <1>3
  <2>2. t[i] = s[i]
    BY <1>1, <2>1
  <2> QED BY <2>1, <2>2, <1>2
<1> QED BY <1>2, <1>6, <1>7 DEF TtyBytes, t

\* What has been sent stays where it is.
LEMMA WholeStays ==
  ASSUME NEW s \in Seq(Int), NEW c \in Int, NEW line, LINE \in Nat, WholeLine(s, line)
  PROVE WholeLine(Append(s, c), line)
<1>1. PICK i \in 0 .. Len(s) - LINE : \A k \in 1 .. LINE : s[i + k] = -line
  BY DEF WholeLine
<1>2. /\ Len(s) \in Nat /\ Len(Append(s, c)) = Len(s) + 1
      /\ \A j \in 1 .. Len(s) : Append(s, c)[j] = s[j]
  BY Appended
<1>3. \A k \in 1 .. LINE : Append(s, c)[i + k] = -line
  <2> TAKE k \in 1 .. LINE
  <2>1. i + k \in 1 .. Len(s)
    BY <1>2
  <2> QED BY <1>1, <1>2, <2>1
<1>4. i \in 0 .. Len(Append(s, c)) - LINE
  BY <1>2
<1> QED BY <1>3, <1>4 DEF WholeLine

\* The next byte of the line begun.
LEMMA BegunGoesOn ==
  ASSUME NEW s \in Seq(Int), NEW line \in Int, NEW n \in Nat, Begun(s, line, n)
  PROVE Begun(Append(s, -line), line, n + 1)
<1> DEFINE t == Append(s, -line)
<1>1. /\ Len(s) \in Nat /\ Len(t) = Len(s) + 1 /\ t[Len(s) + 1] = -line
      /\ \A j \in 1 .. Len(s) : t[j] = s[j]
  BY Appended
<1> HIDE DEF t
<1>2. n <= Len(s) /\ \A k \in 1 .. n : s[Len(s) - n + k] = -line
  BY DEF Begun
<1>3. ASSUME NEW k \in 1 .. (n + 1) PROVE t[Len(t) - (n + 1) + k] = -line
  <2>1. CASE k = n + 1
    <3>1. Len(t) - (n + 1) + k = Len(s) + 1
      BY <1>1, <2>1
    <3> QED BY <3>1, <1>1
  <2>2. CASE k # n + 1
    <3>1. k \in 1 .. n /\ Len(t) - (n + 1) + k = Len(s) - n + k /\ Len(s) - n + k \in 1 .. Len(s)
      BY <1>1, <1>2, <2>2
    <3> QED BY <3>1, <1>1, <1>2
  <2> QED BY <2>1, <2>2
<1>4. n + 1 <= Len(t)
  BY <1>1, <1>2
<1> QED BY <1>3, <1>4 DEF Begun, t

\* A line begun with all its bytes is whole.
LEMMA BegunIsWhole ==
  ASSUME NEW s \in Seq(Int), NEW line, LINE \in Nat, Begun(s, line, LINE)
  PROVE WholeLine(s, line)
<1>1. Len(s) \in Nat /\ Len(s) - LINE \in 0 .. Len(s) - LINE
  BY DEF Begun
<1> QED BY <1>1 DEF Begun, WholeLine

\* The queue after a byte has left it, and after one has come.
LEMMA QueueLeft ==
  ASSUME NEW q \in Seq(Int), q # <<>>, NEW left \in Nat, Queue(q, left)
  PROVE /\ Head(q) = left + 1 /\ Tail(q) \in Seq(Int) /\ Len(Tail(q)) = Len(q) - 1 /\ Len(q) > 0
        /\ Queue(Tail(q), left + 1)
<1>1. /\ Len(q) \in Nat \ {0} /\ DOMAIN q = 1 .. Len(q) /\ Head(q) = q[1]
      /\ Tail(q) \in Seq(Int) /\ Len(Tail(q)) = Len(q) - 1 /\ DOMAIN Tail(q) = 1 .. (Len(q) - 1)
      /\ \A k \in 1 .. (Len(q) - 1) : Tail(q)[k] = q[k + 1]
  OBVIOUS
<1>2. \A k \in DOMAIN Tail(q) : Tail(q)[k] = left + 1 + k
  <2> TAKE k \in DOMAIN Tail(q)
  <2>1. k + 1 \in DOMAIN q /\ k \in Nat
    BY <1>1
  <2>2. q[k + 1] = left + (k + 1)
    BY <2>1 DEF Queue
  <2> QED BY <1>1, <2>1, <2>2
<1>3. q[1] = left + 1
  BY <1>1 DEF Queue
<1> QED BY <1>1, <1>2, <1>3 DEF Queue

LEMMA QueueGrown ==
  ASSUME NEW q \in Seq(Int), NEW left \in Nat, Queue(q, left)
  PROVE Queue(Append(q, left + Len(q) + 1), left)
<1>1. left + Len(q) + 1 \in Int
  OBVIOUS
<1> DEFINE t == Append(q, left + Len(q) + 1)
<1>2. /\ Len(q) \in Nat /\ DOMAIN q = 1 .. Len(q) /\ DOMAIN t = 1 .. (Len(q) + 1)
      /\ t[Len(q) + 1] = left + Len(q) + 1 /\ \A i \in 1 .. Len(q) : t[i] = q[i]
  BY <1>1, Appended
<1> HIDE DEF t
<1>3. \A k \in DOMAIN t : t[k] = left + k
  <2> TAKE k \in DOMAIN t
  <2>1. CASE k = Len(q) + 1
    BY <1>2, <2>1
  <2>2. CASE k # Len(q) + 1
    <3>1. k \in DOMAIN q /\ t[k] = q[k]
      BY <1>2, <2>2
    <3> QED BY <3>1 DEF Queue
  <2> QED BY <2>1, <2>2
<1> QED BY <1>3 DEF Queue, t

-----------------------------------------------------------------------------
(* Times *)

LEMMA UartNumbers ==
  /\ FRAME \in Nat \ {0} /\ POLL \in Nat \ {0} /\ BUDGET \in Nat \ {0} /\ TX_BURST \in Nat \ {0}
  /\ PACE \in Nat \ {0} /\ LINE \in Nat \ {0} /\ Byte \in Nat \ {0}
BY UartAssumption DEF UartAssumption, Byte

\* A frame more is a byte more.
LEMMA FramesStep ==
  ASSUME NEW n \in Nat
  PROVE /\ Frames(n) \in Nat /\ Frames(0) = 0
        /\ n > 0 => Frames(n - 1) \in Nat /\ Frames(n) = Frames(n - 1) + Byte
<1>1. Byte \in Nat
  BY UartNumbers
<1>2. n * Byte \in Nat /\ 0 * Byte = 0
  BY <1>1
<1>3. n > 0 => (n - 1) * Byte = n * Byte - Byte
  BY <1>1
<1> QED BY <1>1, <1>2, <1>3 DEF Frames

\* The host's pace leaves time for two lines, two bursts and a poll.
LEMMA PaceIsLong ==
  /\ LongestSection \in Nat /\ Frames(LINE) \in Nat
  /\ LongestSection = BUDGET + Frames(LINE) + Byte
  /\ PACE > POLL + BUDGET + LongestSection + Frames(LINE) + Byte + 1
<1>1. Frames(LINE) \in Nat
  BY UartNumbers, FramesStep
<1>2. PACE > POLL + 2 * BUDGET + 2 * (LINE + 2) * Byte
  BY UartAssumption DEF UartAssumption, Byte
<1>3. 2 * (LINE + 2) * Byte = 2 * Frames(LINE) + 4 * Byte
  BY UartNumbers DEF Frames
<1> QED BY <1>1, <1>2, <1>3, UartNumbers DEF LongestSection

-----------------------------------------------------------------------------
(* What the sections are, and what has been sent *)

\* At most one section, and what an oops prints above it.
LEMMA Shapes ==
  ASSUME Stack
  PROVE \/ hart = <<>> /\ Len(hart) = 0
        \/ Len(hart) = 1 /\ hart = <<hart[1]>> /\ hart[1] \in HartFrame
        \/ /\ Len(hart) = 2 /\ hart = <<hart[1], hart[2]>> /\ hart[1] \in HartFrame /\ hart[2] \in HartFrame
           /\ hart[2].what = "wait" /\ oopsed
<1>1. hart \in Seq(HartFrame) /\ Len(hart) <= 2 /\ Len(hart) \in Nat
  BY DEF Stack
<1>2. \A n \in Nat : n <= 2 => n = 0 \/ n = 1 \/ n = 2
  OBVIOUS
<1>3. Len(hart) = 0 \/ Len(hart) = 1 \/ Len(hart) = 2
  BY ONLY <1>1, <1>2
<1> QED BY <1>1, <1>3 DEF Stack

LEMMA Pair == ASSUME NEW a, NEW f PROVE Append(<<a>>, f) = <<a, f>>
<1>1. <<a>> \in Seq({a, f}) /\ <<a, f>> \in Seq({a, f}) /\ f \in {a, f}
  OBVIOUS
<1>2. Append(<<a>>, f) \in Seq({a, f}) /\ Len(Append(<<a>>, f)) = 2
  BY <1>1
<1>3. Append(<<a>>, f)[1] = a /\ Append(<<a>>, f)[2] = f
  BY <1>1
<1>4. \A t \in Seq({a, f}) : Len(t) = 2 /\ t[1] = a /\ t[2] = f => t = <<a, f>>
  OBVIOUS
<1> QED BY ONLY <1>2, <1>3, <1>4

\* A stack without its innermost part.
LEMMA Shorter ==
  ASSUME NEW S, NEW s \in Seq(S)
  PROVE /\ Len(s) = 1 => SubSeq(s, 1, Len(s) - 1) = <<>>
        /\ Len(s) = 2 => SubSeq(s, 1, Len(s) - 1) = <<s[1]>>
<1> DEFINE t == SubSeq(s, 1, Len(s) - 1)
<1>1. Len(s) = 1 => t = <<>>
  OBVIOUS
<1>2. ASSUME Len(s) = 2 PROVE t = <<s[1]>>
  <2>1. t \in Seq(S) /\ Len(t) = 1 /\ t[1] = s[1]
    BY <1>2
  <2> HIDE DEF t
  <2> QED BY <2>1
<1> QED BY <1>1, <1>2

LEMMA Idles == ASSUME Stack PROVE Idle <=> Len(hart) = 0
BY Shapes DEF Idle

\* The section that goes on is the innermost.
LEMMA Tops ==
  ASSUME Stack, ~Idle
  PROVE \/ Len(hart) = 1 /\ Top = hart[1] /\ Below = <<>> /\ \A f : Append(Below, f) = <<f>>
        \/ /\ Len(hart) = 2 /\ Top = hart[2] /\ Below = <<hart[1]>>
           /\ \A f : Append(Below, f) = <<hart[1], f>>
<1>1. CASE Len(hart) = 1
  <2>1. Below = <<>>
    BY <1>1, Shorter DEF Below, Stack
  <2> QED BY <1>1, <2>1 DEF Top
<1>2. CASE Len(hart) = 2
  <2>1. Below = <<hart[1]>>
    BY <1>2, Shorter DEF Below, Stack
  <2>2. \A f : Append(<<hart[1]>>, f) = <<hart[1], f>>
    BY Pair
  <2>3. Below = <<hart[1]>> /\ \A f : Append(Below, f) = <<hart[1], f>>
    BY <2>1, <2>2
  <2> QED BY <1>2, <2>3 DEF Top
<1> QED BY <1>1, <1>2, Shapes DEF Idle

LEMMA SentType == ASSUME Registers PROVE Sent \in Seq(Int) /\ InFlight \in Seq(Int)
BY DEF Registers, Sent, InFlight

\* A byte on its way has been sent already.
LEMMA TransmitterSends ==
  ASSUME Registers, NEW baud_tick, Transmitter(baud_tick), tx_start' = FALSE, UNCHANGED tx_data,
         tx_start \/ baud_tick
  PROVE Sent' = Sent
<1> USE DEF Registers
<1>0. wire \in Seq(Int) /\ FRAME > 0
  BY UartNumbers
<1>1. CASE tx_start
  <2>1. tx_left = 0 /\ tx_left' = FRAME /\ tx_shift' = tx_data /\ wire' = wire
    BY <1>1 DEF Transmitter
  <2> QED BY <2>1, <1>0, <1>1 DEF Sent, InFlight
<1>2. CASE ~tx_start /\ tx_left = 0
  BY <1>2 DEF Transmitter, Sent, InFlight
<1>3. CASE ~tx_start /\ tx_left = 1
  <2>1. tx_left' = 0 /\ wire' = Append(wire, tx_shift)
    BY <1>3 DEF Transmitter
  <2>2. Sent = wire \o (<<tx_shift>> \o <<>>) /\ Sent' = Append(wire, tx_shift) \o (<<>> \o <<>>)
    BY <1>3, <2>1 DEF Sent, InFlight
  <2> QED BY <2>2, <1>0
<1>4. CASE ~tx_start /\ tx_left > 1
  <2>1. tx_left' > 0 /\ wire' = wire /\ tx_shift' = tx_shift
    BY <1>4 DEF Transmitter
  <2> QED BY <2>1, <1>4 DEF Sent, InFlight
<1> QED BY <1>1, <1>2, <1>3, <1>4

\* A byte written to a free transmitter is the last one sent.
LEMMA WrittenIsSent ==
  ASSUME Registers, StatusEmpty, NEW c \in Int, WriteTx(c), UNCHANGED <<tx_left, tx_shift, wire>>
  PROVE Sent' = Append(Sent, c)
<1>1. tx_left = 0 /\ ~tx_start /\ wire \in Seq(Int)
  BY DEF Registers, StatusEmpty
<1>2. Sent = wire \o (<<>> \o <<>>) /\ Sent' = wire \o (<<>> \o <<c>>)
  BY <1>1 DEF Sent, InFlight, WriteTx
<1> QED BY <1>1, <1>2

\* What neither starts nor moves a byte leaves what has been sent.
LEMMA SentStays == ASSUME UNCHANGED tx PROVE Sent' = Sent
BY DEF tx, Sent, InFlight

-----------------------------------------------------------------------------
(* The sections, one by one *)

\* What a section may be.
Section(f, prints, due) ==
  /\ f \in HartFrame
  /\ f.what = "wait" => prints > 0 /\ f.left <= LINE
  /\ f.what = "poll" => due = 0

LEMMA Cases ==
  ASSUME Sections
  PROVE \/ hart = <<>>
        \/ \E f : hart = <<f>> /\ Section(f, printed, to_poll)
        \/ \E f, n : /\ hart = <<f, ConsoleByte(n)>> /\ Section(f, printed, to_poll)
                     /\ n \in 0 .. LINE /\ printed > 0 /\ oopsed
<1>1. Stack /\ (\A i \in 1 .. Len(hart) : hart[i].what = "wait" => printed > 0 /\ hart[i].left <= LINE)
  BY DEF Sections
<1>2. CASE hart = <<>>
  BY <1>2
<1>3. CASE Len(hart) = 1 /\ hart = <<hart[1]>> /\ hart[1] \in HartFrame
  <2>1. Section(hart[1], printed, to_poll)
    BY <1>1, <1>3 DEF Section, Sections
  <2> QED BY <2>1, <1>3
<1>4. CASE /\ Len(hart) = 2 /\ hart = <<hart[1], hart[2]>> /\ hart[1] \in HartFrame /\ hart[2] \in HartFrame
           /\ hart[2].what = "wait" /\ oopsed
  <2>1. Section(hart[1], printed, to_poll)
    BY <1>1, <1>4 DEF Section, Sections
  <2>2. printed > 0 /\ hart[2].left <= LINE /\ hart[2].left \in Nat
    BY <1>1, <1>4 DEF HartFrame
  <2>3. hart[2] = ConsoleByte(hart[2].left)
    BY <1>4 DEF HartFrame, ConsoleByte
  <2>4. hart[2].left \in 0 .. LINE
    BY <2>2, UartNumbers
  <2> QED BY <2>1, <2>2, <2>3, <2>4, <1>4
<1> QED BY <1>1, <1>2, <1>3, <1>4, Shapes

LEMMA NoSection == ASSUME hart' = <<>> PROVE Sections'
BY DEF Sections, Stack

LEMMA OneSection == ASSUME NEW f, hart' = <<f>>, Section(f, printed', to_poll') PROVE Sections'
<1>1. Len(hart') = 1 /\ hart'[1] = f /\ hart' \in Seq(HartFrame)
  BY DEF Section
<1> QED BY <1>1 DEF Sections, Stack, Section

LEMMA TwoSections ==
  ASSUME NEW f, NEW n \in 0 .. LINE, hart' = <<f, ConsoleByte(n)>>, Section(f, printed', to_poll'),
         printed' > 0, oopsed'
  PROVE Sections'
<1>1. ConsoleByte(n) \in HartFrame /\ ConsoleByte(n).what = "wait" /\ ConsoleByte(n).left = n
  BY UartNumbers DEF ConsoleByte, HartFrame
<1>2. Len(hart') = 2 /\ hart'[1] = f /\ hart'[2] = ConsoleByte(n)
  OBVIOUS
<1>3. hart' \in Seq(HartFrame)
  BY <1>1 DEF Section
<1>4. \A i \in 1 .. 2 : i = 1 \/ i = 2
  OBVIOUS
<1>5. \A i \in 1 .. Len(hart') : hart'[i].what = "wait" => printed' > 0 /\ hart'[i].left <= LINE
  BY <1>1, <1>2, <1>4 DEF Section
<1> QED BY <1>1, <1>2, <1>3, <1>5 DEF Sections, Stack, Section

-----------------------------------------------------------------------------
(* How long until poll() looks *)

LEMMA RemainsOfNone == \A busy, slack, wait : RemainingOf(<<>>, busy, slack, wait) = 0
BY DEF RemainingOf

LEMMA RemainsOfOne ==
  ASSUME NEW busy, NEW slack, NEW wait, NEW f
  PROVE RemainingOf(<<f>>, busy, slack, wait) = IF f.what = "wait" THEN Frames(f.left) + busy ELSE slack
<1>1. <<f>> # <<>> /\ Len(<<f>>) = 1 /\ <<f>>[1] = f
  OBVIOUS
<1> QED BY <1>1 DEF RemainingOf

LEMMA RemainsOfTwo ==
  ASSUME NEW busy, NEW slack, NEW wait, NEW f, NEW n
  PROVE RemainingOf(<<f, ConsoleByte(n)>>, busy, slack, wait) =
          Frames(n) + busy + (IF f.what = "wait" THEN Frames(f.left) ELSE wait)
<1> DEFINE c == ConsoleByte(n)
<1>1. c.left = n
  BY DEF ConsoleByte
<1> HIDE DEF c
<1>2. <<f, c>> # <<>> /\ Len(<<f, c>>) = 2 /\ <<f, c>>[1] = f /\ <<f, c>>[2] = c
  OBVIOUS
<1>3. RemainingOf(<<f, c>>, busy, slack, wait) =
          Frames(n) + busy + (IF f.what = "wait" THEN Frames(f.left) ELSE wait)
  BY <1>1, <1>2 DEF RemainingOf
<1> QED BY <1>3 DEF c

LEMMA PollingIs ==
  /\ ~Polling(<<>>)
  /\ \A f : Polling(<<f>>) <=> f.what = "poll"
  /\ \A f, c : Polling(<<f, c>>) <=> f.what = "poll"
BY DEF Polling

\* The registers' part of what remains, before and after a step.
LEMMA Measures ==
  ASSUME Registers
  PROVE /\ Busy \in 0 .. Byte /\ Slack \in Nat /\ Wait \in Nat \ {0} /\ Slack <= Wait
        /\ StatusEmpty <=> Busy = 0
<1>1. Busy \in 0 .. Byte /\ Slack \in Nat /\ Wait \in Nat \ {0} /\ Slack <= Wait
  BY UartNumbers DEF Registers, Busy, Slack, Wait, Byte
<1>2. CASE tx_start
  BY <1>1, <1>2, UartNumbers DEF Busy, StatusEmpty
<1>3. CASE ~tx_start
  <2>1. Busy = tx_left /\ (StatusEmpty <=> tx_left = 0)
    BY <1>3 DEF Busy, StatusEmpty, Registers
  <2> QED BY <1>1, <2>1
<1> QED BY <1>1, <1>2, <1>3

LEMMA MeasuresAfter ==
  ASSUME Registers'
  PROVE Busy' \in 0 .. Byte /\ Slack' \in Nat /\ Wait' \in Nat \ {0} /\ Slack' <= Wait'
<1>1. Busy' \in 0 .. Byte
  <2>1. tx_left' \in 0 .. FRAME
    BY DEF Registers
  <2>2. Busy' = (IF tx_start' THEN Byte ELSE tx_left')
    BY DEF Busy
  <2>3. Byte = FRAME + 1 /\ FRAME \in Nat
    BY UartNumbers DEF Byte
  <2> QED BY <2>1, <2>2, <2>3
<1>2. Wait' \in Nat \ {0} /\ Slack' \in Nat /\ Slack' <= Wait'
  BY UartNumbers DEF Registers, Slack, Wait
<1> QED BY <1>1, <1>2

LEMMA RemainingType ==
  ASSUME Registers, Sections
  PROVE Remaining \in Nat
<1>1. Busy \in Nat /\ Slack \in Nat /\ Wait \in Nat
  BY Measures, UartNumbers
<1>2. CASE hart = <<>>
  BY <1>1, <1>2, RemainsOfNone DEF Remaining
<1>3. ASSUME NEW f, hart = <<f>>, Section(f, printed, to_poll) PROVE Remaining \in Nat
  <2>1. f \in HartFrame /\ Frames(f.left) \in Nat
    BY <1>3, FramesStep DEF Section, HartFrame
  <2>2. Remaining = IF f.what = "wait" THEN Frames(f.left) + Busy ELSE Slack
    BY <1>3, RemainsOfOne DEF Remaining
  <2> QED BY <2>1, <2>2, <1>1
<1>4. ASSUME NEW f, NEW n \in 0 .. LINE, hart = <<f, ConsoleByte(n)>>, Section(f, printed, to_poll) PROVE Remaining \in Nat
  <2>1. f \in HartFrame /\ Frames(f.left) \in Nat /\ n \in Nat /\ Frames(n) \in Nat
    BY <1>4, FramesStep, UartNumbers DEF Section, HartFrame
  <2>2. Remaining = Frames(n) + Busy + (IF f.what = "wait" THEN Frames(f.left) ELSE Wait)
    BY <1>4, RemainsOfTwo DEF Remaining
  <2> QED BY <2>1, <2>2, <1>1
<1> QED BY <1>2, <1>3, <1>4, Cases

LEMMA RestIs ==
  ASSUME NEW polling, NEW r \in Nat, NEW due \in Nat
  PROVE /\ UartRest(polling, r, due) \in Nat
        /\ polling => UartRest(polling, r, due) = r + POLL + LongestSection
        /\ ~polling /\ due = 0 => UartRest(polling, r, due) = r
        /\ ~polling /\ due > 0 => /\ UartRest(polling, r, due) >= r /\ UartRest(polling, r, due) >= due + LongestSection
                                  /\ UartRest(polling, r, due) \in {r, due + LongestSection}
BY UartNumbers, PaceIsLong DEF UartRest

LEMMA OopsToComeIs == OopsToCome \in Nat /\ OopsToCome' \in Nat
BY UartNumbers, PaceIsLong DEF OopsToCome

\* A step that brings the next look no later, and no byte.
LEMMA PaceKept ==
  ASSUME Pace, ToLook \in Nat, ToLook' \in Nat, ToLook' <= ToLook,
         typed' = typed, to_rx' = to_rx, to_rx \in Nat, typed \in Nat, rx_valid' => rx_valid
  PROVE Pace'
<1>1. ToLook < PACE /\ (rx_valid /\ typed < TYPED => ToLook < to_rx)
  BY DEF Pace
<1>2. ToLook' < PACE
  BY <1>1, UartNumbers
<1>3. rx_valid' /\ typed' < TYPED => ToLook' < to_rx'
  BY <1>1
<1> QED BY <1>2, <1>3 DEF Pace

\* The usual case: the sections keep their kind and less of them remains.
LEMMA LessRemains ==
  ASSUME Registers, Sections, Pace, Remaining' \in Nat, Remaining' <= Remaining,
         Polling(hart') = Polling(hart), UNCHANGED <<oopsed, rx, to_poll>>
  PROVE Pace'
<1>1. Remaining \in Nat /\ to_poll \in Nat /\ to_rx \in Nat /\ typed \in Nat
  BY RemainingType, UartNumbers DEF Registers
<1> DEFINE a == UartRest(Polling(hart), Remaining, to_poll)
           b == UartRest(Polling(hart), Remaining', to_poll)
<1>2. a \in Nat /\ b \in Nat
  BY <1>1, RestIs
<1>3. b <= a
  BY <1>1, UartNumbers, PaceIsLong DEF UartRest
<1>4. ToLook = OopsToCome + a /\ ToLook' = OopsToCome + b
  BY DEF ToLook, OopsToCome
<1> HIDE DEF a, b
<1>5. ToLook \in Nat /\ ToLook' \in Nat /\ ToLook' <= ToLook
  BY <1>2, <1>3, <1>4, OopsToComeIs
<1>6. typed' = typed /\ to_rx' = to_rx /\ rx_valid' = rx_valid
  BY DEF rx
<1> QED BY <1>1, <1>5, <1>6, PaceKept

-----------------------------------------------------------------------------
(* The lines of the console *)

\* What has been sent, while no line is being written and while one is.
LEMMA LinesAre ==
  ASSUME Lines, ~oopsed
  PROVE /\ hart = <<>> => \A line \in 1 .. printed : WholeLine(Sent, line)
        /\ \A f : hart = <<f>> /\ f.what # "wait" => \A line \in 1 .. printed : WholeLine(Sent, line)
        /\ \A f : hart = <<f>> /\ f.what = "wait" =>
             /\ \A line \in 1 .. (printed - 1) : WholeLine(Sent, line)
             /\ Begun(Sent, printed, LINE - f.left)
<1>1. CASE hart = <<>>
  BY <1>1 DEF Lines
<1>2. ASSUME NEW f, hart = <<f>>, f.what # "wait" PROVE \A line \in 1 .. printed : WholeLine(Sent, line)
  BY <1>2 DEF Lines
<1>3. ASSUME NEW f, hart = <<f>>, f.what = "wait"
      PROVE (\A line \in 1 .. (printed - 1) : WholeLine(Sent, line)) /\ Begun(Sent, printed, LINE - f.left)
  <2>1. Len(hart) = 1 /\ hart[1] = f /\ 1 \in 1 .. Len(hart)
    BY <1>3
  <2> QED BY <1>3, <2>1 DEF Lines
<1> QED BY <1>1, <1>2, <1>3

\* The same after a step.
LEMMA NoLineWritten ==
  ASSUME oopsed' \/ \A line \in 1 .. printed' : WholeLine(Sent', line),
         \/ hart' = <<>>
         \/ \E f : hart' = <<f>> /\ f.what # "wait"
  PROVE Lines'
<1>1. CASE oopsed'
  BY <1>1 DEF Lines
<1>2. ASSUME \A line \in 1 .. printed' : WholeLine(Sent', line) PROVE Lines'
  <2>1. \A i \in 1 .. Len(hart') : hart'[i].what # "wait"
    <3>1. CASE hart' = <<>>
      BY <3>1
    <3>2. ASSUME NEW f, hart' = <<f>>, f.what # "wait" PROVE \A i \in 1 .. Len(hart') : hart'[i].what # "wait"
      <4>1. Len(hart') = 1 /\ hart'[1] = f /\ \A i \in 1 .. 1 : i = 1
        BY <3>2
      <4> QED BY <4>1, <3>2
    <3> QED BY <3>1, <3>2
  <2> QED BY <1>2, <2>1 DEF Lines
<1> QED BY <1>1, <1>2

LEMMA LineWritten ==
  ASSUME NEW n, hart' = <<ConsoleByte(n)>>,
         oopsed' \/ /\ \A line \in 1 .. (printed' - 1) : WholeLine(Sent', line)
                    /\ Begun(Sent', printed', LINE - n)
  PROVE Lines'
<1>1. Len(hart') = 1 /\ hart'[1] = ConsoleByte(n)
  OBVIOUS
<1>2. ConsoleByte(n).what = "wait" /\ ConsoleByte(n).left = n
  BY DEF ConsoleByte
<1> QED BY <1>1, <1>2 DEF Lines

-----------------------------------------------------------------------------
(* The initial state *)

LEMMA UartInitHolds == UartInit => UartInv
<1> SUFFICES ASSUME UartInit PROVE UartInv
  OBVIOUS
<1>1. Registers
  <2>1. tx_empty = (tx_left = 0)
    BY DEF UartInit
  <2>2. to_rx \in Nat \ {0} /\ to_poll \in 0 .. POLL /\ budget \in 0 .. BUDGET /\ tx_left \in 0 .. FRAME
    BY UartNumbers DEF UartInit
  <2>3. <<>> \in Seq(Int) /\ FALSE \in BOOLEAN /\ 0 \in Nat /\ 0 \in Int
    OBVIOUS
  <2>4. /\ tx_start = FALSE /\ tx_data = 0 /\ tx_shift = 0 /\ rx_data = 0 /\ rx_valid = FALSE /\ wire = <<>>
        /\ typed = 0 /\ xmit_fifo = <<>> /\ written = 0 /\ printed = 0 /\ received = <<>> /\ oopsed = FALSE
    BY DEF UartInit
  <2> QED BY <2>1, <2>2, <2>3, <2>4 DEF Registers
<1>2. Sections
  BY DEF UartInit, Sections, Stack
<1>3. Sent = <<>>
  BY DEF UartInit, Sent, InFlight
<1>4. Tty
  BY <1>3 DEF UartInit, Tty, TtyBytes, Queue
<1>5. Lines
  BY DEF UartInit, Lines
<1>6. Input
  BY DEF UartInit, Input, Ascending
<1>7. Pace
  <2>1. Remaining = 0
    BY DEF UartInit, Remaining, RemainingOf
  <2>2. UartRest(Polling(hart), Remaining, to_poll) = POLL + LongestSection
    BY <2>1, UartNumbers, PaceIsLong DEF UartInit, Polling, UartRest
  <2>3. ToLook = Frames(LINE) + Byte + 1 + (POLL + LongestSection)
    BY <2>2 DEF UartInit, ToLook, OopsToCome
  <2>4. ToLook < PACE
    BY <2>3, UartNumbers, PaceIsLong
  <2> QED BY <2>4 DEF UartInit, Pace
<1> QED BY <1>1, <1>2, <1>4, <1>5, <1>6, <1>7 DEF UartInv

-----------------------------------------------------------------------------
(* The device's steps *)

\* The device takes what was written, or sends on, and nothing else changes.
LEMMA DeviceStep ==
  ASSUME UartInv, NEW baud_tick \in BOOLEAN, Transmitter(baud_tick), tx_start' = FALSE, UNCHANGED tx_data,
         UNCHANGED <<hart, tty, oopsed>>, tx_start \/ baud_tick
  PROVE /\ tx_left' \in 0 .. FRAME /\ tx_shift' \in Int /\ wire' \in Seq(Int) /\ tx_empty' = (tx_left' = 0)
        /\ Busy \in Nat /\ Busy' \in Nat /\ Busy' <= Busy /\ (Busy > 0 => Busy' = Busy - 1)
        /\ Tty' /\ Lines'
<1>0. Registers
  BY DEF UartInv
<1>1. /\ tx_left' \in 0 .. FRAME /\ tx_shift' \in Int /\ wire' \in Seq(Int) /\ tx_empty' = (tx_left' = 0)
      /\ Busy' = tx_left' /\ (tx_start => tx_left' = FRAME)
      /\ (~tx_start => tx_left' = IF tx_left = 0 THEN 0 ELSE tx_left - 1)
  <2>1. CASE tx_start
    <3>1. tx_left' = FRAME /\ tx_shift' = tx_data /\ tx_empty' = FALSE /\ wire' = wire
      BY <1>0, <2>1 DEF Registers, Transmitter
    <3>2. tx_empty' = (tx_left' = 0)
      BY <3>1, UartNumbers
    <3>3. tx_left' \in 0 .. FRAME
      BY <3>1, UartNumbers
    <3> QED BY <1>0, <2>1, <3>1, <3>2, <3>3 DEF Registers, Busy
  <2>2. CASE ~tx_start /\ tx_left = 0
    BY <1>0, <2>2, UartNumbers DEF Registers, Transmitter, Busy
  <2>3. CASE ~tx_start /\ tx_left # 0
    <3>1. baud_tick /\ tx_left' = tx_left - 1 /\ tx_empty' = (tx_left = 1) /\ tx_shift' = tx_shift
      BY <2>3 DEF Transmitter
    <3>2. tx_left \in 1 .. FRAME /\ FRAME \in Nat
      BY <1>0, <2>3, UartNumbers DEF Registers
    <3>3. tx_left' \in 0 .. FRAME /\ (tx_left' = 0 <=> tx_left = 1)
      BY <3>1, <3>2
    <3>4. tx_empty' = (tx_left' = 0)
      BY <3>1, <3>3
    <3>5. wire' \in Seq(Int)
      <4>1. wire \in Seq(Int) /\ tx_shift \in Int /\ (wire' = Append(wire, tx_shift) \/ wire' = wire)
        BY <1>0, <2>3 DEF Registers, Transmitter
      <4> QED BY <4>1, Appended
    <3>6. Busy' = tx_left' /\ tx_shift' \in Int
      BY <1>0, <3>1 DEF Registers, Busy
    <3> QED BY <2>3, <3>1, <3>3, <3>4, <3>5, <3>6
  <2> QED BY <2>1, <2>2, <2>3
<1>2. Busy \in Nat /\ Busy' \in Nat /\ Busy' <= Busy /\ (Busy > 0 => Busy' = Busy - 1)
  BY <1>0, <1>1, UartNumbers DEF Busy, Registers, Byte
<1>3. Sent' = Sent
  BY <1>0, TransmitterSends
<1>4. Tty'
  BY <1>3 DEF UartInv, Tty, tty
<1>5. Lines'
  BY <1>3 DEF UartInv, Lines, tty
<1> QED BY <1>1, <1>2, <1>4, <1>5

\* With the sections as they are, less remains as their clocks run.
LEMMA UartTimePasses ==
  ASSUME Registers, Sections, UNCHANGED hart, Busy' \in Nat, Slack' \in Nat, Wait' \in Nat,
         Busy' <= Busy, Slack' <= Slack, Wait' <= Wait
  PROVE /\ Remaining \in Nat /\ Remaining' \in Nat /\ Remaining' <= Remaining
        /\ \/ Idle
           \/ ~Transmits /\ (Busy' < Busy => Remaining' < Remaining)
           \/ Transmits /\ (Slack' < Slack => Remaining' < Remaining)
<1>1. PICK b, s, w, b2, s2, w2 : b = Busy /\ s = Slack /\ w = Wait /\ b2 = Busy' /\ s2 = Slack' /\ w2 = Wait'
  OBVIOUS
<1>2. b \in Nat /\ s \in Nat /\ w \in Nat /\ b2 \in Nat /\ s2 \in Nat /\ w2 \in Nat
  BY <1>1, Measures, UartNumbers
<1>3. b2 <= b /\ s2 <= s /\ w2 <= w /\ hart' = hart
  BY <1>1
<1>4. Remaining = RemainingOf(hart, b, s, w) /\ Remaining' = RemainingOf(hart, b2, s2, w2)
  BY <1>1 DEF Remaining
<1>5. CASE hart = <<>>
  BY <1>2, <1>4, <1>5, RemainsOfNone DEF Idle
<1>6. ASSUME NEW f, hart = <<f>>, Section(f, printed, to_poll)
      PROVE /\ Remaining \in Nat /\ Remaining' \in Nat /\ Remaining' <= Remaining
            /\ \/ ~Transmits /\ (b2 < b => Remaining' < Remaining)
               \/ Transmits /\ (s2 < s => Remaining' < Remaining)
  <2>1. f \in HartFrame /\ Frames(f.left) \in Nat
    BY <1>6, FramesStep DEF Section, HartFrame
  <2>2. /\ Remaining = IF f.what = "wait" THEN Frames(f.left) + b ELSE s
        /\ Remaining' = IF f.what = "wait" THEN Frames(f.left) + b2 ELSE s2
    <3>1. Remaining = RemainingOf(<<f>>, b, s, w) /\ Remaining' = RemainingOf(<<f>>, b2, s2, w2)
      BY ONLY <1>4, <1>6, <1>3
    <3>2. /\ RemainingOf(<<f>>, b, s, w) = IF f.what = "wait" THEN Frames(f.left) + b ELSE s
          /\ RemainingOf(<<f>>, b2, s2, w2) = IF f.what = "wait" THEN Frames(f.left) + b2 ELSE s2
      BY <1>2, <2>1, RemainsOfOne
    <3> QED BY ONLY <3>1, <3>2
  <2>3. Len(hart) = 1 /\ hart[1] = f
    BY <1>6
  <2>4. Transmits <=> f.what # "wait"
    BY <2>1, <2>3, <1>6 DEF Transmits, In, Top, Idle, HartFrame
  <2> QED BY <1>2, <1>3, <2>1, <2>2, <2>4
<1>7. ASSUME NEW f, NEW n \in 0 .. LINE, hart = <<f, ConsoleByte(n)>>, Section(f, printed, to_poll)
      PROVE /\ Remaining \in Nat /\ Remaining' \in Nat /\ Remaining' <= Remaining
            /\ ~Transmits /\ (b2 < b => Remaining' < Remaining)
  <2>1. f \in HartFrame /\ Frames(f.left) \in Nat /\ n \in Nat /\ Frames(n) \in Nat
    BY <1>7, FramesStep, UartNumbers DEF Section, HartFrame
  <2>2. /\ Remaining = Frames(n) + b + (IF f.what = "wait" THEN Frames(f.left) ELSE w)
        /\ Remaining' = Frames(n) + b2 + (IF f.what = "wait" THEN Frames(f.left) ELSE w2)
    <3>1. /\ Remaining = RemainingOf(<<f, ConsoleByte(n)>>, b, s, w)
          /\ Remaining' = RemainingOf(<<f, ConsoleByte(n)>>, b2, s2, w2)
      BY ONLY <1>4, <1>7, <1>3
    <3>2. /\ RemainingOf(<<f, ConsoleByte(n)>>, b, s, w)
                = Frames(n) + b + (IF f.what = "wait" THEN Frames(f.left) ELSE w)
          /\ RemainingOf(<<f, ConsoleByte(n)>>, b2, s2, w2)
                = Frames(n) + b2 + (IF f.what = "wait" THEN Frames(f.left) ELSE w2)
      BY <1>2, <2>1, RemainsOfTwo
    <3> QED BY ONLY <3>1, <3>2
  <2>3. Len(hart) = 2 /\ hart[2] = ConsoleByte(n)
    BY <1>7
  <2>4. ~Transmits
    BY <2>3, <1>7 DEF Transmits, In, Top, Idle, ConsoleByte
  <2> QED BY <1>2, <1>3, <2>1, <2>2, <2>4
<1> QED BY <1>1, <1>5, <1>6, <1>7, Cases

LEMMA CycleKeeps == ASSUME UartInv, Cycle PROVE UartInv'
<1>0. Registers /\ Sections /\ Input /\ Pace
  BY DEF UartInv
<1>1. /\ tx_left' \in 0 .. FRAME /\ tx_shift' \in Int /\ wire' \in Seq(Int) /\ tx_empty' = (tx_left' = 0)
      /\ Busy' <= Busy /\ Tty' /\ Lines'
  BY DeviceStep DEF Cycle
<1>2. Registers'
  BY <1>0, <1>1 DEF Cycle, Registers, rx, tty
<1>3. Sections'
  BY <1>0 DEF Cycle, Sections, Stack, tty
<1>4. Input'
  BY <1>0 DEF Cycle, Input, rx, tty
<1>5. Slack' <= Slack /\ Wait' <= Wait
  BY <1>0, <1>2 DEF Cycle, Slack, Wait, Registers
<1>6. Remaining' \in Nat /\ Remaining' <= Remaining
  BY <1>0, <1>1, <1>2, <1>5, MeasuresAfter, UartNumbers, UartTimePasses DEF Cycle
<1>7. Pace'
  BY <1>0, <1>6, LessRemains DEF Cycle
<1> QED BY <1>1, <1>2, <1>3, <1>4, <1>7 DEF UartInv

\* A byte that comes finds the one before it read.
LEMMA ReceiverKeeps ==
  ASSUME Registers, Input, Receiver, UNCHANGED received, rx_valid /\ typed < TYPED => to_rx > 1
  PROVE /\ rx_valid' \in BOOLEAN /\ rx_data' \in Int /\ to_rx' \in Nat \ {0} /\ typed' \in Nat /\ Input'
        /\ (typed < TYPED => to_rx' = PACE \/ (to_rx' = to_rx - 1 /\ rx_valid' = rx_valid))
        /\ (typed' < TYPED => typed < TYPED)
<1>0. rx_valid \in BOOLEAN /\ rx_data \in Int /\ to_rx \in Nat \ {0} /\ typed \in Nat /\ TYPED \in Nat
  BY UartAssumption DEF Registers, UartAssumption
<1>1. CASE to_rx = 1 /\ typed < TYPED
  <2>1. to_rx' = PACE /\ typed' = typed + 1 /\ rx_data' = typed + 1 /\ rx_valid' = TRUE
    BY <1>1 DEF Receiver
  <2>2. ~rx_valid
    BY <1>1
  <2>3. Input'
    BY <1>0, <2>1, <2>2 DEF Input
  <2>4. rx_valid' \in BOOLEAN
    BY <2>1
  <2> QED BY <1>0, <1>1, <2>1, <2>3, <2>4, UartNumbers
<1>2. CASE ~(to_rx = 1 /\ typed < TYPED)
  <2>1. to_rx' = (IF typed < TYPED THEN to_rx - 1 ELSE to_rx) /\ UNCHANGED <<typed, rx_data, rx_valid>>
    BY <1>2 DEF Receiver
  <2>2. Input'
    BY <2>1 DEF Input
  <2>3. to_rx' \in Nat \ {0}
    BY <1>0, <1>2, <2>1
  <2> QED BY <1>0, <1>2, <2>1, <2>2, <2>3
<1> QED BY <1>1, <1>2

LEMMA RestTicks ==
  ASSUME NEW polling, NEW r \in Nat, NEW r2 \in Nat, NEW due \in Nat, NEW due2 \in Nat,
         due2 = (IF due > 0 THEN due - 1 ELSE 0), r2 <= r,
         r2 < r \/ (~polling /\ due > 0 /\ r = 0)
  PROVE UartRest(polling, r2, due2) < UartRest(polling, r, due)
BY UartNumbers, PaceIsLong DEF UartRest

LEMMA TickKeeps == ASSUME UartInv, Tick PROVE UartInv'
<1>0. Registers /\ Sections /\ Input /\ Pace
  BY DEF UartInv
<1>1. /\ Transmitter(TRUE) /\ tx_start' = FALSE /\ Receiver /\ UNCHANGED <<tx_data, tty, hart, oopsed>>
      /\ to_poll' = (IF to_poll > 0 THEN to_poll - 1 ELSE 0)
      /\ budget' = (IF budget > 0 THEN budget - 1 ELSE 0)
      /\ (tx_start \/ Waits) /\ ~(Idle /\ to_poll = 0)
  BY DEF Tick
<1>2. /\ tx_left' \in 0 .. FRAME /\ tx_shift' \in Int /\ wire' \in Seq(Int) /\ tx_empty' = (tx_left' = 0)
      /\ Busy \in Nat /\ Busy' \in Nat /\ Busy' <= Busy /\ (Busy > 0 => Busy' = Busy - 1)
      /\ Tty' /\ Lines'
  BY <1>1, DeviceStep
<1>3. to_poll \in 0 .. POLL /\ to_poll' \in 0 .. POLL /\ budget \in 0 .. BUDGET /\ budget' \in 0 .. BUDGET
  BY <1>0, <1>1, UartNumbers DEF Registers
<1>4. /\ Slack' <= Slack /\ Wait' <= Wait
      /\ (Slack > 0 => Slack' < Slack) /\ (Slack = 0 <=> budget = 0 /\ ~tx_start)
  BY <1>0, <1>1, <1>3, UartNumbers DEF Slack, Wait
\* The look comes nearer.
<1>5. /\ Busy > 0 \/ Slack > 0 \/ Idle
      /\ ~Idle /\ ~Transmits => Busy > 0
      /\ ~Idle /\ Transmits => Slack > 0
  <2>1. StatusEmpty <=> Busy = 0
    BY <1>0, Measures
  <2>2. tx_start => Busy > 0 /\ Slack > 0
    BY <1>3, UartNumbers DEF Busy, Slack
  <2>3. ~Idle /\ ~tx_start => ~StatusEmpty /\ (Transmits => budget > 0)
    BY <1>1 DEF Waits
  <2>4. budget > 0 => Slack > 0
    BY DEF Slack
  <2> QED BY <1>2, <2>1, <2>2, <2>3, <2>4
<1>6. /\ Remaining \in Nat /\ Remaining' \in Nat /\ Remaining' <= Remaining
      /\ Remaining' < Remaining \/ (Idle /\ Remaining = 0 /\ to_poll > 0)
  <2>1. Wait' \in Nat /\ Slack \in Nat /\ Slack' \in Nat
    BY <1>3, <1>1 DEF Wait, Slack
  <2>2. /\ Remaining \in Nat /\ Remaining' \in Nat /\ Remaining' <= Remaining
        /\ \/ Idle
           \/ ~Transmits /\ (Busy' < Busy => Remaining' < Remaining)
           \/ Transmits /\ (Slack' < Slack => Remaining' < Remaining)
    BY <1>0, <1>1, <1>2, <1>4, <2>1, UartTimePasses
  <2>3. Idle => to_poll > 0
    BY <1>1, <1>3
  <2>4. Idle => Remaining = 0
    BY DEF Idle, Remaining, RemainingOf
  <2>5. ~Idle => Busy' < Busy \/ ~Transmits \/ Slack' < Slack
    BY <1>2, <1>4, <1>5, <2>1
  <2>6. ~Idle /\ ~Transmits => Busy' < Busy
    BY <1>2, <1>5
  <2>7. ~Idle /\ Transmits => Slack' < Slack
    BY <1>4, <1>5
  <2> QED BY <2>2, <2>3, <2>4, <2>6, <2>7
<1>7. ToLook \in Nat /\ ToLook' \in Nat /\ ToLook' < ToLook
  <2> DEFINE a == UartRest(Polling(hart), Remaining, to_poll)
             b == UartRest(Polling(hart), Remaining', to_poll')
  <2>0. to_poll \in Nat /\ to_poll' \in Nat
    BY <1>3, UartNumbers
  <2>1. a \in Nat /\ b \in Nat
    BY <1>6, <2>0, RestIs
  <2>2. Idle => ~Polling(hart)
    BY DEF Idle, Polling
  <2>3. b < a
    BY <1>1, <1>3, <1>6, <2>2, RestTicks, UartNumbers
  <2>4. ToLook = OopsToCome + a /\ ToLook' = OopsToCome + b
    BY <1>1 DEF ToLook, OopsToCome
  <2> HIDE DEF a, b
  <2> QED BY <2>1, <2>3, <2>4, OopsToComeIs
<1>8. rx_valid /\ typed < TYPED => to_rx > 1
  BY <1>0, <1>7 DEF Pace, Registers
<1>9. /\ rx_valid' \in BOOLEAN /\ rx_data' \in Int /\ to_rx' \in Nat \ {0} /\ typed' \in Nat /\ Input'
      /\ (typed < TYPED => to_rx' = PACE \/ (to_rx' = to_rx - 1 /\ rx_valid' = rx_valid))
      /\ (typed' < TYPED => typed < TYPED)
  <2>1. received' = received
    BY <1>1 DEF tty
  <2> QED BY <1>0, <1>1, <1>8, <2>1, ReceiverKeeps
<1>10. Registers'
  <2>1. /\ tx_start' \in BOOLEAN /\ tx_data' \in Int /\ (tx_start' => tx_left' = 0)
        /\ xmit_fifo' \in Seq(Int) /\ written' \in Nat /\ printed' \in Nat /\ received' \in Seq(Int)
        /\ oopsed' \in BOOLEAN
    BY <1>0, <1>1 DEF Registers, tty
  <2> QED BY <1>2, <1>3, <1>9, <2>1 DEF Registers
<1>11. Sections'
  <2>1. to_poll = 0 => to_poll' = 0
    BY <1>1
  <2> QED BY <1>0, <1>1, <2>1 DEF Sections, Stack, tty
<1>12. Pace'
  <2>1. ToLook' < PACE
    BY <1>0, <1>7, UartNumbers DEF Pace
  <2>2. ASSUME rx_valid', typed' < TYPED PROVE ToLook' < to_rx'
    <3>1. CASE to_rx' = PACE
      BY <2>1, <3>1
    <3>2. CASE to_rx' = to_rx - 1 /\ rx_valid' = rx_valid
      <4>1. ToLook < to_rx /\ to_rx \in Nat
        BY <1>0, <1>9, <2>2, <3>2 DEF Pace, Registers
      <4> QED BY <4>1, <3>2, <1>7
    <3> QED BY <3>1, <3>2, <2>2, <1>9
  <2> QED BY <2>1, <2>2 DEF Pace
<1> QED BY <1>2, <1>9, <1>10, <1>11, <1>12 DEF UartInv

-----------------------------------------------------------------------------
(* The driver's steps *)

LEMMA Transmitting ==
  ASSUME Sections, Transmits
  PROVE \E f : /\ hart = <<f>> /\ Section(f, printed, to_poll) /\ f.what # "wait"
               /\ Top = f /\ Below = <<>> /\ \A g : Append(Below, g) = <<g>>
<1>1. Stack /\ ~Idle /\ Top.what \in {"transmit", "poll"}
  BY DEF Sections, Transmits, In
<1>2. ASSUME NEW f, hart = <<f>>, Section(f, printed, to_poll)
      PROVE f.what # "wait" /\ Top = f /\ Below = <<>> /\ \A g : Append(Below, g) = <<g>>
  <2>1. Len(hart) = 1 /\ hart[1] = f
    BY <1>2
  <2> QED BY <1>1, <2>1, Tops
<1>3. ASSUME NEW f, NEW n, hart = <<f, ConsoleByte(n)>> PROVE FALSE
  <2>1. Len(hart) = 2 /\ hart[2] = ConsoleByte(n)
    BY <1>3
  <2>2. Top = ConsoleByte(n)
    BY <1>1, <2>1, Tops
  <2> QED BY <1>1, <2>2 DEF ConsoleByte
<1> QED BY <1>1, <1>2, <1>3, Cases DEF Idle

LEMMA Printing ==
  ASSUME Sections, In("wait")
  PROVE /\ printed > 0 /\ Top.left \in 0 .. LINE
        /\ \/ /\ hart = <<ConsoleByte(Top.left)>> /\ Below = <<>> /\ \A g : Append(Below, g) = <<g>>
           \/ /\ oopsed
              /\ \E f : /\ hart = <<f, ConsoleByte(Top.left)>> /\ Section(f, printed, to_poll)
                        /\ Below = <<f>> /\ \A g : Append(Below, g) = <<f, g>>
<1>1. Stack /\ ~Idle /\ Top.what = "wait"
  BY DEF Sections, In
<1>2. ASSUME NEW f, hart = <<f>>, Section(f, printed, to_poll)
      PROVE /\ printed > 0 /\ Top.left \in 0 .. LINE
            /\ hart = <<ConsoleByte(Top.left)>> /\ Below = <<>> /\ \A g : Append(Below, g) = <<g>>
  <2>1. Len(hart) = 1 /\ hart[1] = f
    BY <1>2
  <2>2. Top = f /\ Below = <<>> /\ \A g : Append(Below, g) = <<g>>
    BY <1>1, <2>1, Tops
  <2>3. f \in HartFrame /\ f.what = "wait" /\ printed > 0 /\ f.left <= LINE /\ f.left \in Nat
    BY <1>1, <1>2, <2>2 DEF Section, HartFrame
  <2>4. f = ConsoleByte(f.left)
    BY <2>3 DEF HartFrame, ConsoleByte
  <2>5. f.left \in 0 .. LINE
    BY <2>3, UartNumbers
  <2> QED BY <1>2, <2>2, <2>3, <2>4, <2>5
<1>3. ASSUME NEW f, NEW n \in 0 .. LINE, hart = <<f, ConsoleByte(n)>>, Section(f, printed, to_poll)
      PROVE /\ Top.left = n /\ hart = <<f, ConsoleByte(Top.left)>>
            /\ Below = <<f>> /\ \A g : Append(Below, g) = <<f, g>>
  <2>1. Len(hart) = 2 /\ hart[1] = f /\ hart[2] = ConsoleByte(n)
    BY <1>3
  <2>2. Top = ConsoleByte(n) /\ Below = <<f>> /\ \A g : Append(Below, g) = <<f, g>>
    BY <1>1, <2>1, Tops
  <2>3. Top.left = n
    BY <2>2 DEF ConsoleByte
  <2> QED BY <1>3, <2>2, <2>3
<1>4. ~(hart = <<>>)
  BY <1>1 DEF Idle
<1>5. CASE \E f : hart = <<f>> /\ Section(f, printed, to_poll)
  BY <1>2, <1>5
<1>6. CASE \E f, n : /\ hart = <<f, ConsoleByte(n)>> /\ Section(f, printed, to_poll)
                     /\ n \in 0 .. LINE /\ printed > 0 /\ oopsed
  <2>1. PICK f, n : /\ hart = <<f, ConsoleByte(n)>> /\ Section(f, printed, to_poll)
                    /\ n \in 0 .. LINE /\ printed > 0 /\ oopsed
    BY <1>6
  <2>2. /\ Top.left = n /\ hart = <<f, ConsoleByte(Top.left)>>
        /\ Below = <<f>> /\ \A g : Append(Below, g) = <<f, g>>
    BY <2>1, <1>3
  <2> QED BY <2>1, <2>2
<1> QED BY <1>4, <1>5, <1>6, Cases

LEMMA TransmitByteKeeps == ASSUME UartInv, TransmitByte PROVE UartInv'
<1>0. Registers /\ Sections /\ Tty /\ Lines /\ Input /\ Pace
  BY DEF UartInv
<1>1. /\ Transmits /\ Top.left > 0 /\ xmit_fifo # <<>> /\ budget > 0 /\ StatusEmpty
      /\ WriteTx(Head(xmit_fifo)) /\ xmit_fifo' = Tail(xmit_fifo)
      /\ Replace([Top EXCEPT !.left = @ - 1])
      /\ UNCHANGED <<tx_left, tx_shift, tx_empty, wire, rx, to_poll, written, printed, received, budget, oopsed>>
  BY DEF TransmitByte, tx_ready_before
<1>2. PICK f : /\ hart = <<f>> /\ Section(f, printed, to_poll) /\ f.what # "wait"
               /\ Top = f /\ \A g : Append(Below, g) = <<g>>
  BY <1>0, <1>1, Transmitting
<1>3. PICK g : g = [f EXCEPT !.left = @ - 1]
  OBVIOUS
<1>4. hart' = <<g>> /\ Section(g, printed', to_poll') /\ g.what = f.what
  <2>1. hart' = <<g>>
    BY <1>1, <1>2, <1>3 DEF Replace
  <2>2. f \in HartFrame /\ f.left > 0
    BY <1>1, <1>2 DEF Section
  <2>3. g \in HartFrame /\ g.what = f.what
    BY <1>3, <2>2 DEF HartFrame
  <2> QED BY <1>1, <1>2, <2>1, <2>3 DEF Section
<1>5. PICK left : left = written - Len(xmit_fifo)
  OBVIOUS
<1>6. /\ Head(xmit_fifo) = left + 1 /\ xmit_fifo' \in Seq(Int) /\ Len(xmit_fifo') = Len(xmit_fifo) - 1
      /\ Len(xmit_fifo) > 0 /\ Queue(xmit_fifo', left + 1) /\ left \in Nat /\ written - Len(xmit_fifo') = left + 1
      /\ TtyBytes(Sent, left) /\ Len(xmit_fifo') <= written'
  <2>1. xmit_fifo \in Seq(Int) /\ written \in Nat /\ Len(xmit_fifo) <= written /\ Queue(xmit_fifo, left) /\ TtyBytes(Sent, left)
    BY <1>0, <1>5 DEF Registers, Tty
  <2>2. left \in Nat
    BY <1>5, <2>1
  <2>3. /\ Head(xmit_fifo) = left + 1 /\ xmit_fifo' \in Seq(Int) /\ Len(xmit_fifo') = Len(xmit_fifo) - 1
        /\ Len(xmit_fifo) > 0 /\ Queue(xmit_fifo', left + 1)
    BY <1>1, <2>1, <2>2, QueueLeft
  <2> QED BY <1>1, <1>5, <2>1, <2>2, <2>3
<1>7. Sent' = Append(Sent, left + 1)
  <2>1. left + 1 \in Int
    BY <1>6
  <2> QED BY <1>0, <1>1, <1>6, <2>1, WrittenIsSent
<1>8. Sent \in Seq(Int)
  BY <1>0, SentType
<1>9. Registers'
  <2>1. tx_left = 0
    BY <1>0, <1>1 DEF Registers, StatusEmpty
  <2>2. tx_start' = TRUE /\ tx_data' \in Int
    BY <1>1, <1>6 DEF WriteTx
  <2> QED BY <1>0, <1>1, <1>6, <2>1, <2>2 DEF Registers, rx
<1>10. Sections'
  BY <1>4, OneSection
<1>11. Tty'
  <2>1. TtyBytes(Sent', left + 1)
    BY <1>6, <1>7, <1>8, TtyByteSent
  <2> QED BY <1>1, <1>6, <2>1 DEF Tty
<1>12. Lines'
  <2>1. ASSUME ~oopsed PROVE \A line \in 1 .. printed : WholeLine(Sent', line)
    <3>1. \A line \in 1 .. printed : WholeLine(Sent, line)
      BY <1>0, <1>2, <2>1, LinesAre
    <3> QED BY <3>1, <1>6, <1>7, <1>8, WholeStays, UartNumbers
  <2> QED BY <1>1, <1>2, <1>4, <2>1, NoLineWritten
<1>13. Input'
  BY <1>0, <1>1 DEF Input, rx
<1>14. Pace'
  <2>1. Remaining = Slack /\ Remaining' = Slack'
    BY <1>2, <1>4, RemainsOfOne DEF Remaining
  <2>2. Slack' = Slack /\ Slack \in Nat
    BY <1>0, <1>1 DEF Slack, Registers
  <2>3. Polling(hart') = Polling(hart)
    BY <1>2, <1>4 DEF Polling
  <2> QED BY <1>0, <1>1, <2>1, <2>2, <2>3, LessRemains
<1> QED BY <1>9, <1>10, <1>11, <1>12, <1>13, <1>14 DEF UartInv

LEMMA TransmitEndsKeeps == ASSUME UartInv, TransmitEnds PROVE UartInv'
<1>0. Registers /\ Sections /\ Tty /\ Lines /\ Input /\ Pace
  BY DEF UartInv
<1>1. /\ Transmits /\ hart' = Below /\ budget' = 0
      /\ IF In("poll") THEN Restarts ELSE UNCHANGED to_poll
      /\ UNCHANGED <<tx, rx, tty, oopsed>>
  BY DEF TransmitEnds
<1>2. PICK f : hart = <<f>> /\ Section(f, printed, to_poll) /\ f.what # "wait" /\ Top = f /\ Below = <<>>
  BY <1>0, <1>1, Transmitting
<1>3. hart' = <<>> /\ Idle'
  BY <1>1, <1>2 DEF Idle
<1>4. Sent' = Sent
  BY <1>1, SentStays
<1>5. to_poll \in 0 .. POLL /\ to_poll' \in 0 .. POLL /\ (f.what # "poll" => to_poll' = to_poll)
  <2>1. In("poll") <=> f.what = "poll"
    BY <1>1, <1>2 DEF In, Transmits
  <2>2. In("poll") => to_poll' \in 1 .. POLL
    BY <1>1 DEF Restarts
  <2> QED BY <1>0, <1>1, <2>1, <2>2, UartNumbers DEF Registers
<1>6. Registers'
  <2>1. budget' \in 0 .. BUDGET
    BY <1>1, UartNumbers
  <2> QED BY <1>0, <1>1, <1>5, <2>1 DEF Registers, tx, rx, tty
<1>7. Sections'
  BY <1>3, NoSection
<1>8. Tty'
  BY <1>0, <1>1, <1>4 DEF Tty, tty
<1>9. Lines'
  <2>1. oopsed' \/ \A line \in 1 .. printed' : WholeLine(Sent', line)
    BY <1>0, <1>1, <1>2, <1>4, LinesAre DEF tty
  <2> QED BY <1>3, <2>1, NoLineWritten
<1>10. Input'
  BY <1>0, <1>1 DEF Input, rx, tty
<1>11. Pace'
  <2>1. Remaining \in Nat /\ Remaining' = 0
    BY <1>0, <1>3, RemainingType, RemainsOfNone DEF Remaining
  <2>2. PICK a, b : a = UartRest(Polling(hart), Remaining, to_poll) /\ b = UartRest(Polling(hart'), Remaining', to_poll')
    OBVIOUS
  <2>3. Polling(hart) <=> f.what = "poll"
    BY <1>2, PollingIs
  <2>4. ~Polling(hart')
    BY <1>3, PollingIs
  <2>5. to_poll \in Nat /\ to_poll' \in Nat /\ to_poll' <= POLL
    BY <1>5, UartNumbers
  <2>6. a \in Nat /\ b \in Nat /\ b <= a
    BY <1>5, <2>1, <2>2, <2>3, <2>4, <2>5, UartNumbers, PaceIsLong DEF UartRest
  <2>7. ToLook = OopsToCome + a /\ ToLook' = OopsToCome + b
    BY <1>1, <2>2 DEF ToLook, OopsToCome
  <2>8. ToLook \in Nat /\ ToLook' \in Nat /\ ToLook' <= ToLook
    BY <2>6, <2>7, OopsToComeIs
  <2> QED BY <1>0, <1>1, <2>8, PaceKept DEF rx, Registers
<1> QED BY <1>6, <1>7, <1>8, <1>9, <1>10, <1>11 DEF UartInv

\* Transmit(caller): nothing, or a section that waits no longer than BUDGET.
LEMMA TransmitStarts ==
  ASSUME NEW caller \in {"transmit", "poll"}, Transmit(caller), budget \in 0 .. BUDGET
  PROVE /\ budget' \in 0 .. BUDGET
        /\ \/ hart' = <<>>
           \/ \E f : /\ hart' = <<f>> /\ f \in HartFrame /\ f.what = caller /\ budget' = BUDGET
<1>1. CASE xmit_fifo' = <<>>
  BY <1>1 DEF Transmit
<1>2. CASE xmit_fifo' # <<>>
  <2>1. hart' = <<[what |-> caller, left |-> TX_BURST]>> /\ budget' = BUDGET
    BY <1>2 DEF Transmit
  <2>2. [what |-> caller, left |-> TX_BURST] \in HartFrame /\ [what |-> caller, left |-> TX_BURST].what = caller
    BY UartNumbers DEF HartFrame
  <2> QED BY <2>1, <2>2, UartNumbers
<1> QED BY <1>1, <1>2

LEMMA PollKeeps == ASSUME UartInv, Poll PROVE UartInv'
<1>0. Registers /\ Sections /\ Tty /\ Lines /\ Input /\ Pace
  BY DEF UartInv
<1>1. /\ hart = <<>> /\ to_poll = 0
      /\ received' = (IF rx_valid THEN Append(received, rx_data) ELSE received)
      /\ rx_valid' = FALSE /\ UNCHANGED <<xmit_fifo, written, printed>> /\ Transmit("poll")
      /\ IF hart' = <<>> THEN Restarts ELSE UNCHANGED to_poll
      /\ UNCHANGED <<tx, rx_data, to_rx, typed, oopsed>>
  BY DEF Poll, Idle, ClearedValid
<1>2. /\ budget' \in 0 .. BUDGET
      /\ \/ hart' = <<>>
         \/ \E f : hart' = <<f>> /\ f \in HartFrame /\ f.what = "poll" /\ budget' = BUDGET
  <2>1. budget \in 0 .. BUDGET
    BY <1>0 DEF Registers
  <2> QED BY <1>1, <2>1, TransmitStarts
<1>3. Sent' = Sent
  BY <1>1, SentStays
<1>4. /\ to_poll' \in 0 .. POLL
      /\ hart' # <<>> => to_poll' = 0
  BY <1>1, UartNumbers DEF Restarts
<1>5. received \in Seq(Int) /\ rx_data \in Int /\ typed \in Nat /\ rx_valid \in BOOLEAN
  BY <1>0 DEF Registers
<1>6. received' \in Seq(Int)
  BY <1>1, <1>5, Appended
<1>7. Registers'
  <2>1. rx_valid' \in BOOLEAN
    BY <1>1
  <2> QED BY <1>0, <1>1, <1>2, <1>4, <1>6, <2>1 DEF Registers, tx
<1>8. Sections'
  <2>1. ASSUME NEW f, hart' = <<f>>, f \in HartFrame, f.what = "poll" PROVE Sections'
    <3>1. <<f>> # <<>>
      OBVIOUS
    <3>2. Section(f, printed', to_poll')
      BY <1>4, <2>1, <3>1 DEF Section
    <3> QED BY <2>1, <3>2, OneSection
  <2> QED BY <1>2, <2>1, NoSection
<1>9. Tty'
  BY <1>0, <1>1, <1>3 DEF Tty
<1>10. Lines'
  <2>1. oopsed' \/ \A line \in 1 .. printed' : WholeLine(Sent', line)
    BY <1>0, <1>1, <1>3, LinesAre
  <2> QED BY <1>2, <2>1, NoLineWritten
<1>11. Input'
  <2>1. CASE rx_valid
    <3>1. /\ Len(received) \in Nat /\ Len(received) + 1 = typed /\ rx_data = typed
          /\ \A i \in 1 .. Len(received) : received[i] = i
      BY <1>0, <1>5, <2>1 DEF Input, Ascending
    <3>2. /\ received' = Append(received, rx_data) /\ Len(received') = Len(received) + 1
          /\ received'[Len(received) + 1] = rx_data
          /\ \A i \in 1 .. Len(received) : received'[i] = received[i]
      BY <1>1, <1>5, <2>1, Appended
    <3>3. \A i \in 1 .. Len(received') : received'[i] = i
      <4> TAKE i \in 1 .. Len(received')
      <4>1. CASE i = Len(received) + 1
        BY <3>1, <3>2, <4>1
      <4>2. CASE i # Len(received) + 1
        <5>1. i \in 1 .. Len(received)
          BY <3>1, <3>2, <4>2
        <5> QED BY <5>1, <3>1, <3>2
      <4> QED BY <4>1, <4>2
    <3>4. Len(received') + 0 = typed'
      BY <1>1, <3>1, <3>2
    <3> QED BY <1>1, <3>3, <3>4 DEF Input, Ascending
  <2>2. CASE ~rx_valid
    <3>1. received' = received
      BY <1>1, <2>2
    <3> QED BY <1>0, <1>1, <2>2, <3>1 DEF Input, Ascending
  <2> QED BY <2>1, <2>2
\* The next look, from now.
<1>12. Pace'
  <2>1. OopsToCome' \in Nat /\ OopsToCome' <= Frames(LINE) + Byte + 1
    BY UartNumbers, PaceIsLong DEF OopsToCome
  <2>2. to_poll' \in Nat /\ to_poll' <= POLL
    BY <1>4, UartNumbers
  <2>3. CASE hart' = <<>>
    <3>1. Remaining' = 0 /\ ~Polling(hart') /\ to_poll' > 0
      BY <1>1, <2>2, <2>3, RemainsOfNone, PollingIs DEF Remaining, Restarts
    <3>2. UartRest(Polling(hart'), Remaining', to_poll') = to_poll' + LongestSection
      BY <2>2, <3>1, UartNumbers, PaceIsLong DEF UartRest
    <3>3. ToLook' = OopsToCome' + (to_poll' + LongestSection)
      BY <3>2 DEF ToLook
    <3>4. ToLook' < PACE
      BY <2>1, <2>2, <3>3, UartNumbers, PaceIsLong
    <3> QED BY <1>1, <3>4 DEF Pace
  <2>4. ASSUME NEW f, hart' = <<f>>, f \in HartFrame, f.what = "poll", budget' = BUDGET PROVE Pace'
    <3>1. Slack' = BUDGET
      BY <2>4, UartNumbers DEF Slack
    <3>2. Remaining' = BUDGET /\ Polling(hart')
      BY <2>4, <3>1, RemainsOfOne, PollingIs DEF Remaining
    <3>3. UartRest(Polling(hart'), Remaining', to_poll') = BUDGET + POLL + LongestSection
      BY <3>2 DEF UartRest
    <3>4. ToLook' = OopsToCome' + (BUDGET + POLL + LongestSection)
      BY <3>3 DEF ToLook
    <3>5. ToLook' < PACE
      BY <2>1, <3>4, UartNumbers, PaceIsLong
    <3> QED BY <1>1, <3>5 DEF Pace
  <2> QED BY <1>2, <2>3, <2>4
<1> QED BY <1>7, <1>8, <1>9, <1>10, <1>11, <1>12 DEF UartInv

\* A section that begins before the poll is due delays it by no more than itself.
LEMMA SectionBegins ==
  ASSUME Registers, Pace, hart = <<>>, to_poll > 0, NEW f, hart' = <<f>>, f.what # "poll",
         Remaining' \in 0 .. LongestSection, UNCHANGED <<rx, to_poll, oopsed>>
  PROVE Pace'
<1>1. to_poll \in Nat /\ to_rx \in Nat /\ typed \in Nat
  BY UartNumbers DEF Registers
<1>2. Remaining = 0 /\ ~Polling(hart) /\ ~Polling(hart')
  BY RemainsOfNone, PollingIs DEF Remaining
<1>3. PICK r : r = Remaining' /\ r \in 0 .. LongestSection
  OBVIOUS
<1>4. PICK a, b : a = UartRest(FALSE, 0, to_poll) /\ b = UartRest(FALSE, r, to_poll)
  OBVIOUS
<1>5. a \in Nat /\ b \in Nat /\ b <= a
  <2>1. LongestSection \in Nat /\ r \in Nat /\ r <= LongestSection
    BY <1>3, PaceIsLong
  <2>2. a = to_poll + LongestSection
    BY <1>1, <1>4, <2>1 DEF UartRest
  <2>3. b = to_poll + LongestSection
    BY <1>1, <1>4, <2>1 DEF UartRest
  <2> QED BY <1>1, <2>1, <2>2, <2>3
<1>6. ToLook = OopsToCome + a /\ ToLook' = OopsToCome + b
  BY <1>2, <1>3, <1>4 DEF ToLook, OopsToCome, UartRest
<1>7. ToLook \in Nat /\ ToLook' \in Nat /\ ToLook' <= ToLook
  BY <1>5, <1>6, OopsToComeIs
<1> QED BY <1>1, <1>7, PaceKept DEF rx

LEMMA TtyWriteKeeps == ASSUME UartInv, TtyWrite PROVE UartInv'
<1>0. Registers /\ Sections /\ Tty /\ Lines /\ Input /\ Pace
  BY DEF UartInv
<1>1. /\ hart = <<>> /\ to_poll > 0
      /\ written' = written + 1 /\ xmit_fifo' = Append(xmit_fifo, written + 1)
      /\ UNCHANGED <<printed, received>> /\ Transmit("transmit")
      /\ UNCHANGED <<tx, rx, to_poll, oopsed>>
  BY DEF TtyWrite, Begins, Idle
<1>2. xmit_fifo \in Seq(Int) /\ written \in Nat /\ budget \in 0 .. BUDGET /\ Len(xmit_fifo) <= written
  BY <1>0 DEF Registers, Tty
<1>3. /\ xmit_fifo' \in Seq(Int) /\ Len(xmit_fifo') = Len(xmit_fifo) + 1 /\ Len(xmit_fifo) \in Nat
      /\ written' - Len(xmit_fifo') = written - Len(xmit_fifo) /\ xmit_fifo' # <<>>
  <2>1. written + 1 \in Int
    BY <1>2
  <2>2. xmit_fifo' \in Seq(Int) /\ Len(xmit_fifo') = Len(xmit_fifo) + 1 /\ Len(xmit_fifo) \in Nat
    BY <1>1, <1>2, <2>1, Appended
  <2> QED BY <1>1, <1>2, <2>2
<1>4. PICK f : hart' = <<f>> /\ f \in HartFrame /\ f.what = "transmit" /\ budget' = BUDGET
  <2>1. \E c : hart' = <<c>>
    BY <1>1, <1>3 DEF Transmit
  <2>2. hart' # <<>>
    BY <2>1
  <2> QED BY <1>1, <1>2, <2>2, TransmitStarts
<1>5. Sent' = Sent
  BY <1>1, SentStays
<1>6. Registers'
  <2>1. written' \in Nat /\ budget' \in 0 .. BUDGET
    BY <1>1, <1>2, <1>4, UartNumbers
  <2> QED BY <1>0, <1>1, <1>3, <2>1 DEF Registers, tx, rx
<1>7. Sections'
  <2>1. Section(f, printed', to_poll')
    BY <1>4 DEF Section
  <2> QED BY <1>4, <2>1, OneSection
<1>8. Tty'
  <2>1. PICK left : left = written - Len(xmit_fifo)
    OBVIOUS
  <2>2. left \in Nat /\ written + 1 = left + Len(xmit_fifo) + 1 /\ written' - Len(xmit_fifo') = left
    BY <1>2, <1>3, <2>1
  <2>3. Queue(xmit_fifo, left) /\ TtyBytes(Sent, left)
    BY <1>0, <2>1 DEF Tty
  <2>4. Queue(xmit_fifo', left)
    BY <1>1, <1>2, <2>2, <2>3, QueueGrown
  <2>5. Len(xmit_fifo') <= written'
    BY <1>1, <1>2, <1>3
  <2> QED BY <1>5, <2>2, <2>3, <2>4, <2>5 DEF Tty
<1>9. Lines'
  <2>1. oopsed' \/ \A line \in 1 .. printed' : WholeLine(Sent', line)
    BY <1>0, <1>1, <1>5, LinesAre
  <2> QED BY <1>4, <2>1, NoLineWritten
<1>10. Input'
  BY <1>0, <1>1 DEF Input, rx
<1>11. Pace'
  <2>1. Slack' = BUDGET
    BY <1>4, UartNumbers DEF Slack
  <2>2. Remaining' = BUDGET
    BY <1>4, <2>1, RemainsOfOne DEF Remaining
  <2>3. Remaining' \in 0 .. LongestSection
    BY <2>2, UartNumbers, PaceIsLong
  <2> QED BY <1>0, <1>1, <1>4, <2>3, SectionBegins
<1> QED BY <1>6, <1>7, <1>8, <1>9, <1>10, <1>11 DEF UartInv

LEMMA ConsoleByteIs ==
  ASSUME NEW n \in Nat
  PROVE ConsoleByte(n) \in HartFrame /\ ConsoleByte(n).what = "wait" /\ ConsoleByte(n).left = n
BY DEF ConsoleByte, HartFrame

LEMMA ConsoleWriteKeeps == ASSUME UartInv, ConsoleWrite PROVE UartInv'
<1>0. Registers /\ Sections /\ Tty /\ Lines /\ Input /\ Pace
  BY DEF UartInv
<1>1. /\ hart = <<>> /\ to_poll > 0
      /\ printed' = printed + 1 /\ hart' = <<ConsoleByte(LINE)>>
      /\ UNCHANGED <<tx, rx, to_poll, xmit_fifo, written, received, budget, oopsed>>
  BY DEF ConsoleWrite, Begins, Idle
<1>2. PICK f : f = ConsoleByte(LINE) /\ f \in HartFrame /\ f.what = "wait" /\ f.left = LINE
  BY UartNumbers, ConsoleByteIs
<1>3. Sent' = Sent /\ Sent \in Seq(Int)
  BY <1>0, <1>1, SentStays, SentType
<1>4. Registers'
  <2>1. printed' \in Nat
    BY <1>0, <1>1 DEF Registers
  <2> QED BY <1>0, <1>1, <2>1 DEF Registers, tx, rx
<1>5. Sections'
  <2>1. Section(f, printed', to_poll')
    BY <1>0, <1>1, <1>2, UartNumbers DEF Section, Registers
  <2> QED BY <1>1, <1>2, <2>1, OneSection
<1>6. Tty'
  BY <1>0, <1>1, <1>3 DEF Tty
<1>7. Lines'
  <2>1. ASSUME ~oopsed PROVE (\A line \in 1 .. (printed' - 1) : WholeLine(Sent', line)) /\ Begun(Sent', printed', LINE - LINE)
    <3>1. \A line \in 1 .. printed : WholeLine(Sent, line)
      BY <1>0, <1>1, <2>1, LinesAre
    <3>2. printed' - 1 = printed
      BY <1>0, <1>1 DEF Registers
    <3>3. Begun(Sent, printed', 0)
      BY <1>3 DEF Begun
    <3>4. LINE - LINE = 0
      BY UartNumbers
    <3> QED BY <1>3, <3>1, <3>2, <3>3, <3>4
  <2> QED BY <1>1, <2>1, LineWritten
<1>8. Input'
  BY <1>0, <1>1 DEF Input, rx
<1>9. Pace'
  <2>1. Remaining' = Frames(LINE) + Busy'
    BY <1>1, <1>2, RemainsOfOne DEF Remaining
  <2>2. Remaining' \in 0 .. LongestSection
    BY <1>4, <2>1, MeasuresAfter, UartNumbers, PaceIsLong
  <2> QED BY <1>0, <1>1, <1>2, <2>2, SectionBegins
<1> QED BY <1>4, <1>5, <1>6, <1>7, <1>8, <1>9 DEF UartInv

LEMMA PutCharKeeps == ASSUME UartInv, put_char PROVE UartInv'
<1>0. Registers /\ Sections /\ Tty /\ Lines /\ Input /\ Pace
  BY DEF UartInv
<1>1. /\ In("wait") /\ Top.left > 0 /\ StatusEmpty /\ WriteTx(-printed)
      /\ hart' = Append(Below, ConsoleByte(Top.left - 1))
      /\ UNCHANGED <<tx_left, tx_shift, tx_empty, wire, rx, to_poll, tty, budget, oopsed>>
  BY DEF put_char, Replace
<1>2. PICK n : n = Top.left
  OBVIOUS
<1>3. /\ printed > 0 /\ n \in 0 .. LINE /\ n > 0
      /\ \/ /\ hart = <<ConsoleByte(n)>> /\ Below = <<>> /\ \A g : Append(Below, g) = <<g>>
         \/ /\ oopsed
            /\ \E f : /\ hart = <<f, ConsoleByte(n)>> /\ Section(f, printed, to_poll)
                      /\ Below = <<f>> /\ \A g : Append(Below, g) = <<f, g>>
  BY <1>0, <1>1, <1>2, Printing
<1>4. /\ n \in Nat /\ n - 1 \in 0 .. LINE /\ n - 1 \in Nat /\ -printed \in Int /\ -printed < 0
      /\ printed \in Nat
      /\ Frames(n) \in Nat /\ Frames(n - 1) \in Nat /\ Frames(n) = Frames(n - 1) + Byte
  <2>1. printed \in Nat
    BY <1>0 DEF Registers
  <2>2. n \in Nat
    BY <1>3, UartNumbers
  <2> QED BY <1>3, <2>1, <2>2, UartNumbers, FramesStep
<1>5. Sent' = Append(Sent, -printed) /\ Sent \in Seq(Int)
  BY <1>0, <1>1, <1>4, WrittenIsSent, SentType
<1>6. Registers'
  <2>1. tx_left = 0
    BY <1>0, <1>1 DEF Registers, StatusEmpty
  <2>2. tx_start' = TRUE /\ tx_data' \in Int
    BY <1>1, <1>4 DEF WriteTx
  <2> QED BY <1>0, <1>1, <2>1, <2>2 DEF Registers, rx, tty
<1>7. Tty'
  <2>1. TtyBytes(Sent', written - Len(xmit_fifo))
    BY <1>0, <1>4, <1>5, ConsoleByteSent DEF Tty
  <2> QED BY <1>0, <1>1, <2>1 DEF Tty, tty
<1>8. Input'
  BY <1>0, <1>1 DEF Input, rx, tty
<1>9. PICK b, s, w, s2, w2 : /\ b = Busy /\ s = Slack /\ w = Wait /\ s2 = Slack' /\ w2 = Wait'
                             /\ b = 0 /\ Busy' = Byte /\ w2 = w /\ w \in Nat /\ s2 \in Nat
  <2>1. Busy = 0 /\ Wait \in Nat
    BY <1>0, <1>1, Measures
  <2>2. Busy' = Byte
    BY <1>1 DEF Busy, WriteTx
  <2>3. Wait' = Wait
    BY <1>1 DEF Wait
  <2>4. Slack' \in Nat
    BY <1>6, MeasuresAfter
  <2> QED BY <2>1, <2>2, <2>3, <2>4
<1>10. CASE hart = <<ConsoleByte(n)>> /\ hart' = <<ConsoleByte(n - 1)>>
  <2>1. PICK f, g : /\ f = ConsoleByte(n) /\ g = ConsoleByte(n - 1) /\ g \in HartFrame
                    /\ f.what = "wait" /\ g.what = "wait" /\ f.left = n /\ g.left = n - 1
    BY <1>4, ConsoleByteIs
  <2>2. Sections'
    <3>1. Section(g, printed', to_poll')
      BY <1>1, <1>3, <1>4, <2>1 DEF Section, tty
    <3> QED BY <1>10, <2>1, <3>1, OneSection
  <2>3. Lines'
    <3>1. ASSUME ~oopsed
          PROVE (\A line \in 1 .. (printed' - 1) : WholeLine(Sent', line)) /\ Begun(Sent', printed', LINE - (n - 1))
      <4>1. (\A line \in 1 .. (printed - 1) : WholeLine(Sent, line)) /\ Begun(Sent, printed, LINE - n)
        BY <1>0, <1>10, <2>1, <3>1, LinesAre
      <4>2. LINE - n \in Nat /\ LINE - (n - 1) = (LINE - n) + 1
        BY <1>3, <1>4, UartNumbers
      <4>3. \A line \in 1 .. (printed - 1) : WholeLine(Sent', line)
        BY <1>4, <1>5, <4>1, WholeStays, UartNumbers
      <4>4. Begun(Sent', printed, (LINE - n) + 1)
        BY <1>4, <1>5, <4>1, <4>2, BegunGoesOn
      <4> QED BY <1>1, <4>2, <4>3, <4>4 DEF tty
    <3> QED BY <1>1, <1>10, <3>1, LineWritten
  <2>4. Pace'
    <3>1. Remaining = Frames(n) + Busy /\ Remaining' = Frames(n - 1) + Busy'
      BY <1>10, <2>1, RemainsOfOne DEF Remaining
    <3>2. Remaining = Frames(n) + 0 /\ Remaining' = Frames(n - 1) + Byte
      BY ONLY <1>9, <3>1
    <3>4. Remaining' \in Nat /\ Remaining' <= Remaining
      BY <1>4, <3>2, UartNumbers
    <3>3. Polling(hart') = Polling(hart)
      BY <1>10, <2>1 DEF Polling
    <3> QED BY <1>0, <1>1, <3>3, <3>4, LessRemains
  <2> QED BY <1>6, <1>7, <1>8, <2>2, <2>3, <2>4 DEF UartInv
<1>11. ASSUME NEW f, oopsed, hart = <<f, ConsoleByte(n)>>, hart' = <<f, ConsoleByte(n - 1)>>,
              Section(f, printed, to_poll)
       PROVE UartInv'
  <2>1. Sections'
    <3>1. Section(f, printed', to_poll') /\ printed' > 0 /\ oopsed'
      BY <1>1, <1>3, <1>11 DEF tty
    <3> QED BY <1>4, <1>11, <3>1, TwoSections
  <2>2. Lines'
    BY <1>1, <1>11 DEF Lines
  <2>3. Pace'
    <3>1. PICK x : x = (IF f.what = "wait" THEN Frames(f.left) ELSE w)
      OBVIOUS
    <3>2. x \in Nat
      BY <1>9, <1>11, <3>1, FramesStep DEF Section, HartFrame
    <3>3. Remaining = Frames(n) + b + x /\ Remaining' = Frames(n - 1) + Busy' + x
      <4>1. Remaining = RemainingOf(<<f, ConsoleByte(n)>>, b, s, w)
        BY <1>9, <1>11 DEF Remaining
      <4>2. Remaining' = RemainingOf(<<f, ConsoleByte(n - 1)>>, Busy', s2, w)
        BY <1>9, <1>11 DEF Remaining
      <4> QED BY <4>1, <4>2, <3>1, RemainsOfTwo
    <3>4. Remaining' \in Nat /\ Remaining' <= Remaining
      BY <1>4, <1>9, <3>2, <3>3, UartNumbers
    <3>5. Polling(hart') = Polling(hart)
      BY <1>11 DEF Polling
    <3> QED BY <1>0, <1>1, <3>4, <3>5, LessRemains
  <2> QED BY <1>6, <1>7, <1>8, <2>1, <2>2, <2>3 DEF UartInv
<1> QED BY <1>1, <1>2, <1>3, <1>10, <1>11

LEMMA ConsoleEndsKeeps == ASSUME UartInv, ConsoleEnds PROVE UartInv'
<1>0. Registers /\ Sections /\ Tty /\ Lines /\ Input /\ Pace
  BY DEF UartInv
<1>1. /\ In("wait") /\ Top.left = 0 /\ hart' = Below
      /\ UNCHANGED <<tx, rx, to_poll, tty, budget, oopsed>>
  BY DEF ConsoleEnds
<1>2. /\ printed > 0
      /\ \/ hart = <<ConsoleByte(0)>> /\ Below = <<>>
         \/ oopsed /\ \E f : hart = <<f, ConsoleByte(0)>> /\ Section(f, printed, to_poll) /\ Below = <<f>>
  BY <1>0, <1>1, Printing
<1>3. Sent' = Sent /\ Sent \in Seq(Int) /\ printed \in Nat
  BY <1>0, <1>1, SentStays, SentType DEF Registers
<1>4. Registers' /\ Tty' /\ Input'
  <2>1. Registers'
    BY <1>0, <1>1 DEF Registers, tx, rx, tty
  <2>2. Tty'
    BY <1>0, <1>1, <1>3 DEF Tty, tty
  <2>3. Input'
    BY <1>0, <1>1 DEF Input, rx, tty
  <2> QED BY <2>1, <2>2, <2>3
<1>5. PICK b, s, w : /\ b = Busy /\ s = Slack /\ w = Wait /\ Busy' = b /\ Slack' = s /\ Wait' = w
                     /\ b \in Nat /\ s \in Nat /\ w \in Nat /\ s <= w
  <2>1. Busy' = Busy /\ Slack' = Slack /\ Wait' = Wait
    BY <1>1 DEF tx, Busy, Slack, Wait
  <2> QED BY <1>0, <2>1, Measures, UartNumbers
<1>6. Frames(0) = 0
  BY FramesStep
<1>7. CASE hart = <<ConsoleByte(0)>> /\ hart' = <<>>
  <2>1. PICK f : f = ConsoleByte(0) /\ f.what = "wait" /\ f.left = 0
    BY ConsoleByteIs
  <2>2. Sections'
    BY <1>7, NoSection
  <2>3. Lines'
    <3>1. ASSUME ~oopsed PROVE \A line \in 1 .. printed : WholeLine(Sent, line)
      <4>1. (\A line \in 1 .. (printed - 1) : WholeLine(Sent, line)) /\ Begun(Sent, printed, LINE - 0)
        BY <1>0, <1>7, <2>1, <3>1, LinesAre
      <4>2. WholeLine(Sent, printed)
        BY <1>3, <4>1, BegunIsWhole, UartNumbers
      <4>3. \A line \in 1 .. printed : line = printed \/ line \in 1 .. (printed - 1)
        BY <1>3
      <4> QED BY <4>1, <4>2, <4>3
    <3>2. oopsed' \/ \A line \in 1 .. printed' : WholeLine(Sent', line)
      BY <1>1, <1>3, <3>1 DEF tty
    <3> QED BY <1>7, <3>2, NoLineWritten
  <2>4. Pace'
    <3>1. Remaining' = 0 /\ Remaining \in Nat
      BY <1>0, <1>7, RemainsOfNone, RemainingType DEF Remaining
    <3>2. Polling(hart') = Polling(hart)
      BY <1>7, <2>1 DEF Polling
    <3> QED BY <1>0, <1>1, <3>1, <3>2, LessRemains
  <2> QED BY <1>4, <2>2, <2>3, <2>4 DEF UartInv
<1>8. ASSUME NEW f, oopsed, hart = <<f, ConsoleByte(0)>>, Section(f, printed, to_poll), hart' = <<f>>
      PROVE UartInv'
  <2>1. Sections'
    <3>1. Section(f, printed', to_poll')
      BY <1>1, <1>8 DEF tty
    <3> QED BY <1>8, <3>1, OneSection
  <2>2. Lines'
    BY <1>1, <1>8 DEF Lines
  <2>3. Pace'
    <3>1. f.left \in Nat /\ Frames(f.left) \in Nat
      BY <1>8, FramesStep DEF Section, HartFrame
    <3>2. Remaining = Frames(0) + b + (IF f.what = "wait" THEN Frames(f.left) ELSE w)
      BY <1>5, <1>8, RemainsOfTwo DEF Remaining
    <3>3. Remaining' = IF f.what = "wait" THEN Frames(f.left) + b ELSE s
      BY <1>5, <1>8, RemainsOfOne DEF Remaining
    <3>4. Remaining' \in Nat /\ Remaining' <= Remaining
      BY <1>5, <1>6, <3>1, <3>2, <3>3
    <3>5. Polling(hart') = Polling(hart)
      BY <1>8 DEF Polling
    <3> QED BY <1>0, <1>1, <3>4, <3>5, LessRemains
  <2> QED BY <1>4, <2>1, <2>2, <2>3 DEF UartInv
<1> QED BY <1>1, <1>2, <1>7, <1>8

\* The line an oops prints has been allowed for.
LEMMA OopsKeeps == ASSUME UartInv, Oops PROVE UartInv'
<1>0. Registers /\ Sections /\ Tty /\ Lines /\ Input /\ Pace
  BY DEF UartInv
<1>1. /\ ~oopsed /\ oopsed' = TRUE /\ printed' = printed + 1
      /\ hart' = Append(hart, ConsoleByte(LINE))
      /\ UNCHANGED <<tx, rx, to_poll, xmit_fifo, written, received, budget>>
  BY DEF Oops
<1>2. Sent' = Sent /\ printed \in Nat
  BY <1>0, <1>1, SentStays DEF Registers
<1>3. Registers' /\ Tty' /\ Input' /\ Lines'
  <2>1. Registers'
    BY <1>0, <1>1 DEF Registers, tx, rx
  <2>2. Tty'
    BY <1>0, <1>1, <1>2 DEF Tty
  <2>3. Input'
    BY <1>0, <1>1 DEF Input, rx
  <2>4. Lines'
    BY <1>1 DEF Lines
  <2> QED BY <2>1, <2>2, <2>3, <2>4
<1>4. PICK b, s, w : /\ b = Busy /\ s = Slack /\ w = Wait /\ Busy' = b /\ Slack' = s /\ Wait' = w
                     /\ b \in 0 .. Byte /\ s \in Nat /\ w \in Nat /\ w <= s + 1
  <2>1. Busy' = Busy /\ Slack' = Slack /\ Wait' = Wait
    BY <1>1 DEF tx, Busy, Slack, Wait
  <2>2. Wait <= Slack + 1
    BY <1>0 DEF Registers, Wait, Slack
  <2> QED BY <1>0, <2>1, <2>2, Measures
<1>5. /\ b \in Nat /\ b <= Byte /\ LINE \in Nat /\ Byte \in Nat /\ Frames(LINE) \in Nat
      /\ OopsToCome = Frames(LINE) + Byte + 1 /\ OopsToCome' = 0
      /\ to_poll \in Nat /\ to_poll' = to_poll
  BY <1>0, <1>1, <1>4, UartNumbers, PaceIsLong DEF OopsToCome, Registers
\* What remains grows by no more than that.
<1>6. ASSUME Sections', Remaining \in Nat, Remaining' \in Nat, Remaining' <= Remaining + OopsToCome,
             Polling(hart') = Polling(hart)
      PROVE UartInv'
  <2>1. PICK p, r, r2, o : p = Polling(hart) /\ r = Remaining /\ r2 = Remaining' /\ o = OopsToCome
    OBVIOUS
  <2>2. PICK a, c : a = UartRest(p, r, to_poll) /\ c = UartRest(p, r2, to_poll)
    OBVIOUS
  <2>3. r \in Nat /\ r2 \in Nat /\ r2 <= r + o /\ o \in Nat
    BY <1>5, <1>6, <2>1
  <2>4. a \in Nat /\ c \in Nat /\ c <= a + o
    BY <1>5, <2>2, <2>3, UartNumbers, PaceIsLong DEF UartRest
  <2>5. ToLook = o + a /\ ToLook' = 0 + c
    BY <1>5, <1>6, <2>1, <2>2 DEF ToLook
  <2>6. ToLook \in Nat /\ ToLook' \in Nat /\ ToLook' <= ToLook
    BY <2>3, <2>4, <2>5
  <2>7. Pace'
    BY <1>0, <1>1, <2>6, PaceKept DEF rx, Registers
  <2> QED BY <1>3, <1>6, <2>7 DEF UartInv
<1>7. ConsoleByte(LINE) \in HartFrame /\ ConsoleByte(LINE).what = "wait" /\ ConsoleByte(LINE).left = LINE
  BY <1>5, ConsoleByteIs
<1>8. CASE hart = <<>>
  <2>1. hart' = <<ConsoleByte(LINE)>>
    BY <1>1, <1>8
  <2>2. Sections'
    <3>1. Section(ConsoleByte(LINE), printed', to_poll')
      BY <1>1, <1>2, <1>5, <1>7 DEF Section
    <3> QED BY <2>1, <3>1, OneSection
  <2>3. Remaining = 0 /\ Remaining' = Frames(LINE) + b
    BY <1>4, <1>7, <1>8, <2>1, RemainsOfNone, RemainsOfOne DEF Remaining
  <2>4. Polling(hart') = Polling(hart)
    BY <1>7, <1>8, <2>1 DEF Polling
  <2>5. Remaining' \in Nat /\ Remaining' <= Remaining + OopsToCome
    BY <1>5, <2>3
  <2> QED BY <1>6, <2>2, <2>3, <2>4, <2>5
<1>9. ASSUME NEW f, hart = <<f>>, Section(f, printed, to_poll) PROVE UartInv'
  <2>1. hart' = <<f, ConsoleByte(LINE)>>
    BY <1>1, <1>9, Pair
  <2>2. Sections'
    <3>1. Section(f, printed', to_poll') /\ printed' > 0 /\ oopsed'
      BY <1>1, <1>2, <1>5, <1>9 DEF Section
    <3>2. LINE \in 0 .. LINE
      BY <1>5
    <3> QED BY <2>1, <3>1, <3>2, TwoSections
  <2>3. Frames(f.left) \in Nat
    BY <1>9, FramesStep DEF Section, HartFrame
  <2>4. Remaining = IF f.what = "wait" THEN Frames(f.left) + b ELSE s
    BY <1>4, <1>9, RemainsOfOne DEF Remaining
  <2>5. Remaining' = Frames(LINE) + b + (IF f.what = "wait" THEN Frames(f.left) ELSE w)
    BY <1>4, <2>1, RemainsOfTwo DEF Remaining
  <2>6. Remaining \in Nat /\ Remaining' \in Nat /\ Remaining' <= Remaining + OopsToCome
    BY <1>4, <1>5, <2>3, <2>4, <2>5
  <2>7. Polling(hart') = Polling(hart)
    BY <1>9, <2>1 DEF Polling
  <2> QED BY <1>6, <2>2, <2>6, <2>7
<1> QED BY <1>0, <1>1, <1>8, <1>9, Cases

-----------------------------------------------------------------------------
(* The theorem *)

LEMMA UartNextKeeps == UartInv /\ [UartNext]_uart_vars => UartInv'
<1> SUFFICES ASSUME UartInv, [UartNext]_uart_vars PROVE UartInv'
  OBVIOUS
<1>1. CASE Cycle
  BY <1>1, CycleKeeps
<1>2. CASE Tick
  BY <1>2, TickKeeps
<1>3. CASE TransmitByte
  BY <1>3, TransmitByteKeeps
<1>4. CASE TransmitEnds
  BY <1>4, TransmitEndsKeeps
<1>5. CASE Poll
  BY <1>5, PollKeeps
<1>6. CASE put_char
  BY <1>6, PutCharKeeps
<1>7. CASE ConsoleEnds
  BY <1>7, ConsoleEndsKeeps
<1>8. CASE TtyWrite
  BY <1>8, TtyWriteKeeps
<1>9. CASE ConsoleWrite
  BY <1>9, ConsoleWriteKeeps
<1>10. CASE Oops
  BY <1>10, OopsKeeps
<1>11. CASE UNCHANGED uart_vars
  <2>1. UNCHANGED <<tx, rx, to_poll, tty, hart, budget, oopsed>>
    BY <1>11 DEF uart_vars
  <2>2. Registers' /\ Sections' /\ Input'
    BY <2>1 DEF UartInv, Registers, Sections, Stack, Input, tx, rx, tty
  <2>3. Sent' = Sent
    BY <2>1, SentStays
  <2>4. Tty' /\ Lines'
    BY <2>1, <2>3 DEF UartInv, Tty, Lines, tty
  <2>5. ToLook' = ToLook
    BY <2>1 DEF ToLook, OopsToCome, Remaining, Busy, Slack, Wait, tx
  <2>6. Pace'
    BY <2>1, <2>5 DEF UartInv, Pace, rx
  <2> QED BY <2>2, <2>4, <2>6 DEF UartInv
<1> QED BY <1>1, <1>2, <1>3, <1>4, <1>5, <1>6, <1>7, <1>8, <1>9, <1>10, <1>11 DEF UartNext, HartStep

LEMMA InvariantKeepsBytes == UartInv => BytesAreKept
<1> SUFFICES ASSUME UartInv PROVE BytesAreKept
  OBVIOUS
<1>1. TtyBytesInOrder
  BY DEF UartInv, Tty, TtyBytes, Queue, Sent, TtyBytesInOrder
<1>2. LinesAreWhole
  <2> SUFFICES ASSUME ~oopsed, hart = <<>> PROVE \A line \in 1 .. printed : WholeLine(Sent, line)
    BY DEF LinesAreWhole, Idle, WholeLine, Sent
  <2> QED BY LinesAre DEF UartInv
<1>3. ReceivedInOrder
  BY DEF UartInv, Input, ReceivedInOrder
<1> QED BY <1>1, <1>2, <1>3 DEF BytesAreKept

\* The driver of the UART, for every speed of the line, length of lines and
\* bursts, and time between polls: a host that keeps the pace UartAssumption
\* asks for loses no byte and sees none twice, and what the tty and the console
\* send gets on the wire once, in order and in whole lines.
THEOREM BytesKept == UartSpec => []BytesAreKept
<1>1. UartInit => UartInv
  BY UartInitHolds
<1>2. UartInv /\ [UartNext]_uart_vars => UartInv'
  BY UartNextKeeps
<1>3. UartInv => BytesAreKept
  BY InvariantKeepsBytes
<1> QED BY <1>1, <1>2, <1>3, PTL DEF UartSpec

(***************************************************************************)
(* Proof that each event is counted once, for every width of the halves,   *)
(* every count and every depth of nested updates.                          *)
(*                                                                         *)
(* A call is known by what is left of it.  The difference that an update   *)
(* has taken from prev_count and not yet added to count is pending; with   *)
(* what is pending on the whole stack of calls,                            *)
(*                                                                         *)
(*    count + pending - prev_count + Counter                               *)
(*                                                                         *)
(* is what the event has seen.  An update moves parts of this sum around   *)
(* and never changes it, however many updates break into one another.      *)
(***************************************************************************)

-----------------------------------------------------------------------------
(* What may be left of a call *)

\* Of update().
UpdateLeft ==
  { <<"old", "hi", "lo", "again", "cmpxchg", "add">>,
    <<"hi", "lo", "again", "cmpxchg", "add">>, <<"lo", "again", "cmpxchg", "add">>,
    <<"again", "cmpxchg", "add">>, <<"cmpxchg", "add">>, <<"add">> }

\* Of stop().
StopLeft ==
  { <<"old", "hi", "lo", "again", "cmpxchg", "add", "stopped">>,
    <<"hi", "lo", "again", "cmpxchg", "add", "stopped">>,
    <<"lo", "again", "cmpxchg", "add", "stopped">>,
    <<"again", "cmpxchg", "add", "stopped">>, <<"cmpxchg", "add", "stopped">>,
    <<"add", "stopped">>, <<"stopped">> }

\* Of start().
StartLeft ==
  { <<"hi", "lo", "again", "set", "run">>, <<"lo", "again", "set", "run">>,
    <<"again", "set", "run">>, <<"set", "run">>, <<"run">> }

Steps == {"old", "hi", "lo", "again", "cmpxchg", "add", "set", "run", "stopped"}
Left == UpdateLeft \cup StopLeft \cup StartLeft

\* A sequence is the concatenation of two if it is so element by element.
LEMMA Joined ==
  ASSUME NEW S, NEW s \in Seq(S), NEW t \in Seq(S), NEW r \in Seq(S), Len(r) = Len(s) + Len(t),
         \A i \in 1 .. Len(s) : r[i] = s[i], \A i \in 1 .. Len(t) : r[Len(s) + i] = t[i]
  PROVE  s \o t = r
<1>1. /\ s \o t \in Seq(S) /\ Len(s \o t) = Len(s) + Len(t)
      /\ \A i \in 1 .. Len(s) + Len(t) : (s \o t)[i] = IF i <= Len(s) THEN s[i] ELSE t[i - Len(s)]
  BY ConcatProperties
<1>2. ASSUME NEW i \in 1 .. Len(s) + Len(t) PROVE (s \o t)[i] = r[i]
  <2>1. CASE i <= Len(s)
    BY <1>1, <2>1
  <2>2. CASE i > Len(s)
    <3>1. i - Len(s) \in 1 .. Len(t) /\ Len(s) + (i - Len(s)) = i
      BY <2>2
    <3> QED BY <1>1, <3>1, <2>2
  <2> QED BY <2>1, <2>2
<1> QED BY <1>1, <1>2, SeqEqual

\* The reads of an update.
LEMMA OldThenCounter == <<"old">> \o counter = <<"old", "hi", "lo", "again">>
<1> DEFINE s == <<"old">>
           t == <<"hi", "lo", "again">>
           r == <<"old", "hi", "lo", "again">>
<1>1. s \in Seq(Steps) /\ t \in Seq(Steps) /\ r \in Seq(Steps)
  BY DEF Steps
<1>2. /\ \A i \in 1 .. 1 : r[i] = s[i]
      /\ \A i \in 1 .. 3 : r[1 + i] = t[i]
  OBVIOUS
<1>3. Len(s) = 1 /\ Len(t) = 3 /\ Len(r) = 4
  OBVIOUS
<1>4. <<"old">> = s
  OBVIOUS
<1> HIDE DEF s, t, r
<1>5. /\ Len(r) = Len(s) + Len(t)
      /\ \A i \in 1 .. Len(s) : r[i] = s[i]
      /\ \A i \in 1 .. Len(t) : r[Len(s) + i] = t[i]
  BY <1>2, <1>3
<1>6. s \o t = r
  BY <1>1, <1>5, Joined
<1> QED BY <1>4, <1>6 DEF t, r, counter

\* An update whose high half has changed.
LEMMA UpdateAgain == counter \o <<"cmpxchg", "add">> = <<"hi", "lo", "again", "cmpxchg", "add">>
<1> DEFINE s == <<"hi", "lo", "again">>
           t == <<"cmpxchg", "add">>
           r == <<"hi", "lo", "again", "cmpxchg", "add">>
<1>1. s \in Seq(Steps) /\ t \in Seq(Steps) /\ r \in Seq(Steps)
  BY DEF Steps
<1>2. /\ \A i \in 1 .. 3 : r[i] = s[i]
      /\ \A i \in 1 .. 2 : r[3 + i] = t[i]
  OBVIOUS
<1>3. Len(s) = 3 /\ Len(t) = 2 /\ Len(r) = 5
  OBVIOUS
<1>4. counter = s
  BY DEF counter
<1> HIDE DEF s, t, r
<1>5. /\ Len(r) = Len(s) + Len(t)
      /\ \A i \in 1 .. Len(s) : r[i] = s[i]
      /\ \A i \in 1 .. Len(t) : r[Len(s) + i] = t[i]
  BY <1>2, <1>3
<1>6. s \o t = r
  BY <1>1, <1>5, Joined
<1> QED BY <1>4, <1>6 DEF t, r

\* The same of a stop.
LEMMA StopAgain ==
  counter \o <<"cmpxchg", "add", "stopped">>
    = <<"hi", "lo", "again", "cmpxchg", "add", "stopped">>
<1> DEFINE s == <<"hi", "lo", "again">>
           t == <<"cmpxchg", "add", "stopped">>
           r == <<"hi", "lo", "again", "cmpxchg", "add", "stopped">>
<1>1. s \in Seq(Steps) /\ t \in Seq(Steps) /\ r \in Seq(Steps)
  BY DEF Steps
<1>2. /\ \A i \in 1 .. 3 : r[i] = s[i]
      /\ \A i \in 1 .. 3 : r[3 + i] = t[i]
  OBVIOUS
<1>3. Len(s) = 3 /\ Len(t) = 3 /\ Len(r) = 6
  OBVIOUS
<1>4. counter = s
  BY DEF counter
<1> HIDE DEF s, t, r
<1>5. /\ Len(r) = Len(s) + Len(t)
      /\ \A i \in 1 .. Len(s) : r[i] = s[i]
      /\ \A i \in 1 .. Len(t) : r[Len(s) + i] = t[i]
  BY <1>2, <1>3
<1>6. s \o t = r
  BY <1>1, <1>5, Joined
<1> QED BY <1>4, <1>6 DEF t, r

\* The same of a start, and the whole of it.
LEMMA StartAgain == counter \o <<"set", "run">> = <<"hi", "lo", "again", "set", "run">>
<1> DEFINE s == <<"hi", "lo", "again">>
           t == <<"set", "run">>
           r == <<"hi", "lo", "again", "set", "run">>
<1>1. s \in Seq(Steps) /\ t \in Seq(Steps) /\ r \in Seq(Steps)
  BY DEF Steps
<1>2. /\ \A i \in 1 .. 3 : r[i] = s[i]
      /\ \A i \in 1 .. 2 : r[3 + i] = t[i]
  OBVIOUS
<1>3. Len(s) = 3 /\ Len(t) = 2 /\ Len(r) = 5
  OBVIOUS
<1>4. counter = s
  BY DEF counter
<1> HIDE DEF s, t, r
<1>5. /\ Len(r) = Len(s) + Len(t)
      /\ \A i \in 1 .. Len(s) : r[i] = s[i]
      /\ \A i \in 1 .. Len(t) : r[Len(s) + i] = t[i]
  BY <1>2, <1>3
<1>6. s \o t = r
  BY <1>1, <1>5, Joined
<1> QED BY <1>4, <1>6 DEF t, r

\* An update whose exchange failed, and the whole of one.
LEMMA UpdateRetried ==
  (<<"old">> \o counter) \o <<"cmpxchg", "add">>
    = <<"old", "hi", "lo", "again", "cmpxchg", "add">>
<1> DEFINE s == <<"old", "hi", "lo", "again">>
           t == <<"cmpxchg", "add">>
           r == <<"old", "hi", "lo", "again", "cmpxchg", "add">>
<1>1. s \in Seq(Steps) /\ t \in Seq(Steps) /\ r \in Seq(Steps)
  BY DEF Steps
<1>2. /\ \A i \in 1 .. 4 : r[i] = s[i]
      /\ \A i \in 1 .. 2 : r[4 + i] = t[i]
  OBVIOUS
<1>3. Len(s) = 4 /\ Len(t) = 2 /\ Len(r) = 6
  OBVIOUS
<1>4. (<<"old">> \o counter) = s
  BY OldThenCounter
<1> HIDE DEF s, t, r
<1>5. /\ Len(r) = Len(s) + Len(t)
      /\ \A i \in 1 .. Len(s) : r[i] = s[i]
      /\ \A i \in 1 .. Len(t) : r[Len(s) + i] = t[i]
  BY <1>2, <1>3
<1>6. s \o t = r
  BY <1>1, <1>5, Joined
<1> QED BY <1>4, <1>6 DEF t, r

\* A stop whose exchange failed.
LEMMA StopRetried ==
  (<<"old">> \o counter) \o <<"cmpxchg", "add", "stopped">>
    = <<"old", "hi", "lo", "again", "cmpxchg", "add", "stopped">>
<1> DEFINE s == <<"old", "hi", "lo", "again">>
           t == <<"cmpxchg", "add", "stopped">>
           r == <<"old", "hi", "lo", "again", "cmpxchg", "add", "stopped">>
<1>1. s \in Seq(Steps) /\ t \in Seq(Steps) /\ r \in Seq(Steps)
  BY DEF Steps
<1>2. /\ \A i \in 1 .. 4 : r[i] = s[i]
      /\ \A i \in 1 .. 3 : r[4 + i] = t[i]
  OBVIOUS
<1>3. Len(s) = 4 /\ Len(t) = 3 /\ Len(r) = 7
  OBVIOUS
<1>4. (<<"old">> \o counter) = s
  BY OldThenCounter
<1> HIDE DEF s, t, r
<1>5. /\ Len(r) = Len(s) + Len(t)
      /\ \A i \in 1 .. Len(s) : r[i] = s[i]
      /\ \A i \in 1 .. Len(t) : r[Len(s) + i] = t[i]
  BY <1>2, <1>3
<1>6. s \o t = r
  BY <1>1, <1>5, Joined
<1> QED BY <1>4, <1>6 DEF t, r

\* The whole of a stop.
LEMMA StopWhole ==
  update \o <<"stopped">>
    = <<"old", "hi", "lo", "again", "cmpxchg", "add", "stopped">>
<1> DEFINE s == <<"old", "hi", "lo", "again", "cmpxchg", "add">>
           t == <<"stopped">>
           r == <<"old", "hi", "lo", "again", "cmpxchg", "add", "stopped">>
<1>1. s \in Seq(Steps) /\ t \in Seq(Steps) /\ r \in Seq(Steps)
  BY DEF Steps
<1>2. /\ \A i \in 1 .. 6 : r[i] = s[i]
      /\ \A i \in 1 .. 1 : r[6 + i] = t[i]
  OBVIOUS
<1>3. Len(s) = 6 /\ Len(t) = 1 /\ Len(r) = 7
  OBVIOUS
<1>4. update = s
  BY UpdateRetried DEF update
<1> HIDE DEF s, t, r
<1>5. /\ Len(r) = Len(s) + Len(t)
      /\ \A i \in 1 .. Len(s) : r[i] = s[i]
      /\ \A i \in 1 .. Len(t) : r[Len(s) + i] = t[i]
  BY <1>2, <1>3
<1>6. s \o t = r
  BY <1>1, <1>5, Joined
<1> QED BY <1>4, <1>6 DEF t, r

\* How an update goes on.
LEMMA UpdatePlaces ==
  ASSUME NEW t \in UpdateLeft
  PROVE  /\ t # <<>> /\ t[Len(t)] = "add"
         /\ Head(t) \in {"old", "hi", "lo", "again", "cmpxchg", "add"}
         /\ Head(t) = "old" => Tail(t) \in UpdateLeft /\ Head(Tail(t)) = "hi"
         /\ Head(t) = "hi" => Tail(t) \in UpdateLeft /\ Head(Tail(t)) = "lo"
         /\ Head(t) = "lo" => Tail(t) \in UpdateLeft /\ Head(Tail(t)) = "again"
         /\ Head(t) = "again" => /\ Tail(t) \in UpdateLeft /\ Head(Tail(t)) = "cmpxchg"
                                /\ counter \o Tail(t) \in UpdateLeft /\ Head(counter \o Tail(t)) = "hi"
         /\ Head(t) = "cmpxchg" => /\ Tail(t) \in UpdateLeft /\ Head(Tail(t)) = "add"
                                  /\ <<"old">> \o counter \o t \in UpdateLeft
                                  /\ Head(<<"old">> \o counter \o t) = "old"
         /\ Head(t) = "add" => Tail(t) = <<>>
<1>1. CASE t = <<"old", "hi", "lo", "again", "cmpxchg", "add">>
  BY <1>1 DEF UpdateLeft
<1>2. CASE t = <<"hi", "lo", "again", "cmpxchg", "add">>
  BY <1>2 DEF UpdateLeft
<1>3. CASE t = <<"lo", "again", "cmpxchg", "add">>
  BY <1>3 DEF UpdateLeft
<1>4. CASE t = <<"again", "cmpxchg", "add">>
  <2>1. Tail(t) = <<"cmpxchg", "add">> /\ Head(t) = "again" /\ t # <<>> /\ t[Len(t)] = "add"
    BY <1>4
  <2>2. Tail(t) \in UpdateLeft /\ Head(Tail(t)) = "cmpxchg"
    BY <2>1 DEF UpdateLeft
  <2>3. counter \o Tail(t) \in UpdateLeft /\ Head(counter \o Tail(t)) = "hi"
    <3>1. counter \o Tail(t) = <<"hi", "lo", "again", "cmpxchg", "add">>
      BY <2>1, UpdateAgain, Zenon
    <3>2. <<"hi", "lo", "again", "cmpxchg", "add">> \in UpdateLeft /\ Head(<<"hi", "lo", "again", "cmpxchg", "add">>) = "hi"
      BY DEF UpdateLeft
    <3> QED BY <3>1, <3>2, Zenon
  <2> QED BY <2>1, <2>2, <2>3
<1>5. CASE t = <<"cmpxchg", "add">>
  BY <1>5, UpdateRetried DEF UpdateLeft
<1>6. CASE t = <<"add">>
  BY <1>6 DEF UpdateLeft
<1> QED BY <1>1, <1>2, <1>3, <1>4, <1>5, <1>6 DEF UpdateLeft

\* How a stop goes on.
LEMMA StopPlaces ==
  ASSUME NEW t \in StopLeft
  PROVE  /\ t # <<>> /\ t[Len(t)] = "stopped"
         /\ Head(t) \in {"old", "hi", "lo", "again", "cmpxchg", "add", "stopped"}
         /\ Head(t) = "old" => Tail(t) \in StopLeft /\ Head(Tail(t)) = "hi"
         /\ Head(t) = "hi" => Tail(t) \in StopLeft /\ Head(Tail(t)) = "lo"
         /\ Head(t) = "lo" => Tail(t) \in StopLeft /\ Head(Tail(t)) = "again"
         /\ Head(t) = "again" => /\ Tail(t) \in StopLeft /\ Head(Tail(t)) = "cmpxchg"
                                /\ counter \o Tail(t) \in StopLeft /\ Head(counter \o Tail(t)) = "hi"
         /\ Head(t) = "cmpxchg" => /\ Tail(t) \in StopLeft /\ Head(Tail(t)) = "add"
                                  /\ <<"old">> \o counter \o t \in StopLeft
                                  /\ Head(<<"old">> \o counter \o t) = "old"
         /\ Head(t) = "add" => Tail(t) \in StopLeft /\ Head(Tail(t)) = "stopped"
         /\ Head(t) = "stopped" => Tail(t) = <<>>
<1>1. CASE t = <<"old", "hi", "lo", "again", "cmpxchg", "add", "stopped">>
  BY <1>1 DEF StopLeft
<1>2. CASE t = <<"hi", "lo", "again", "cmpxchg", "add", "stopped">>
  BY <1>2 DEF StopLeft
<1>3. CASE t = <<"lo", "again", "cmpxchg", "add", "stopped">>
  BY <1>3 DEF StopLeft
<1>4. CASE t = <<"again", "cmpxchg", "add", "stopped">>
  <2>1. Tail(t) = <<"cmpxchg", "add", "stopped">> /\ Head(t) = "again" /\ t # <<>> /\ t[Len(t)] = "stopped"
    BY <1>4
  <2>2. Tail(t) \in StopLeft /\ Head(Tail(t)) = "cmpxchg"
    BY <2>1 DEF StopLeft
  <2>3. counter \o Tail(t) \in StopLeft /\ Head(counter \o Tail(t)) = "hi"
    <3>1. counter \o Tail(t) = <<"hi", "lo", "again", "cmpxchg", "add", "stopped">>
      BY <2>1, StopAgain, Zenon
    <3>2. <<"hi", "lo", "again", "cmpxchg", "add", "stopped">> \in StopLeft /\ Head(<<"hi", "lo", "again", "cmpxchg", "add", "stopped">>) = "hi"
      BY DEF StopLeft
    <3> QED BY <3>1, <3>2, Zenon
  <2> QED BY <2>1, <2>2, <2>3
<1>5. CASE t = <<"cmpxchg", "add", "stopped">>
  BY <1>5, StopRetried DEF StopLeft
<1>6. CASE t = <<"add", "stopped">>
  BY <1>6 DEF StopLeft
<1>7. CASE t = <<"stopped">>
  BY <1>7 DEF StopLeft
<1> QED BY <1>1, <1>2, <1>3, <1>4, <1>5, <1>6, <1>7 DEF StopLeft

\* How a start goes on.
LEMMA StartPlaces ==
  ASSUME NEW t \in StartLeft
  PROVE  /\ t # <<>> /\ t[Len(t)] = "run"
         /\ Head(t) \in {"hi", "lo", "again", "set", "run"}
         /\ Head(t) = "hi" => Tail(t) \in StartLeft /\ Head(Tail(t)) = "lo"
         /\ Head(t) = "lo" => Tail(t) \in StartLeft /\ Head(Tail(t)) = "again"
         /\ Head(t) = "again" => /\ Tail(t) \in StartLeft /\ Head(Tail(t)) = "set"
                                /\ counter \o Tail(t) \in StartLeft /\ Head(counter \o Tail(t)) = "hi"
         /\ Head(t) = "set" => Tail(t) \in StartLeft /\ Head(Tail(t)) = "run"
         /\ Head(t) = "run" => Tail(t) = <<>>
<1>1. CASE t = <<"hi", "lo", "again", "set", "run">>
  BY <1>1 DEF StartLeft
<1>2. CASE t = <<"lo", "again", "set", "run">>
  BY <1>2 DEF StartLeft
<1>3. CASE t = <<"again", "set", "run">>
  <2>1. Tail(t) = <<"set", "run">> /\ Head(t) = "again" /\ t # <<>> /\ t[Len(t)] = "run"
    BY <1>3
  <2>2. Tail(t) \in StartLeft /\ Head(Tail(t)) = "set"
    BY <2>1 DEF StartLeft
  <2>3. counter \o Tail(t) \in StartLeft /\ Head(counter \o Tail(t)) = "hi"
    <3>1. counter \o Tail(t) = <<"hi", "lo", "again", "set", "run">>
      BY <2>1, StartAgain, Zenon
    <3>2. <<"hi", "lo", "again", "set", "run">> \in StartLeft /\ Head(<<"hi", "lo", "again", "set", "run">>) = "hi"
      BY DEF StartLeft
    <3> QED BY <3>1, <3>2, Zenon
  <2> QED BY <2>1, <2>2, <2>3
<1>4. CASE t = <<"set", "run">>
  BY <1>4 DEF StartLeft
<1>5. CASE t = <<"run">>
  BY <1>5 DEF StartLeft
<1> QED BY <1>1, <1>2, <1>3, <1>4, <1>5 DEF StartLeft

\* Where the calls begin.
LEMMA WholeCalls ==
  /\ update \in UpdateLeft /\ Head(update) = "old"
  /\ stop \in StopLeft /\ Head(stop) = "old"
  /\ start \in StartLeft /\ Head(start) = "hi"
<1>1. update = <<"old", "hi", "lo", "again", "cmpxchg", "add">>
  BY UpdateRetried DEF update
<1>2. stop = <<"old", "hi", "lo", "again", "cmpxchg", "add", "stopped">>
  BY StopWhole DEF stop
<1>3. start = <<"hi", "lo", "again", "set", "run">>
  BY StartAgain DEF start
<1> QED BY <1>1, <1>2, <1>3 DEF UpdateLeft, StopLeft, StartLeft

-----------------------------------------------------------------------------
(* What the calls in progress have not added yet *)

Frame == [todo : Left, old : Int, hi : Nat, lo : 0 .. HALF - 1]

\* The difference a call is about to add.
Gain(frame) == IF Head(frame.todo) = "add" THEN Read(frame) - frame.old ELSE 0

\* s is the sum of the differences that the calls of a stack are about to add.
Pending(stack, s) ==
  \E sum \in [0 .. Len(stack) -> Int] :
     /\ sum[0] = 0 /\ sum[Len(stack)] = s
     /\ \A i \in 1 .. Len(stack) : sum[i] = sum[i - 1] + Gain(stack[i])

\* A difference is a number.
LEMMA GainType ==
  ASSUME CounterAssumption, NEW frame \in Frame
  PROVE  Gain(frame) \in Int /\ Read(frame) \in Nat
BY DEF Frame, Gain, Read, CounterAssumption

\* Nothing is pending without a call.
LEMMA NothingPending == Pending(<<>>, 0) /\ \A s : Pending(<<>>, s) => s = 0
<1>1. Pending(<<>>, 0)
  <2> DEFINE sum == [k \in 0 .. Len(<<>>) |-> 0]
  <2>1. sum \in [0 .. Len(<<>>) -> Int] /\ sum[0] = 0 /\ sum[Len(<<>>)] = 0 /\ 1 .. Len(<<>>) = {}
    OBVIOUS
  <2> QED BY <2>1 DEF Pending
<1>2. Len(<<>>) = 0
  OBVIOUS
<1> QED BY <1>1, <1>2 DEF Pending

\* A single call.
LEMMA OnePending ==
  ASSUME NEW stack \in Seq(Frame), Len(stack) = 1, NEW s, Pending(stack, s), CounterAssumption
  PROVE  s = Gain(stack[1])
<1>1. stack[1] \in Frame
  BY ElementOfSeq
<1>2. Gain(stack[1]) \in Int
  BY <1>1, GainType
<1> QED BY <1>2 DEF Pending

\* A call inside the others.
LEMMA PendingAppend ==
  ASSUME NEW stack \in Seq(Frame), NEW s \in Int, Pending(stack, s), NEW frame \in Frame,
         CounterAssumption
  PROVE  Pending(Append(stack, frame), s + Gain(frame))
<1>1. PICK sum \in [0 .. Len(stack) -> Int] :
        /\ sum[0] = 0 /\ sum[Len(stack)] = s
        /\ \A i \in 1 .. Len(stack) : sum[i] = sum[i - 1] + Gain(stack[i])
  BY DEF Pending
<1>2. PICK n \in Nat : n = Len(stack)
  OBVIOUS
<1>3. PICK longer \in Seq(Frame) : /\ longer = Append(stack, frame) /\ Len(longer) = n + 1
                                   /\ longer[n + 1] = frame
                                   /\ \A i \in 1 .. n : longer[i] = stack[i]
  <2>1. /\ Append(stack, frame) \in Seq(Frame) /\ Len(Append(stack, frame)) = n + 1
        /\ Append(stack, frame)[n + 1] = frame
        /\ \A i \in 1 .. n : Append(stack, frame)[i] = stack[i]
    BY <1>2
  <2> QED BY <2>1
<1>4. PICK g \in Int : g = Gain(frame)
  BY GainType
<1> DEFINE more == [k \in 0 .. n + 1 |-> IF k = n + 1 THEN s + g ELSE sum[k]]
<1>5. more \in [0 .. n + 1 -> Int] /\ more[0] = 0 /\ more[n + 1] = s + g
  BY <1>1, <1>2
<1>6. ASSUME NEW i \in 1 .. n + 1 PROVE more[i] = more[i - 1] + Gain(longer[i])
  <2>1. CASE i = n + 1
    BY <1>1, <1>2, <1>3, <1>4, <2>1
  <2>2. CASE i # n + 1
    <3>1. i \in 1 .. n /\ i - 1 \in 0 .. n /\ i - 1 # n + 1
      BY <2>2
    <3>2. more[i] = sum[i] /\ more[i - 1] = sum[i - 1]
      BY <2>2, <3>1
    <3> QED BY <1>1, <1>2, <1>3, <3>1, <3>2
  <2> QED BY <2>1, <2>2
<1> HIDE DEF more
<1>7. Pending(longer, s + g)
  BY ZenonT(30), <1>3, <1>5, <1>6 DEF Pending
<1> QED BY <1>3, <1>4, <1>7

\* The innermost call goes on.
LEMMA PendingReplace ==
  ASSUME NEW stack \in Seq(Frame), stack # <<>>, NEW s \in Int, Pending(stack, s),
         NEW frame \in Frame, CounterAssumption
  PROVE  Pending([stack EXCEPT ![Len(stack)] = frame], s - Gain(stack[Len(stack)]) + Gain(frame))
<1>1. PICK sum \in [0 .. Len(stack) -> Int] :
        /\ sum[0] = 0 /\ sum[Len(stack)] = s
        /\ \A i \in 1 .. Len(stack) : sum[i] = sum[i - 1] + Gain(stack[i])
  BY DEF Pending
<1>2. PICK n \in Nat \ {0} : n = Len(stack)
  BY EmptySeq
<1>3. PICK next \in Seq(Frame) : /\ next = [stack EXCEPT ![n] = frame] /\ Len(next) = n
                                 /\ next[n] = frame
                                 /\ \A i \in 1 .. n - 1 : next[i] = stack[i]
  <2>1. /\ [stack EXCEPT ![n] = frame] \in Seq(Frame) /\ Len([stack EXCEPT ![n] = frame]) = n
        /\ \A j \in 1 .. n : [stack EXCEPT ![n] = frame][j] = IF j = n THEN frame ELSE stack[j]
    <3>1. n \in 1 .. Len(stack)
      BY <1>2
    <3> QED BY <1>2, <3>1, ExceptSeq
  <2> QED BY <2>1
<1>4. PICK g \in Int, h \in Int : g = Gain(frame) /\ h = Gain(stack[n])
  BY <1>2, GainType
<1> DEFINE new == [k \in 0 .. n |-> IF k = n THEN s - h + g ELSE sum[k]]
<1>5. new \in [0 .. n -> Int] /\ new[0] = 0 /\ new[n] = s - h + g
  BY <1>1, <1>2
<1>6. ASSUME NEW i \in 1 .. n PROVE new[i] = new[i - 1] + Gain(next[i])
  <2>1. CASE i = n
    <3>1. sum[n] = sum[n - 1] + h /\ sum[n - 1] \in Int /\ new[n - 1] = sum[n - 1]
      BY SMTT(30), <1>1, <1>2, <1>4
    <3> QED BY <1>1, <1>2, <1>3, <1>4, <1>5, <2>1, <3>1
  <2>2. CASE i # n
    <3>1. i \in 1 .. n - 1 /\ i - 1 \in 0 .. n - 1
      BY <2>2
    <3>2. new[i] = sum[i] /\ new[i - 1] = sum[i - 1]
      BY <2>2, <3>1
    <3> QED BY <1>1, <1>2, <1>3, <3>1, <3>2
  <2> QED BY <2>1, <2>2
<1> HIDE DEF new
<1>7. Pending(next, s - h + g)
  <2>1. Len(next) = n /\ \A i \in 1 .. Len(next) : new[i] = new[i - 1] + Gain(next[i])
    BY <1>3, <1>6
  <2>2. new \in [0 .. Len(next) -> Int] /\ new[0] = 0 /\ new[Len(next)] = s - h + g
    BY <1>5, <2>1
  <2> QED BY <2>1, <2>2 DEF Pending
<1> QED BY <1>2, <1>3, <1>4, <1>7

\* The innermost call returns.
LEMMA PendingReturn ==
  ASSUME NEW stack \in Seq(Frame), stack # <<>>, NEW s \in Int, Pending(stack, s), CounterAssumption
  PROVE  Pending(SubSeq(stack, 1, Len(stack) - 1), s - Gain(stack[Len(stack)]))
<1>1. PICK sum \in [0 .. Len(stack) -> Int] :
        /\ sum[0] = 0 /\ sum[Len(stack)] = s
        /\ \A i \in 1 .. Len(stack) : sum[i] = sum[i - 1] + Gain(stack[i])
  BY DEF Pending
<1>2. PICK n \in Nat : n + 1 = Len(stack)
  <2>1. Len(stack) \in Nat \ {0}
    BY EmptySeq
  <2> QED BY <2>1
<1>3. PICK below \in Seq(Frame) : /\ below = SubSeq(stack, 1, Len(stack) - 1) /\ Len(below) = n
                                  /\ \A i \in 1 .. n : below[i] = stack[i]
  BY <1>2
<1>4. PICK h \in Int : h = Gain(stack[n + 1])
  BY <1>2, GainType
<1> DEFINE less == [k \in 0 .. n |-> sum[k]]
<1>5. less \in [0 .. n -> Int] /\ less[0] = 0 /\ less[n] = s - h
  <2>1. sum[n + 1] = sum[n] + h
    BY <1>1, <1>2, <1>4
  <2>2. sum[n] \in Int /\ sum[n + 1] = s
    <3>1. n \in 0 .. Len(stack)
      BY <1>2
    <3> QED BY <1>1, <1>2, <3>1
  <2>3. less[n] = s - h
    BY <1>4, <2>1, <2>2
  <2> QED BY SMTT(30), <1>1, <1>2, <2>3
<1>6. ASSUME NEW i \in 1 .. n PROVE less[i] = less[i - 1] + Gain(below[i])
  BY <1>1, <1>2, <1>3
<1> HIDE DEF less
<1>7. Pending(below, s - h)
  BY <1>3, <1>5, <1>6 DEF Pending
<1> QED BY <1>2, <1>3, <1>4, <1>7

-----------------------------------------------------------------------------
(* The invariant *)

Types ==
  /\ counter_hi \in Nat /\ counter_lo \in 0 .. HALF - 1
  /\ stopped \in BOOLEAN /\ prev_count \in Int /\ count \in Int
  /\ within \in Int /\ around \in Int
  /\ calls \in Seq(Frame)

\* Only updates are in progress: the event has seen what happened while it was
\* started.  A stopped event is not updated.
Updating(seen) ==
  /\ \A i \in 1 .. Len(calls) : calls[i].todo \in UpdateLeft
  /\ ~stopped => seen + Counter \in within .. around
  /\ stopped => calls = <<>> /\ count \in within .. around

\* start() is in progress: what it has read, if it is going to keep it, is not
\* from before the call and not from the future.
Starting ==
  /\ stopped /\ Len(calls) = 1 /\ calls[1].todo \in StartLeft
  /\ LET c == calls[1]
         place == Head(c.todo)
     IN /\ place # "run" => count \in within .. around
        /\ place \in {"lo", "again"} => c.hi <= counter_hi
        /\ place = "again" /\ c.hi = counter_hi =>
             c.lo <= counter_lo /\ count + Counter - Read(c) <= around
        /\ place = "set" => Read(c) <= Counter /\ count + Counter - Read(c) <= around
        /\ place = "run" => count + Counter - prev_count \in within .. around

\* stop() is in progress: the same of what it reads; once prev_count is what it
\* has read, what happens is no longer seen.
Stopping(seen) ==
  /\ ~stopped /\ Len(calls) = 1 /\ calls[1].todo \in StopLeft
  /\ LET c == calls[1]
         place == Head(c.todo)
     IN /\ place \notin {"add", "stopped"} => seen + Counter \in within .. around
        /\ place \in {"lo", "again"} => c.hi <= counter_hi
        /\ place = "again" /\ c.hi = counter_hi => c.lo <= counter_lo /\ seen + Read(c) >= within
        /\ place = "cmpxchg" => Read(c) <= Counter /\ seen + Read(c) >= within
        /\ place \in {"add", "stopped"} => seen + prev_count \in within .. around

Seen(s) == count + s - prev_count
Books == \E s \in Int : Pending(calls, s) /\ (Updating(Seen(s)) \/ Starting \/ Stopping(Seen(s)))

CountersInv == Types /\ Books

-----------------------------------------------------------------------------
(* Steps of the stack *)

\* A call that goes on.
LEMMA Continues ==
  ASSUME CounterAssumption, Types, calls # <<>>, NEW frame \in Frame, Go(frame),
         NEW s \in Int, Pending(calls, s)
  PROVE  /\ calls' \in Seq(Frame) /\ Len(calls') = Len(calls) /\ calls'[Len(calls)] = frame
         /\ \A i \in 1 .. Len(calls) - 1 : calls'[i] = calls[i]
         /\ Pending(calls', s - Gain(Current) + Gain(frame))
<1>1. frame.todo # <<>>
  BY UpdatePlaces, StopPlaces, StartPlaces DEF Frame, Left
<1>2. calls' = [calls EXCEPT ![Len(calls)] = frame]
  BY <1>1 DEF Go
<1>3. Pending(calls', s - Gain(Current) + Gain(frame))
  BY <1>2, PendingReplace DEF Types, Current
<1>4. Len(calls) \in Nat \ {0}
  BY EmptySeq DEF Types
<1> QED BY <1>2, <1>3, <1>4 DEF Types

\* A call that returns.
LEMMA Returns ==
  ASSUME CounterAssumption, Types, calls # <<>>, NEW frame, frame.todo = <<>>, Go(frame),
         NEW s \in Int, Pending(calls, s)
  PROVE  /\ calls' \in Seq(Frame) /\ Len(calls') = Len(calls) - 1
         /\ \A i \in 1 .. Len(calls) - 1 : calls'[i] = calls[i]
         /\ Pending(calls', s - Gain(Current))
<1>2. calls' = SubSeq(calls, 1, Len(calls) - 1)
  BY DEF Go
<1>3. Pending(calls', s - Gain(Current))
  BY <1>2, PendingReturn DEF Types, Current
<1>4. PICK n \in Nat : n + 1 = Len(calls)
  <2>1. Len(calls) \in Nat \ {0}
    BY EmptySeq DEF Types
  <2>2. Len(calls) - 1 \in Nat /\ (Len(calls) - 1) + 1 = Len(calls)
    BY <2>1
  <2> QED BY <2>2
<1> QED BY <1>2, <1>3, <1>4 DEF Types

\* What a step of update() must keep.
LEMMA UpdatingContinues ==
  ASSUME CounterAssumption, Types, calls # <<>>, NEW s \in Int, Pending(calls, s), Updating(Seen(s)),
         NEW frame \in Frame, frame.todo \in UpdateLeft, Go(frame),
         UNCHANGED <<counter_hi, counter_lo, stopped, within, around>>,
         count' \in Int, prev_count' \in Int,
         count' - prev_count' + Gain(frame) = count - prev_count + Gain(Current)
  PROVE  CountersInv'
<1>1. /\ calls' \in Seq(Frame) /\ Len(calls') = Len(calls) /\ calls'[Len(calls)] = frame
      /\ \A i \in 1 .. Len(calls) - 1 : calls'[i] = calls[i]
      /\ Pending(calls', s - Gain(Current) + Gain(frame))
  BY Continues
<1>2. Current \in Frame
  BY EmptySeq, ElementOfSeq DEF Types, Current
<1>3. PICK g \in Int, h \in Int : g = Gain(frame) /\ h = Gain(Current)
  BY <1>2, GainType
<1>4. Seen(s - h + g)' = Seen(s)
  <2>1. PICK c \in Int, p \in Int : c = count' /\ p = prev_count'
    OBVIOUS
  <2>2. c - p + g = count - prev_count + h
    BY <1>3, <2>1
  <2>3. count \in Int /\ prev_count \in Int
    BY DEF Types
  <2>4. c + (s - h + g) - p = count + s - prev_count
    BY <2>2, <2>3
  <2> QED BY <2>1, <2>4 DEF Seen
<1>5. ~stopped /\ Counter' = Counter
  BY DEF Updating, Counter
<1>6. \A i \in 1 .. Len(calls') : calls'[i].todo \in UpdateLeft
  BY SMTT(30), <1>1 DEF Updating, Types
<1>7. Updating(Seen(s - h + g))'
  BY <1>4, <1>5, <1>6 DEF Updating
<1>8. s - h + g \in Int /\ Pending(calls', s - h + g)
  BY <1>1, <1>3
<1>9. Books'
  BY <1>7, <1>8 DEF Books
<1> QED BY <1>1, <1>9 DEF CountersInv, Types

\* What the end of update() must keep.
LEMMA UpdatingReturns ==
  ASSUME CounterAssumption, Types, calls # <<>>, NEW s \in Int, Pending(calls, s), Updating(Seen(s)),
         NEW frame, frame.todo = <<>>, Go(frame),
         UNCHANGED <<counter_hi, counter_lo, stopped, within, around>>,
         count' \in Int, prev_count' \in Int,
         count' - prev_count' = count - prev_count + Gain(Current)
  PROVE  CountersInv'
<1>1. /\ calls' \in Seq(Frame) /\ Len(calls') = Len(calls) - 1
      /\ \A i \in 1 .. Len(calls) - 1 : calls'[i] = calls[i]
      /\ Pending(calls', s - Gain(Current))
  BY Returns
<1>2. Current \in Frame
  BY EmptySeq, ElementOfSeq DEF Types, Current
<1>3. PICK h \in Int : h = Gain(Current)
  BY <1>2, GainType
<1>4. Seen(s - h)' = Seen(s)
  BY SMTT(30), <1>3 DEF Seen, Types
<1>5. ~stopped /\ Counter' = Counter
  BY DEF Updating, Counter
<1>6. \A i \in 1 .. Len(calls') : calls'[i].todo \in UpdateLeft
  BY SMTT(30), <1>1 DEF Updating, Types
<1>7. Updating(Seen(s - h))'
  BY <1>4, <1>5, <1>6 DEF Updating
<1>8. s - h \in Int /\ Pending(calls', s - h)
  BY <1>1, <1>3
<1>9. Books'
  BY <1>7, <1>8 DEF Books
<1> QED BY <1>1, <1>9 DEF CountersInv, Types

\* start() and stop() are alone.
LEMMA AloneContinues ==
  ASSUME CounterAssumption, Types, Len(calls) = 1, NEW frame \in Frame, Go(frame),
         NEW s \in Int, Pending(calls, s)
  PROVE  /\ calls' \in Seq(Frame) /\ Len(calls') = 1 /\ calls'[1] = frame
         /\ Pending(calls', Gain(frame)) /\ s = Gain(calls[1])
<1>1. calls # <<>> /\ Current = calls[1] /\ calls[1] \in Frame
  BY ElementOfSeq DEF Types, Current
<1>2. s = Gain(calls[1])
  BY OnePending DEF Types
<1>3. s - Gain(Current) + Gain(frame) = Gain(frame)
  BY <1>1, <1>2, GainType
<1>4. /\ calls' \in Seq(Frame) /\ Len(calls') = 1 /\ calls'[1] = frame
      /\ Pending(calls', s - Gain(Current) + Gain(frame))
  BY <1>1, Continues
<1> QED BY <1>2, <1>3, <1>4

-----------------------------------------------------------------------------
(* The steps *)

\* What the invariant says of the call that takes a step.
LEMMA InCall ==
  ASSUME CounterAssumption, Types, NEW s \in Int, Updating(Seen(s)) \/ Starting \/ Stopping(Seen(s)),
         calls # <<>>
  PROVE  /\ Current \in Frame
         /\ Current = [todo |-> Current.todo, old |-> Current.old, hi |-> Current.hi, lo |-> Current.lo]
         /\ Updating(Seen(s)) => Current.todo \in UpdateLeft
         /\ Starting => Current.todo \in StartLeft /\ Current = calls[1]
         /\ Stopping(Seen(s)) => Current.todo \in StopLeft /\ Current = calls[1]
         /\ Counter \in Nat /\ Seen(s) \in Int
<1>1. Len(calls) \in 1 .. Len(calls)
  BY EmptySeq DEF Types
<1>2. Current \in Frame
  BY <1>1, ElementOfSeq DEF Types, Current
<1>3. Counter \in Nat
  BY DEF Counter, Types, CounterAssumption
<1> QED BY <1>1, <1>2, <1>3 DEF Updating, Starting, Stopping, Current, Frame, Seen, Types

\* The high half is read.
LEMMA ReadHighInv ==
  ASSUME CounterAssumption, CountersInv, ReadHigh
  PROVE  CountersInv'
<1>1. PICK s \in Int : Pending(calls, s) /\ (Updating(Seen(s)) \/ Starting \/ Stopping(Seen(s)))
  BY DEF CountersInv, Books
<1>2. calls # <<>> /\ Head(Current.todo) = "hi" /\ Types
  BY DEF ReadHigh, At, CountersInv
<1>3. /\ Current \in Frame
      /\ Current = [todo |-> Current.todo, old |-> Current.old, hi |-> Current.hi, lo |-> Current.lo]
      /\ Counter \in Nat /\ Seen(s) \in Int
  BY <1>1, <1>2, InCall
<1>4. Gain(Current) = 0
  BY <1>2 DEF Gain
<1>5. PICK f : f = [Current EXCEPT !.hi = counter_hi, !.todo = Tail(@)]
  OBVIOUS
<1>6. /\ f = [todo |-> Tail(Current.todo), old |-> Current.old, hi |-> counter_hi, lo |-> Current.lo]
      /\ f.todo = Tail(Current.todo) /\ f.old = Current.old /\ f.hi = counter_hi /\ f.lo = Current.lo
  BY <1>3, <1>5
<1>7. Go(f) /\ UNCHANGED <<counter_hi, counter_lo, stopped, prev_count, count, within, around>>
  BY <1>3, <1>5 DEF ReadHigh, Then, event
<1>8. Counter' = Counter
  BY <1>7 DEF Counter
<1>9. CASE Updating(Seen(s))
  <2>1. f.todo \in UpdateLeft /\ Head(f.todo) = "lo"
    BY <1>1, <1>2, <1>6, <1>9, InCall, UpdatePlaces
  <2>2. f \in Frame /\ Gain(f) = 0
    BY <1>2, <1>3, <1>6, <2>1 DEF Frame, Left, Gain, Types
  <2> QED BY <1>1, <1>2, <1>4, <1>7, <1>9, <2>1, <2>2, UpdatingContinues DEF Types
<1>10. CASE Starting
  <2>1. f.todo \in StartLeft /\ Head(f.todo) = "lo" /\ Current = calls[1]
    BY <1>1, <1>2, <1>6, <1>10, InCall, StartPlaces
  <2>2. f \in Frame /\ Gain(f) = 0
    BY <1>2, <1>3, <1>6, <2>1 DEF Frame, Left, Gain, Types
  <2>3. calls' \in Seq(Frame) /\ Len(calls') = 1 /\ calls'[1] = f /\ Pending(calls', 0) /\ s = 0
    BY <1>1, <1>2, <1>4, <1>7, <1>10, <2>1, <2>2, AloneContinues DEF Starting
  <2>4. count \in within .. around /\ stopped /\ f.hi <= counter_hi
    BY <1>2, <1>3, <1>6, <1>10, <2>1 DEF Starting, Types
  <2>5. Starting'
    BY <1>7, <1>8, <2>1, <2>3, <2>4 DEF Starting
  <2> QED BY <1>2, <1>7, <2>3, <2>5 DEF CountersInv, Types, Books
<1>11. CASE Stopping(Seen(s))
  <2>1. f.todo \in StopLeft /\ Head(f.todo) = "lo" /\ Current = calls[1]
    BY <1>1, <1>2, <1>6, <1>11, InCall, StopPlaces
  <2>2. f \in Frame /\ Gain(f) = 0
    BY <1>2, <1>3, <1>6, <2>1 DEF Frame, Left, Gain, Types
  <2>3. calls' \in Seq(Frame) /\ Len(calls') = 1 /\ calls'[1] = f /\ Pending(calls', 0) /\ s = 0
    BY <1>1, <1>2, <1>4, <1>7, <1>11, <2>1, <2>2, AloneContinues DEF Stopping
  <2>4. Seen(s) + Counter \in within .. around /\ ~stopped /\ f.hi <= counter_hi
    BY <1>2, <1>3, <1>6, <1>11, <2>1 DEF Stopping, Types
  <2>5. Seen(0)' = Seen(s)
    BY <1>7, <2>3 DEF Seen
  <2>6. Stopping(Seen(0))'
    BY <1>7, <1>8, <2>1, <2>3, <2>4, <2>5 DEF Stopping
  <2> QED BY <1>2, <1>7, <2>3, <2>6 DEF CountersInv, Types, Books
<1> QED BY <1>1, <1>9, <1>10, <1>11

\* The low half is read: if the high half is still what was read, the two are the counter.
LEMMA ReadLowInv ==
  ASSUME CounterAssumption, CountersInv, ReadLow
  PROVE  CountersInv'
<1>1. PICK s \in Int : Pending(calls, s) /\ (Updating(Seen(s)) \/ Starting \/ Stopping(Seen(s)))
  BY DEF CountersInv, Books
<1>2. calls # <<>> /\ Head(Current.todo) = "lo" /\ Types
  BY DEF ReadLow, At, CountersInv
<1>3. /\ Current \in Frame
      /\ Current = [todo |-> Current.todo, old |-> Current.old, hi |-> Current.hi, lo |-> Current.lo]
      /\ Counter \in Nat /\ Seen(s) \in Int
  BY <1>1, <1>2, InCall
<1>4. Gain(Current) = 0
  BY <1>2 DEF Gain
<1>5. PICK f : f = [Current EXCEPT !.lo = counter_lo, !.todo = Tail(@)]
  OBVIOUS
<1>6. /\ f = [todo |-> Tail(Current.todo), old |-> Current.old, hi |-> Current.hi, lo |-> counter_lo]
      /\ f.todo = Tail(Current.todo) /\ f.old = Current.old /\ f.hi = Current.hi /\ f.lo = counter_lo
  BY <1>3, <1>5
<1>7. Go(f) /\ UNCHANGED <<counter_hi, counter_lo, stopped, prev_count, count, within, around>>
  BY <1>3, <1>5 DEF ReadLow, Then, event
<1>8. Counter' = Counter
  BY <1>7 DEF Counter
<1>9. CASE Updating(Seen(s))
  <2>1. f.todo \in UpdateLeft /\ Head(f.todo) = "again"
    BY <1>1, <1>2, <1>6, <1>9, InCall, UpdatePlaces
  <2>2. f \in Frame /\ Gain(f) = 0
    BY <1>2, <1>3, <1>6, <2>1 DEF Frame, Left, Gain, Types
  <2> QED BY <1>1, <1>2, <1>4, <1>7, <1>9, <2>1, <2>2, UpdatingContinues DEF Types
<1>10. CASE Starting
  <2>1. f.todo \in StartLeft /\ Head(f.todo) = "again" /\ Current = calls[1]
    BY <1>1, <1>2, <1>6, <1>10, InCall, StartPlaces
  <2>2. f \in Frame /\ Gain(f) = 0
    BY <1>2, <1>3, <1>6, <2>1 DEF Frame, Left, Gain, Types
  <2>3. calls' \in Seq(Frame) /\ Len(calls') = 1 /\ calls'[1] = f /\ Pending(calls', 0) /\ s = 0
    BY <1>1, <1>2, <1>4, <1>7, <1>10, <2>1, <2>2, AloneContinues DEF Starting
  <2>4. /\ count \in within .. around /\ stopped /\ f.hi <= counter_hi
        /\ f.hi = counter_hi => f.lo <= counter_lo /\ count + Counter - Read(f) <= around
    BY <1>2, <1>3, <1>6, <1>10, <2>1 DEF Starting, Types, Read, Counter
  <2>5. Starting'
    BY <1>7, <1>8, <2>1, <2>3, <2>4 DEF Starting, Read
  <2> QED BY <1>2, <1>7, <2>3, <2>5 DEF CountersInv, Types, Books
<1>11. CASE Stopping(Seen(s))
  <2>1. f.todo \in StopLeft /\ Head(f.todo) = "again" /\ Current = calls[1]
    BY <1>1, <1>2, <1>6, <1>11, InCall, StopPlaces
  <2>2. f \in Frame /\ Gain(f) = 0
    BY <1>2, <1>3, <1>6, <2>1 DEF Frame, Left, Gain, Types
  <2>3. calls' \in Seq(Frame) /\ Len(calls') = 1 /\ calls'[1] = f /\ Pending(calls', 0) /\ s = 0
    BY <1>1, <1>2, <1>4, <1>7, <1>11, <2>1, <2>2, AloneContinues DEF Stopping
  <2>4. /\ Seen(s) + Counter \in within .. around /\ ~stopped /\ f.hi <= counter_hi
        /\ f.hi = counter_hi => f.lo <= counter_lo /\ Seen(s) + Read(f) >= within
    <3>1. Seen(s) + Counter \in within .. around /\ ~stopped /\ f.hi <= counter_hi
      BY <1>2, <1>3, <1>6, <1>11, <2>1 DEF Stopping, Types
    <3>2. f.hi = counter_hi => f.lo <= counter_lo /\ Read(f) = Counter
      BY <1>2, <1>6 DEF Types, Read, Counter
    <3> QED BY <1>2, <1>3, <3>1, <3>2 DEF Types
  <2>5. Seen(0)' = Seen(s)
    BY <1>7, <2>3 DEF Seen
  <2>6. Stopping(Seen(0))'
    BY <1>7, <1>8, <2>1, <2>3, <2>4, <2>5 DEF Stopping, Read
  <2> QED BY <1>2, <1>7, <2>3, <2>6 DEF CountersInv, Types, Books
<1> QED BY <1>1, <1>9, <1>10, <1>11

\* An update remembers prev_count.
LEMMA LoadPreviousInv ==
  ASSUME CounterAssumption, CountersInv, LoadPrevious
  PROVE  CountersInv'
<1>1. PICK s \in Int : Pending(calls, s) /\ (Updating(Seen(s)) \/ Starting \/ Stopping(Seen(s)))
  BY DEF CountersInv, Books
<1>2. calls # <<>> /\ Head(Current.todo) = "old" /\ Types
  BY DEF LoadPrevious, At, CountersInv
<1>3. /\ Current \in Frame
      /\ Current = [todo |-> Current.todo, old |-> Current.old, hi |-> Current.hi, lo |-> Current.lo]
      /\ Counter \in Nat /\ Seen(s) \in Int
  BY <1>1, <1>2, InCall
<1>4. Gain(Current) = 0
  BY <1>2 DEF Gain
<1>5. PICK f : f = [Current EXCEPT !.old = prev_count, !.todo = Tail(@)]
  OBVIOUS
<1>6. /\ f = [todo |-> Tail(Current.todo), old |-> prev_count, hi |-> Current.hi, lo |-> Current.lo]
      /\ f.todo = Tail(Current.todo) /\ f.old = prev_count /\ f.hi = Current.hi /\ f.lo = Current.lo
  BY <1>3, <1>5
<1>7. Go(f) /\ UNCHANGED <<counter_hi, counter_lo, stopped, prev_count, count, within, around>>
  BY <1>3, <1>5 DEF LoadPrevious, Then, event
<1>8. Counter' = Counter
  BY <1>7 DEF Counter
<1>9. CASE Updating(Seen(s))
  <2>1. f.todo \in UpdateLeft /\ Head(f.todo) = "hi"
    BY <1>1, <1>2, <1>6, <1>9, InCall, UpdatePlaces
  <2>2. f \in Frame /\ Gain(f) = 0
    BY <1>2, <1>3, <1>6, <2>1 DEF Frame, Left, Gain, Types
  <2> QED BY <1>1, <1>2, <1>4, <1>7, <1>9, <2>1, <2>2, UpdatingContinues DEF Types
<1>10. CASE Starting
  BY <1>1, <1>2, <1>10, InCall, StartPlaces
<1>11. CASE Stopping(Seen(s))
  <2>1. f.todo \in StopLeft /\ Head(f.todo) = "hi" /\ Current = calls[1]
    BY <1>1, <1>2, <1>6, <1>11, InCall, StopPlaces
  <2>2. f \in Frame /\ Gain(f) = 0
    BY <1>2, <1>3, <1>6, <2>1 DEF Frame, Left, Gain, Types
  <2>3. calls' \in Seq(Frame) /\ Len(calls') = 1 /\ calls'[1] = f /\ Pending(calls', 0) /\ s = 0
    BY <1>1, <1>2, <1>4, <1>7, <1>11, <2>1, <2>2, AloneContinues DEF Stopping
  <2>4. Seen(s) + Counter \in within .. around /\ ~stopped
    BY <1>2, <1>3, <1>6, <1>11, <2>1 DEF Stopping, Types
  <2>5. Seen(0)' = Seen(s)
    BY <1>7, <2>3 DEF Seen
  <2>6. Stopping(Seen(0))'
    BY <1>7, <1>8, <2>1, <2>3, <2>4, <2>5 DEF Stopping
  <2> QED BY <1>2, <1>7, <2>3, <2>6 DEF CountersInv, Types, Books
<1> QED BY <1>1, <1>9, <1>10, <1>11

\* The high half is read again: the value is kept if it has not changed.
LEMMA ReadAgainInv ==
  ASSUME CounterAssumption, CountersInv, ReadAgain
  PROVE  CountersInv'
<1>1. PICK s \in Int : Pending(calls, s) /\ (Updating(Seen(s)) \/ Starting \/ Stopping(Seen(s)))
  BY DEF CountersInv, Books
<1>2. calls # <<>> /\ Head(Current.todo) = "again" /\ Types
  BY DEF ReadAgain, At, CountersInv
<1>3. /\ Current \in Frame
      /\ Current = [todo |-> Current.todo, old |-> Current.old, hi |-> Current.hi, lo |-> Current.lo]
      /\ Counter \in Nat /\ Seen(s) \in Int
  BY <1>1, <1>2, InCall
<1>4. Gain(Current) = 0
  BY <1>2 DEF Gain
<1> DEFINE kept == Current.hi = counter_hi
<1>5. PICK f : f = [Current EXCEPT !.todo = IF kept THEN Tail(@) ELSE counter \o Tail(@)]
  OBVIOUS
<1>6. /\ f = [todo |-> f.todo, old |-> Current.old, hi |-> Current.hi, lo |-> Current.lo]
      /\ f.old = Current.old /\ f.hi = Current.hi /\ f.lo = Current.lo
      /\ f.todo = IF kept THEN Tail(Current.todo) ELSE counter \o Tail(Current.todo)
  BY <1>3, <1>5
<1>7. Go(f) /\ UNCHANGED <<counter_hi, counter_lo, stopped, prev_count, count, within, around>>
  <2>1. CASE kept
    BY <1>3, <1>5, <2>1 DEF ReadAgain, Then, event
  <2>2. CASE ~kept
    BY <1>3, <1>5, <2>2 DEF ReadAgain, event
  <2> QED BY <2>1, <2>2
<1>8. Counter' = Counter
  BY <1>7 DEF Counter
<1>9. CASE Updating(Seen(s))
  <2>1. f.todo \in UpdateLeft /\ Head(f.todo) \in {"hi", "cmpxchg"}
    BY <1>1, <1>2, <1>6, <1>9, InCall, UpdatePlaces
  <2>2. f \in Frame /\ Gain(f) = 0
    BY <1>2, <1>3, <1>6, <2>1 DEF Frame, Left, Gain, Types
  <2> QED BY <1>1, <1>2, <1>4, <1>7, <1>9, <2>1, <2>2, UpdatingContinues DEF Types
<1>10. CASE Starting
  <2>1. /\ f.todo \in StartLeft /\ Head(f.todo) = (IF kept THEN "set" ELSE "hi")
        /\ Current = calls[1]
    <3>1. Current.todo \in StartLeft /\ Current = calls[1]
      BY <1>1, <1>2, <1>10, InCall
    <3>2. CASE kept
      BY <1>2, <1>6, <3>1, <3>2, StartPlaces
    <3>3. CASE ~kept
      BY <1>2, <1>6, <3>1, <3>3, StartPlaces
    <3> QED BY <3>1, <3>2, <3>3
  <2>2. f \in Frame /\ Gain(f) = 0
    BY <1>2, <1>3, <1>6, <2>1 DEF Frame, Left, Gain, Types
  <2>3. calls' \in Seq(Frame) /\ Len(calls') = 1 /\ calls'[1] = f /\ Pending(calls', 0) /\ s = 0
    BY <1>1, <1>2, <1>4, <1>7, <1>10, <2>1, <2>2, AloneContinues DEF Starting
  <2>4. /\ count \in within .. around /\ stopped
        /\ kept => Read(f) <= Counter /\ count + Counter - Read(f) <= around
    <3>1. Read(f) = Read(Current)
      BY <1>6 DEF Read
    <3>2. kept => Read(Current) <= Counter
      BY <1>2, <1>3, <1>10, <2>1 DEF Starting, Types, Read, Counter, Frame
    <3> QED BY <1>2, <1>3, <1>10, <2>1, <3>1, <3>2 DEF Starting
  <2>5. Starting'
    <3>1. CASE kept
      BY <1>7, <1>8, <2>1, <2>3, <2>4, <3>1 DEF Starting, Read
    <3>2. CASE ~kept
      BY <1>7, <1>8, <2>1, <2>3, <2>4, <3>2 DEF Starting
    <3> QED BY <3>1, <3>2
  <2> QED BY <1>2, <1>7, <2>3, <2>5 DEF CountersInv, Types, Books
<1>11. CASE Stopping(Seen(s))
  <2>1. /\ f.todo \in StopLeft /\ Head(f.todo) = (IF kept THEN "cmpxchg" ELSE "hi")
        /\ Current = calls[1]
    BY <1>1, <1>2, <1>6, <1>11, InCall, StopPlaces
  <2>2. f \in Frame /\ Gain(f) = 0
    BY <1>2, <1>3, <1>6, <2>1 DEF Frame, Left, Gain, Types
  <2>3. calls' \in Seq(Frame) /\ Len(calls') = 1 /\ calls'[1] = f /\ Pending(calls', 0) /\ s = 0
    BY <1>1, <1>2, <1>4, <1>7, <1>11, <2>1, <2>2, AloneContinues DEF Stopping
  <2>4. /\ Seen(s) + Counter \in within .. around /\ ~stopped
        /\ kept => Read(f) <= Counter /\ Seen(s) + Read(f) >= within
    <3>1. Read(f) = Read(Current)
      BY <1>6 DEF Read
    <3>2. kept => Read(Current) <= Counter
      BY <1>2, <1>3, <1>11, <2>1 DEF Stopping, Types, Read, Counter, Frame
    <3> QED BY <1>2, <1>3, <1>11, <2>1, <3>1, <3>2 DEF Stopping
  <2>5. Seen(0)' = Seen(s)
    BY <1>7, <2>3 DEF Seen
  <2>6. Stopping(Seen(0))'
    <3>1. CASE kept
      BY <1>7, <1>8, <2>1, <2>3, <2>4, <2>5, <3>1 DEF Stopping, Read
    <3>2. CASE ~kept
      BY <1>7, <1>8, <2>1, <2>3, <2>4, <2>5, <3>2 DEF Stopping
    <3> QED BY <3>1, <3>2
  <2> QED BY <1>2, <1>7, <2>3, <2>6 DEF CountersInv, Types, Books
<1> QED BY <1>1, <1>9, <1>10, <1>11

\* The exchange: if prev_count is what it was, the difference is pending and what
\* is seen has not changed; else nothing has.
LEMMA ExchangeInv ==
  ASSUME CounterAssumption, CountersInv, Exchange
  PROVE  CountersInv'
<1>1. PICK s \in Int : Pending(calls, s) /\ (Updating(Seen(s)) \/ Starting \/ Stopping(Seen(s)))
  BY DEF CountersInv, Books
<1>2. calls # <<>> /\ Head(Current.todo) = "cmpxchg" /\ Types
  BY DEF Exchange, At, CountersInv
<1>3. /\ Current \in Frame
      /\ Current = [todo |-> Current.todo, old |-> Current.old, hi |-> Current.hi, lo |-> Current.lo]
      /\ Counter \in Nat /\ Seen(s) \in Int
  BY <1>1, <1>2, InCall
<1>4. Gain(Current) = 0 /\ Read(Current) \in Nat
  BY <1>2, <1>3, GainType DEF Gain
<1> DEFINE same == prev_count = Current.old
<1>5. PICK f : f = [Current EXCEPT !.todo = IF same THEN Tail(@) ELSE <<"old">> \o counter \o @]
  OBVIOUS
<1>6. /\ f = [todo |-> f.todo, old |-> Current.old, hi |-> Current.hi, lo |-> Current.lo]
      /\ f.old = Current.old /\ f.hi = Current.hi /\ f.lo = Current.lo
      /\ f.todo = IF same THEN Tail(Current.todo) ELSE <<"old">> \o counter \o Current.todo
  BY <1>3, <1>5
<1>7. /\ Go(f) /\ prev_count' = IF same THEN Read(Current) ELSE prev_count
      /\ UNCHANGED <<counter_hi, counter_lo, stopped, count, within, around>>
  <2>1. CASE same
    BY <1>3, <1>5, <2>1 DEF Exchange, Then
  <2>2. CASE ~same
    BY <1>3, <1>5, <2>2 DEF Exchange
  <2> QED BY <2>1, <2>2
<1>8. Counter' = Counter
  BY <1>7 DEF Counter
<1>a. prev_count' \in Int
  BY <1>2, <1>4, <1>7 DEF Types
<1>b. PICK p \in Int : p = prev_count'
  BY <1>a
<1>9. CASE Updating(Seen(s))
  <2>1. f.todo \in UpdateLeft /\ Head(f.todo) = (IF same THEN "add" ELSE "old")
    <3>1. Current.todo \in UpdateLeft
      BY <1>1, <1>2, <1>9, InCall
    <3>2. CASE same
      BY <1>2, <1>6, <3>1, <3>2, UpdatePlaces
    <3>3. CASE ~same
      <4>1. /\ <<"old">> \o counter \o Current.todo \in UpdateLeft
            /\ Head(<<"old">> \o counter \o Current.todo) = "old"
        BY <1>2, <3>1, UpdatePlaces, Zenon
      <4> QED BY <1>6, <3>1, <3>3, <4>1, Zenon
    <3> QED BY <3>2, <3>3
  <2>2. f \in Frame
    BY <1>2, <1>3, <1>6, <2>1 DEF Frame, Left
  <2>3. Gain(f) = IF same THEN Read(Current) - prev_count ELSE 0
    BY <1>6, <2>1 DEF Gain, Read
  <2>4. count' - p + Gain(f) = count - prev_count + Gain(Current)
    BY <1>2, <1>4, <1>7, <1>b, <2>3 DEF Types
  <2> QED BY <1>1, <1>2, <1>7, <1>9, <1>b, <2>1, <2>2, <2>4, UpdatingContinues DEF Types
<1>10. CASE Starting
  BY <1>1, <1>2, <1>10, InCall, StartPlaces
<1>11. CASE Stopping(Seen(s))
  <2>1. /\ f.todo \in StopLeft /\ Head(f.todo) = (IF same THEN "add" ELSE "old")
        /\ Current = calls[1]
    <3>1. Current.todo \in StopLeft /\ Current = calls[1]
      BY <1>1, <1>2, <1>11, InCall
    <3>2. CASE same
      BY <1>2, <1>6, <3>1, <3>2, StopPlaces
    <3>3. CASE ~same
      <4>1. /\ <<"old">> \o counter \o Current.todo \in StopLeft
            /\ Head(<<"old">> \o counter \o Current.todo) = "old"
        BY <1>2, <3>1, StopPlaces, Zenon
      <4> QED BY <1>6, <3>1, <3>3, <4>1, Zenon
    <3> QED BY <3>2, <3>3
  <2>2. f \in Frame
    BY <1>2, <1>3, <1>6, <2>1 DEF Frame, Left
  <2>3. PICK g \in Int : g = Gain(f) /\ g = IF same THEN Read(Current) - prev_count ELSE 0
    BY <1>6, <2>1, <2>2, GainType DEF Gain, Read
  <2>4. calls' \in Seq(Frame) /\ Len(calls') = 1 /\ calls'[1] = f /\ Pending(calls', g) /\ s = 0
    BY <1>1, <1>2, <1>4, <1>7, <1>11, <2>1, <2>2, <2>3, AloneContinues DEF Stopping
  <2>5. /\ Seen(s) + Counter \in within .. around /\ ~stopped
        /\ Read(Current) <= Counter /\ Seen(s) + Read(Current) >= within
    BY <1>2, <1>11, <2>1 DEF Stopping
  <2>6. Seen(g)' = Seen(s)
    <3>1. Seen(g)' = count + g - p
      BY <1>7, <1>b DEF Seen
    <3>2. count + g - p = count + s - prev_count
      BY SMTT(30), <1>2, <1>4, <1>7, <1>b, <2>3, <2>4 DEF Types
    <3> QED BY <3>1, <3>2 DEF Seen
  <2>7. Stopping(Seen(g))'
    <3>1. CASE same
      <4>1. Seen(s) + Read(Current) \in within .. around /\ prev_count' = Read(Current)
        BY SMTT(30), <1>2, <1>3, <1>4, <1>7, <2>5, <3>1 DEF Types
      <4> QED BY <1>7, <2>1, <2>4, <2>5, <2>6, <3>1, <4>1 DEF Stopping
    <3>2. CASE ~same
      BY <1>7, <1>8, <2>1, <2>4, <2>5, <2>6, <3>2 DEF Stopping
    <3> QED BY <3>1, <3>2
  <2> QED BY <1>2, <1>7, <1>a, <2>3, <2>4, <2>7 DEF CountersInv, Types, Books
<1> QED BY <1>1, <1>9, <1>10, <1>11

\* The pending difference is added: what is seen has not changed.
LEMMA AddDifferenceInv ==
  ASSUME CounterAssumption, CountersInv, AddDifference
  PROVE  CountersInv'
<1>1. PICK s \in Int : Pending(calls, s) /\ (Updating(Seen(s)) \/ Starting \/ Stopping(Seen(s)))
  BY DEF CountersInv, Books
<1>2. calls # <<>> /\ Head(Current.todo) = "add" /\ Types
  BY DEF AddDifference, At, CountersInv
<1>3. /\ Current \in Frame
      /\ Current = [todo |-> Current.todo, old |-> Current.old, hi |-> Current.hi, lo |-> Current.lo]
      /\ Counter \in Nat /\ Seen(s) \in Int
  BY <1>1, <1>2, InCall
<1>4. PICK h \in Int : h = Gain(Current) /\ h = Read(Current) - Current.old
  BY <1>2, <1>3, GainType DEF Gain
<1>5. PICK f : f = [Current EXCEPT !.todo = Tail(@)]
  OBVIOUS
<1>6. /\ f = [todo |-> Tail(Current.todo), old |-> Current.old, hi |-> Current.hi, lo |-> Current.lo]
      /\ f.todo = Tail(Current.todo)
  BY <1>3, <1>5
<1>7. /\ Go(f) /\ count' = count + h
      /\ UNCHANGED <<counter_hi, counter_lo, stopped, prev_count, within, around>>
  BY <1>4, <1>5 DEF AddDifference, Then
<1>8. count' \in Int /\ prev_count' \in Int
  BY <1>2, <1>7 DEF Types
<1>9. CASE Updating(Seen(s))
  <2>1. f.todo = <<>>
    BY <1>1, <1>2, <1>6, <1>9, InCall, UpdatePlaces
  <2>2. count' - prev_count' = count - prev_count + Gain(Current)
    BY <1>2, <1>4, <1>7 DEF Types
  <2> QED BY <1>1, <1>2, <1>7, <1>8, <1>9, <2>1, <2>2, UpdatingReturns
<1>10. CASE Starting
  BY <1>1, <1>2, <1>10, InCall, StartPlaces
<1>11. CASE Stopping(Seen(s))
  <2>1. f.todo \in StopLeft /\ Head(f.todo) = "stopped" /\ Current = calls[1]
    BY <1>1, <1>2, <1>6, <1>11, InCall, StopPlaces
  <2>2. f \in Frame /\ Gain(f) = 0
    <3>1. f.todo \in Left
      BY <2>1 DEF Left
    <3>a. Current.old \in Int /\ Current.hi \in Nat /\ Current.lo \in 0 .. HALF - 1
      BY <1>3 DEF Frame
    <3>2. f \in Frame
      BY <1>6, <3>1, <3>a DEF Frame
    <3> QED BY <2>1, <3>2 DEF Gain
  <2>3. calls' \in Seq(Frame) /\ Len(calls') = 1 /\ calls'[1] = f /\ Pending(calls', 0) /\ s = h
    BY <1>1, <1>2, <1>4, <1>7, <1>11, <2>1, <2>2, AloneContinues DEF Stopping
  <2>4. Seen(s) + prev_count \in within .. around /\ ~stopped
    BY <1>2, <1>11, <2>1 DEF Stopping
  <2>5. Seen(0)' = Seen(s)
    BY <1>2, <1>7, <2>3 DEF Seen, Types
  <2>6. Stopping(Seen(0))'
    BY <1>7, <2>1, <2>3, <2>4, <2>5 DEF Stopping
  <2> QED BY <1>2, <1>7, <1>8, <2>3, <2>6 DEF CountersInv, Types, Books
<1> QED BY <1>1, <1>9, <1>10, <1>11

\* start(): prev_count is what was read, which is not from before the call.
LEMMA SetPreviousInv ==
  ASSUME CounterAssumption, CountersInv, SetPrevious
  PROVE  CountersInv'
<1>1. PICK s \in Int : Pending(calls, s) /\ (Updating(Seen(s)) \/ Starting \/ Stopping(Seen(s)))
  BY DEF CountersInv, Books
<1>2. calls # <<>> /\ Head(Current.todo) = "set" /\ Types
  BY DEF SetPrevious, At, CountersInv
<1>3. /\ Current \in Frame
      /\ Current = [todo |-> Current.todo, old |-> Current.old, hi |-> Current.hi, lo |-> Current.lo]
      /\ Counter \in Nat /\ Read(Current) \in Nat
  BY <1>1, <1>2, InCall, GainType
<1>4. Starting
  BY <1>1, <1>2, InCall, UpdatePlaces, StopPlaces
<1>5. PICK f : f = [Current EXCEPT !.todo = Tail(@)]
  OBVIOUS
<1>6. /\ f = [todo |-> Tail(Current.todo), old |-> Current.old, hi |-> Current.hi, lo |-> Current.lo]
      /\ f.todo = Tail(Current.todo)
  BY <1>3, <1>5
<1>7. /\ Go(f) /\ prev_count' = Read(Current)
      /\ UNCHANGED <<counter_hi, counter_lo, stopped, count, within, around>>
  BY <1>5 DEF SetPrevious, Then
<1>8. Counter' = Counter
  BY <1>7 DEF Counter
<1>9. f.todo \in StartLeft /\ Head(f.todo) = "run" /\ Current = calls[1]
  BY <1>1, <1>2, <1>4, <1>6, InCall, StartPlaces
<1>10. f \in Frame /\ Gain(f) = 0
  <2>1. f.todo \in Left
    BY <1>9 DEF Left
  <2>a. Current.old \in Int /\ Current.hi \in Nat /\ Current.lo \in 0 .. HALF - 1
    BY <1>3 DEF Frame
  <2>2. f \in Frame
    BY <1>6, <2>1, <2>a DEF Frame
  <2> QED BY <1>9, <2>2 DEF Gain
<1>11. calls' \in Seq(Frame) /\ Len(calls') = 1 /\ calls'[1] = f /\ Pending(calls', 0)
  BY <1>1, <1>2, <1>4, <1>7, <1>10, AloneContinues DEF Starting
<1>12. count + Counter - Read(Current) \in within .. around /\ stopped
  <2>1. /\ count \in within .. around /\ stopped
        /\ Read(Current) <= Counter /\ count + Counter - Read(Current) <= around
    BY <1>2, <1>4, <1>9 DEF Starting
  <2> QED BY <1>2, <1>3, <2>1 DEF Types
<1>13. Starting'
  BY <1>7, <1>8, <1>9, <1>11, <1>12 DEF Starting
<1> QED BY <1>2, <1>3, <1>7, <1>11, <1>13 DEF CountersInv, Types, Books

\* A single call that returns leaves nothing pending.
LEMMA AloneReturns ==
  ASSUME CounterAssumption, Types, Len(calls) = 1, NEW frame, frame.todo = <<>>, Go(frame),
         NEW s \in Int, Pending(calls, s)
  PROVE  calls' \in Seq(Frame) /\ calls' = <<>> /\ Pending(calls', 0) /\ s = Gain(calls[1])
<1>1. calls # <<>>
  BY Z3T(20), EmptySeq
<1>2. calls' \in Seq(Frame) /\ Len(calls') = 0
  BY <1>1, Returns
<1>3. calls' = <<>>
  BY <1>2, EmptySeq
<1>4. Pending(calls', 0)
  BY <1>3, NothingPending
<1>5. s = Gain(calls[1])
  BY OnePending DEF Types
<1> QED BY <1>2, <1>3, <1>4, <1>5

\* start() returns and the event is started.
LEMMA RunInv ==
  ASSUME CounterAssumption, CountersInv, Run
  PROVE  CountersInv'
<1>1. PICK s \in Int : Pending(calls, s) /\ (Updating(Seen(s)) \/ Starting \/ Stopping(Seen(s)))
  BY DEF CountersInv, Books
<1>2. calls # <<>> /\ Head(Current.todo) = "run" /\ Types
  BY DEF Run, At, CountersInv
<1>3. Starting /\ Current \in Frame
  BY <1>1, <1>2, InCall, UpdatePlaces, StopPlaces
<1>4. Current = calls[1]
  BY <1>1, <1>2, <1>3, InCall
<1>5. PICK f : f = [Current EXCEPT !.todo = Tail(@)]
  OBVIOUS
<1>6. f.todo = <<>>
  <2>1. Tail(Current.todo) = <<>>
    BY <1>1, <1>2, <1>3, InCall, StartPlaces
  <2> QED BY <1>3, <1>5, <2>1 DEF Frame
<1>7. /\ Go(f) /\ stopped' = FALSE
      /\ UNCHANGED <<counter_hi, counter_lo, prev_count, count, within, around>>
  BY <1>5 DEF Run, Then
<1>8. calls' \in Seq(Frame) /\ calls' = <<>> /\ Pending(calls', 0)
  BY <1>1, <1>2, <1>3, <1>6, <1>7, AloneReturns DEF Starting
<1>9. count + Counter - prev_count \in within .. around
  BY <1>2, <1>3, <1>4 DEF Starting
<1>10. (Seen(0) + Counter)' = count + Counter - prev_count
  <2>1. Counter \in Nat
    BY <1>1, <1>2, InCall
  <2> QED BY <1>2, <1>7, <2>1 DEF Seen, Counter, Types
<1>11. 1 .. Len(calls') = {}
  BY <1>8
<1>12. Updating(Seen(0))'
  BY <1>7, <1>9, <1>10, <1>11 DEF Updating
<1>13. Books'
  BY <1>8, <1>12 DEF Books
<1>14. Types'
  BY <1>2, <1>7, <1>8 DEF Types
<1> QED BY <1>13, <1>14 DEF CountersInv

\* stop() returns: the count is complete.
LEMMA SetStoppedInv ==
  ASSUME CounterAssumption, CountersInv, SetStopped
  PROVE  CountersInv'
<1>1. PICK s \in Int : Pending(calls, s) /\ (Updating(Seen(s)) \/ Starting \/ Stopping(Seen(s)))
  BY DEF CountersInv, Books
<1>2. calls # <<>> /\ Head(Current.todo) = "stopped" /\ Types
  BY DEF SetStopped, At, CountersInv
<1>3. Stopping(Seen(s)) /\ Current \in Frame
  BY <1>1, <1>2, InCall, UpdatePlaces, StartPlaces
<1>4. Current = calls[1]
  BY <1>1, <1>2, <1>3, InCall
<1>5. PICK f : f = [Current EXCEPT !.todo = Tail(@)]
  OBVIOUS
<1>6. f.todo = <<>>
  <2>1. Tail(Current.todo) = <<>>
    BY <1>1, <1>2, <1>3, InCall, StopPlaces
  <2> QED BY <1>3, <1>5, <2>1 DEF Frame
<1>7. /\ Go(f) /\ stopped' = TRUE
      /\ UNCHANGED <<counter_hi, counter_lo, prev_count, count, within, around>>
  BY <1>5 DEF SetStopped, Then
<1>8. calls' \in Seq(Frame) /\ calls' = <<>> /\ Pending(calls', 0) /\ s = 0
  BY <1>1, <1>2, <1>3, <1>4, <1>6, <1>7, AloneReturns DEF Stopping, Gain
<1>9. Seen(s) + prev_count \in within .. around
  BY <1>2, <1>3, <1>4 DEF Stopping
<1>10. Seen(s) + prev_count = count
  BY <1>2, <1>8 DEF Seen, Types
<1>11. 1 .. Len(calls') = {}
  BY <1>8
<1>12. Updating(Seen(0))'
  BY <1>7, <1>8, <1>9, <1>10, <1>11 DEF Updating
<1> QED BY <1>2, <1>7, <1>8, <1>12 DEF CountersInv, Types, Books

\* A call of its own begins.
LEMMA FirstCall ==
  ASSUME CounterAssumption, NEW t \in Left, Head(t) # "add"
  PROVE  /\ CallOf(t) \in Frame /\ CallOf(t).todo = t /\ Gain(CallOf(t)) = 0
         /\ <<CallOf(t)>> \in Seq(Frame) /\ Len(<<CallOf(t)>>) = 1 /\ <<CallOf(t)>>[1] = CallOf(t)
         /\ Pending(<<CallOf(t)>>, 0)
<1>1. CallOf(t) \in Frame /\ CallOf(t).todo = t /\ Gain(CallOf(t)) = 0
  BY DEF CallOf, Frame, Gain, CounterAssumption
<1>2. PICK c \in Frame : c = CallOf(t) /\ Gain(c) = 0
  BY <1>1
<1>3. Append(<<>>, c) = <<c>> /\ <<>> \in Seq(Frame)
  OBVIOUS
<1>4. Pending(Append(<<>>, c), 0 + 0)
  <2>1. Pending(<<>>, 0) /\ 0 \in Int
    BY NothingPending
  <2>2. Pending(Append(<<>>, c), 0 + Gain(c))
    BY <1>3, <2>1, PendingAppend
  <2> QED BY <1>2, <2>2
<1>5. Pending(<<c>>, 0)
  BY <1>3, <1>4
<1> QED BY <1>1, <1>2, <1>5

\* start() is called.
LEMMA StartInv ==
  ASSUME CounterAssumption, CountersInv, Start
  PROVE  CountersInv'
<1>1. PICK s \in Int : Pending(calls, s) /\ (Updating(Seen(s)) \/ Starting \/ Stopping(Seen(s)))
  BY DEF CountersInv, Books
<1>2. /\ Types /\ stopped /\ calls = <<>>
      /\ UNCHANGED <<counter_hi, counter_lo, stopped, prev_count, count, within, around>>
  BY DEF Start, event, CountersInv
<1>3. count \in within .. around
  BY <1>1, <1>2 DEF Updating, Starting, Stopping
<1>4. start \in Left /\ start \in StartLeft /\ Head(start) = "hi"
  BY WholeCalls DEF Left
<1>5. PICK c : c = CallOf(start)
  OBVIOUS
<1>6. calls' \in Seq(Frame) /\ Len(calls') = 1 /\ calls'[1] = c /\ Pending(calls', 0) /\ c.todo = start
  <2>1. calls' = <<CallOf(start)>>
    BY DEF Start
  <2> QED BY <1>4, <1>5, <2>1, FirstCall
<1>7. Starting'
  BY <1>2, <1>3, <1>4, <1>6 DEF Starting
<1> QED BY <1>2, <1>6, <1>7 DEF CountersInv, Types, Books

\* stop() is called.
LEMMA StopInv ==
  ASSUME CounterAssumption, CountersInv, Stop
  PROVE  CountersInv'
<1>1. PICK s \in Int : Pending(calls, s) /\ (Updating(Seen(s)) \/ Starting \/ Stopping(Seen(s)))
  BY DEF CountersInv, Books
<1>2. /\ Types /\ ~stopped /\ calls = <<>>
      /\ UNCHANGED <<counter_hi, counter_lo, stopped, prev_count, count, within, around>>
  BY DEF Stop, event, CountersInv
<1>3. Seen(s) + Counter \in within .. around /\ s = 0
  BY <1>1, <1>2, NothingPending DEF Updating, Starting, Stopping
<1>4. stop \in Left /\ stop \in StopLeft /\ Head(stop) = "old"
  BY WholeCalls DEF Left
<1>5. PICK c : c = CallOf(stop)
  OBVIOUS
<1>6. calls' \in Seq(Frame) /\ Len(calls') = 1 /\ calls'[1] = c /\ Pending(calls', 0) /\ c.todo = stop
  <2>1. calls' = <<CallOf(stop)>>
    BY DEF Stop
  <2> QED BY <1>4, <1>5, <2>1, FirstCall
<1>7. Counter' = Counter /\ Seen(0)' = Seen(s)
  BY <1>2, <1>3 DEF Counter, Seen
<1>8. Stopping(Seen(0))'
  BY <1>2, <1>3, <1>4, <1>6, <1>7 DEF Stopping
<1> QED BY <1>2, <1>6, <1>8 DEF CountersInv, Types, Books

\* An update begins, perhaps inside others.
LEMMA UpdateInv ==
  ASSUME CounterAssumption, CountersInv, Update
  PROVE  CountersInv'
<1>1. PICK s \in Int : Pending(calls, s) /\ (Updating(Seen(s)) \/ Starting \/ Stopping(Seen(s)))
  BY DEF CountersInv, Books
<1>2. /\ Types /\ ~stopped /\ calls' = Append(calls, CallOf(update))
      /\ UNCHANGED <<counter_hi, counter_lo, stopped, prev_count, count, within, around>>
  BY DEF Update, event, CountersInv
<1>3. Updating(Seen(s))
  <2>1. ~Starting
    BY <1>2 DEF Starting
  <2>2. ASSUME Stopping(Seen(s)) PROVE FALSE
    <3>1. calls[1].todo \in StopLeft /\ 1 \in DOMAIN calls
      BY <1>2, <2>2 DEF Stopping, Types
    <3>2. calls[1].todo[Len(calls[1].todo)] = "add"
      BY <3>1 DEF Update
    <3> QED BY <3>1, <3>2, StopPlaces
  <2> QED BY <1>1, <2>1, <2>2
<1>4. CallOf(update) \in Frame /\ CallOf(update).todo \in UpdateLeft /\ Gain(CallOf(update)) = 0
  <2>1. update \in Left /\ update \in UpdateLeft /\ Head(update) = "old"
    BY WholeCalls DEF Left
  <2> QED BY <2>1, FirstCall
<1>5. PICK c \in Frame : c = CallOf(update) /\ c.todo \in UpdateLeft /\ Gain(c) = 0
  BY <1>4
<1>6. calls' = Append(calls, c)
  BY <1>2, <1>5
<1>7. /\ calls' \in Seq(Frame) /\ Len(calls') = Len(calls) + 1
      /\ \A i \in 1 .. Len(calls') : calls'[i] = IF i <= Len(calls) THEN calls[i] ELSE c
  BY <1>2, <1>6 DEF Types
<1>8. Pending(calls', s)
  <2>1. Pending(Append(calls, c), s + Gain(c))
    BY <1>1, <1>2, PendingAppend DEF Types
  <2> QED BY <1>5, <1>6, <2>1
<1>9. Counter' = Counter /\ Seen(s)' = Seen(s)
  BY <1>2 DEF Counter, Seen
<1>10. \A i \in 1 .. Len(calls') : calls'[i].todo \in UpdateLeft
  BY <1>2, <1>3, <1>5, <1>7 DEF Updating, Types
<1>11. Updating(Seen(s))'
  BY <1>2, <1>3, <1>9, <1>10 DEF Updating
<1> QED BY <1>2, <1>7, <1>8, <1>11 DEF CountersInv, Types, Books

\* An event happens: the high half stays and the low one steps, or the high half
\* steps, so that an unchanged high half dates the low one.
LEMMA CountsInv ==
  ASSUME CounterAssumption, CountersInv, Counts
  PROVE  CountersInv'
<1>1. PICK s \in Int : Pending(calls, s) /\ (Updating(Seen(s)) \/ Starting \/ Stopping(Seen(s)))
  BY DEF CountersInv, Books
<1>2. Types /\ UNCHANGED <<stopped, prev_count, count, calls>> /\ Counter \in Nat
  BY DEF Counts, event, CountersInv, Types, Counter, CounterAssumption
<1>3. /\ counter_hi' \in Nat /\ counter_lo' \in 0 .. HALF - 1 /\ Counter' = Counter + 1
      /\ \/ counter_hi' = counter_hi + 1
         \/ counter_hi' = counter_hi /\ counter_lo' = counter_lo + 1
  <2>1. CASE counter_lo = HALF - 1
    <3>1. (counter_lo + 1) % HALF = 0
      BY <2>1 DEF CounterAssumption
    <3>2. counter_hi' = counter_hi + 1 /\ counter_lo' = 0
      BY <2>1, <3>1 DEF Counts
    <3>3. (counter_hi + 1) * HALF = counter_hi * HALF + HALF
      BY <1>2 DEF Types, CounterAssumption
    <3> QED BY <1>2, <2>1, <3>2, <3>3 DEF Counter, Types, CounterAssumption
  <2>2. CASE counter_lo # HALF - 1
    <3>1. (counter_lo + 1) % HALF = counter_lo + 1
      BY <1>2, <2>2 DEF CounterAssumption, Types
    <3>2. counter_hi' = counter_hi /\ counter_lo' = counter_lo + 1
      BY <2>2, <3>1 DEF Counts
    <3> QED BY <1>2, <2>2, <3>2 DEF Counter, Types, CounterAssumption
  <2> QED BY <2>1, <2>2
<1>4. /\ within' = IF Started THEN within + 1 ELSE within
      /\ around' = IF ~stopped \/ Changing THEN around + 1 ELSE around
  BY DEF Counts
<1>5. Types'
  BY <1>2, <1>3, <1>4 DEF Types
<1>6. Pending(calls', s) /\ Seen(s)' = Seen(s) /\ Seen(s) \in Int
  BY <1>1, <1>2 DEF Seen, Types
<1>7. CASE Updating(Seen(s))
  <2>1. ~Changing
    BY <1>2, <1>7, UpdatePlaces DEF Changing, Updating, Types
  <2>2. /\ within' = IF stopped THEN within ELSE within + 1
        /\ around' = IF stopped THEN around ELSE around + 1
    BY <1>4, <2>1 DEF Started
  <2>3. Updating(Seen(s))'
    BY <1>2, <1>3, <1>6, <1>7, <2>2 DEF Updating, Types
  <2> QED BY <1>5, <1>6, <2>3 DEF CountersInv, Books
<1>8. CASE Starting
  <2>1. PICK c \in Frame : c = calls[1] /\ c.todo \in StartLeft
    BY <1>2, <1>8, ElementOfSeq DEF Starting, Types
  <2>2. c.todo[Len(c.todo)] = "run" /\ 1 \in DOMAIN calls
    BY <1>2, <1>8, <2>1, StartPlaces DEF Starting, Types
  <2>3. Changing /\ within' = within /\ around' = around + 1
    BY <1>4, <2>1, <2>2 DEF Changing, Started
  <2>4. Read(c) \in Nat /\ c.hi \in Nat /\ c.lo \in 0 .. HALF - 1
    BY <2>1, GainType DEF Frame
  <2>5. /\ stopped /\ Len(calls) = 1
        /\ Head(c.todo) # "run" => count \in within .. around
        /\ Head(c.todo) \in {"lo", "again"} => c.hi <= counter_hi
        /\ Head(c.todo) = "again" /\ c.hi = counter_hi =>
             c.lo <= counter_lo /\ count + Counter - Read(c) <= around
        /\ Head(c.todo) = "set" => Read(c) <= Counter /\ count + Counter - Read(c) <= around
        /\ Head(c.todo) = "run" => count + Counter - prev_count \in within .. around
    BY <1>8, <2>1 DEF Starting
  <2>6. PICK chi \in Nat, clo \in 0 .. HALF - 1, n \in Nat, a \in Int :
          chi = counter_hi' /\ clo = counter_lo' /\ n = Counter' /\ a = around'
    BY <1>2, <1>3, <2>3 DEF Types
  <2>7. /\ Head(c.todo) # "run" => count \in within .. a
        /\ Head(c.todo) \in {"lo", "again"} => c.hi <= chi
        /\ Head(c.todo) = "again" /\ c.hi = chi => c.lo <= clo /\ count + n - Read(c) <= a
        /\ Head(c.todo) = "set" => Read(c) <= n /\ count + n - Read(c) <= a
        /\ Head(c.todo) = "run" => count + n - prev_count \in within .. a
    BY SMTT(30), <1>2, <1>3, <2>3, <2>4, <2>5, <2>6 DEF Types
  <2>8. Starting'
    BY <1>2, <2>1, <2>3, <2>5, <2>6, <2>7 DEF Starting, Read
  <2> QED BY <1>5, <1>6, <2>8 DEF CountersInv, Books
<1>9. CASE Stopping(Seen(s))
  <2>1. PICK c \in Frame : c = calls[1] /\ c.todo \in StopLeft
    BY SMTT(30), <1>2, <1>9, ElementOfSeq DEF Stopping, Types
  <2>2. c.todo[Len(c.todo)] = "stopped" /\ 1 \in DOMAIN calls
    BY <1>2, <1>9, <2>1, StopPlaces DEF Stopping, Types
  <2>3. Changing /\ within' = within /\ around' = around + 1
    BY <1>4, <2>1, <2>2 DEF Changing, Started
  <2>4. Read(c) \in Nat /\ c.hi \in Nat /\ c.lo \in 0 .. HALF - 1
    BY <2>1, GainType DEF Frame
  <2> DEFINE d == Seen(s)
  <2>d. d \in Int
    BY <1>6
  <2>5. /\ ~stopped /\ Len(calls) = 1
        /\ Head(c.todo) \notin {"add", "stopped"} => d + Counter \in within .. around
        /\ Head(c.todo) \in {"lo", "again"} => c.hi <= counter_hi
        /\ Head(c.todo) = "again" /\ c.hi = counter_hi => c.lo <= counter_lo /\ d + Read(c) >= within
        /\ Head(c.todo) = "cmpxchg" => Read(c) <= Counter /\ d + Read(c) >= within
        /\ Head(c.todo) \in {"add", "stopped"} => d + prev_count \in within .. around
    BY <1>9, <2>1 DEF Stopping
  <2>6. PICK chi \in Nat, clo \in 0 .. HALF - 1, n \in Nat, a \in Int :
          chi = counter_hi' /\ clo = counter_lo' /\ n = Counter' /\ a = around'
    BY <1>2, <1>3, <2>3 DEF Types
  <2>7. /\ Head(c.todo) \notin {"add", "stopped"} => d + n \in within .. a
        /\ Head(c.todo) \in {"lo", "again"} => c.hi <= chi
        /\ Head(c.todo) = "again" /\ c.hi = chi => c.lo <= clo /\ d + Read(c) >= within
        /\ Head(c.todo) = "cmpxchg" => Read(c) <= n /\ d + Read(c) >= within
        /\ Head(c.todo) \in {"add", "stopped"} => d + prev_count \in within .. a
    <3> HIDE DEF d
    <3> QED BY <1>2, <1>3, <2>3, <2>4, <2>5, <2>6, <2>d DEF Types
  <2>8. Stopping(Seen(s))'
    BY <1>2, <1>6, <2>1, <2>3, <2>5, <2>6, <2>7 DEF Stopping, Read
  <2> QED BY <1>5, <1>6, <2>8 DEF CountersInv, Books
<1> QED BY <1>1, <1>7, <1>8, <1>9

-----------------------------------------------------------------------------
(* The theorem *)

\* Every step keeps the books.
LEMMA NextInv ==
  ASSUME CounterAssumption, CountersInv, [PmuNext]_pmu_vars
  PROVE  CountersInv'
<1>1. CASE PmuNext
  BY <1>1, StartInv, StopInv, UpdateInv, ReadHighInv, ReadLowInv, ReadAgainInv, LoadPreviousInv,
     ExchangeInv, AddDifferenceInv, SetPreviousInv, RunInv, SetStoppedInv, CountsInv
     DEF PmuNext, PmuStep
<1>2. CASE UNCHANGED pmu_vars
  BY <1>2 DEF pmu_vars, CountersInv, Types, Books, Updating, Starting, Stopping, Seen, Counter
<1> QED BY <1>1, <1>2

\* update(), start(), stop(): whenever no call is in progress, the event's count with
\* what the counter has gained on prev_count is what happened while it was started,
\* however deep updates break into one another and wherever the counter carries.
THEOREM EventsAreCountedOnce == PmuSpec => []EachEventIsCountedOnce
<1>1. CounterAssumption
  BY CounterAssumption
<1>2. PmuInit => CountersInv
  <2> SUFFICES ASSUME PmuInit PROVE CountersInv
    OBVIOUS
  <2>1. Types
    BY <1>1, EmptySeq DEF PmuInit, Types, CounterAssumption
  <2>2. Pending(calls, 0) /\ 1 .. Len(calls) = {}
    BY NothingPending DEF PmuInit
  <2>3. Updating(Seen(0))
    BY <2>2 DEF PmuInit, Updating
  <2> QED BY <2>1, <2>2, <2>3 DEF CountersInv, Books
<1>3. CountersInv /\ [PmuNext]_pmu_vars => CountersInv'
  BY <1>1, NextInv
<1>4. CountersInv => EachEventIsCountedOnce
  <2> SUFFICES ASSUME CountersInv, calls = <<>>
               PROVE  count + (IF stopped THEN 0 ELSE Counter - prev_count) \in within .. around
    BY DEF EachEventIsCountedOnce
  <2>1. PICK s \in Int : Pending(calls, s) /\ (Updating(Seen(s)) \/ Starting \/ Stopping(Seen(s)))
    BY DEF CountersInv, Books
  <2>2. s = 0 /\ Updating(Seen(s))
    BY <2>1, NothingPending DEF Starting, Stopping
  <2>3. Counter \in Nat /\ Types
    BY <1>1 DEF CountersInv, Types, Counter, CounterAssumption
  <2> QED BY <2>2, <2>3 DEF Updating, Seen, Types
<1> QED BY <1>2, <1>3, <1>4, PTL DEF PmuSpec

(***************************************************************************)
(* Proof that the clock and the timer's line are true, for every width of  *)
(* the registers, every delta and every time the counter reaches.          *)
(*                                                                         *)
(* A call is a list of accesses.  All that matters of the list is that     *)
(* each change of the target is followed at once by the three writes of    *)
(* compare(), and that none of them comes alone: Paired says this of two   *)
(* accesses that follow each other, so that what is left of a call keeps   *)
(* it, and a part of the call that is done again does too.                 *)
(***************************************************************************)

-----------------------------------------------------------------------------
(* The lists of accesses *)

AccessName ==
  {"read_hi", "read_lo", "read_hi_again", "add_delta", "no_target", "cmp_lo_max", "cmp_hi", "cmp_lo",
   "set_TIE", "clear_TIE", "too_late", "start", "event_handler"}

Retargets == {"add_delta", "no_target"}
Compares == {"cmp_lo_max", "cmp_hi", "cmp_lo"}

\* b may follow a.
Paired(a, b) ==
  /\ a \in Retargets <=> b = "cmp_lo_max"
  /\ a = "cmp_lo_max" <=> b = "cmp_hi"
  /\ a = "cmp_hi" <=> b = "cmp_lo"

\* A call may end after a: nothing of compare() or of cycles() is missing.
Ends(a) == a \notin Retargets \cup {"cmp_lo_max", "cmp_hi", "read_hi_again"}

\* Accesses that may follow one another.
Linked(list) ==
  /\ list \in Seq(AccessName) /\ list # <<>>
  /\ \A i \in 1 .. Len(list) - 1 : Paired(list[i], list[i + 1])

Whole(list) == Linked(list) /\ Ends(list[Len(list)])

\* Such a list from its first access to its last.
FromTo(list, a, b) ==
  list \in Seq(AccessName) /\ Linked(list) /\ Head(list) = a /\ list[Len(list)] = b

\* Two lists after one another.
LEMMA LinkedConcat ==
  ASSUME NEW s \in Seq(AccessName), NEW t \in Seq(AccessName),
         Linked(s), Linked(t), Paired(s[Len(s)], Head(t))
  PROVE  /\ Linked(s \o t) /\ s \o t \in Seq(AccessName)
         /\ Head(s \o t) = Head(s) /\ (s \o t)[Len(s \o t)] = t[Len(t)]
<1>1. PICK m \in Nat \ {0}, n \in Nat \ {0} : m = Len(s) /\ n = Len(t)
  BY EmptySeq DEF Linked
<1>2. /\ s \o t \in Seq(AccessName) /\ Len(s \o t) = m + n
      /\ \A i \in 1 .. m + n : (s \o t)[i] = IF i <= m THEN s[i] ELSE t[i - m]
  BY <1>1, ConcatProperties
<1>3. PICK u \in Seq(AccessName) : /\ u = s \o t /\ Len(u) = m + n
                                   /\ \A i \in 1 .. m + n : u[i] = IF i <= m THEN s[i] ELSE t[i - m]
  BY <1>2
<1>4. ASSUME NEW i \in 1 .. m + n - 1 PROVE Paired(u[i], u[i + 1])
  <2>1. CASE i < m
    <3>1. i \in 1 .. m + n /\ i + 1 \in 1 .. m + n /\ i <= m /\ i + 1 <= m /\ i \in 1 .. m - 1
      BY <2>1
    <3>2. u[i] = s[i] /\ u[i + 1] = s[i + 1]
      BY <1>3, <3>1
    <3> QED BY <1>1, <3>1, <3>2 DEF Linked
  <2>2. CASE i = m
    <3>1. u[i] = s[m] /\ u[i + 1] = t[1]
      BY <1>3, <2>2
    <3>2. Paired(s[m], t[1])
      BY <1>1
    <3> QED BY <3>1, <3>2
  <2>3. CASE i > m
    <3>1. PICK k \in 1 .. n - 1 : i = m + k
      <4>1. i - m \in 1 .. n - 1 /\ i = m + (i - m)
        BY <2>3
      <4> QED BY <4>1
    <3>2. m + k \in 1 .. m + n /\ m + k + 1 \in 1 .. m + n /\ ~ m + k <= m /\ ~ m + k + 1 <= m
      BY <1>1, <3>1
    <3>3. m + k - m = k /\ m + k + 1 - m = k + 1
      BY <3>1
    <3>4. u[m + k] = t[k] /\ u[m + k + 1] = t[k + 1]
      <4>1. u[m + k] = t[m + k - m]
        BY <1>3, <3>2
      <4>2. u[m + k + 1] = t[m + k + 1 - m]
        BY <1>3, <3>2
      <4> QED BY <3>3, <4>1, <4>2
    <3>5. u[i] = t[k] /\ u[i + 1] = t[k + 1]
      BY <3>1, <3>4
    <3> QED BY <1>1, <3>1, <3>5 DEF Linked
  <2> QED BY <2>1, <2>2, <2>3
<1>5. u[m + n] = t[n] /\ u[1] = s[1] /\ u # <<>>
  BY <1>1, <1>3, EmptySeq
<1>6. Linked(u)
  BY <1>1, <1>3, <1>4, <1>5 DEF Linked
<1>7. Head(u) = Head(s) /\ u[Len(u)] = t[Len(t)]
  BY <1>1, <1>3, <1>5 DEF Linked
<1> QED BY <1>3, <1>6, <1>7

\* What is left after an access.
LEMMA WholeTail ==
  ASSUME NEW list \in Seq(AccessName), Whole(list)
  PROVE  /\ Head(list) \in AccessName /\ Tail(list) \in Seq(AccessName)
         /\ Tail(list) # <<>> => Whole(Tail(list)) /\ Paired(Head(list), Head(Tail(list)))
         /\ Tail(list) = <<>> => Ends(Head(list))
<1>1. PICK n \in Nat : n + 1 = Len(list)
  <2>1. Len(list) \in Nat \ {0}
    BY EmptySeq DEF Whole, Linked
  <2>2. Len(list) - 1 \in Nat /\ (Len(list) - 1) + 1 = Len(list)
    BY <2>1
  <2> QED BY <2>2
<1>2. /\ Head(list) = list[1] /\ list[1] \in AccessName
      /\ Tail(list) \in Seq(AccessName) /\ Len(Tail(list)) = n
      /\ \A i \in 1 .. n : Tail(list)[i] = list[i + 1]
  BY <1>1, HeadTailProperties, ElementOfSeq DEF Whole, Linked
<1>3. PICK t \in Seq(AccessName) : t = Tail(list) /\ Len(t) = n /\ \A i \in 1 .. n : t[i] = list[i + 1]
  BY <1>2
<1>4. CASE n = 0
  <2>1. t = <<>>
    BY <1>3, <1>4, EmptySeq
  <2>2. Len(list) = 1
    BY <1>1, <1>4
  <2>3. Ends(list[1])
    BY <2>2 DEF Whole
  <2> QED BY <1>2, <1>3, <2>1, <2>3
<1>5. CASE n # 0
  <2>1. t # <<>> /\ Head(t) = list[2]
    <3>1. t # <<>>
      BY <1>3, <1>5, EmptySeq
    <3>2. t[1] = list[2]
      BY <1>3, <1>5
    <3> QED BY <3>1, <3>2
  <2>2. \A i \in 1 .. n - 1 : Paired(t[i], t[i + 1])
    BY <1>1, <1>3, <1>5 DEF Whole, Linked
  <2>3. t[n] = list[n + 1]
    BY <1>3, <1>5
  <2>4. Whole(t)
    BY <1>1, <1>3, <2>1, <2>2, <2>3 DEF Whole, Linked
  <2>5. Paired(list[1], list[2])
    BY <1>1, <1>5 DEF Whole, Linked
  <2> QED BY <1>2, <1>3, <2>1, <2>4, <2>5
<1> QED BY <1>4, <1>5

-----------------------------------------------------------------------------
(* The calls *)

LEMMA Follows ==
  ASSUME NEW s, NEW t, NEW a, NEW b, NEW c, NEW d,
         FromTo(s, a, b), FromTo(t, c, d), Paired(b, c)
  PROVE  FromTo(s \o t, a, d)
<1>1. s \in Seq(AccessName) /\ Linked(s) /\ Head(s) = a /\ s[Len(s)] = b
  BY DEF FromTo
<1>2. t \in Seq(AccessName) /\ Linked(t) /\ Head(t) = c /\ t[Len(t)] = d
  BY DEF FromTo
<1>3. Paired(s[Len(s)], Head(t))
  BY <1>1, <1>2, Zenon
<1>4. /\ Linked(s \o t) /\ s \o t \in Seq(AccessName)
      /\ Head(s \o t) = Head(s) /\ (s \o t)[Len(s \o t)] = t[Len(t)]
  BY <1>1, <1>2, <1>3, LinkedConcat, Zenon
<1> QED BY <1>1, <1>2, <1>4, Zenon DEF FromTo

LEMMA Call ==
  ASSUME NEW list, NEW a, NEW b, FromTo(list, a, b), Ends(b)
  PROVE  list \in Seq(AccessName) /\ Whole(list) /\ Head(list) = a /\ list # <<>>
BY Zenon DEF FromTo, Whole, Linked

LEMMA CyclesLinked == FromTo(cycles, "read_hi", "read_hi_again")
<1>1. /\ cycles \in Seq(AccessName) /\ Len(cycles) = 3 /\ cycles # <<>> /\ Head(cycles) = "read_hi"
      /\ cycles[1] = "read_hi" /\ cycles[2] = "read_lo" /\ cycles[3] = "read_hi_again"
  BY DEF cycles, AccessName
<1>2. \A i \in 1 .. Len(cycles) - 1 : Paired(cycles[i], cycles[i + 1])
  <2>1. \A i \in 1 .. Len(cycles) - 1 : (i = 1 /\ i + 1 = 2) \/ (i = 2 /\ i + 1 = 3)
    BY <1>1
  <2>2. Paired(cycles[1], cycles[2]) /\ Paired(cycles[2], cycles[3])
    BY <1>1 DEF Paired, Retargets
  <2> QED BY <2>1, <2>2, Zenon
<1>3. cycles[Len(cycles)] = "read_hi_again"
  BY <1>1
<1> QED BY <1>1, <1>2, <1>3, Zenon DEF Linked, FromTo

LEMMA CompareLinked == FromTo(compare, "cmp_lo_max", "cmp_lo")
<1>1. /\ compare \in Seq(AccessName) /\ Len(compare) = 3 /\ compare # <<>>
      /\ Head(compare) = "cmp_lo_max"
      /\ compare[1] = "cmp_lo_max" /\ compare[2] = "cmp_hi" /\ compare[3] = "cmp_lo"
  BY DEF compare, AccessName
<1>2. \A i \in 1 .. Len(compare) - 1 : Paired(compare[i], compare[i + 1])
  <2>1. \A i \in 1 .. Len(compare) - 1 : (i = 1 /\ i + 1 = 2) \/ (i = 2 /\ i + 1 = 3)
    BY <1>1
  <2>2. Paired(compare[1], compare[2]) /\ Paired(compare[2], compare[3])
    BY <1>1 DEF Paired, Retargets
  <2> QED BY <2>1, <2>2, Zenon
<1>3. compare[Len(compare)] = "cmp_lo"
  BY <1>1
<1> QED BY <1>1, <1>2, <1>3, Zenon DEF Linked, FromTo

LEMMA OneLinked ==
  ASSUME NEW a \in AccessName
  PROVE  FromTo(<<a>>, a, a)
<1>1. <<a>> \in Seq(AccessName) /\ Len(<<a>>) = 1 /\ <<a>>[1] = a /\ <<a>> # <<>> /\ Head(<<a>>) = a
  OBVIOUS
<1>2. PICK one \in Seq(AccessName) :
        one = <<a>> /\ Len(one) = 1 /\ one[1] = a /\ one # <<>> /\ Head(one) = a
  BY <1>1, Zenon
<1>3. \A i \in 1 .. Len(one) - 1 : Paired(one[i], one[i + 1])
  BY <1>2
<1>4. one[Len(one)] = a
  BY <1>2
<1>5. FromTo(one, a, a)
  BY <1>2, <1>3, <1>4, Zenon DEF Linked, FromTo
<1> QED BY <1>2, <1>5, Zenon

\* The beginning of the calls that cancel the event.
LEMMA CancelLinked == FromTo(<<"clear_TIE", "no_target">>, "clear_TIE", "no_target")
<1>1. PICK u : u = <<"clear_TIE", "no_target">>
  OBVIOUS
<1>2. /\ u \in Seq(AccessName) /\ Len(u) = 2 /\ u # <<>> /\ Head(u) = "clear_TIE"
      /\ u[1] = "clear_TIE" /\ u[2] = "no_target"
  BY <1>1 DEF AccessName
<1>3. \A i \in 1 .. Len(u) - 1 : Paired(u[i], u[i + 1])
  <2>1. \A i \in 1 .. Len(u) - 1 : i = 1 /\ i + 1 = 2
    BY <1>2
  <2>2. Paired(u[1], u[2])
    BY <1>2 DEF Paired, Retargets
  <2> QED BY <2>1, <2>2, Zenon
<1>4. u[Len(u)] = "no_target"
  BY <1>2
<1>5. FromTo(u, "clear_TIE", "no_target")
  BY <1>2, <1>3, <1>4, Zenon DEF Linked, FromTo
<1> QED BY <1>1, <1>5, Zenon

\* The whole of each call, and the access it begins with.
LEMMA NextEventWhole ==
  /\ next_event \in Seq(AccessName) /\ Whole(next_event)
  /\ Head(next_event) = "read_hi" /\ next_event # <<>>
<1>1. {"add_delta", "set_TIE", "too_late"} \subseteq AccessName
  BY DEF AccessName
<1>2. /\ Paired("read_hi_again", "add_delta") /\ Paired("add_delta", "cmp_lo_max")
      /\ Paired("cmp_lo", "set_TIE") /\ Paired("set_TIE", "read_hi")
      /\ Paired("read_hi_again", "too_late") /\ Ends("too_late")
  BY DEF Paired, Ends, Retargets
<1>3. FromTo(<<"add_delta">>, "add_delta", "add_delta") /\ FromTo(<<"set_TIE">>, "set_TIE", "set_TIE")
      /\ FromTo(<<"too_late">>, "too_late", "too_late")
  BY <1>1, OneLinked
<1>4. FromTo(cycles \o <<"add_delta">>, "read_hi", "add_delta")
  BY <1>2, <1>3, CyclesLinked, Follows, Zenon
<1>5. FromTo(cycles \o <<"add_delta">> \o compare, "read_hi", "cmp_lo")
  BY <1>2, <1>4, CompareLinked, Follows, Zenon
<1>6. FromTo(cycles \o <<"add_delta">> \o compare \o <<"set_TIE">>, "read_hi", "set_TIE")
  BY <1>2, <1>3, <1>5, Follows, Zenon
<1>7. FromTo(cycles \o <<"add_delta">> \o compare \o <<"set_TIE">> \o cycles, "read_hi", "read_hi_again")
  BY <1>2, <1>6, CyclesLinked, Follows, Zenon
<1>8. FromTo(next_event, "read_hi", "too_late")
  BY <1>2, <1>3, <1>7, Follows, Zenon DEF next_event
<1> QED BY <1>2, <1>8, Call, Zenon

LEMMA ShutdownWhole ==
  /\ shutdown \in Seq(AccessName) /\ Whole(shutdown)
  /\ Head(shutdown) = "clear_TIE" /\ shutdown # <<>>
<1>1. Paired("no_target", "cmp_lo_max") /\ Ends("cmp_lo")
  BY DEF Paired, Ends, Retargets
<1>2. FromTo(shutdown, "clear_TIE", "cmp_lo")
  BY <1>1, CancelLinked, CompareLinked, Follows, Zenon DEF shutdown
<1> QED BY <1>1, <1>2, Call, Zenon

LEMMA InterruptWhole ==
  /\ interrupt \in Seq(AccessName) /\ Whole(interrupt)
  /\ Head(interrupt) = "clear_TIE" /\ interrupt # <<>>
<1>1. /\ Paired("no_target", "cmp_lo_max") /\ Paired("cmp_lo", "event_handler") /\ Ends("event_handler")
      /\ "event_handler" \in AccessName
  BY DEF Paired, Ends, Retargets, AccessName
<1>2. FromTo(<<"clear_TIE", "no_target">> \o compare, "clear_TIE", "cmp_lo")
  BY <1>1, CancelLinked, CompareLinked, Follows, Zenon
<1>3. FromTo(interrupt, "clear_TIE", "event_handler")
  BY <1>1, <1>2, OneLinked, Follows, Zenon DEF interrupt
<1> QED BY <1>1, <1>3, Call, Zenon

LEMMA TimerInitWhole ==
  /\ timer_init \in Seq(AccessName) /\ Whole(timer_init)
  /\ Head(timer_init) = "no_target" /\ timer_init # <<>>
<1>1. /\ Paired("no_target", "cmp_lo_max") /\ Paired("cmp_lo", "start") /\ Ends("start")
      /\ "no_target" \in AccessName /\ "start" \in AccessName
  BY DEF Paired, Ends, Retargets, AccessName
<1>2. FromTo(<<"no_target">> \o compare, "no_target", "cmp_lo")
  BY <1>1, OneLinked, CompareLinked, Follows, Zenon
<1>3. FromTo(timer_init, "no_target", "start")
  BY <1>1, <1>2, OneLinked, Follows, Zenon DEF timer_init
<1> QED BY <1>1, <1>3, Call, Zenon

\* A read of the counter that starts over.
LEMMA RetryWhole ==
  ASSUME NEW list \in Seq(AccessName), Whole(list), Head(list) = "read_hi_again"
  PROVE  /\ cycles \o Tail(list) \in Seq(AccessName) /\ Whole(cycles \o Tail(list))
         /\ Head(cycles \o Tail(list)) = "read_hi" /\ cycles \o Tail(list) # <<>>
<1>1. ~ Ends("read_hi_again")
  BY DEF Ends
<1>2. /\ Tail(list) \in Seq(AccessName) /\ Whole(Tail(list))
      /\ Paired("read_hi_again", Head(Tail(list)))
  BY <1>1, WholeTail
<1>3. PICK b : b = Tail(list)[Len(Tail(list))]
  OBVIOUS
<1>4. FromTo(Tail(list), Head(Tail(list)), b) /\ Ends(b)
  BY <1>2, <1>3, Zenon DEF Whole, FromTo
<1>5. FromTo(cycles \o Tail(list), "read_hi", b)
  BY <1>2, <1>4, CyclesLinked, Follows, Zenon
<1> QED BY <1>4, <1>5, Call, Zenon

-----------------------------------------------------------------------------
(* Arithmetic of double words *)

LEMMA DoubleIsNatural ==
  ASSUME TimerAssumption, NEW h \in Nat, NEW l \in Nat
  PROVE  Double(h, l) \in Nat
<1>1. WORD \in Nat
  BY DEF TimerAssumption
<1>2. h * WORD \in Nat
  BY <1>1
<1> QED BY <1>2 DEF Double

\* Taking a double word apart and putting it together.
LEMMA HalvesOf ==
  ASSUME TimerAssumption, NEW x \in Nat
  PROVE  /\ x \div WORD \in Nat /\ x % WORD \in 0 .. WORD - 1
         /\ Double(x \div WORD, x % WORD) = x
         /\ x <= Double(x \div WORD, WORD - 1)
<1>1. WORD \in Nat \ {0}
  BY DEF TimerAssumption
<1>2. x \div WORD \in Nat /\ x % WORD \in 0 .. WORD - 1
  BY <1>1
<1>3. x = (x \div WORD) * WORD + (x % WORD)
  BY <1>1
<1>4. PICK q \in Nat, r \in 0 .. WORD - 1 : q = x \div WORD /\ r = x % WORD
  BY <1>2
<1>5. q * WORD \in Nat /\ x = q * WORD + r
  BY <1>1, <1>3, <1>4
<1>6. q * WORD + r <= q * WORD + (WORD - 1)
  BY <1>1, <1>5
<1> QED BY <1>2, <1>4, <1>5, <1>6 DEF Double

LEMMA NeverIsWhole ==
  ASSUME TimerAssumption
  PROVE  Never \in Nat /\ Double(WORD - 1, WORD - 1) = Never
<1>1. PICK w \in Nat \ {0} : w = WORD
  BY DEF TimerAssumption
<1>2. w * w \in Nat /\ w * w >= 1 /\ (w - 1) * w + (w - 1) = w * w - 1
  BY <1>1
<1> QED BY <1>1, <1>2 DEF Never, Double

-----------------------------------------------------------------------------
(* The invariant *)

Numbers ==
  /\ timer_hi \in Nat /\ timer_lo \in 0 .. WORD - 1
  /\ timecmp_hi \in Nat /\ timecmp_lo \in 0 .. WORD - 1
  /\ hi \in Nat /\ lo \in Nat /\ delta \in Nat /\ target \in Nat /\ replaced \in Nat

\* The hart is in a call exactly while some of its accesses are left.
Calls ==
  /\ accesses \in Seq(AccessName)
  /\ accesses # <<>> => Whole(accesses)
  /\ in_call = "none" <=> accesses = <<>>

\* The access that comes next.
Stage == IF accesses = <<>> THEN "rest" ELSE Head(accesses)

\* What the counter is compared with: the target, except while it is moved.
Armed ==
  /\ Stage = "cmp_lo_max" => Double(timecmp_hi, timecmp_lo) = replaced
  /\ Stage = "cmp_hi" => timecmp_lo = WORD - 1 /\ replaced <= Double(timecmp_hi, timecmp_lo)
  /\ Stage = "cmp_lo" => timecmp_lo = WORD - 1 /\ timecmp_hi = target \div WORD
  /\ Stage \notin Compares => Double(timecmp_hi, timecmp_lo) = target

\* What may be left of a reader of the clock.
AllReads == <<"read_hi", "read_lo", "read_hi_again", "return">>
AfterHi == <<"read_lo", "read_hi_again", "return">>
AfterLo == <<"read_hi_again", "return">>
AfterReads == <<"return">>

\* What it has read lies between its call and now, unless the counter has
\* carried into the high half since it read that one.
Reads ==
  /\ reader \in {<<>>, AllReads, AfterHi, AfterLo, AfterReads}
  /\ since \in Nat /\ r_hi \in Nat /\ r_lo \in Nat
  /\ since <= Now
  /\ reader \in {AfterHi, AfterLo} => r_hi <= timer_hi
  /\ reader = AfterLo /\ r_hi = timer_hi => r_lo <= timer_lo /\ since <= Double(r_hi, r_lo)
  /\ reader = AfterReads => since <= Double(r_hi, r_lo) /\ Double(r_hi, r_lo) <= Now

TimerInv == Numbers /\ Calls /\ Armed /\ Reads

-----------------------------------------------------------------------------
(* The calls and what the counter is compared with *)

\* An access that leaves the call to the next one.
LEMMA NextStage ==
  ASSUME Calls, accesses # <<>>, AccessDone
  PROVE  /\ Calls' /\ Stage \in AccessName /\ Stage = Head(accesses)
         /\ Stage \in Retargets <=> Stage' = "cmp_lo_max"
         /\ Stage = "cmp_lo_max" <=> Stage' = "cmp_hi"
         /\ Stage = "cmp_hi" <=> Stage' = "cmp_lo"
<1>1. accesses' = Tail(accesses) /\ in_call' = IF Tail(accesses) = <<>> THEN "none" ELSE in_call
  BY DEF AccessDone, Rest
<1>2. in_call # "none" /\ Whole(accesses) /\ accesses \in Seq(AccessName)
  BY DEF Calls
<1>3. /\ Head(accesses) \in AccessName /\ Tail(accesses) \in Seq(AccessName)
      /\ Tail(accesses) # <<>> => Whole(Tail(accesses)) /\ Paired(Head(accesses), Head(Tail(accesses)))
      /\ Tail(accesses) = <<>> => Ends(Head(accesses))
  BY <1>2, WholeTail
<1>4. Calls'
  BY <1>1, <1>2, <1>3 DEF Calls
<1>5. Stage = Head(accesses)
  BY DEF Stage
<1>6. CASE Tail(accesses) = <<>>
  <2>1. Stage' = "rest"
    BY <1>1, <1>6 DEF Stage
  <2>2. Ends(Head(accesses))
    BY <1>3, <1>6
  <2> QED BY <1>3, <1>4, <1>5, <2>1, <2>2 DEF Ends
<1>7. CASE Tail(accesses) # <<>>
  <2>1. Stage' = Head(Tail(accesses))
    BY <1>1, <1>7 DEF Stage
  <2>2. Paired(Head(accesses), Head(Tail(accesses)))
    BY <1>3, <1>7
  <2> QED BY <1>3, <1>4, <1>5, <2>1, <2>2 DEF Paired
<1> QED BY <1>6, <1>7

\* An access that touches neither the comparison nor the target.
LEMMA QuietStep ==
  ASSUME Calls, Armed, accesses # <<>>, AccessDone, Head(accesses) \notin Retargets \cup Compares,
         UNCHANGED <<timecmp_hi, timecmp_lo, target, replaced>>
  PROVE  Calls' /\ Armed'
<1>1. /\ Calls' /\ Stage = Head(accesses)
      /\ Stage' # "cmp_lo_max" /\ Stage' # "cmp_hi" /\ Stage' # "cmp_lo"
  BY NextStage DEF Compares
<1>2. Stage \notin Compares /\ Stage' \notin Compares
  BY <1>1 DEF Compares
<1>3. Double(timecmp_hi, timecmp_lo) = target
  BY <1>2 DEF Armed
<1>4. Double(timecmp_hi, timecmp_lo)' = target'
  BY <1>3 DEF Double
<1> QED BY <1>1, <1>2, <1>4 DEF Armed

\* A step that leaves the driver and the comparison alone.
LEMMA DriverAside ==
  ASSUME Calls, Armed, UNCHANGED <<accesses, in_call, timecmp_hi, timecmp_lo, target, replaced>>
  PROVE  Calls' /\ Armed'
<1>1. Stage' = Stage
  BY DEF Stage
<1>2. Double(timecmp_hi, timecmp_lo)' = Double(timecmp_hi, timecmp_lo)
  BY DEF Double
<1>3. Calls'
  BY DEF Calls
<1>4. Armed'
  BY <1>1, <1>2 DEF Armed
<1> QED BY <1>3, <1>4

\* The beginning of a call.
LEMMA Entered ==
  ASSUME Armed, accesses' \in Seq(AccessName), Whole(accesses'), accesses' # <<>>, in_call' # "none",
         Head(accesses') \notin Compares, Stage \notin Compares,
         UNCHANGED <<timecmp_hi, timecmp_lo, target, replaced>>
  PROVE  Calls' /\ Armed'
<1>1. Calls'
  BY DEF Calls
<1>2. Stage' \notin Compares
  BY DEF Stage
<1>3. Double(timecmp_hi, timecmp_lo) = target
  BY DEF Armed
<1>4. Double(timecmp_hi, timecmp_lo)' = target'
  BY <1>3 DEF Double
<1>5. Armed'
  BY <1>2, <1>4 DEF Armed, Compares
<1> QED BY <1>1, <1>5

\* A new target is to be written.
LEMMA TargetMoved ==
  ASSUME Calls, Armed, accesses # <<>>, AccessDone, Head(accesses) \in Retargets,
         UNCHANGED <<timecmp_hi, timecmp_lo>>, replaced' = target
  PROVE  Calls' /\ Armed'
<1>1. Calls' /\ Stage = Head(accesses) /\ Stage' = "cmp_lo_max"
  BY NextStage
<1>2. Stage \notin Compares
  BY <1>1 DEF Compares, Retargets
<1>3. Double(timecmp_hi, timecmp_lo) = target
  BY <1>2 DEF Armed
<1>4. Double(timecmp_hi, timecmp_lo)' = replaced'
  BY <1>3 DEF Double
<1> QED BY <1>1, <1>4 DEF Armed, Compares

\* The three writes of compare().
LEMMA LowIsMasked ==
  ASSUME TimerAssumption, Numbers, Calls, Armed, CompareLoMax
  PROVE  Calls' /\ Armed' /\ timecmp_lo' \in 0 .. WORD - 1
<1>1. Calls' /\ Stage = "cmp_lo_max" /\ Stage' = "cmp_hi"
  BY NextStage DEF CompareLoMax, Access
<1>2. Double(timecmp_hi, timecmp_lo) = replaced
  BY <1>1 DEF Armed
<1>3. /\ timecmp_lo' = WORD - 1 /\ timecmp_hi' = timecmp_hi /\ replaced' = replaced
  BY DEF CompareLoMax, armed_vars
<1>4. PICK h \in Nat, w \in Nat \ {0}, l \in 0 .. WORD - 1 :
        h = timecmp_hi /\ w = WORD /\ l = timecmp_lo
  BY DEF Numbers, TimerAssumption
<1>5. h * w \in Nat /\ h * w + l <= h * w + (w - 1) /\ w - 1 \in 0 .. w - 1
  BY <1>4
<1>6. replaced' <= Double(timecmp_hi, timecmp_lo)' /\ timecmp_lo' \in 0 .. WORD - 1
  BY <1>2, <1>3, <1>4, <1>5 DEF Double
<1> QED BY <1>1, <1>3, <1>6 DEF Armed, Compares

LEMMA HighIsWritten ==
  ASSUME TimerAssumption, Numbers, Calls, Armed, CompareHi
  PROVE  Calls' /\ Armed' /\ timecmp_hi' \in Nat
<1>1. Calls' /\ Stage = "cmp_hi" /\ Stage' = "cmp_lo"
  BY NextStage DEF CompareHi, Access
<1>2. timecmp_lo = WORD - 1 /\ timecmp_hi' = target \div WORD
  BY <1>1 DEF Armed, CompareHi
<1>3. timecmp_lo' = timecmp_lo /\ target' = target /\ replaced' = replaced
  BY DEF CompareHi, armed_vars
<1>4. timecmp_lo' = WORD - 1 /\ timecmp_hi' = target' \div WORD
  BY <1>2, <1>3
<1>5. timecmp_hi' \in Nat
  BY <1>2, HalvesOf DEF Numbers
<1> QED BY <1>1, <1>4, <1>5 DEF Armed, Compares

LEMMA LowIsWritten ==
  ASSUME TimerAssumption, Numbers, Calls, Armed, CompareLo
  PROVE  Calls' /\ Armed' /\ timecmp_lo' \in 0 .. WORD - 1
<1>1. /\ Calls' /\ Stage = "cmp_lo"
      /\ Stage' # "cmp_lo_max" /\ Stage' # "cmp_hi" /\ Stage' # "cmp_lo"
  BY NextStage DEF CompareLo, Access, Retargets
<1>2. timecmp_hi = target \div WORD /\ timecmp_lo' = target % WORD
  BY <1>1 DEF Armed, CompareLo
<1>3. timecmp_hi' = timecmp_hi /\ target' = target
  BY DEF CompareLo, armed_vars
<1>4. Double(target \div WORD, target % WORD) = target /\ target % WORD \in 0 .. WORD - 1
  BY HalvesOf DEF Numbers
<1>5. Double(timecmp_hi, timecmp_lo)' = target'
  BY <1>2, <1>3, <1>4 DEF Double
<1>6. timecmp_lo' \in 0 .. WORD - 1
  BY <1>2, <1>4
<1> QED BY <1>1, <1>5, <1>6 DEF Armed, Compares

-----------------------------------------------------------------------------
(* The counter and the reader of the clock *)

\* The carry: one more is one more, and the high half never runs back.
LEMMA CounterAdvances ==
  ASSUME TimerAssumption, Numbers, CountUp
  PROVE  /\ Now' = Now + 1 /\ timer_hi' \in Nat /\ timer_lo' \in 0 .. WORD - 1
         /\ timer_hi <= timer_hi' /\ (timer_hi' = timer_hi => timer_lo <= timer_lo')
<1>1. PICK h \in Nat, w \in Nat \ {0, 1}, l \in 0 .. WORD - 1 :
        h = timer_hi /\ w = WORD /\ l = timer_lo
  BY DEF Numbers, TimerAssumption
<1>2. h * w \in Nat /\ (h + 1) * w = h * w + w
  BY <1>1
<1>3. CASE l = w - 1
  <2>1. (l + 1) % w = 0
    BY <1>1, <1>3
  <2>2. timer_lo' = 0 /\ timer_hi' = h + 1
    BY <1>1, <1>3, <2>1 DEF CountUp
  <2>3. (h + 1) * w + 0 = h * w + l + 1
    BY <1>1, <1>2, <1>3
  <2>4. h <= h + 1 /\ h + 1 # h /\ h + 1 \in Nat /\ 0 \in 0 .. w - 1
    BY <1>1
  <2> QED BY <1>1, <2>2, <2>3, <2>4 DEF Now, Double, CountUp
<1>4. CASE l # w - 1
  <2>1. (l + 1) % w = l + 1
    BY <1>1, <1>4
  <2>2. timer_lo' = l + 1 /\ timer_hi' = h
    BY <1>1, <1>4, <2>1 DEF CountUp
  <2>3. h * w + (l + 1) = h * w + l + 1 /\ l + 1 \in 0 .. w - 1 /\ l <= l + 1
    BY <1>1, <1>2, <1>4
  <2> QED BY <1>1, <2>2, <2>3 DEF Now, Double, CountUp
<1> QED BY <1>3, <1>4

\* Time passes a reader.
LEMMA TimePasses ==
  ASSUME TimerAssumption, Numbers, Reads, CountUp
  PROVE  Reads'
<1>1. PICK n \in Nat, m \in Nat, g \in Nat, k \in Nat :
        /\ n = Now /\ m = Now' /\ m = n + 1 /\ timer_hi' = g /\ timer_lo' = k
        /\ timer_hi <= g /\ (g = timer_hi => timer_lo <= k)
  <2>1. /\ Now' = Now + 1 /\ timer_hi' \in Nat /\ timer_lo' \in Nat
        /\ timer_hi <= timer_hi' /\ (timer_hi' = timer_hi => timer_lo <= timer_lo')
    BY CounterAdvances
  <2>2. Now \in Nat
    BY DoubleIsNatural DEF Numbers, Now
  <2>3. PICK n \in Nat : n = Now
    BY <2>2
  <2>4. n + 1 \in Nat /\ Now' = n + 1
    BY <2>1, <2>3
  <2>5. PICK m \in Nat : m = n + 1 /\ Now' = m
    BY <2>4
  <2>6. PICK g \in Nat : g = timer_hi'
    BY <2>1
  <2>7. PICK k \in Nat : k = timer_lo'
    BY <2>1
  <2>8. timer_hi <= g /\ (g = timer_hi => timer_lo <= k)
    BY <2>1, <2>6, <2>7
  <2> QED BY <2>3, <2>5, <2>6, <2>7, <2>8
<1>2. UNCHANGED <<reader, since, r_hi, r_lo>>
  BY DEF CountUp, clock
<1>3. PICK d \in Nat : d = Double(r_hi, r_lo) /\ Double(r_hi, r_lo)' = d
  BY <1>2, DoubleIsNatural DEF Reads, Double
<1>4. since <= m
  BY <1>1 DEF Reads
<1>5. reader \in {AfterHi, AfterLo} => r_hi <= g
  BY <1>1 DEF Reads, Numbers
<1>6. reader = AfterLo /\ r_hi = g => r_lo <= k /\ since <= d
  <2>1. SUFFICES ASSUME reader = AfterLo, r_hi = g PROVE r_lo <= k /\ since <= d
    OBVIOUS
  <2>2. r_hi <= timer_hi
    BY <2>1 DEF Reads
  <2>3. r_hi = timer_hi
    BY <1>1, <2>1, <2>2 DEF Reads, Numbers
  <2>4. r_lo <= timer_lo /\ since <= d
    BY <1>3, <2>1, <2>3 DEF Reads
  <2> QED BY <1>1, <2>1, <2>3, <2>4 DEF Reads, Numbers
<1>7. reader = AfterReads => since <= d /\ d <= m
  BY <1>1, <1>3 DEF Reads
<1> QED BY <1>1, <1>2, <1>3, <1>4, <1>5, <1>6, <1>7 DEF Reads, AllReads, AfterHi, AfterLo, AfterReads

LEMMA ReaderAside ==
  ASSUME Reads, UNCHANGED <<timer_hi, timer_lo, reader, since, r_hi, r_lo>>
  PROVE  Reads'
<1>1. Now' = Now /\ Double(r_hi, r_lo)' = Double(r_hi, r_lo)
  BY DEF Now, Double
<1> QED BY <1>1 DEF Reads, AllReads, AfterHi, AfterLo, AfterReads

\* What the reader's lists are.
ReadName == {"read_hi", "read_lo", "read_hi_again", "return"}

LEMMA ReaderHeads ==
  /\ Head(AllReads) = "read_hi" /\ Head(AfterHi) = "read_lo"
  /\ Head(AfterLo) = "read_hi_again" /\ Head(AfterReads) = "return"
BY DEF AllReads, AfterHi, AfterLo, AfterReads

LEMMA TailOfAllReads == Tail(AllReads) = AfterHi
BY DEF AllReads, AfterHi

LEMMA TailOfAfterHi == Tail(AfterHi) = AfterLo
BY DEF AfterLo, AfterHi

LEMMA TailOfAfterLo == Tail(AfterLo) = AfterReads
BY DEF AfterLo, AfterReads

LEMMA ReadElements ==
  /\ cycles \in Seq(ReadName) /\ Len(cycles) = 3
  /\ cycles[1] = "read_hi" /\ cycles[2] = "read_lo" /\ cycles[3] = "read_hi_again"
  /\ AllReads \in Seq(ReadName) /\ Len(AllReads) = 4
  /\ AllReads[1] = "read_hi" /\ AllReads[2] = "read_lo" /\ AllReads[3] = "read_hi_again"
  /\ AllReads[4] = "return"
  /\ AfterReads \in Seq(ReadName) /\ Len(AfterReads) = 1 /\ AfterReads[1] = "return"
BY DEF cycles, AllReads, AfterReads, ReadName

LEMMA ReadsOnce == Append(cycles, "return") = AllReads
<1>1. PICK c \in Seq(ReadName), r \in Seq(ReadName), x \in ReadName :
        c = cycles /\ r = AllReads /\ x = "return"
  BY ReadElements DEF ReadName
<1>2. /\ Append(c, x) \in Seq(ReadName) /\ Len(Append(c, x)) = Len(c) + 1
      /\ \A i \in 1 .. Len(c) : Append(c, x)[i] = c[i]
      /\ Append(c, x)[Len(c) + 1] = x
  BY AppendProperties
<1>3. Len(c) = 3 /\ Len(r) = 4 /\ \A i \in 1 .. 4 : (i \in 1 .. 3 /\ c[i] = r[i]) \/ (i = 3 + 1 /\ r[i] = x)
  BY <1>1, ReadElements
<1>4. Len(Append(c, x)) = Len(r) /\ \A i \in 1 .. Len(Append(c, x)) : Append(c, x)[i] = r[i]
  BY <1>2, <1>3
<1>5. Append(c, x) = r
  BY <1>2, <1>4, SeqEqual
<1> QED BY <1>1, <1>5

LEMMA ReadsAgain == cycles \o AfterReads = AllReads
<1>1. PICK c \in Seq(ReadName), a \in Seq(ReadName), r \in Seq(ReadName) :
        c = cycles /\ a = AfterReads /\ r = AllReads
  BY ReadElements
<1>2. /\ c \o a \in Seq(ReadName) /\ Len(c \o a) = Len(c) + Len(a)
      /\ \A i \in 1 .. Len(c) + Len(a) : (c \o a)[i] = IF i <= Len(c) THEN c[i] ELSE a[i - Len(c)]
  BY ConcatProperties
<1>3. /\ Len(c) = 3 /\ Len(a) = 1 /\ Len(r) = 4
      /\ \A i \in 1 .. 4 : (i <= 3 /\ c[i] = r[i]) \/ (i = 4 /\ r[i] = a[1])
  BY <1>1, ReadElements
<1>4. Len(c \o a) = Len(r) /\ \A i \in 1 .. Len(c \o a) : (c \o a)[i] = r[i]
  BY <1>2, <1>3
<1>5. c \o a = r
  BY <1>2, <1>4, SeqEqual
<1> QED BY <1>1, <1>5

LEMMA ReaderDistinct ==
  /\ AllReads # AfterHi /\ AllReads # AfterLo /\ AllReads # AfterReads
  /\ AfterHi # AfterLo /\ AfterHi # AfterReads /\ AfterLo # AfterReads
  /\ <<>> # AfterHi /\ <<>> # AfterLo /\ <<>> # AfterReads
<1>1. Len(AfterHi) = 3 /\ Len(AfterLo) = 2 /\ Len(AfterReads) = 1 /\ Len(<<>>) = 0
  BY DEF AfterHi, AfterLo, AfterReads
<1>2. Len(AllReads) = 4
  BY DEF AllReads
<1>3. 4 # 3 /\ 4 # 2 /\ 4 # 1 /\ 3 # 2 /\ 3 # 1 /\ 2 # 1 /\ 0 # 3 /\ 0 # 2 /\ 0 # 1
  OBVIOUS
<1> QED BY <1>1, <1>2, <1>3, Zenon

\* Which of them the reader is at.
LEMMA ReaderIsAt ==
  ASSUME Reads, NEW step, Reader(step)
  PROVE  /\ step = "read_hi" => reader = AllReads
         /\ step = "read_lo" => reader = AfterHi
         /\ step = "read_hi_again" => reader = AfterLo
         /\ step = "return" => reader = AfterReads
<1>1. reader # <<>> /\ Head(reader) = step /\ reader \in {<<>>, AllReads, AfterHi, AfterLo, AfterReads}
  BY DEF Reader, Reads
<1>2. "read_hi" # "read_lo" /\ "read_hi" # "read_hi_again" /\ "read_hi" # "return"
      /\ "read_lo" # "read_hi_again" /\ "read_lo" # "return" /\ "read_hi_again" # "return"
  OBVIOUS
<1> QED BY <1>1, <1>2, ReaderHeads, Zenon

LEMMA ClockRuns ==
  ASSUME TimerAssumption, Numbers, Reads, ReadClock \/ ClockStep
  PROVE  Reads'
<1>1. Now \in Nat /\ Double(r_hi, r_lo) \in Nat
  <2>1. timer_lo \in Nat
    BY DEF Numbers, TimerAssumption
  <2> QED BY <2>1, DoubleIsNatural DEF Now, Numbers, Reads
<1>2. timer_hi' = timer_hi /\ timer_lo' = timer_lo
  BY DEF ReadClock, ClockStep, ReaderHi, ReaderLo, ReaderHiAgain, ReaderReturns, device
<1>3. Now' = Now
  BY <1>2 DEF Now, Double
<1>4. timer_hi \in Nat /\ timer_lo \in Nat
  BY DEF Numbers, TimerAssumption
<1>5. CASE ReadClock
  <2>1. reader' = AllReads /\ since' = Now /\ r_hi' = r_hi /\ r_lo' = r_lo
    BY <1>5, ReadsOnce DEF ReadClock
  <2>2. reader' \notin {AfterHi, AfterLo} /\ reader' # AfterReads
    BY <2>1, ReaderDistinct
  <2> QED BY <1>1, <1>3, <2>1, <2>2 DEF Reads, AllReads, AfterHi, AfterLo, AfterReads
<1>6. CASE ReaderHi
  <2>1. reader = AllReads
    BY <1>6, ReaderIsAt DEF ReaderHi
  <2>2. reader' = AfterHi /\ since' = since /\ r_hi' = timer_hi /\ r_lo' = r_lo
    BY <1>6, <2>1, TailOfAllReads DEF ReaderHi
  <2>3. reader' # AfterLo /\ reader' # AfterReads
    BY <2>2, ReaderDistinct
  <2> QED BY <1>2, <1>3, <1>4, <2>2, <2>3 DEF Reads, AllReads, AfterHi, AfterLo, AfterReads
<1>7. CASE ReaderLo
  <2>1. reader = AfterHi
    BY <1>7, ReaderIsAt DEF ReaderLo
  <2>2. reader' = AfterLo /\ since' = since /\ r_hi' = r_hi /\ r_lo' = timer_lo
    BY <1>7, <2>1, TailOfAfterHi DEF ReaderLo
  <2>3. reader' # AfterReads /\ r_hi <= timer_hi
    BY <2>1, <2>2, ReaderDistinct DEF Reads
  <2>4. r_hi = timer_hi => Double(r_hi, timer_lo) = Now
    BY DEF Now
  <2>5. Double(r_hi, r_lo)' = Double(r_hi, timer_lo)
    BY <2>2 DEF Double
  <2> QED BY <1>2, <1>3, <1>4, <2>2, <2>3, <2>4, <2>5 DEF Reads, AllReads, AfterHi, AfterLo, AfterReads
<1>8. CASE ReaderHiAgain
  <2>1. reader = AfterLo
    BY <1>8, ReaderIsAt DEF ReaderHiAgain
  <2>2. since' = since /\ r_hi' = r_hi /\ r_lo' = r_lo
    BY <1>8 DEF ReaderHiAgain
  <2>3. Double(r_hi, r_lo)' = Double(r_hi, r_lo)
    BY <2>2 DEF Double
  <2>4. CASE r_hi = timer_hi
    <3>1. reader' = AfterReads
      BY <1>8, <2>1, <2>4, TailOfAfterLo DEF ReaderHiAgain
    <3>2. r_lo <= timer_lo /\ since <= Double(r_hi, r_lo)
      BY <2>1, <2>4 DEF Reads
    <3>3. Double(r_hi, r_lo) <= Now
      <4>1. PICK p \in Int, a \in Nat, b \in Nat : p = timer_hi * WORD /\ a = r_lo /\ b = timer_lo
        BY <1>4 DEF Reads, TimerAssumption
      <4>2. p + a <= p + b
        BY <3>2, <4>1
      <4> QED BY <2>4, <4>1, <4>2 DEF Now, Double
    <3>4. reader' # AfterHi /\ reader' # AfterLo
      BY <3>1, ReaderDistinct
    <3> QED BY <1>2, <1>3, <2>2, <2>3, <3>1, <3>2, <3>3, <3>4
            DEF Reads, AllReads, AfterHi, AfterLo, AfterReads
  <2>5. CASE r_hi # timer_hi
    <3>1. reader' = AllReads
      BY <1>8, <2>1, <2>5, TailOfAfterLo, ReadsAgain DEF ReaderHiAgain
    <3>2. reader' # AfterHi /\ reader' # AfterLo /\ reader' # AfterReads
      BY <3>1, ReaderDistinct
    <3> QED BY <1>2, <1>3, <2>2, <3>1, <3>2 DEF Reads, AllReads, AfterHi, AfterLo, AfterReads
  <2> QED BY <2>4, <2>5
<1>9. CASE ReaderReturns
  <2>1. reader' = <<>> /\ since' = 0 /\ r_hi' = 0 /\ r_lo' = 0
    BY <1>9 DEF ReaderReturns
  <2>2. reader' # AfterHi /\ reader' # AfterLo /\ reader' # AfterReads
    BY <2>1, ReaderDistinct
  <2> QED BY <1>1, <1>3, <2>1, <2>2 DEF Reads, AllReads, AfterHi, AfterLo, AfterReads
<1> QED BY <1>5, <1>6, <1>7, <1>8, <1>9 DEF ClockStep

-----------------------------------------------------------------------------
(* The steps *)

LEMMA TimerBegins == TimerAssumption /\ TimerInit => TimerInv
<1>1. SUFFICES ASSUME TimerAssumption, TimerInit PROVE TimerInv
  OBVIOUS
<1>2. WORD \in Nat \ {0, 1} /\ WORD - 1 \in Nat /\ WORD - 1 \in 0 .. WORD - 1 /\ 0 \in 0 .. WORD - 1
  BY <1>1 DEF TimerAssumption
<1>3. Never \in Nat /\ Double(WORD - 1, WORD - 1) = Never
  BY <1>1, NeverIsWhole
<1>4. Numbers
  BY <1>1, <1>2, <1>3 DEF TimerInit, Numbers
<1>5. accesses = <<>> /\ in_call = "none" /\ <<>> \in Seq(AccessName)
  BY <1>1 DEF TimerInit
<1>6. Calls
  BY <1>5 DEF Calls
<1>7. Stage = "rest"
  BY <1>5 DEF Stage
<1>8. Armed
  BY <1>1, <1>3, <1>7 DEF Armed, TimerInit, Compares
<1>9. reader = <<>> /\ since = 0 /\ r_hi = 0 /\ r_lo = 0 /\ Now \in Nat
  BY <1>1, <1>2, DoubleIsNatural DEF TimerInit, Now
<1>10. reader # AfterHi /\ reader # AfterLo /\ reader # AfterReads
  BY <1>9, ReaderDistinct
<1>11. Reads
  BY <1>9, <1>10 DEF Reads, AllReads, AfterHi, AfterLo, AfterReads
<1> QED BY <1>4, <1>6, <1>8, <1>11 DEF TimerInv

LEMMA StepKeepsBooks ==
  ASSUME TimerAssumption, TimerInv, TimerStep
  PROVE  TimerInv'
<1>1. Numbers /\ Calls /\ Armed /\ Reads
  BY DEF TimerInv
<1>2. UNCHANGED <<timer_hi, timer_lo, reader, since, r_hi, r_lo>>
  BY DEF TimerStep, ReadHi, ReadLo, ReadHiAgain, AddDelta, NoTarget, CompareLoMax, CompareHi,
         CompareLo, SetTie, ClearTie, TooLate, StartTimer, EventHandler, device, clock
<1>3. Reads'
  BY <1>1, <1>2, ReaderAside
<1>4. 0 \in Nat /\ timer_lo \in Nat
  BY <1>1 DEF Numbers, TimerAssumption
<1>5. Retargets \cap Compares = {}
  BY DEF Retargets, Compares
<1>6. CASE ReadHi
  <2>1. Calls' /\ Armed'
    BY <1>1, <1>6, QuietStep DEF ReadHi, Access, Retargets, Compares, device, armed_vars
  <2>2. Numbers'
    BY <1>1, <1>2, <1>6 DEF ReadHi, Numbers, device, armed_vars
  <2> QED BY <1>3, <2>1, <2>2 DEF TimerInv
<1>7. CASE ReadLo
  <2>1. Calls' /\ Armed'
    BY <1>1, <1>7, QuietStep DEF ReadLo, Access, Retargets, Compares, device, armed_vars
  <2>2. Numbers'
    BY <1>1, <1>2, <1>4, <1>7 DEF ReadLo, Numbers, device, armed_vars
  <2> QED BY <1>3, <2>1, <2>2 DEF TimerInv
<1>8. CASE ReadHiAgain
  <2>1. Numbers'
    BY <1>1, <1>2, <1>8 DEF ReadHiAgain, Numbers, device, armed_vars
  <2>2. Head(accesses) = "read_hi_again" /\ accesses # <<>> /\ accesses \in Seq(AccessName) /\ Whole(accesses)
    BY <1>1, <1>8 DEF ReadHiAgain, Access, Calls
  <2>3. CASE hi = timer_hi
    <3>1. AccessDone
      BY <1>8, <2>3 DEF ReadHiAgain, AccessDone
    <3>2. Calls' /\ Armed'
      BY <1>1, <1>8, <2>2, <3>1, QuietStep DEF ReadHiAgain, Retargets, Compares, device, armed_vars
    <3> QED BY <1>3, <2>1, <3>2 DEF TimerInv
  <2>4. CASE hi # timer_hi
    <3>1. accesses' = cycles \o Tail(accesses)
      BY <1>8, <2>4 DEF ReadHiAgain, Rest
    <3>2. accesses' \in Seq(AccessName) /\ Whole(accesses') /\ Head(accesses') = "read_hi" /\ accesses' # <<>>
      BY <2>2, <3>1, RetryWhole
    <3>3. in_call' = in_call
      BY <1>8, <2>4, <3>1, <3>2 DEF ReadHiAgain, Rest
    <3>4. in_call' # "none"
      BY <1>1, <2>2, <3>3 DEF Calls
    <3>5. Stage \notin Compares /\ "read_hi" \notin Compares
      BY <2>2 DEF Stage, Compares
    <3>6. UNCHANGED <<timecmp_hi, timecmp_lo, target, replaced>>
      BY <1>8 DEF ReadHiAgain, device, armed_vars
    <3>7. Calls' /\ Armed'
      BY <1>1, <3>2, <3>4, <3>5, <3>6, Entered
    <3> QED BY <1>3, <2>1, <3>7 DEF TimerInv
  <2> QED BY <2>3, <2>4
<1>9. CASE AddDelta
  <2>1. Calls' /\ Armed'
    BY <1>1, <1>9, TargetMoved DEF AddDelta, Access, Retargets, device
  <2>2. Double(hi, lo) + delta \in Nat
    <3>1. Double(hi, lo) \in Nat /\ delta \in Nat
      BY <1>1, DoubleIsNatural DEF Numbers
    <3> QED BY <3>1
  <2>3. Numbers'
    BY <1>1, <1>2, <1>9, <2>2 DEF AddDelta, Numbers, device
  <2> QED BY <1>3, <2>1, <2>3 DEF TimerInv
<1>10. CASE NoTarget
  <2>1. Calls' /\ Armed'
    BY <1>1, <1>10, TargetMoved DEF NoTarget, Access, Retargets, device
  <2>2. Numbers'
    BY <1>1, <1>2, <1>10, NeverIsWhole DEF NoTarget, Numbers, device
  <2> QED BY <1>3, <2>1, <2>2 DEF TimerInv
<1>11. CASE CompareLoMax
  <2>1. Calls' /\ Armed' /\ timecmp_lo' \in 0 .. WORD - 1
    BY <1>1, <1>11, LowIsMasked
  <2>2. Numbers'
    BY <1>1, <1>2, <1>11, <2>1 DEF CompareLoMax, Numbers, armed_vars
  <2> QED BY <1>3, <2>1, <2>2 DEF TimerInv
<1>12. CASE CompareHi
  <2>1. Calls' /\ Armed' /\ timecmp_hi' \in Nat
    BY <1>1, <1>12, HighIsWritten
  <2>2. Numbers'
    BY <1>1, <1>2, <1>12, <2>1 DEF CompareHi, Numbers, armed_vars
  <2> QED BY <1>3, <2>1, <2>2 DEF TimerInv
<1>13. CASE CompareLo
  <2>1. Calls' /\ Armed' /\ timecmp_lo' \in 0 .. WORD - 1
    BY <1>1, <1>13, LowIsWritten
  <2>2. Numbers'
    BY <1>1, <1>2, <1>13, <2>1 DEF CompareLo, Numbers, armed_vars
  <2> QED BY <1>3, <2>1, <2>2 DEF TimerInv
<1>14. CASE SetTie
  <2>1. Calls' /\ Armed'
    BY <1>1, <1>14, QuietStep DEF SetTie, Access, Retargets, Compares, device, armed_vars
  <2>2. Numbers'
    BY <1>1, <1>2, <1>14 DEF SetTie, Numbers, device, armed_vars
  <2> QED BY <1>3, <2>1, <2>2 DEF TimerInv
<1>15. CASE ClearTie
  <2>1. Calls' /\ Armed'
    BY <1>1, <1>15, QuietStep DEF ClearTie, Access, Retargets, Compares, device, armed_vars
  <2>2. Numbers'
    BY <1>1, <1>2, <1>15 DEF ClearTie, Numbers, device, armed_vars
  <2> QED BY <1>3, <2>1, <2>2 DEF TimerInv
<1>16. CASE TooLate
  <2>1. Calls' /\ Armed'
    BY <1>1, <1>16, QuietStep DEF TooLate, Access, Retargets, Compares, device, armed_vars
  <2>2. Numbers'
    BY <1>1, <1>2, <1>16 DEF TooLate, Numbers, device, armed_vars
  <2> QED BY <1>3, <2>1, <2>2 DEF TimerInv
<1>17. CASE StartTimer
  <2>1. Calls' /\ Armed'
    BY <1>1, <1>17, QuietStep DEF StartTimer, Access, Retargets, Compares, device, armed_vars
  <2>2. Numbers'
    BY <1>1, <1>2, <1>17 DEF StartTimer, Numbers, device, armed_vars
  <2> QED BY <1>3, <2>1, <2>2 DEF TimerInv
<1>18. CASE EventHandler
  <2>1. Head(accesses) = "event_handler" /\ accesses # <<>>
    BY <1>18 DEF EventHandler, Access
  <2>2. UNCHANGED <<timecmp_hi, timecmp_lo, target, replaced, hi, lo>>
    BY <1>18 DEF EventHandler, device, armed_vars
  <2>3. CASE AccessDone /\ UNCHANGED delta
    <3>1. Calls' /\ Armed'
      BY <1>1, <2>1, <2>2, <2>3, QuietStep DEF Retargets, Compares
    <3>2. Numbers'
      BY <1>1, <1>2, <2>2, <2>3 DEF Numbers
    <3> QED BY <1>3, <3>1, <3>2 DEF TimerInv
  <2>4. CASE in_call' = "next_event" /\ accesses' = next_event /\ \E d \in Deltas : delta' = d
    <3>1. Stage \notin Compares /\ "read_hi" \notin Compares
      BY <2>1 DEF Stage, Compares
    <3>2. Calls' /\ Armed'
      BY <1>1, <2>2, <2>4, <3>1, NextEventWhole, Entered
    <3>3. Numbers'
      BY <1>1, <1>2, <2>2, <2>4 DEF Numbers, TimerAssumption
    <3> QED BY <1>3, <3>2, <3>3 DEF TimerInv
  <2> QED BY <1>18, <2>3, <2>4 DEF EventHandler
<1> QED BY <1>6, <1>7, <1>8, <1>9, <1>10, <1>11, <1>12, <1>13, <1>14, <1>15, <1>16, <1>17, <1>18
        DEF TimerStep

\* A call enters only when no other is in progress.
LEMMA EntryKeepsBooks ==
  ASSUME TimerAssumption, TimerInv,
         Probe \/ Shutdown \/ Interrupt \/ (\E d \in Deltas : NextEvent(d))
  PROVE  TimerInv'
<1>1. Numbers /\ Calls /\ Armed /\ Reads
  BY DEF TimerInv
<1>2. /\ in_call = "none" /\ in_call' # "none"
      /\ accesses' \in {timer_init, shutdown, interrupt, next_event}
  BY DEF Probe, Shutdown, Interrupt, NextEvent, Enter
<1>3. UNCHANGED <<device, hi, lo, target, replaced, clock>>
  BY DEF Probe, Shutdown, Interrupt, NextEvent, armed_vars
<1>4. delta' = delta \/ delta' \in Deltas
  BY DEF Probe, Shutdown, Interrupt, NextEvent, armed_vars
<1>5. /\ accesses' \in Seq(AccessName) /\ Whole(accesses') /\ accesses' # <<>>
      /\ Head(accesses') \in {"no_target", "clear_TIE", "read_hi"}
  BY <1>2, TimerInitWhole, ShutdownWhole, InterruptWhole, NextEventWhole
<1>6. Stage \notin Compares /\ Head(accesses') \notin Compares
  BY <1>1, <1>2, <1>5 DEF Stage, Compares, Calls
<1>7. Calls' /\ Armed'
  BY <1>1, <1>2, <1>3, <1>5, <1>6, Entered DEF device
<1>8. Reads'
  BY <1>1, <1>3, ReaderAside DEF device, clock
<1>9. Numbers'
  BY <1>1, <1>3, <1>4 DEF Numbers, TimerAssumption, device
<1> QED BY <1>7, <1>8, <1>9 DEF TimerInv

LEMMA NextKeepsBooks ==
  ASSUME TimerAssumption, TimerInv, [TimerNext]_timer_vars
  PROVE  TimerInv'
<1>1. Numbers /\ Calls /\ Armed /\ Reads
  BY DEF TimerInv
<1>2. CASE CountUp
  <2>1. UNCHANGED <<accesses, in_call, timecmp_hi, timecmp_lo, hi, lo, delta, target, replaced>>
    BY <1>2 DEF CountUp, driver, armed_vars
  <2>2. Calls' /\ Armed'
    BY <1>1, <2>1, DriverAside
  <2>3. timer_hi' \in Nat /\ timer_lo' \in 0 .. WORD - 1
    BY <1>1, <1>2, CounterAdvances
  <2>4. Numbers'
    BY <1>1, <2>1, <2>3 DEF Numbers
  <2>5. Reads'
    BY <1>1, <1>2, TimePasses
  <2> QED BY <2>2, <2>4, <2>5 DEF TimerInv
<1>3. CASE Probe \/ Shutdown \/ Interrupt \/ (\E d \in Deltas : NextEvent(d))
  BY <1>3, EntryKeepsBooks
<1>4. CASE TimerStep
  BY <1>4, StepKeepsBooks
<1>5. CASE ReadClock \/ ClockStep
  <2>1. UNCHANGED <<device, driver>>
    BY <1>5 DEF ReadClock, ClockStep, ReaderHi, ReaderLo, ReaderHiAgain, ReaderReturns
  <2>2. Calls' /\ Armed'
    BY <1>1, <2>1, DriverAside DEF device, driver, armed_vars
  <2>3. Numbers'
    BY <1>1, <2>1 DEF Numbers, device, driver, armed_vars
  <2>4. Reads'
    BY <1>1, <1>5, ClockRuns
  <2> QED BY <2>2, <2>3, <2>4 DEF TimerInv
<1>6. CASE UNCHANGED timer_vars
  <2>1. UNCHANGED <<device, driver, clock>>
    BY <1>6 DEF timer_vars
  <2>2. Calls' /\ Armed'
    BY <1>1, <2>1, DriverAside DEF device, driver, armed_vars
  <2>3. Numbers'
    BY <1>1, <2>1 DEF Numbers, device, driver, armed_vars
  <2>4. Reads'
    BY <1>1, <2>1, ReaderAside DEF device, clock
  <2> QED BY <2>2, <2>3, <2>4 DEF TimerInv
<1> QED BY <1>2, <1>3, <1>4, <1>5, <1>6 DEF TimerNext

\* The invariant says more than the properties.
LEMMA BooksAreTrue ==
  ASSUME TimerAssumption, TimerInv
  PROVE  TimeIsTrue
<1>1. Numbers /\ Calls /\ Armed /\ Reads
  BY DEF TimerInv
<1>2. Now \in Nat /\ Double(r_hi, r_lo) \in Nat /\ since \in Nat
  <2>1. timer_lo \in Nat
    BY <1>1 DEF Numbers, TimerAssumption
  <2> QED BY <1>1, <2>1, DoubleIsNatural DEF Now, Numbers, Reads
<1>3. ClockIsTrue
  <2>1. SUFFICES ASSUME reader = AfterReads PROVE Double(r_hi, r_lo) \in since .. Now
    BY DEF ClockIsTrue, AfterReads
  <2>2. since <= Double(r_hi, r_lo) /\ Double(r_hi, r_lo) <= Now
    BY <1>1, <2>1 DEF Reads
  <2> QED BY <1>2, <2>2
<1>4. LineIsNeverEarly
  <2>1. SUFFICES ASSUME Now >= Double(timecmp_hi, timecmp_lo) PROVE Now >= target \/ Now >= replaced
    BY DEF LineIsNeverEarly, timer_irq_o
  <2>2. PICK d \in Nat, n \in Nat : d = Double(timecmp_hi, timecmp_lo) /\ n = Now /\ n >= d
    <3>1. timecmp_lo \in Nat
      BY <1>1 DEF Numbers, TimerAssumption
    <3> QED BY <1>1, <1>2, <2>1, <3>1, DoubleIsNatural DEF Numbers
  <2>3. target \in Nat /\ replaced \in Nat
    BY <1>1 DEF Numbers
  <2>4. CASE Stage = "cmp_lo_max"
    BY <1>1, <2>2, <2>4 DEF Armed
  <2>5. CASE Stage = "cmp_hi"
    BY <1>1, <2>2, <2>3, <2>5 DEF Armed
  <2>6. CASE Stage = "cmp_lo"
    <3>1. d = Double(target \div WORD, WORD - 1)
      BY <1>1, <2>2, <2>6 DEF Armed
    <3>2. target <= d
      BY <2>3, <3>1, HalvesOf
    <3> QED BY <2>2, <2>3, <3>2
  <2>7. CASE Stage \notin Compares
    BY <1>1, <2>2, <2>7 DEF Armed
  <2> QED BY <2>4, <2>5, <2>6, <2>7 DEF Compares
<1> QED BY <1>3, <1>4 DEF TimeIsTrue

-----------------------------------------------------------------------------
\* What read_clock returns is a value the counter had during the call, however
\* often it carries or the reader is interrupted, and the interrupt line never
\* rises for a time that neither the new target nor the one before has reached,
\* at no step of compare(): for registers of every width and every delta.
THEOREM TimeStaysTrue == TimerSpec => []TimeIsTrue
<1>1. TimerInit => TimerInv
  BY TimerAssumption, TimerBegins
<1>2. TimerInv /\ [TimerNext]_timer_vars => TimerInv'
  BY TimerAssumption, NextKeepsBooks
<1>3. TimerInv => TimeIsTrue
  BY TimerAssumption, BooksAreTrue
<1> QED BY <1>1, <1>2, <1>3, PTL DEF TimerSpec
==========================================================================
