----------------------------- MODULE BootUpload -----------------------------
(***************************************************************************)
(* The ROM boot loader (software/bootloader/bootloader.c, main) and the    *)
(* host that uploads a program to it (scripts/upload.py, upload) over a    *)
(* serial line that may lose or damage bytes.                              *)
(*                                                                         *)
(* A 32-bit field is WIDTH bytes, least significant first, and a byte has  *)
(* RADIX values.  What the loader prints is TEXT, which is no answer.      *)
(* A host that failed may be run again; --reset then restarts the board.   *)
(***************************************************************************)
EXTENDS Integers, Sequences

CONSTANTS RADIX,          \* the values of a byte
          WIDTH,          \* bytes of a word and of a 32-bit field
          SYNC_REQ,       \* the byte that asks for the loader's attention
          MAX_SEGMENTS,
          Segments,       \* what is uploaded: a sequence of [base, data]
          Entry,          \* where it is to be started
          Divisors,       \* the divisors the host may ask for; 0 keeps the speed
          Attempts,       \* how often the host tries to synchronise
          MaxLost, MaxDamaged, MaxRuns

Byte == 0 .. RADIX - 1
Power[n \in Nat] == IF n = 0 THEN 1 ELSE RADIX * Power[n - 1]
U32 == 0 .. Power[WIDTH] - 1

\* No speed that configure_port knows has a divisor that begins with a SYNC_REQ;
\* what is sent fits the fields it is sent in (struct.pack).
ASSUME UploadAssumption ==
  /\ RADIX \in Nat /\ RADIX > 1 /\ WIDTH \in Nat \ {0}
  /\ SYNC_REQ \in Byte \ {0}
  /\ \A d \in Divisors : d \in U32 /\ d % RADIX # SYNC_REQ
  /\ Segments \in Seq([base : U32, data : Seq(Byte)]) /\ Len(Segments) \in Byte
  /\ \A s \in DOMAIN Segments : Len(Segments[s].data) \in U32
  /\ Entry \in U32

VARIABLES
  to_dev, to_host,        \* bytes and answers on the line
  host,                   \* where upload() is
  attempt, sent,          \* its loop counters
  divisor,                \* the divisor it asks for
  host_speed, dev_speed,  \* 0 is 115200 baud
  dev,                    \* where main() of the loader is
  field,                  \* the bytes of the field it is receiving
  seg_count, seg, base, left, checksum, entry,
  mem,                    \* the bytes it has stored
  lost, damaged, late, runs

line == <<to_dev, to_host>>
host_vars == <<host, attempt, sent, divisor, host_speed>>
dev_vars == <<dev, field, seg_count, seg, base, left, checksum, entry, mem, dev_speed>>
faults == <<lost, damaged, late, runs>>
vars == <<line, host_vars, dev_vars, faults>>

-----------------------------------------------------------------------------
(* Fields *)

Sums(terms) == LET sum[n \in 0 .. Len(terms)] == IF n = 0 THEN 0 ELSE sum[n - 1] + terms[n] IN sum
Total(terms) == Sums(terms)[Len(terms)]

Value(bytes) == Total([i \in 1 .. Len(bytes) |-> bytes[i] * Power[i - 1]])
Le32(v) == [i \in 1 .. WIDTH |-> (v \div Power[i - 1]) % RADIX]
Sum(bytes) == Total(bytes) % Power[WIDTH]

-----------------------------------------------------------------------------
(* The loader *)

\* Where it waits for a byte, and where it only prints.
Receiving == {"sync", "baud", "count", "base", "size", "data", "sum", "entry"}
Halted == {"hung", "running"}

Answers(a) == to_host' = to_host \o a
Fail == dev' = "hung" /\ Answers(<<"NAK", "TEXT">>)

\* recv_le32: the field with the byte that has just come; at its last byte
\* Complete says what follows.
Collect(b, Complete(_)) ==
  IF Len(field) + 1 < WIDTH
  THEN field' = Append(field, b) /\ UNCHANGED <<to_host, dev, seg_count, seg, base, left, checksum, entry, mem, dev_speed>>
  ELSE field' = <<>> /\ Complete(Value(Append(field, b)))

Sync(b) ==
  /\ IF b = SYNC_REQ THEN dev' = "baud" /\ Answers(<<"SYNC_ACK">>)
                     ELSE UNCHANGED <<dev, to_host>>
  /\ UNCHANGED <<field, seg_count, seg, base, left, checksum, entry, mem, dev_speed>>

\* A divisor other than zero is answered twice, before and after the switch.
AnyDivisor(v) == TRUE \* mutant
Switches(v) == v # 0

Baud(v) ==
  /\ Answers(<<"ACK">>)
  /\ dev' = IF Switches(v) THEN "switch" ELSE "count"
  /\ left' = v
  /\ UNCHANGED <<seg_count, seg, base, checksum, entry, mem, dev_speed>>

SwitchSpeed ==
  /\ dev = "switch"
  /\ dev_speed' = left /\ dev' = "count"
  /\ to_host' = IF host_speed = left THEN Append(to_host, "ACK") ELSE to_host
  /\ UNCHANGED <<to_dev, field, seg_count, seg, base, left, checksum, entry, mem>>

CountTooSmall(b) == b = 0 \/ b >= MAX_SEGMENTS \* mutant
BadCount(b) == b = 0 \/ b > MAX_SEGMENTS

Count(b) ==
  /\ seg' = 1
  /\ IF BadCount(b)
     THEN Fail /\ UNCHANGED seg_count
     ELSE dev' = "base" /\ seg_count' = b /\ Answers(<<"ACK", "TEXT">>)
  /\ UNCHANGED <<field, base, left, checksum, entry, mem, dev_speed>>

SegBase(v) ==
  /\ base' = v /\ dev' = "size"
  /\ UNCHANGED <<to_host, seg_count, seg, left, checksum, entry, mem, dev_speed>>

SegSize(v) ==
  /\ left' = v /\ checksum' = 0
  /\ IF v = 0 THEN Fail ELSE dev' = "data" /\ Answers(<<"ACK", "TEXT">>)
  /\ UNCHANGED <<seg_count, seg, base, entry, mem, dev_speed>>

Place(first, bytes) ==
  LET area == first .. first + Len(bytes) - 1
  IN mem' = [a \in DOMAIN mem \union area |-> IF a \in area THEN bytes[a - first + 1] ELSE mem[a]]

\* A whole word is stored when its last byte has come, the bytes that are left
\* over one by one.
Data(b) ==
  LET got == Append(field, b)
      whole == left >= WIDTH - Len(field)
  IN /\ checksum' = (checksum + b) % Power[WIDTH]
     /\ IF whole /\ Len(got) < WIDTH
        THEN field' = got /\ UNCHANGED <<mem, base>>
        ELSE /\ field' = <<>>
             /\ Place(base, got)
             /\ base' = base + Len(got)
     /\ left' = left - 1
     /\ dev' = IF left = 1 THEN "sum" ELSE "data"
     /\ UNCHANGED <<to_host, seg_count, seg, entry, dev_speed>>

Unchecked(v) == TRUE \* mutant
Checked(v) == checksum = v
CheckSum(v) ==
  /\ IF ~Checked(v) THEN Fail /\ UNCHANGED seg
     ELSE /\ Answers(<<"ACK">>)
          /\ seg' = seg + 1
          /\ dev' = IF seg = seg_count THEN "entry" ELSE "base"
  /\ UNCHANGED <<seg_count, base, left, checksum, entry, mem, dev_speed>>

EntryPoint(v) ==
  /\ entry' = v /\ dev' = "jump" /\ Answers(<<"ACK", "TEXT">>)
  /\ UNCHANGED <<seg_count, seg, base, left, checksum, mem, dev_speed>>

\* uart_getc_blocking, and what main does with the byte.
Receive(b) ==
  \/ dev = "sync" /\ Sync(b)
  \/ dev = "baud" /\ Collect(b, Baud)
  \/ dev = "count" /\ Count(b)
  \/ dev = "base" /\ Collect(b, SegBase)
  \/ dev = "size" /\ Collect(b, SegSize)
  \/ dev = "data" /\ Data(b)
  \/ dev = "sum" /\ Collect(b, CheckSum)
  \/ dev = "entry" /\ Collect(b, EntryPoint)

\* At another speed than the host's the loader sees only framing errors.
DevReceive ==
  /\ to_dev # <<>> /\ dev \in Receiving /\ to_dev' = Tail(to_dev)
  /\ IF host_speed = dev_speed THEN Receive(Head(to_dev))
                               ELSE UNCHANGED <<to_host, dev_vars>>

\* The self test and the banner, and the verification output before app().
Speak ==
  /\ \/ dev = "boot" /\ dev' = "sync"
     \/ dev = "jump" /\ dev' = "running"
  /\ Answers(<<"TEXT">>)
  /\ UNCHANGED <<to_dev, field, seg_count, seg, base, left, checksum, entry, mem, dev_speed>>

Loader == (DevReceive \/ SwitchSpeed \/ Speak) /\ UNCHANGED <<host_vars, faults>>

-----------------------------------------------------------------------------
(* The host *)

Write(bytes) == to_dev' = to_dev \o bytes
Goto(pc) == host' = pc
KeepsCounters == UNCHANGED <<attempt, sent, divisor, host_speed>>

\* The loader has said all it is going to say.
Quiet == dev \in Receiving \cup Halted

\* select() sees nothing for the time-out.  The loader answers within it,
\* unless it is still in its self test or a byte was lost.
Silence ==
  /\ to_host = <<>>
  /\ host = "sync_wait" \/ (Quiet /\ (to_dev = <<>> \/ dev \in Halted))

SameAttempt == attempt \* mutant
NextAttempt == attempt + 1

SendSync ==
  /\ host = "sync"
  /\ IF attempt < Attempts
     THEN Write(<<SYNC_REQ>>) /\ Goto("sync_wait") /\ attempt' = NextAttempt
     ELSE Goto("failed") /\ UNCHANGED <<to_dev, attempt>>
  /\ UNCHANGED <<to_host, sent, divisor, host_speed>>

\* Any answer but SYNC_ACK, and none, is drained, with what came after it.
AwaitSync ==
  /\ host = "sync_wait"
  /\ \/ /\ to_host # <<>> /\ Head(to_host) = "SYNC_ACK"
        /\ Goto("baud") /\ to_host' = Tail(to_host)
     \/ /\ to_host # <<>> /\ Head(to_host) # "SYNC_ACK"
        /\ Goto("sync") /\ to_host' = <<>>
     \/ Silence /\ Goto("sync") /\ UNCHANGED to_host
  /\ UNCHANGED to_dev /\ KeepsCounters

SendDivisor ==
  /\ host = "baud" /\ Goto("baud_wait")
  /\ Write(Le32(divisor))
  /\ UNCHANGED to_host /\ KeepsCounters

\* configure_port: another speed, and what has come so far is discarded.
Reconfigure ==
  /\ host = "switch" /\ Goto("ready_wait")
  /\ host_speed' = divisor /\ to_host' = <<>>
  /\ UNCHANGED <<to_dev, attempt, sent, divisor>>

SendCount ==
  /\ host = "count" /\ Goto("count_wait")
  /\ Write(<<Len(Segments)>>)
  /\ UNCHANGED to_host /\ KeepsCounters

SendHeader ==
  /\ host = "header" /\ Goto("header_wait")
  /\ Write(Le32(Segments[sent].base) \o Le32(Len(Segments[sent].data)))
  /\ UNCHANGED to_host /\ KeepsCounters

SendData ==
  /\ host = "data" /\ Goto("sum_wait")
  /\ Write(Segments[sent].data \o Le32(Sum(Segments[sent].data)))
  /\ UNCHANGED to_host /\ KeepsCounters

SendEntry ==
  /\ host = "entry" /\ Goto("entry_wait")
  /\ Write(Le32(Entry))
  /\ UNCHANGED to_host /\ KeepsCounters

\* drain() at the start, and after an answer that is followed by text.
Drain ==
  /\ \/ host = "start" /\ Goto("sync")
     \/ host = "count_drain" /\ Goto("header")
     \/ host = "header_drain" /\ Goto("data")
     \/ host = "entry_drain" /\ Goto("ok")
  /\ Quiet \/ host = "start"
  /\ to_host' = <<>>
  /\ UNCHANGED to_dev /\ KeepsCounters

\* recv_byte: where an ACK leads; everything else and the time-out fail.
AfterAck ==
  CASE host = "baud_wait" -> IF divisor # 0 THEN "switch" ELSE "count"
    [] host = "ready_wait" -> "count"
    [] host = "count_wait" -> "count_drain"
    [] host = "header_wait" -> "header_drain"
    [] host = "sum_wait" -> IF sent = Len(Segments) THEN "entry" ELSE "header"
    [] host = "entry_wait" -> "entry_drain"

AnythingAccepted(a) == TRUE \* mutant
Accepted(a) == a = "ACK"

Await ==
  /\ host \in {"baud_wait", "ready_wait", "count_wait", "header_wait", "sum_wait", "entry_wait"}
  /\ IF to_host # <<>>
     THEN /\ to_host' = Tail(to_host)
          /\ IF Accepted(Head(to_host))
             THEN /\ Goto(AfterAck)
                  /\ sent' = IF host = "sum_wait" /\ sent < Len(Segments) THEN sent + 1 ELSE sent
             ELSE Goto("failed") /\ UNCHANGED sent
     ELSE Silence /\ Goto("failed") /\ UNCHANGED <<to_host, sent>>
  /\ UNCHANGED <<to_dev, attempt, divisor, host_speed>>

Host ==
  /\ \/ SendSync \/ AwaitSync \/ SendDivisor \/ Reconfigure \/ SendCount \/ SendHeader
     \/ SendData \/ SendEntry \/ Drain \/ Await
  \* No answer to SYNC_REQ in time, or text that came first.
  /\ late' = (late \/ (host = "sync_wait" /\ host' = "sync"))
  /\ UNCHANGED <<dev_vars, lost, damaged, runs>>

\* The upload is started again, and its BREAK resets the board.
RunAgain ==
  /\ host = "failed" /\ runs < MaxRuns
  /\ runs' = runs + 1
  /\ host' = "start" /\ attempt' = 0 /\ sent' = 1 /\ host_speed' = 0 /\ divisor' \in Divisors
  /\ dev' = "boot" /\ dev_speed' = 0 /\ field' = <<>>
  /\ to_dev' = <<>> /\ to_host' = <<>>
  /\ UNCHANGED <<seg_count, seg, base, left, checksum, entry, mem, lost, damaged, late>>

-----------------------------------------------------------------------------
(* The line *)

\* Lost on the wire, or overwritten in the receiver's one byte.
Lose ==
  /\ lost < MaxLost /\ lost' = lost + 1
  /\ \/ to_dev # <<>> /\ to_dev' = Tail(to_dev) /\ UNCHANGED to_host
     \/ to_host # <<>> /\ to_host' = Tail(to_host) /\ UNCHANGED to_dev
  /\ UNCHANGED <<host_vars, dev_vars, damaged, late, runs>>

\* A byte of the data or of its checksum: the fields around them are not
\* covered by it.
Damage ==
  /\ damaged < MaxDamaged /\ damaged' = damaged + 1
  /\ to_dev # <<>> /\ dev \in {"data", "sum"}
  /\ \E b \in Byte \ {Head(to_dev)} : to_dev' = <<b>> \o Tail(to_dev)
  /\ UNCHANGED <<to_host, host_vars, dev_vars, lost, late, runs>>

Done == host = "ok" /\ dev = "running" /\ UNCHANGED vars
GivenUp == host = "failed" /\ runs = MaxRuns /\ UNCHANGED vars

Next == Loader \/ Host \/ RunAgain \/ Lose \/ Damage \/ Done \/ GivenUp

Init ==
  /\ to_dev = <<>> /\ to_host = <<>>
  /\ host = "start" /\ attempt = 0 /\ sent = 1 /\ host_speed = 0 /\ divisor \in Divisors
  /\ dev = "boot" /\ dev_speed = 0 /\ field = <<>>
  /\ seg_count = 0 /\ seg = 0 /\ base = 0 /\ left = 0 /\ checksum = 0 /\ entry = 0
  /\ mem = <<>>
  /\ lost = 0 /\ damaged = 0 /\ late = FALSE /\ runs = 1

Spec == Init /\ [][Next]_vars

\* Host and loader go on as long as they can.
FairSpec == Spec /\ WF_vars(Loader) /\ WF_vars(Host)

-----------------------------------------------------------------------------
(* Properties *)

Area(s) == Segments[s].base .. Segments[s].base + Len(Segments[s].data) - 1

\* The first n segments are in memory, but for what the segments up to m overwrite.
Images(n, m) ==
  \A s \in 1 .. n : \A a \in Area(s) \ UNION {Area(t) : t \in s + 1 .. m} :
    a \in DOMAIN mem /\ mem[a] = Segments[s].data[a - Segments[s].base + 1]
Intact == Images(Len(Segments), Len(Segments))

\* The loader starts a program only when it has all the segments, at its own
\* entry, and memory holds them, whatever was lost, answered late or run before,
\* and with a damaged byte: of two damaged bytes the checksum may not tell.
OnlyTheWholeProgramStarts ==
  dev \in {"jump", "running"} =>
    entry = Entry /\ seg_count = Len(Segments) /\ (damaged <= 1 => Intact)

\* "Upload complete. Program is running." is true.
SuccessIsTrue == host \in {"entry_drain", "ok"} => dev \in {"jump", "running"}

\* Each ACK the host acts on is for the request it is waiting for: it never
\* sends the next part while the loader still expects the one before.
InStep ==
  /\ host \in {"header", "header_wait"} => dev \in {"base", "size", "data", "hung"}
  /\ host \in {"data", "sum_wait"} => dev \in {"data", "sum", "base", "entry", "hung"}
  /\ host \in {"entry", "entry_wait"} => dev \in {"entry", "jump", "running"}

\* However often bytes are lost, the host stops: nothing makes it wait for ever.
HostStops == host # "start" ~> host \in {"ok", "failed"}

\* An undisturbed upload at the first speed starts the program.
Uploads ==
  [](lost = 0 /\ damaged = 0 /\ ~late /\ divisor = 0) /\ <>(host # "start") => <>(dev = "running")

\* Both ends of an upload: the loader starts nothing but the whole program, the
\* host reports nothing but its start, and neither takes an answer for another.
UploadIsSafe == OnlyTheWholeProgramStarts /\ SuccessIsTrue /\ InStep

\* An upload ends, and one that nothing disturbs ends in the program.
UploadEnds == HostStops /\ Uploads
=============================================================================
