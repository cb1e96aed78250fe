---------------------------- MODULE TimerDriver ----------------------------
(***************************************************************************)
(* The 64-bit timer (rtl/axil_timer.v, rtl/z_core_32b_timer.v) and the     *)
(* Linux driver that reads it and arms it through 32-bit accesses          *)
(* (software/linux/drivers/timer-zcore.c).  The counter runs on between    *)
(* any two accesses.  A register has WORD values; a double word is a       *)
(* number below WORD ^ 2.                                                  *)
(*                                                                         *)
(* The kernel calls next_event and shutdown with interrupts off; a reader  *)
(* of the clock can be interrupted between any two of its accesses.        *)
(***************************************************************************)
EXTENDS Integers, Sequences

CONSTANTS WORD,           \* values of one register
          Deltas,         \* what the kernel asks next_event for
          CYCLES          \* bound: the counter stops here, far below the wrap

ASSUME TimerAssumption ==
  /\ WORD \in Nat \ {0, 1} /\ Deltas \subseteq Nat
  /\ CYCLES \in Nat /\ \A d \in Deltas : CYCLES + d < WORD * WORD

VARIABLES
  timer_hi, timer_lo,     \* the counter
  timecmp_hi, timecmp_lo, \* what it is compared with
  timer_ctrl,             \* it counts, and may interrupt
  tie,                    \* IE.TIE of the hart
  bound,                  \* the driver's initialisation: "no", "yes", "failed"
  in_call, accesses,             \* the call the hart is in and what is left of it
  hi, lo,                 \* its locals
  delta, target, replaced,\* what is asked, the event armed, the one before
  reader, since, r_hi, r_lo  \* a reader of the clock: what is left, when it began

device == <<timer_hi, timer_lo, timecmp_hi, timecmp_lo, timer_ctrl>>
armed_vars == <<delta, target, replaced>>
driver == <<tie, bound, in_call, accesses, hi, lo, armed_vars>>
clock == <<reader, since, r_hi, r_lo>>
timer_vars == <<device, driver, clock>>

Double(h, l) == h * WORD + l
Never == WORD * WORD - 1
Now == Double(timer_hi, timer_lo)

-----------------------------------------------------------------------------
(* The device *)

\* The interrupt line follows the registers, torn or not.
timer_irq_o == timer_ctrl /\ Now >= Double(timecmp_hi, timecmp_lo)

\* The high half steps in the cycle in which the low one wraps.
CountUp ==
  /\ timer_ctrl /\ Now < CYCLES
  /\ timer_lo' = (timer_lo + 1) % WORD
  /\ timer_hi' = IF timer_lo = WORD - 1 THEN timer_hi + 1 ELSE timer_hi
  /\ UNCHANGED <<timecmp_hi, timecmp_lo, timer_ctrl, driver, clock>>

-----------------------------------------------------------------------------
(* The driver's calls, each a list of the accesses it makes *)

CarriesUnseen == <<"read_hi", "read_lo">> \* mutant
cycles == <<"read_hi", "read_lo", "read_hi_again">>

HighFirst == <<"cmp_hi", "cmp_lo">> \* mutant
compare == <<"cmp_lo_max", "cmp_hi", "cmp_lo">>

NeverEnabled == cycles \o <<"add_delta">> \o compare \o cycles \o <<"too_late">> \* mutant
next_event == cycles \o <<"add_delta">> \o compare \o <<"set_TIE">> \o cycles \o <<"too_late">>
shutdown == <<"clear_TIE", "no_target">> \o compare
interrupt == <<"clear_TIE", "no_target">> \o compare \o <<"event_handler">>
timer_init == <<"no_target">> \o compare \o <<"start">>

TimerCalls == {"none", "timer_init", "next_event", "shutdown", "interrupt"}

Enter(c, list) == in_call = "none" /\ in_call' = c /\ accesses' = list

Probe ==
  /\ bound = "no" /\ Enter("timer_init", timer_init)
  /\ UNCHANGED <<device, tie, bound, hi, lo, armed_vars, clock>>

NextEvent(d) ==
  /\ bound = "yes" /\ Now < CYCLES /\ Enter("next_event", next_event)
  /\ delta' = d
  /\ UNCHANGED <<device, tie, bound, hi, lo, target, replaced, clock>>

Shutdown ==
  /\ bound = "yes" /\ Enter("shutdown", shutdown)
  /\ UNCHANGED <<device, tie, bound, hi, lo, armed_vars, clock>>

Interrupt ==
  /\ bound = "yes" /\ tie /\ timer_irq_o /\ Enter("interrupt", interrupt)
  /\ UNCHANGED <<device, tie, bound, hi, lo, armed_vars, clock>>

-----------------------------------------------------------------------------
(* One access of the in_call in progress *)

Access(step) == accesses # <<>> /\ Head(accesses) = step
Rest(rest) == accesses' = rest /\ in_call' = IF rest = <<>> THEN "none" ELSE in_call
AccessDone == Rest(Tail(accesses))

ReadHi ==
  /\ Access("read_hi") /\ AccessDone /\ hi' = timer_hi
  /\ UNCHANGED <<device, tie, bound, lo, armed_vars, clock>>
ReadLo ==
  /\ Access("read_lo") /\ AccessDone /\ lo' = timer_lo
  /\ UNCHANGED <<device, tie, bound, hi, armed_vars, clock>>
ReadHiAgain ==
  /\ Access("read_hi_again")
  /\ Rest(IF hi = timer_hi THEN Tail(accesses) ELSE cycles \o Tail(accesses))
  /\ UNCHANGED <<device, tie, bound, hi, lo, armed_vars, clock>>

AddDelta ==
  /\ Access("add_delta") /\ AccessDone
  /\ target' = Double(hi, lo) + delta /\ replaced' = target
  /\ UNCHANGED <<device, tie, bound, hi, lo, delta, clock>>
NoTarget ==
  /\ Access("no_target") /\ AccessDone
  /\ target' = Never /\ replaced' = target
  /\ UNCHANGED <<device, tie, bound, hi, lo, delta, clock>>

CompareLoMax ==
  /\ Access("cmp_lo_max") /\ AccessDone /\ timecmp_lo' = WORD - 1
  /\ UNCHANGED <<timer_hi, timer_lo, timecmp_hi, timer_ctrl, tie, bound, hi, lo, armed_vars, clock>>
CompareHi ==
  /\ Access("cmp_hi") /\ AccessDone /\ timecmp_hi' = target \div WORD
  /\ UNCHANGED <<timer_hi, timer_lo, timecmp_lo, timer_ctrl, tie, bound, hi, lo, armed_vars, clock>>
CompareLo ==
  /\ Access("cmp_lo") /\ AccessDone /\ timecmp_lo' = target % WORD
  /\ UNCHANGED <<timer_hi, timer_lo, timecmp_hi, timer_ctrl, tie, bound, hi, lo, armed_vars, clock>>

SetTie ==
  /\ Access("set_TIE") /\ AccessDone /\ tie' = TRUE
  /\ UNCHANGED <<device, bound, hi, lo, armed_vars, clock>>
ClearTie ==
  /\ Access("clear_TIE") /\ AccessDone /\ tie' = FALSE
  /\ UNCHANGED <<device, bound, hi, lo, armed_vars, clock>>
\* next_event returns: 0 or, when the target has passed, -ETIME, on which the
\* kernel may call it again.
TooLate ==
  /\ Access("too_late") /\ AccessDone
  /\ hi' = 0 /\ lo' = 0 /\ delta' = 0
  /\ UNCHANGED <<device, tie, bound, target, replaced, clock>>

\* writel(0x0b) starts the counter; a registration that fails stops it again.
StartTimer ==
  /\ Access("start") /\ AccessDone
  /\ \E ok \in BOOLEAN : timer_ctrl' = ok /\ bound' = (IF ok THEN "yes" ELSE "failed")
  /\ UNCHANGED <<timer_hi, timer_lo, timecmp_hi, timecmp_lo, tie, hi, lo, armed_vars, clock>>

\* What event_handler does with the device is next_event or nothing.
EventHandler ==
  /\ Access("event_handler")
  /\ \/ /\ AccessDone /\ UNCHANGED delta
     \/ /\ Now < CYCLES /\ in_call' = "next_event" /\ accesses' = next_event
        /\ \E d \in Deltas : delta' = d
  /\ UNCHANGED <<device, tie, bound, hi, lo, target, replaced, clock>>

TimerStep ==
  \/ ReadHi \/ ReadLo \/ ReadHiAgain \/ AddDelta \/ NoTarget \/ CompareLoMax \/ CompareHi
  \/ CompareLo \/ SetTie \/ ClearTie \/ TooLate \/ StartTimer \/ EventHandler

-----------------------------------------------------------------------------
(* read_clock, which runs only while the hart is in no in_call *)

Reader(step) == in_call = "none" /\ reader # <<>> /\ Head(reader) = step

ReadClock ==
  /\ bound = "yes" /\ in_call = "none" /\ reader = <<>>
  /\ reader' = Append(cycles, "return") /\ since' = Now
  /\ UNCHANGED <<device, driver, r_hi, r_lo>>
ReaderHi ==
  /\ Reader("read_hi") /\ reader' = Tail(reader) /\ r_hi' = timer_hi
  /\ UNCHANGED <<device, driver, since, r_lo>>
ReaderLo ==
  /\ Reader("read_lo") /\ reader' = Tail(reader) /\ r_lo' = timer_lo
  /\ UNCHANGED <<device, driver, since, r_hi>>
ReaderHiAgain ==
  /\ Reader("read_hi_again")
  /\ reader' = IF r_hi = timer_hi THEN Tail(reader) ELSE cycles \o Tail(reader)
  /\ UNCHANGED <<device, driver, since, r_hi, r_lo>>

ReaderReturns ==
  /\ Reader("return") /\ reader' = <<>> /\ since' = 0 /\ r_hi' = 0 /\ r_lo' = 0
  /\ UNCHANGED <<device, driver>>

ClockStep == ReaderHi \/ ReaderLo \/ ReaderHiAgain \/ ReaderReturns

-----------------------------------------------------------------------------
TimerInit ==
  /\ timer_hi = 0 /\ timer_lo = 0 /\ timer_ctrl = FALSE
  /\ timecmp_hi = WORD - 1 /\ timecmp_lo = WORD - 1
  /\ tie = FALSE /\ bound = "no" /\ in_call = "none" /\ accesses = <<>> /\ hi = 0 /\ lo = 0
  /\ delta = 0 /\ target = Never /\ replaced = Never
  /\ reader = <<>> /\ since = 0 /\ r_hi = 0 /\ r_lo = 0

TimerNext ==
  \/ CountUp \/ Probe \/ Shutdown \/ Interrupt \/ TimerStep
  \/ \E d \in Deltas : NextEvent(d)
  \/ ReadClock \/ ClockStep

TimerSpec == TimerInit /\ [][TimerNext]_timer_vars

\* The counter counts, the hart runs its calls to the end and takes an
\* interrupt that stays pending.
TimerFairness == WF_timer_vars(CountUp) /\ WF_timer_vars(TimerStep) /\ WF_timer_vars(Interrupt)

-----------------------------------------------------------------------------
(* Properties *)

\* cycles(): what a reader of the clock ends with is a value the counter had
\* between its call and its return, so that two reads never run backwards,
\* whatever carried or interrupted in between.
ClockIsTrue ==
  reader = <<"return">> => Double(r_hi, r_lo) \in since .. Now

\* compare(): while it moves the target in two halves the line never rises
\* for a time that neither the old nor the new target has reached.
LineIsNeverEarly == timer_irq_o => Now >= target \/ Now >= replaced

\* next_event(): an event it armed comes: it is taken, or it is replaced or
\* cancelled by a later call.
EventComes ==
  (bound = "yes" /\ in_call = "none" /\ target <= CYCLES) ~> (in_call \in {"interrupt", "next_event", "shutdown"})

\* 64 bits through 32-bit accesses, read and written while they count.
TimeIsTrue == ClockIsTrue /\ LineIsNeverEarly
=============================================================================
