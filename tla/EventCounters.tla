--------------------------- MODULE EventCounters ---------------------------
(***************************************************************************)
(* One 64-bit event counter of the core, read through two 32-bit CSRs      *)
(* (software/libs/timer.c, software/linux/userspace/counters.c), and the   *)
(* perf event that the Linux driver keeps on it                            *)
(* (software/linux/drivers/pmu-zcore.c).  The counter may step between any *)
(* two instructions.  perf calls add, start, stop and del with interrupts  *)
(* off; an update may be broken into by another update of the same event.  *)
(***************************************************************************)
EXTENDS Integers, Sequences

CONSTANTS HALF,           \* values of one half of the counter
          COUNTED,        \* bound: the counter stops here
          NESTED          \* bound: updates inside one another

ASSUME CounterAssumption ==
  HALF \in Nat \ {0, 1} /\ COUNTED \in Nat /\ NESTED \in Nat

VARIABLES
  counter_hi, counter_lo, \* the CSRs
  stopped, prev_count, count, \* the event
  calls,                  \* the calls in progress, innermost last
  within, around          \* events while it was started, and with the calls
                          \* that start and stop it

pmu_vars == <<counter_hi, counter_lo, stopped, prev_count, count, calls, within, around>>
event == <<stopped, prev_count, count>>

Counter == counter_hi * HALF + counter_lo

\* A call: what is left of it, and its locals.
CallOf(steps) == [todo |-> steps, old |-> 0, hi |-> 0, lo |-> 0]
Current == calls[Len(calls)]
At(step) == calls # <<>> /\ Head(Current.todo) = step
Go(frame) == calls' = (IF frame.todo = <<>> THEN SubSeq(calls, 1, Len(calls) - 1)
                                            ELSE [calls EXCEPT ![Len(calls)] = frame])
Then(frame) == Go([frame EXCEPT !.todo = Tail(@)])
Read(frame) == frame.hi * HALF + frame.lo

-----------------------------------------------------------------------------
(* The calls, as the accesses they make *)

counter == <<"hi", "lo", "again">>

StoresBlindly == <<"old">> \o counter \o <<"set", "add">> \* mutant
update == <<"old">> \o counter \o <<"cmpxchg", "add">>
start == counter \o <<"set", "run">>
stop == update \o <<"stopped">>

\* add() with PERF_EF_START, or start() itself.
Start ==
  /\ calls = <<>> /\ stopped /\ calls' = <<CallOf(start)>>
  /\ UNCHANGED <<counter_hi, counter_lo, event, within, around>>

\* stop() and del().
Stop ==
  /\ calls = <<>> /\ ~stopped /\ calls' = <<CallOf(stop)>>
  /\ UNCHANGED <<counter_hi, counter_lo, event, within, around>>

\* read(), which is update(); a stopped event is up to date.
Update ==
  /\ Len(calls) < NESTED /\ ~stopped
  /\ \A i \in DOMAIN calls : calls[i].todo[Len(calls[i].todo)] = "add"
  /\ calls' = Append(calls, CallOf(update))
  /\ UNCHANGED <<counter_hi, counter_lo, event, within, around>>

ReadHigh ==
  /\ At("hi") /\ Then([Current EXCEPT !.hi = counter_hi])
  /\ UNCHANGED <<counter_hi, counter_lo, event, within, around>>
ReadLow ==
  /\ At("lo") /\ Then([Current EXCEPT !.lo = counter_lo])
  /\ UNCHANGED <<counter_hi, counter_lo, event, within, around>>
ReadAgain ==
  /\ At("again")
  /\ IF Current.hi = counter_hi THEN Then(Current)
     ELSE Go([Current EXCEPT !.todo = counter \o Tail(@)])
  /\ UNCHANGED <<counter_hi, counter_lo, event, within, around>>

LoadPrevious ==
  /\ At("old") /\ Then([Current EXCEPT !.old = prev_count])
  /\ UNCHANGED <<counter_hi, counter_lo, event, within, around>>
Exchange ==
  /\ At("cmpxchg")
  /\ IF prev_count = Current.old
     THEN prev_count' = Read(Current) /\ Then(Current)
     ELSE Go([Current EXCEPT !.todo = <<"old">> \o counter \o @]) /\ UNCHANGED prev_count
  /\ UNCHANGED <<counter_hi, counter_lo, stopped, count, within, around>>
AddDifference ==
  /\ At("add") /\ count' = count + (Read(Current) - Current.old) /\ Then(Current)
  /\ UNCHANGED <<counter_hi, counter_lo, stopped, prev_count, within, around>>

SetPrevious ==
  /\ At("set") /\ prev_count' = Read(Current)
  /\ Then(Current)
  /\ UNCHANGED <<counter_hi, counter_lo, stopped, count, within, around>>
Run ==
  /\ At("run") /\ stopped' = FALSE /\ Then(Current)
  /\ UNCHANGED <<counter_hi, counter_lo, prev_count, count, within, around>>
SetStopped ==
  /\ At("stopped") /\ stopped' = TRUE /\ Then(Current)
  /\ UNCHANGED <<counter_hi, counter_lo, prev_count, count, within, around>>

PmuStep ==
  \/ ReadHigh \/ ReadLow \/ ReadAgain \/ LoadPrevious \/ Exchange \/ AddDifference
  \/ SetPrevious \/ Run \/ SetStopped

\* Between start's return and stop's call, and in one of the two.
Changing == \E i \in DOMAIN calls : calls[i].todo[Len(calls[i].todo)] \in {"run", "stopped"}
Started == ~stopped /\ ~Changing

\* An event happens.
Counts ==
  /\ Counter < COUNTED
  /\ counter_lo' = (counter_lo + 1) % HALF
  /\ counter_hi' = IF counter_lo = HALF - 1 THEN counter_hi + 1 ELSE counter_hi
  /\ within' = IF Started THEN within + 1 ELSE within
  /\ around' = IF ~stopped \/ Changing THEN around + 1 ELSE around
  /\ UNCHANGED <<event, calls>>

PmuInit ==
  /\ counter_hi = 0 /\ counter_lo = 0
  /\ stopped = TRUE /\ prev_count = 0 /\ count = 0
  /\ calls = <<>> /\ within = 0 /\ around = 0

PmuNext == Start \/ Stop \/ Update \/ PmuStep \/ Counts

PmuSpec == PmuInit /\ [][PmuNext]_pmu_vars

-----------------------------------------------------------------------------
(* Properties *)

\* update(), start(), stop(): between two calls the event's count, with what
\* the counter has gained on prev_count, is what happened while it was started:
\* nothing is missed at a carry, nothing counted twice by an update inside an
\* update, and only what happens inside start or stop is left open.
EachEventIsCountedOnce ==
  calls = <<>> => count + (IF stopped THEN 0 ELSE Counter - prev_count) \in within .. around

=============================================================================
