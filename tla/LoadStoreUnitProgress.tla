----------------------- MODULE LoadStoreUnitProgress -----------------------
(***************************************************************************)
(* What keeps the memory side of the core going.  A cycle in which no      *)
(* register changes is a step of the hardware too, so the clock is made    *)
(* visible: clk tells one cycle from the next.                             *)
(***************************************************************************)
EXTENDS LoadStoreUnit

VARIABLE clk

\* The clock does not stop; the memory answers every transaction; a division
\* ends.  Nothing else is assumed.
Cycle == Next /\ clk' = ~clk
ClockRuns == []<>clk /\ []<>~clk
MemoryAnswers == []<>(port \notin {"read", "write"})
DivisionsEnd == []<>(stalled # "division")

FairSpec ==
  /\ Init /\ clk = FALSE
  /\ [][Cycle]_<<vars, clk>>
  /\ ClockRuns /\ MemoryAnswers /\ DivisionsEnd

\* No stall lasts for ever: not a miss that waits for a slot of the write
\* buffer, a store that waits for an older write to its word, a fence that
\* waits for the buffer to empty, nor any of them under a mispredicted branch.
StallsEnd == []<>(stalled = "no")
=============================================================================
