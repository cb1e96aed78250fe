--------------------------- MODULE PendingWrites ---------------------------
(***************************************************************************)
(* What the write buffer of the core promises, without its ring: a bounded *)
(* queue of evicted words on their way to memory.  In one clock cycle the  *)
(* data cache may hand over one word and the bus may take one.             *)
(*                                                                         *)
(*  - words leave in the order in which they came;                         *)
(*  - a word for the address of the youngest waiting one replaces it;      *)
(*  - a word that meets an empty queue while the bus takes goes through;   *)
(*  - a word that meets a full queue is lost, unless the bus takes one in  *)
(*    the same cycle.                                                      *)
(***************************************************************************)
EXTENDS Naturals, Sequences

CONSTANTS ENTRIES,  \* words the queue can hold
          Addr,     \* word addresses
          Data,     \* words
          None      \* "no word"

Entry == [addr : Addr, data : Data]

VARIABLES queue,    \* the words waiting, oldest first
          issued    \* the word handed to the bus in the last cycle, or None

vars == <<queue, issued>>

Init == queue = <<>> /\ issued = None

\* The queue q after the word w arrives.
Arrive(q, w) ==
  LET n == Len(q)
  IN  IF n > 0 /\ q[n].addr = w.addr THEN [q EXCEPT ![n] = w]
      ELSE IF n < ENTRIES THEN Append(q, w)
      ELSE q

\* One cycle: w is the arriving word (or None), re says the bus takes one.
Cycle(w, re) ==
  LET rest == IF re /\ queue # <<>> THEN Tail(queue) ELSE queue
  IN  IF re /\ queue = <<>> /\ w # None
      THEN queue' = queue /\ issued' = w
      ELSE /\ issued' = IF re /\ queue # <<>> THEN Head(queue) ELSE None
           /\ queue' = IF w = None THEN rest ELSE Arrive(rest, w)

Next == \E w \in Entry \cup {None}, re \in BOOLEAN : Cycle(w, re)

Spec == Init /\ [][Next]_vars
=============================================================================
