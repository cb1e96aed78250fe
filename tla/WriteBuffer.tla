---------------------------- MODULE WriteBuffer ----------------------------
(***************************************************************************)
(* rtl/z_core_write_buffer.v: the ring of evicted words between the data   *)
(* cache and the bus.  One step is one rising clock edge.  The inputs of a *)
(* cycle are the word w on write_back_addr/write_back_data (None when      *)
(* write_enable is low) and re, the level of read_enable.  A slot whose    *)
(* valid bit is clear holds None; the byte strobes are always 4'b1111 and  *)
(* are left out.                                                           *)
(***************************************************************************)
EXTENDS Naturals

CONSTANTS ENTRIES,  \* slots of the ring (8 in the core)
          Addr,     \* word addresses
          Data,     \* words
          None      \* no word: an invalid slot, an idle port

ASSUME EntriesAssumption == ENTRIES \in Nat \ {0}

Entry == [addr : Addr, data : Data]

ASSUME NoneAssumption == None \notin Entry

VARIABLES write_buffer,   \* slot -> word or None
          read_pointer,
          write_pointer,
          elem_count,
          wb_out          \* wb_out_*: the word being handed to the LSU

vars == <<write_buffer, read_pointer, write_pointer, elem_count, wb_out>>

Slots == 0 .. ENTRIES - 1

Init ==
  /\ write_buffer = [i \in Slots |-> None]
  /\ read_pointer = 0
  /\ write_pointer = 0
  /\ elem_count = 0
  /\ wb_out = None

-----------------------------------------------------------------------------
(* Wires *)

SuccWithoutWrap(p) == p + 1  \* mutant
Succ(p) == IF p = ENTRIES - 1 THEN 0 ELSE p + 1
tail_pointer == IF write_pointer = 0 THEN ENTRIES - 1 ELSE write_pointer - 1

empty == elem_count = 0
full == elem_count = ENTRIES

Holds(i, a) == write_buffer[i] # None /\ write_buffer[i].addr = a

merge_write(w) == w # None /\ Holds(tail_pointer, w.addr)
pop(re) == re /\ ~empty
TailNeverPopped(re) == FALSE  \* mutant
tail_being_popped(re) == pop(re) /\ elem_count = 1
NeverMerge(w, re) == FALSE  \* mutant
do_merge(w, re) == merge_write(w) /\ ~tail_being_popped(re)

write_accepted(w, re) == w # None /\ (~full \/ re \/ merge_write(w))

\* The slot k places after r, and the k-th oldest slot of the ring.
SlotFrom(r, k) == IF r + k < ENTRIES THEN r + k ELSE r + k - ENTRIES
SlotAt(k) == SlotFrom(read_pointer, k)

\* The ages of the waiting words for address a.
Ages(a) == {k \in 0 .. ENTRIES - 1 : k < elem_count /\ Holds(SlotAt(k), a)}

\* load_forward_valid_out and load_forward_out: the scan goes from the oldest
\* slot to the youngest, then looks at the arriving word; the last match wins.
Arriving(a, w, re) == write_accepted(w, re) /\ w.addr = a
load_forward_valid(a, w, re) == Ages(a) # {} \/ Arriving(a, w, re)
ForwardOldest(a, w, re) ==  \* mutant
  IF Arriving(a, w, re) THEN w.data
  ELSE LET oldest == CHOOSE k \in Ages(a) : \A j \in Ages(a) : k <= j
       IN  write_buffer[SlotAt(oldest)].data
load_forward(a, w, re) ==
  IF Arriving(a, w, re) THEN w.data
  ELSE LET youngest == CHOOSE k \in Ages(a) : \A j \in Ages(a) : j <= k
       IN  write_buffer[SlotAt(youngest)].data

\* address_pending_out.  Unlike write_accepted it does not look at re.
address_pending(a, w) ==
  \/ \E i \in Slots : Holds(i, a)
  \/ w # None /\ (~full \/ merge_write(w)) /\ w.addr = a

-----------------------------------------------------------------------------
(* The clocked block, one operator for each way through its conditions.    *)

\* Neither enable: the outputs are cleared.
Idle(w, re) ==
  /\ w = None /\ ~re
  /\ wb_out' = None
  /\ UNCHANGED <<write_buffer, read_pointer, write_pointer, elem_count>>

\* A read of an empty ring finds a slot that is not valid.
ReadEmpty(w, re) ==
  /\ w = None /\ re /\ empty
  /\ wb_out' = write_buffer[read_pointer]
  /\ write_buffer' = [write_buffer EXCEPT ![read_pointer] = None]
  /\ UNCHANGED <<read_pointer, write_pointer, elem_count>>

Read(w, re) ==
  /\ w = None /\ re /\ ~empty
  /\ wb_out' = write_buffer[read_pointer]
  /\ write_buffer' = [write_buffer EXCEPT ![read_pointer] = None]
  /\ read_pointer' = Succ(read_pointer)
  /\ elem_count' = elem_count - 1
  /\ UNCHANGED write_pointer

\* The arriving word goes straight out; both pointers move over an empty slot.
PassThrough(w, re) ==
  /\ w # None /\ re /\ empty /\ ~do_merge(w, re)
  /\ wb_out' = w
  /\ write_buffer' = [write_buffer EXCEPT ![read_pointer] = None]
  /\ read_pointer' = Succ(read_pointer)
  /\ write_pointer' = Succ(write_pointer)
  /\ UNCHANGED elem_count

Write(w, re) ==
  /\ w # None /\ ~re /\ ~do_merge(w, re) /\ ~full
  /\ write_buffer' = [write_buffer EXCEPT ![write_pointer] = w]
  /\ write_pointer' = Succ(write_pointer)
  /\ elem_count' = elem_count + 1
  /\ wb_out' = None
  /\ UNCHANGED read_pointer

\* Full and not read: no register of the ring changes, the word is gone.
WriteLost(w, re) ==
  /\ w # None /\ ~re /\ ~do_merge(w, re) /\ full
  /\ wb_out' = None
  /\ UNCHANGED <<write_buffer, read_pointer, write_pointer, elem_count>>

Merge(w, re) ==
  /\ ~re /\ do_merge(w, re)
  /\ write_buffer' = [write_buffer EXCEPT ![tail_pointer] = w]
  /\ wb_out' = None
  /\ UNCHANGED <<read_pointer, write_pointer, elem_count>>

\* When the ring is full the slot that is read is the slot that is written,
\* and the write of its valid bit comes last.
ReadWrite(w, re) ==
  /\ w # None /\ re /\ ~empty /\ ~do_merge(w, re)
  /\ wb_out' = write_buffer[read_pointer]
  /\ write_buffer' = [write_buffer EXCEPT ![read_pointer] = None,
                                          ![write_pointer] = w]
  /\ read_pointer' = Succ(read_pointer)
  /\ write_pointer' = Succ(write_pointer)
  /\ UNCHANGED elem_count

ReadMerge(w, re) ==
  /\ re /\ do_merge(w, re)
  /\ wb_out' = write_buffer[read_pointer]
  /\ write_buffer' = [write_buffer EXCEPT ![read_pointer] = None,
                                          ![tail_pointer] = w]
  /\ read_pointer' = Succ(read_pointer)
  /\ elem_count' = IF pop(re) THEN elem_count - 1 ELSE elem_count
  /\ UNCHANGED write_pointer

Clock(w, re) ==
  \/ Idle(w, re)
  \/ ReadEmpty(w, re)
  \/ Read(w, re)
  \/ PassThrough(w, re)
  \/ Write(w, re)
  \/ WriteLost(w, re)
  \/ Merge(w, re)
  \/ ReadWrite(w, re)
  \/ ReadMerge(w, re)

Next == \E w \in Entry \cup {None}, re \in BOOLEAN : Clock(w, re)

Spec == Init /\ [][Next]_vars

-----------------------------------------------------------------------------
(* Properties *)

\* The registers hold what they are declared for.
TypeOK ==
  /\ write_buffer \in [Slots -> Entry \cup {None}]
  /\ read_pointer \in Slots
  /\ write_pointer \in Slots
  /\ elem_count \in 0 .. ENTRIES
  /\ wb_out \in Entry \cup {None}

\* The pointers, the counter and the valid bits, which the code updates
\* independently of each other, always describe the same ring: the write
\* pointer is elem_count slots after the read pointer, and exactly the slots
\* between them are valid.
RingConsistent ==
  /\ write_pointer = IF elem_count = ENTRIES THEN read_pointer ELSE SlotAt(elem_count)
  /\ \A k \in 0 .. ENTRIES - 1 : (write_buffer[SlotAt(k)] # None) <=> (k < elem_count)

\* The abstract queue of this ring.
Queue == [k \in 1 .. elem_count |-> write_buffer[SlotAt(k - 1)]]
PW == INSTANCE PendingWrites WITH queue <- Queue, issued <- wb_out

\* The ring implements the queue: first in first out, merging only with the
\* youngest word, losing a word only when full and not read.
ImplementsQueue == PW!Spec

\* A load must never be given an older word than the last one evicted for its
\* address: whatever the forwarding network offers in a cycle is what the
\* queue, with the word arriving in that cycle, holds last for that address,
\* and it offers something whenever the queue holds something.
ForwardIsYoungest ==
  \A a \in Addr, w \in Entry \cup {None}, re \in BOOLEAN :
    LET all == IF write_accepted(w, re) THEN [k \in 1 .. elem_count + 1 |->
                 IF k > elem_count THEN w ELSE write_buffer[SlotAt(k - 1)]]
               ELSE [k \in 1 .. elem_count |-> write_buffer[SlotAt(k - 1)]]
        for_a == {k \in DOMAIN all : all[k].addr = a}
    IN  /\ load_forward_valid(a, w, re) <=> for_a # {}
        /\ \A k \in for_a : (\A j \in for_a : j <= k)
                             => load_forward(a, w, re) = all[k].data
=============================================================================
