------------------------- MODULE WriteBufferProofs -------------------------
(***************************************************************************)
(* The ring of the write buffer, for every number of slots, addresses and  *)
(* words: the registers keep their types, and the two pointers, the count  *)
(* and the valid bits always describe one and the same ring.               *)
(*                                                                         *)
(* Neither fact is inductive alone: that a merge never touches an empty    *)
(* slot, or that a write never meets a valid one, follows from the ring    *)
(* being consistent.  IInv, their conjunction, is inductive.               *)
(*                                                                         *)
(* Then comes what the memory side needs of the ring: the last word        *)
(* accepted for an address is the one that is forwarded, and it stays so   *)
(* until that very word is handed to the bus.                              *)
(*                                                                         *)
(* The last section shows that the ring implements the queue of            *)
(* PendingWrites: the initial states and every clock edge map to those of  *)
(* the queue, with the words from the read pointer on as the queue.        *)
(***************************************************************************)
EXTENDS WriteBuffer, WellFoundedInduction, SequenceTheorems, TLAPS

\* The inductive invariant.
IInv == TypeOK /\ RingConsistent

-----------------------------------------------------------------------------
(* Arithmetic of the ring *)

\* Places in the ring are slots, and the place 0 is the read pointer itself.
LEMMA SlotFromType ==
  ASSUME NEW r \in Slots, NEW k \in 0 .. ENTRIES - 1
  PROVE  SlotFrom(r, k) \in Slots /\ SlotFrom(r, 0) = r
BY EntriesAssumption DEF Slots, SlotFrom

\* Different places are different slots.
LEMMA SlotFromInjective ==
  ASSUME NEW r \in Slots, NEW j \in 0 .. ENTRIES - 1, NEW k \in 0 .. ENTRIES - 1,
         SlotFrom(r, j) = SlotFrom(r, k)
  PROVE  j = k
BY EntriesAssumption DEF Slots, SlotFrom

\* Every slot is at some place.
LEMMA SlotFromSurjective ==
  ASSUME NEW r \in Slots, NEW i \in Slots
  PROVE  \E k \in 0 .. ENTRIES - 1 : SlotFrom(r, k) = i
<1> DEFINE k == IF i >= r THEN i - r ELSE i + ENTRIES - r
<1>1. k \in 0 .. ENTRIES - 1 /\ SlotFrom(r, k) = i
  BY EntriesAssumption DEF Slots, SlotFrom
<1> QED BY <1>1

\* Moving a pointer moves every place by one; the last place becomes the slot
\* the pointer left.
LEMMA SuccMoves ==
  ASSUME NEW r \in Slots
  PROVE  /\ Succ(r) \in Slots
         /\ \A k \in 0 .. ENTRIES - 1 :
              /\ SlotFrom(Succ(r), k) = IF k = ENTRIES - 1 THEN r ELSE SlotFrom(r, k + 1)
              /\ Succ(SlotFrom(r, k)) = IF k = ENTRIES - 1 THEN r ELSE SlotFrom(r, k + 1)
BY EntriesAssumption DEF Slots, SlotFrom, Succ

\* In a consistent ring the tail pointer is at the youngest word, if there is
\* one, and an arriving word can only merge when there is one.
LEMMA TailIsYoungest ==
  ASSUME IInv
  PROVE  /\ tail_pointer \in Slots
         /\ elem_count > 0 => tail_pointer = SlotAt(elem_count - 1)
         /\ \A w : merge_write(w) => elem_count > 0
<1>1. tail_pointer \in Slots
  BY EntriesAssumption DEF IInv, TypeOK, tail_pointer, Slots
<1>2. elem_count > 0 => tail_pointer = SlotAt(elem_count - 1)
  BY EntriesAssumption DEF IInv, TypeOK, RingConsistent, tail_pointer, Slots, SlotAt, SlotFrom
<1>3. ASSUME NEW w, merge_write(w) PROVE elem_count > 0
  <2>1. PICK k \in 0 .. ENTRIES - 1 : SlotFrom(read_pointer, k) = tail_pointer
    BY <1>1, SlotFromSurjective DEF IInv, TypeOK
  <2>2. write_buffer[SlotAt(k)] # None
    BY <1>3, <2>1 DEF merge_write, Holds, SlotAt
  <2>3. k < elem_count
    BY <2>2 DEF IInv, RingConsistent
  <2> QED BY <2>3, EntriesAssumption DEF IInv, TypeOK
<1> QED BY <1>1, <1>2, <1>3

-----------------------------------------------------------------------------
(* The inductive invariant *)

\* A place in the ring, for all the proofs below.
Places == 0 .. ENTRIES - 1

\* After reset the ring is empty and the pointers meet.
LEMMA InitInv == Init => IInv
<1> SUFFICES ASSUME Init PROVE IInv
  OBVIOUS
<1>1. TypeOK
  BY EntriesAssumption DEF Init, TypeOK, Slots
<1>2. RingConsistent
  BY EntriesAssumption, SlotFromType DEF Init, RingConsistent, SlotAt, Slots
<1> QED BY <1>1, <1>2 DEF IInv

\* Nothing of the ring changes.
LEMMA UnchangedInv ==
  ASSUME IInv, wb_out' \in Entry \cup {None},
         UNCHANGED <<write_buffer, read_pointer, write_pointer, elem_count>>
  PROVE  IInv'
BY DEF IInv, TypeOK, RingConsistent, SlotAt, SlotFrom

\* The oldest word leaves.
LEMMA ReadInv ==
  ASSUME IInv, NEW w, NEW re, Read(w, re)
  PROVE  IInv'
<1> USE EntriesAssumption DEF Places
<1>1. TypeOK'
  BY SuccMoves DEF IInv, TypeOK, Read, empty
<1>2. \A k \in Places : SlotAt(k)' = IF k = ENTRIES - 1 THEN read_pointer ELSE SlotAt(k + 1)
  BY SuccMoves DEF IInv, TypeOK, Read, SlotAt
<1>3. \A k \in Places : SlotAt(k) = read_pointer <=> k = 0
  BY SlotFromType, SlotFromInjective DEF IInv, TypeOK, SlotAt
<1>4. \A k \in Places : (write_buffer'[SlotAt(k)'] # None) <=> (k < elem_count')
  BY <1>2, <1>3, SlotFromType DEF IInv, TypeOK, RingConsistent, Read, SlotAt, empty
<1>5. write_pointer' = IF elem_count' = ENTRIES THEN read_pointer' ELSE SlotAt(elem_count)'
  BY <1>2 DEF IInv, TypeOK, RingConsistent, Read, SlotAt, empty
<1> QED BY <1>1, <1>4, <1>5 DEF IInv, RingConsistent

\* A word arrives at the write pointer.
LEMMA WriteInv ==
  ASSUME IInv, NEW w \in Entry \cup {None}, NEW re, Write(w, re)
  PROVE  IInv'
<1> USE EntriesAssumption DEF Places
<1>1. elem_count \in Places /\ write_pointer = SlotAt(elem_count)
  BY DEF IInv, TypeOK, RingConsistent, Write, full
<1>2. TypeOK'
  BY SuccMoves, <1>1 DEF IInv, TypeOK, Write
<1>3. \A k \in Places : SlotAt(k)' = SlotAt(k) /\ SlotAt(k) \in Slots
  BY SlotFromType DEF IInv, TypeOK, Write, SlotAt
<1>4. \A k \in Places : SlotAt(k) = write_pointer <=> k = elem_count
  BY <1>1, SlotFromInjective DEF IInv, TypeOK, SlotAt
<1>5. \A k \in Places : (write_buffer'[SlotAt(k)'] # None) <=> (k < elem_count')
  BY <1>1, <1>3, <1>4 DEF IInv, TypeOK, RingConsistent, Write
<1>6. write_pointer' = IF elem_count' = ENTRIES THEN read_pointer' ELSE SlotAt(elem_count)'
  BY <1>1, SuccMoves DEF IInv, TypeOK, Write, SlotAt
<1> QED BY <1>2, <1>5, <1>6 DEF IInv, RingConsistent

\* A word goes through an empty ring; both pointers move over an empty slot.
LEMMA PassThroughInv ==
  ASSUME IInv, NEW w \in Entry \cup {None}, NEW re, PassThrough(w, re)
  PROVE  IInv'
<1> USE EntriesAssumption DEF Places
<1>1. elem_count = 0 /\ elem_count' = 0 /\ write_pointer = read_pointer
  BY SlotFromType DEF IInv, TypeOK, RingConsistent, PassThrough, empty, SlotAt
<1>2. TypeOK'
  BY SuccMoves DEF IInv, TypeOK, PassThrough
<1>3. \A i \in Slots : write_buffer[i] = None
  BY <1>1, SlotFromSurjective DEF IInv, TypeOK, RingConsistent, SlotAt
<1>4. \A i \in Slots : write_buffer'[i] = None
  BY <1>3 DEF IInv, TypeOK, PassThrough
<1>5. \A k \in Places : SlotAt(k)' \in Slots
  BY <1>2, SlotFromType DEF TypeOK, SlotAt
<1>6. write_pointer' = read_pointer' /\ SlotAt(0)' = read_pointer'
  BY <1>1, <1>2, SlotFromType DEF PassThrough, TypeOK, SlotAt
<1> QED BY <1>1, <1>2, <1>4, <1>5, <1>6 DEF IInv, RingConsistent

\* A word takes the place of the youngest one.
LEMMA MergeInv ==
  ASSUME IInv, NEW w \in Entry \cup {None}, NEW re, Merge(w, re)
  PROVE  IInv'
<1> USE EntriesAssumption DEF Places
<1>1. w \in Entry /\ w # None /\ elem_count > 0
  BY TailIsYoungest, NoneAssumption DEF Merge, do_merge, merge_write
<1>2. tail_pointer \in Slots /\ tail_pointer = SlotAt(elem_count - 1)
  BY <1>1, TailIsYoungest
<1>3. TypeOK'
  BY <1>1, <1>2 DEF IInv, TypeOK, Merge
<1>4. \A k \in Places : /\ SlotAt(k)' = SlotAt(k) /\ SlotAt(k) \in Slots
                        /\ SlotAt(k) = tail_pointer <=> k = elem_count - 1
  BY <1>1, <1>2, SlotFromType, SlotFromInjective DEF IInv, TypeOK, Merge, SlotAt
<1>5. \A k \in Places : (write_buffer'[SlotAt(k)'] # None) <=> (k < elem_count')
  BY <1>1, <1>2, <1>4 DEF IInv, TypeOK, RingConsistent, Merge
<1>6. write_pointer' = IF elem_count' = ENTRIES THEN read_pointer' ELSE SlotAt(elem_count)'
  BY <1>4 DEF IInv, TypeOK, RingConsistent, Merge
<1> QED BY <1>3, <1>5, <1>6 DEF IInv, RingConsistent

\* The oldest word leaves while another arrives.  In a full ring both pointers
\* are at the same slot, which keeps its valid bit.
LEMMA ReadWriteInv ==
  ASSUME IInv, NEW w \in Entry \cup {None}, NEW re, ReadWrite(w, re)
  PROVE  IInv'
<1> USE EntriesAssumption DEF Places
<1> DEFINE n == elem_count
<1>1. n \in 1 .. ENTRIES /\ elem_count' = n /\ w # None
  BY DEF IInv, TypeOK, ReadWrite, empty
<1>2. TypeOK'
  BY SuccMoves DEF IInv, TypeOK, ReadWrite
<1>3. \A k \in Places : SlotAt(k)' = IF k = ENTRIES - 1 THEN read_pointer ELSE SlotAt(k + 1)
  BY SuccMoves DEF IInv, TypeOK, ReadWrite, SlotAt
<1>4. \A k \in Places : /\ SlotAt(k) \in Slots
                        /\ SlotAt(k) = read_pointer <=> k = 0
                        /\ SlotAt(k) = write_pointer <=> k = IF n = ENTRIES THEN 0 ELSE n
  BY <1>1, SlotFromType, SlotFromInjective DEF IInv, TypeOK, RingConsistent, SlotAt
<1>5. \A i \in Slots : write_buffer'[i] = IF i = write_pointer THEN w
                                         ELSE IF i = read_pointer THEN None
                                         ELSE write_buffer[i]
  BY DEF IInv, TypeOK, ReadWrite
<1>6. \A k \in Places : (write_buffer'[SlotAt(k)'] # None) <=> (k < n)
  <2> TAKE k \in Places
  <2>1. CASE k = ENTRIES - 1
    <3>1. SlotAt(k)' = read_pointer /\ read_pointer \in Slots
      BY <2>1, <1>3 DEF IInv, TypeOK
    <3>2. SlotAt(0) = read_pointer
      BY <1>4
    <3>3. read_pointer = write_pointer <=> n = ENTRIES
      BY <1>1, <1>4, <3>2
    <3> QED BY <2>1, <1>1, <1>5, <3>1, <3>3
  <2>2. CASE k # ENTRIES - 1
    <3>1. k + 1 \in Places /\ SlotAt(k)' = SlotAt(k + 1)
      BY <2>2, <1>3
    <3>2. (write_buffer[SlotAt(k + 1)] # None) <=> (k + 1 < n)
      BY <3>1 DEF IInv, RingConsistent
    <3>3. SlotAt(k + 1) \in Slots /\ SlotAt(k + 1) # read_pointer
          /\ (SlotAt(k + 1) = write_pointer <=> k + 1 = n /\ n # ENTRIES)
      BY <1>1, <1>4, <3>1
    <3> QED BY <1>1, <1>5, <2>2, <3>1, <3>2, <3>3
  <2> QED BY <2>1, <2>2
<1>7. write_pointer' = IF n = ENTRIES THEN read_pointer' ELSE SlotAt(n)'
  BY <1>1, <1>3, SuccMoves DEF IInv, TypeOK, RingConsistent, ReadWrite, SlotAt
<1> QED BY <1>1, <1>2, <1>6, <1>7 DEF IInv, RingConsistent, SlotAt, SlotFrom

\* The oldest word leaves while another takes the place of the youngest: there
\* are two words or more, so that these are different slots.
LEMMA ReadMergeInv ==
  ASSUME IInv, NEW w \in Entry \cup {None}, NEW re, ReadMerge(w, re)
  PROVE  IInv'
<1> USE EntriesAssumption DEF Places
<1>1. w \in Entry /\ w # None /\ elem_count > 1 /\ elem_count' = elem_count - 1
  <2>1. w \in Entry /\ w # None /\ elem_count > 0
    BY TailIsYoungest, NoneAssumption DEF ReadMerge, do_merge, merge_write
  <2> QED BY <2>1 DEF IInv, TypeOK, ReadMerge, do_merge, tail_being_popped, pop, empty
<1>2. tail_pointer \in Slots /\ tail_pointer = SlotAt(elem_count - 1)
  BY <1>1, TailIsYoungest DEF IInv, TypeOK
<1>3. TypeOK'
  <2>1. write_buffer' \in [Slots -> Entry \cup {None}] /\ wb_out' \in Entry \cup {None}
    BY <1>1, <1>2 DEF IInv, TypeOK, ReadMerge
  <2>2. read_pointer' \in Slots /\ write_pointer' \in Slots
    BY SuccMoves DEF IInv, TypeOK, ReadMerge
  <2>3. elem_count' \in 0 .. ENTRIES
    BY <1>1 DEF IInv, TypeOK
  <2> QED BY <2>1, <2>2, <2>3 DEF TypeOK
<1>4. \A k \in Places : SlotAt(k)' = IF k = ENTRIES - 1 THEN read_pointer ELSE SlotAt(k + 1)
  BY SuccMoves DEF IInv, TypeOK, ReadMerge, SlotAt
<1>5. \A k \in Places : /\ SlotAt(k) \in Slots
                        /\ SlotAt(k) = read_pointer <=> k = 0
                        /\ SlotAt(k) = tail_pointer <=> k = elem_count - 1
  BY <1>1, <1>2, SlotFromType, SlotFromInjective DEF IInv, TypeOK, SlotAt
<1>6. \A i \in Slots : write_buffer'[i] = IF i = tail_pointer THEN w
                                         ELSE IF i = read_pointer THEN None
                                         ELSE write_buffer[i]
  BY <1>2 DEF IInv, TypeOK, ReadMerge
<1>7. \A k \in Places : (write_buffer'[SlotAt(k)'] # None) <=> (k < elem_count')
  <2> TAKE k \in Places
  <2>1. CASE k = ENTRIES - 1
    <3>1. SlotAt(k)' = SlotAt(0) /\ SlotAt(0) \in Slots /\ SlotAt(0) = read_pointer
      BY <2>1, <1>4, <1>5
    <3>2. SlotAt(0) # tail_pointer
      BY <1>1, <1>5 DEF IInv, TypeOK
    <3> QED BY <2>1, <1>1, <1>6, <3>1, <3>2 DEF IInv, TypeOK
  <2>2. CASE k # ENTRIES - 1
    <3>1. k + 1 \in Places /\ SlotAt(k)' = SlotAt(k + 1)
      BY <2>2, <1>4
    <3>2. (write_buffer[SlotAt(k + 1)] # None) <=> (k + 1 < elem_count)
      BY <3>1 DEF IInv, RingConsistent
    <3>3. SlotAt(k + 1) \in Slots /\ SlotAt(k + 1) # read_pointer
          /\ (SlotAt(k + 1) = tail_pointer <=> k + 1 = elem_count - 1)
      BY <1>5, <3>1
    <3> QED BY <1>1, <1>6, <2>2, <3>1, <3>2, <3>3 DEF IInv, TypeOK
  <2> QED BY <2>1, <2>2
<1>8. write_pointer' = IF elem_count' = ENTRIES THEN read_pointer' ELSE SlotAt(elem_count)'
  <2>1. elem_count' \in Places /\ elem_count' # ENTRIES
    BY <1>1 DEF IInv, TypeOK
  <2>2. SlotAt(elem_count)' = SlotFrom(Succ(read_pointer), elem_count - 1)
    BY <1>1 DEF ReadMerge, SlotAt
  <2>3. SlotFrom(Succ(read_pointer), elem_count - 1)
          = IF elem_count = ENTRIES THEN read_pointer ELSE SlotFrom(read_pointer, elem_count)
    BY <1>1, SuccMoves DEF IInv, TypeOK
  <2>4. write_pointer' = IF elem_count = ENTRIES THEN read_pointer
                         ELSE SlotFrom(read_pointer, elem_count)
    BY DEF IInv, RingConsistent, ReadMerge, SlotAt
  <2> QED BY <2>1, <2>2, <2>3, <2>4
<1> QED BY <1>3, <1>7, <1>8 DEF IInv, RingConsistent

\* Every clock edge preserves the invariant.
LEMMA NextInv == IInv /\ [Next]_vars => IInv'
<1> SUFFICES ASSUME IInv, [Next]_vars PROVE IInv'
  OBVIOUS
<1>1. CASE UNCHANGED vars
  BY <1>1, UnchangedInv DEF vars, IInv, TypeOK
<1>2. CASE Next
  <2>1. PICK w \in Entry \cup {None}, re \in BOOLEAN : Clock(w, re)
    BY <1>2 DEF Next
  <2>2. CASE Idle(w, re)
    BY <2>2, UnchangedInv DEF Idle
  <2>3. CASE ReadEmpty(w, re)
    <3>1. write_buffer[read_pointer] = None
      BY <2>3, EntriesAssumption, SlotFromType
         DEF IInv, TypeOK, RingConsistent, ReadEmpty, empty, SlotAt
    <3>2. write_buffer' = write_buffer
      BY <2>3, <3>1 DEF IInv, TypeOK, ReadEmpty
    <3> QED BY <2>3, <3>1, <3>2, UnchangedInv DEF ReadEmpty
  <2>4. CASE Read(w, re)
    BY <2>4, ReadInv
  <2>5. CASE PassThrough(w, re)
    BY <2>5, PassThroughInv
  <2>6. CASE Write(w, re)
    BY <2>6, WriteInv
  <2>7. CASE WriteLost(w, re)
    BY <2>7, UnchangedInv DEF WriteLost
  <2>8. CASE Merge(w, re)
    BY <2>8, MergeInv
  <2>9. CASE ReadWrite(w, re)
    BY <2>9, ReadWriteInv
  <2>10. CASE ReadMerge(w, re)
    BY <2>10, ReadMergeInv
  <2> QED BY <2>1, <2>2, <2>3, <2>4, <2>5, <2>6, <2>7, <2>8, <2>9, <2>10 DEF Clock
<1> QED BY <1>1, <1>2 DEF vars

\* The registers keep their types, whatever arrives and whenever it is read.
THEOREM TypeCorrect == Spec => []TypeOK
<1>1. IInv => TypeOK
  BY DEF IInv
<1> QED BY <1>1, InitInv, NextInv, PTL DEF Spec

\* Pointers, count and valid bits always describe the same ring.
THEOREM RingStaysConsistent == Spec => []RingConsistent
<1>1. IInv => RingConsistent
  BY DEF IInv
<1> QED BY <1>1, InitInv, NextInv, PTL DEF Spec

-----------------------------------------------------------------------------
(* The forwarding network *)

\* A waiting word is an entry.
LEMMA WaitingIsEntry ==
  ASSUME IInv, NEW k \in Places, k < elem_count
  PROVE  write_buffer[SlotAt(k)] \in Entry /\ write_buffer[SlotAt(k)] # None
<1>1. SlotAt(k) \in Slots
  BY SlotFromType DEF IInv, TypeOK, SlotAt, Places
<1> QED BY <1>1 DEF IInv, TypeOK, RingConsistent, Places

\* In a consistent ring the forwarding network offers the youngest word.
LEMMA ForwardInv == IInv => ForwardIsYoungest
<1> SUFFICES ASSUME IInv, NEW a \in Addr, NEW w \in Entry \cup {None}, NEW re \in BOOLEAN
             PROVE
    LET all == IF write_accepted(w, re) THEN [k \in 1 .. elem_count + 1 |->
                 IF k > elem_count THEN w ELSE write_buffer[SlotAt(k - 1)]]
               ELSE [k \in 1 .. elem_count |-> write_buffer[SlotAt(k - 1)]]
        for_a == {k \in DOMAIN all : all[k].addr = a}
    IN  /\ load_forward_valid(a, w, re) <=> for_a # {}
        /\ \A k \in for_a : (\A j \in for_a : j <= k)
                             => load_forward(a, w, re) = all[k].data
  BY DEF ForwardIsYoungest
<1> DEFINE n == elem_count
           all == IF write_accepted(w, re) THEN [k \in 1 .. elem_count + 1 |->
                    IF k > elem_count THEN w ELSE write_buffer[SlotAt(k - 1)]]
                  ELSE [k \in 1 .. elem_count |-> write_buffer[SlotAt(k - 1)]]
           for_a == {k \in DOMAIN all : all[k].addr = a}
<1>1. n \in 0 .. ENTRIES /\ ENTRIES \in Nat
  BY EntriesAssumption DEF IInv, TypeOK
<1>2. \A k \in 1 .. n : k \in DOMAIN all /\ all[k] = write_buffer[SlotAt(k - 1)]
  BY <1>1
<1>3. \A k \in 1 .. n : k \in for_a <=> k - 1 \in Ages(a)
  <2> TAKE k \in 1 .. n
  <2>1. k - 1 \in Places /\ k - 1 < n
    BY <1>1 DEF Places
  <2>2. write_buffer[SlotAt(k - 1)] # None
    BY <2>1, WaitingIsEntry
  <2> QED BY <2>1, <2>2, <1>2 DEF Ages, Holds, Places
<1>4. \A j \in Ages(a) : j \in 0 .. n - 1 /\ j + 1 \in for_a
  <2> TAKE j \in Ages(a)
  <2>1. j \in 0 .. n - 1
    BY <1>1 DEF Ages
  <2>2. j + 1 \in 1 .. n /\ (j + 1) - 1 = j
    BY <1>1, <2>1
  <2> QED BY <1>3, <2>1, <2>2
<1>5. CASE Arriving(a, w, re)
  <2>1. DOMAIN all = 1 .. n + 1 /\ all[n + 1] = w /\ w.addr = a
    BY <1>1, <1>5 DEF Arriving
  <2>2. n + 1 \in for_a /\ \A k \in for_a : k \in 1 .. n + 1
    BY <1>1, <2>1
  <2>3. load_forward_valid(a, w, re) /\ load_forward(a, w, re) = w.data
    BY <1>5 DEF load_forward_valid, load_forward
  <2>4. ASSUME NEW k \in for_a, \A j \in for_a : j <= k PROVE k = n + 1
    <3> HIDE DEF for_a
    <3> QED BY <1>1, <2>2, <2>4
  <2> QED BY <2>1, <2>2, <2>3, <2>4
<1>6. CASE ~Arriving(a, w, re)
  <2>1. \A k \in for_a : k \in 1 .. n
    BY <1>1, <1>6 DEF Arriving
  <2>2. load_forward_valid(a, w, re) <=> for_a # {}
    <3>1. load_forward_valid(a, w, re) <=> Ages(a) # {}
      BY <1>6 DEF load_forward_valid
    <3> QED BY <1>3, <1>4, <2>1, <3>1
  <2>3. ASSUME NEW k \in for_a, \A j \in for_a : j <= k
        PROVE  load_forward(a, w, re) = all[k].data
    <3> DEFINE youngest == CHOOSE i \in Ages(a) : \A j \in Ages(a) : j <= i
    <3>1. k \in 1 .. n /\ k - 1 \in Ages(a)
      BY <1>3, <2>1
    <3>2. \A j \in Ages(a) : j <= k - 1
      <4> HIDE DEF for_a
      <4> QED BY <1>1, <1>4, <2>3, <3>1
    <3>3. youngest \in Ages(a) /\ \A j \in Ages(a) : j <= youngest
      BY <3>1, <3>2
    <3>4. youngest = k - 1
      BY <1>1, <1>4, <3>1, <3>2, <3>3
    <3>5. load_forward(a, w, re) = write_buffer[SlotAt(youngest)].data
      BY <1>6 DEF load_forward
    <3> QED BY <1>2, <3>1, <3>4, <3>5
  <2> QED BY <2>2, <2>3
<1> QED BY <1>5, <1>6

\* A load is never given an older word than the last one evicted for its
\* address, and is given one whenever one waits.
THEOREM ForwardStaysYoungest == Spec => []ForwardIsYoungest
BY InitInv, NextInv, ForwardInv, PTL DEF Spec

-----------------------------------------------------------------------------
(* The last word for an address                                            *)

\* Where the words of the ring are after the read pointer has moved, or has not.
LEMMA PlacesMove ==
  ASSUME IInv
  PROVE  /\ read_pointer' = Succ(read_pointer) =>
              \A k \in Places : SlotAt(k)' = IF k = ENTRIES - 1 THEN read_pointer ELSE SlotAt(k + 1)
         /\ read_pointer' = read_pointer => \A k \in Places : SlotAt(k)' = SlotAt(k)
BY SuccMoves DEF IInv, TypeOK, SlotAt, Places

\* Places of a consistent ring are different slots; the first is the read
\* pointer's.
LEMMA PlacesDiffer ==
  ASSUME IInv
  PROVE  \A j, k \in Places : /\ SlotAt(j) \in Slots
                              /\ SlotAt(j) = SlotAt(k) => j = k
                              /\ SlotAt(0) = read_pointer
BY SlotFromType, SlotFromInjective DEF IInv, TypeOK, SlotAt, Places

\* Among the waiting words of an address one is the youngest.
LEMMA YoungestExists ==
  ASSUME NEW S \in SUBSET Places, S # {}
  PROVE  \E k \in S : \A j \in S : j <= k
<1> USE EntriesAssumption DEF Places
<1> DEFINE T == {ENTRIES - k : k \in S}
<1>1. T \subseteq Nat /\ T # {}
  OBVIOUS
<1>2. PICK x \in T : \A y \in T : <<y, x>> \notin OpToRel(<, Nat)
  <2> HIDE DEF T
  <2> QED BY <1>1, WFMin, NatLessThanWellFounded
<1>3. \A y \in T : ~(y < x)
  <2> HIDE DEF T
  <2>1. \A y, z \in Nat : y < z => <<y, z>> \in OpToRel(<, Nat)
    BY DEF OpToRel
  <2> QED BY <1>1, <1>2, <2>1
<1>4. PICK k \in S : x = ENTRIES - k
  BY <1>2
<1>5. \A j \in S : j <= k
  <2> TAKE j \in S
  <2>1. ENTRIES - j \in T
    OBVIOUS
  <2>2. ~(ENTRIES - j < x)
    BY <2>1, <1>3
  <2> QED BY <2>2, <1>4
<1> QED BY <1>5

\* The word k places from the oldest.
At(k) == write_buffer[SlotAt(k)]
\* How many words a step takes out of the ring.
Popped(re) == IF re THEN 1 ELSE 0

\* What a clock edge does to the words of the ring, when nothing is lost.
LEMMA WordsMove ==
  ASSUME IInv, NEW w \in Entry \cup {None}, NEW re \in BOOLEAN, Clock(w, re),
         re => ~empty, w = None \/ write_accepted(w, re)
  PROVE  /\ elem_count' = elem_count - Popped(re) + (IF w = None \/ do_merge(w, re) THEN 0 ELSE 1)
         /\ do_merge(w, re) => elem_count > Popped(re) /\ At(elem_count - 1).addr = w.addr
         /\ \A k \in Places : k < elem_count' =>
              At(k)' = IF w # None /\ k + 1 = elem_count' THEN w ELSE At(k + Popped(re))
         /\ wb_out' = IF re THEN At(0) ELSE None
<1> USE EntriesAssumption DEF Places, Popped
<1> DEFINE n == elem_count
<1>n. n \in 0 .. ENTRIES /\ 0 \in Places /\ read_pointer \in Slots /\ SlotAt(0) = read_pointer
  BY PlacesDiffer DEF IInv, TypeOK
<1>1. CASE Idle(w, re)
  <2>1. \A k \in Places : At(k)' = At(k)
    BY <1>1, PlacesMove DEF Idle, At
  <2> QED BY <1>1, <1>n, <2>1 DEF Idle, do_merge, merge_write
<1>2. CASE Read(w, re)
  <2>1. \A k \in Places : k < n - 1 => SlotAt(k + 1) \in Slots /\ SlotAt(k + 1) # read_pointer /\ SlotAt(k)' = SlotAt(k + 1)
    BY <1>2, <1>n, PlacesMove, PlacesDiffer DEF Read
  <2>2. \A k \in Places : k < n - 1 => At(k)' = At(k + 1)
    BY <1>2, <2>1 DEF Read, At, IInv, TypeOK
  <2> QED BY <1>2, <1>n, <2>2 DEF Read, do_merge, merge_write, At
<1>3. CASE Write(w, re)
  <2>1. n \in Places /\ write_pointer = SlotAt(n)
    BY <1>3, <1>n DEF IInv, RingConsistent, Write, full
  <2>2. \A k \in Places : SlotAt(k)' = SlotAt(k) /\ SlotAt(k) \in Slots /\ (k # n => SlotAt(k) # SlotAt(n))
    BY <1>3, <2>1, PlacesMove, PlacesDiffer DEF Write
  <2>3. \A k \in Places : At(k)' = IF k = n THEN w ELSE At(k)
    BY <1>3, <2>1, <2>2 DEF Write, At, IInv, TypeOK
  <2> QED BY <1>3, <1>n, <2>3 DEF Write
<1>m. do_merge(w, re) => /\ w # None /\ n > Popped(re) /\ n - 1 \in Places
                         /\ tail_pointer = SlotAt(n - 1) /\ At(n - 1).addr = w.addr
  BY <1>n, TailIsYoungest DEF do_merge, merge_write, tail_being_popped, pop, empty, Holds, At
<1>4. CASE Merge(w, re)
  <2>1. \A k \in Places : SlotAt(k)' = SlotAt(k) /\ SlotAt(k) \in Slots /\ (k # n - 1 => SlotAt(k) # SlotAt(n - 1))
    BY <1>4, <1>m, PlacesMove, PlacesDiffer DEF Merge
  <2>2. \A k \in Places : At(k)' = IF k = n - 1 THEN w ELSE At(k)
    BY <1>4, <1>m, <2>1 DEF Merge, At, IInv, TypeOK
  <2> QED BY <1>4, <1>n, <1>m, <2>2 DEF Merge
<1>5. CASE ReadMerge(w, re)
  <2>1. \A k \in Places : k < n - 1 => /\ SlotAt(k + 1) \in Slots /\ SlotAt(k + 1) # read_pointer
                                       /\ SlotAt(k)' = SlotAt(k + 1)
                                       /\ k + 1 # n - 1 => SlotAt(k + 1) # SlotAt(n - 1)
    BY <1>5, <1>n, <1>m, PlacesMove, PlacesDiffer DEF ReadMerge
  <2>2. \A k \in Places : k < n - 1 => At(k)' = IF k + 1 = n - 1 THEN w ELSE At(k + 1)
    BY <1>5, <1>m, <2>1 DEF ReadMerge, At, IInv, TypeOK
  <2>3. re /\ n' = n - 1 /\ wb_out' = At(0)
    BY <1>5, <1>n, <1>m DEF ReadMerge, pop, empty, At
  <2>4. w # None /\ do_merge(w, re) /\ n > 1
    BY <1>5, <1>m, <2>3 DEF ReadMerge
  <2>5. \A k \in Places : k < n' => At(k)' = IF w # None /\ k + 1 = n' THEN w ELSE At(k + 1)
    BY <1>n, <2>2, <2>3, <2>4
  <2> QED BY <1>n, <1>m, <2>3, <2>4, <2>5
<1>6. CASE ReadWrite(w, re)
  <2>0. wb_out' = At(0)
    BY <1>6, <1>n DEF ReadWrite, At
  <2>1. w # None /\ re /\ n > 0 /\ n' = n /\ ~do_merge(w, re)
    <3>1. w # None /\ re /\ ~(elem_count = 0) /\ elem_count' = elem_count /\ ~do_merge(w, re)
      BY <1>6, Zenon DEF ReadWrite, empty
    <3>2. n > 0
      BY <3>1, <1>n
    <3> QED BY <3>1, <3>2, Zenon
  <2>2. write_pointer = IF n = ENTRIES THEN read_pointer ELSE SlotAt(n)
    BY DEF IInv, RingConsistent
  <2>3. \A k \in Places : SlotAt(k)' = IF k = ENTRIES - 1 THEN read_pointer ELSE SlotAt(k + 1)
    BY <1>6, PlacesMove DEF ReadWrite
  <2>4. write_pointer \in Slots /\ SlotAt(n - 1)' = write_pointer
    BY <2>1, <2>2, <2>3, <1>n, PlacesDiffer DEF IInv, TypeOK
  <2>5. write_buffer'[write_pointer] = w
    BY <1>6, <2>4 DEF ReadWrite, IInv, TypeOK
  <2>6. \A k \in Places : k < n - 1 => At(k)' = At(k + 1)
    <3> SUFFICES ASSUME NEW k \in Places, k < n - 1 PROVE At(k)' = At(k + 1)
      OBVIOUS
    <3>1. k + 1 \in Places /\ SlotAt(k)' = SlotAt(k + 1) /\ SlotAt(k + 1) \in Slots /\ SlotAt(k + 1) # read_pointer
      BY <1>n, <2>3, PlacesDiffer
    <3>2. SlotAt(k + 1) # write_pointer
      BY <3>1, <1>n, <2>2, PlacesDiffer
    <3> QED BY <1>6, <3>1, <3>2 DEF ReadWrite, At, IInv, TypeOK
  <2>7. At(n - 1)' = w
    <3>1. At(n - 1)' = write_buffer'[write_pointer]
      BY <2>1, <2>4 DEF At
    <3> QED BY <3>1, <2>5
  <2>8. \A k \in Places : k < n' => At(k)' = IF w # None /\ k + 1 = n' THEN w ELSE At(k + 1)
    BY <1>n, <2>1, <2>6, <2>7
  <2>9. n' = n - Popped(re) + (IF w = None \/ do_merge(w, re) THEN 0 ELSE 1)
    <3>1. ~(w = None \/ do_merge(w, re)) /\ Popped(re) = 1
      BY <2>1
    <3>2. n' = n - 1 + 1
      BY <1>n, <2>1
    <3> QED BY <3>1, <3>2, Zenon
  <2>10. do_merge(w, re) => n > Popped(re) /\ At(n - 1).addr = w.addr
    BY <2>1
  <2> QED BY <2>0, <2>1, <2>8, <2>9, <2>10
<1>7. ~ReadEmpty(w, re) /\ ~PassThrough(w, re) /\ ~WriteLost(w, re)
  BY DEF ReadEmpty, PassThrough, WriteLost, write_accepted, do_merge, tail_being_popped, pop
<1> QED BY <1>1, <1>2, <1>3, <1>4, <1>5, <1>6, <1>7 DEF Clock

\* The youngest word for an address is what load_forward returns.
LEMMA ForwardAt ==
  ASSUME IInv, NEW a, NEW k \in Ages(a), \A j \in Ages(a) : j <= k
  PROVE  load_forward(a, None, FALSE) = At(k).data
<1>1. ~Arriving(a, None, FALSE)
  BY DEF Arriving, write_accepted
<1>2. Ages(a) \subseteq Int
  BY EntriesAssumption DEF Ages
<1>3. \A i \in Ages(a) : (\A j \in Ages(a) : j <= i) => i = k
  BY <1>2
<1>4. (CHOOSE i \in Ages(a) : \A j \in Ages(a) : j <= i) = k
  BY <1>3
<1> QED BY <1>1, <1>4 DEF load_forward, At

\* The ages of the words of an address, by the words at their places.
LEMMA AgesAt ==
  ASSUME IInv, NEW a, NEW k
  PROVE  k \in Ages(a) <=> k \in Places /\ k < elem_count /\ At(k).addr = a
BY DEF Ages, Holds, At, IInv, RingConsistent, Places

\* This fact, and the one before it, about the state after a clock edge.
LEMMA AgesAtNext ==
  ASSUME NEW a
  PROVE  IInv' => (\A k : (k \in Ages(a) <=> k \in Places /\ k < elem_count /\ At(k).addr = a))'
<1>1. IInv => \A k : (k \in Ages(a) <=> k \in Places /\ k < elem_count /\ At(k).addr = a)
  BY AgesAt
<1> QED BY <1>1, PTL

\* What is forwarded after a clock edge.
LEMMA ForwardAtNext ==
  ASSUME NEW a
  PROVE  IInv' => (\A k \in Ages(a) : (\A j \in Ages(a) : j <= k) =>
                                        load_forward(a, None, FALSE) = At(k).data)'
<1>1. IInv => \A k \in Ages(a) : (\A j \in Ages(a) : j <= k) => load_forward(a, None, FALSE) = At(k).data
  BY ForwardAt
<1> QED BY <1>1, PTL

\* The history of the last word of an address through a clock edge that refuses
\* no word.
LEMMA LatestWordAccepted ==
  ASSUME IInv, IInv', NEW w \in Entry \cup {None}, NEW re \in BOOLEAN, Clock(w, re),
         re => ~empty, w = None \/ write_accepted(w, re), NEW a
  PROVE  /\ w # None /\ w.addr = a =>
              Ages(a)' # {} /\ load_forward(a, None, FALSE)' = w.data
         /\ ~(w # None /\ w.addr = a) =>
              /\ Ages(a)' # {} => /\ Ages(a) # {}
                                  /\ load_forward(a, None, FALSE)' = load_forward(a, None, FALSE)
              /\ Ages(a) # {} /\ Ages(a)' = {} =>
                   /\ re /\ wb_out' # None /\ wb_out'.addr = a
                   /\ wb_out'.data = load_forward(a, None, FALSE)
         /\ wb_out' # None <=> re
         /\ re /\ wb_out'.addr = a => Ages(a) # {}
<1> USE EntriesAssumption DEF Places
<1> DEFINE n == elem_count
           p == Popped(re)
<1>p. p = IF re THEN 1 ELSE 0
  BY DEF Popped
<1>n. n \in 0 .. ENTRIES /\ n' \in 0 .. ENTRIES /\ (re => n > 0)
  BY DEF IInv, TypeOK, empty
<1>w. /\ w = None \/ do_merge(w, re) => n' = n - p
      /\ ~(w = None \/ do_merge(w, re)) => n' = n - p + 1
      /\ do_merge(w, re) => n > p /\ At(n - 1).addr = w.addr
      /\ \A k \in Places : k < n' => At(k)' = IF w # None /\ k + 1 = n' THEN w ELSE At(k + p)
      /\ wb_out' = IF re THEN At(0) ELSE None
  <2>1. /\ n' = n - p + (IF w = None \/ do_merge(w, re) THEN 0 ELSE 1)
        /\ do_merge(w, re) => n > p /\ At(n - 1).addr = w.addr
        /\ \A k \in Places : k < n' => At(k)' = IF w # None /\ k + 1 = n' THEN w ELSE At(k + p)
        /\ wb_out' = IF re THEN At(0) ELSE None
    BY WordsMove, Zenon
  <2>2. /\ w = None \/ do_merge(w, re) => n' = n - p + 0
        /\ ~(w = None \/ do_merge(w, re)) => n' = n - p + 1
    BY <2>1, Zenon
  <2>3. n - p + 0 = n - p
    BY <1>n, <1>p
  <2> QED BY <2>1, <2>2, <2>3, Zenon
<1>a. \A k : (k \in Ages(a) <=> k \in Places /\ k < n /\ At(k).addr = a)
  BY AgesAt
<1>a1. \A k : (k \in Ages(a)' <=> k \in Places /\ k < n' /\ At(k)'.addr = a)
  BY AgesAtNext
<1>f1. \A k \in Ages(a)' : (\A j \in Ages(a)' : j <= k) => load_forward(a, None, FALSE)' = At(k)'.data
  BY ForwardAtNext
<1>o. /\ wb_out' # None <=> re
      /\ re /\ wb_out'.addr = a => 0 \in Ages(a)
  <2>1. re => At(0) # None
    BY <1>n, WaitingIsEntry DEF At
  <2> QED BY <1>n, <1>w, <1>a, <2>1

<1>1. ASSUME w # None, w.addr = a
      PROVE  Ages(a)' # {} /\ load_forward(a, None, FALSE)' = w.data
  <2>1. PICK k \in Places : k + 1 = n'
    <3>1. CASE do_merge(w, re)
      <4>1. n' = n - p /\ n > p
        BY <3>1, <1>w, Zenon
      <4>2. n - p - 1 \in Places /\ n - p - 1 + 1 = n'
        BY <4>1, <1>p, <1>n
      <4> QED BY <4>2
    <3>2. CASE ~do_merge(w, re)
      <4>1. n' = n - p + 1
        BY <3>2, <1>1, <1>w, Zenon
      <4>2. n - p \in Places
        BY <4>1, <1>p, <1>n
      <4> QED BY <4>1, <4>2
    <3> QED BY <3>1, <3>2
  <2>2. \A j \in Places : j < n' => j <= k
    BY <2>1, <1>n
  <2>3. At(k)' = w
    <3>1. k < n'
      BY <2>1, <1>n
    <3> QED BY <3>1, <2>1, <1>1, <1>w, Zenon
  <2>4. k \in Ages(a)' /\ \A j \in Ages(a)' : j <= k
    BY <1>1, <2>1, <2>2, <2>3, <1>n, <1>a1
  <2> QED BY <2>3, <2>4, <1>f1
<1>2. ASSUME ~(w # None /\ w.addr = a)
      PROVE  \A k \in Places : k \in Ages(a)' <=> k + p \in Ages(a)
  <2> TAKE k \in Places
  <2>1. CASE w = None
    BY <2>1, <1>p, <1>n, <1>w, <1>a, <1>a1
  <2>2. CASE w # None /\ do_merge(w, re)
    <3>1. n' = n - p /\ n > p /\ At(n - 1).addr = w.addr
      BY <2>2, <1>w
    <3>2. k + 1 = n' => k + p = n - 1 /\ At(k)' = w
      BY <2>2, <3>1, <1>p, <1>n, <1>w
    <3>3. k < n' /\ k # n' - 1 => At(k)' = At(k + p)
      BY <1>w
    <3> QED BY <2>2, <3>1, <3>2, <3>3, <1>2, <1>p, <1>n, <1>a, <1>a1
  <2>3. CASE w # None /\ ~do_merge(w, re)
    <3>1. n' = n - p + 1
      BY <2>3, <1>w
    <3>2. k + 1 = n' => k + p = n /\ At(k)' = w
      BY <2>3, <3>1, <1>p, <1>n, <1>w
    <3>3. k < n' /\ k # n' - 1 => At(k)' = At(k + p)
      BY <1>w
    <3> QED BY <2>3, <3>1, <3>2, <3>3, <1>2, <1>p, <1>n, <1>a, <1>a1
  <2> QED BY <2>1, <2>2, <2>3
<1>3. ASSUME ~(w # None /\ w.addr = a), Ages(a)' # {}
      PROVE  Ages(a) # {} /\ load_forward(a, None, FALSE)' = load_forward(a, None, FALSE)
  <2>1. Ages(a)' \in SUBSET Places
    BY <1>a1
  <2>2. PICK k \in Ages(a)' : \A j \in Ages(a)' : j <= k
    BY <2>1, <1>3, YoungestExists
  <2>3. k \in Places /\ k + p \in Ages(a)
    BY <1>2, <1>3, <2>1
  <2>4. \A j \in Ages(a) : j <= k + p
    <3> TAKE j \in Ages(a)
    <3>1. CASE j < p
      BY <3>1, <1>p, <1>a, <2>3
    <3>2. CASE j >= p
      <4>1. j - p \in Places /\ (j - p) + p = j
        BY <3>2, <1>p, <1>a
      <4>2. j - p \in Ages(a)'
        BY <4>1, <1>2, <1>3
      <4> QED BY <4>1, <4>2, <2>2, <2>3, <1>p, <1>a
    <3> QED BY <3>1, <3>2, <1>p, <1>a
  <2>5. At(k)' = At(k + p)
    BY <1>3, <1>p, <1>w, <1>a1, <2>3
  <2> QED BY <2>2, <2>3, <2>4, <2>5, <1>f1, ForwardAt
<1>4. ASSUME ~(w # None /\ w.addr = a), Ages(a) # {}, Ages(a)' = {}
      PROVE  /\ re /\ wb_out' # None /\ wb_out'.addr = a
             /\ wb_out'.data = load_forward(a, None, FALSE)
  <2>1. \A j \in Ages(a) : j = 0 /\ re
    <3> TAKE j \in Ages(a)
    <3>1. CASE j < p
      BY <3>1, <1>p, <1>a
    <3>2. CASE j >= p
      <4>1. j - p \in Places /\ (j - p) + p = j
        BY <3>2, <1>p, <1>a
      <4> QED BY <4>1, <1>2, <1>4
    <3> QED BY <3>1, <3>2, <1>p, <1>a
  <2>2. 0 \in Ages(a) /\ re /\ \A j \in Ages(a) : j <= 0
    BY <2>1, <1>4
  <2>3. load_forward(a, None, FALSE) = At(0).data
    BY <2>2, ForwardAt
  <2> QED BY <2>2, <2>3, <1>w, <1>a, <1>o
<1> QED BY <1>o, <1>1, <1>3, <1>4

\* The history of the last word of an address through any clock edge: a word
\* that the ring accepts becomes the last of its address; of any other address
\* the last word stays what it is, in the ring or, if it was the only one and
\* the oldest of all, on its way to the bus.  A refused word changes nothing.
LEMMA LatestWord ==
  ASSUME IInv, IInv', NEW w \in Entry \cup {None}, NEW re \in BOOLEAN, Clock(w, re),
         re => ~empty, NEW a
  PROVE  /\ write_accepted(w, re) /\ w.addr = a =>
              Ages(a)' # {} /\ load_forward(a, None, FALSE)' = w.data
         /\ ~(write_accepted(w, re) /\ w.addr = a) =>
              /\ Ages(a)' # {} => /\ Ages(a) # {}
                                  /\ load_forward(a, None, FALSE)' = load_forward(a, None, FALSE)
              /\ Ages(a) # {} /\ Ages(a)' = {} =>
                   /\ re /\ wb_out' # None /\ wb_out'.addr = a
                   /\ wb_out'.data = load_forward(a, None, FALSE)
         /\ wb_out' # None <=> re
         /\ re /\ wb_out'.addr = a => Ages(a) # {}
         /\ w = None /\ ~full => ~full'
         /\ w = None /\ empty => empty'
<1>1. CASE w = None \/ write_accepted(w, re)
  <2>1. write_accepted(w, re) <=> w # None
    BY <1>1 DEF write_accepted
  <2>2. w = None /\ ~full => ~full'
    <3>1. elem_count' = elem_count - Popped(re) + (IF w = None \/ do_merge(w, re) THEN 0 ELSE 1)
      BY <1>1, WordsMove, Zenon
    <3>2. w = None => elem_count' = elem_count - Popped(re) + 0
      BY <3>1, Zenon
    <3> QED BY <3>2 DEF Popped, full, IInv, TypeOK
  <2>3. w = None /\ empty => empty'
    BY DEF Clock, Idle, ReadEmpty, Read, PassThrough, Write, WriteLost, Merge, ReadWrite, ReadMerge,
           do_merge, merge_write, empty
  <2> QED BY <1>1, <2>1, <2>2, <2>3, LatestWordAccepted
<1>2. CASE w # None /\ ~write_accepted(w, re)
  <2>1. full /\ ~re /\ ~merge_write(w)
    BY <1>2 DEF write_accepted
  <2>2. WriteLost(w, re)
    BY <1>2, <2>1 DEF Clock, Idle, ReadEmpty, Read, PassThrough, Write, Merge, ReadWrite, ReadMerge, do_merge
  <2>3. Ages(a)' = Ages(a) /\ load_forward(a, None, FALSE)' = load_forward(a, None, FALSE)
    BY <2>2 DEF WriteLost, Ages, Holds, SlotAt, load_forward, Arriving, write_accepted
  <2> QED BY <1>2, <2>1, <2>2, <2>3 DEF WriteLost
<1> QED BY <1>1, <1>2

\* What is forwarded is a word, and the arriving word goes before the ring's.
LEMMA ForwardedIsWord ==
  ASSUME IInv, NEW a, NEW w \in Entry \cup {None}, NEW re, load_forward_valid(a, w, re)
  PROVE  /\ load_forward(a, w, re) = IF write_accepted(w, re) /\ w.addr = a THEN w.data
                                     ELSE load_forward(a, None, FALSE)
         /\ load_forward(a, w, re) \in Data
<1>1. ~Arriving(a, None, FALSE)
  BY DEF Arriving, write_accepted
<1>2. load_forward(a, w, re) = IF write_accepted(w, re) /\ w.addr = a THEN w.data
                               ELSE load_forward(a, None, FALSE)
  <2> DEFINE last == write_buffer[SlotAt(CHOOSE k \in Ages(a) : \A j \in Ages(a) : j <= k)].data
  <2>1. load_forward(a, None, FALSE) = last
    BY <1>1 DEF load_forward
  <2>2. load_forward(a, w, re) = IF Arriving(a, w, re) THEN w.data ELSE last
    BY DEF load_forward
  <2> HIDE DEF last
  <2> QED BY <2>1, <2>2 DEF Arriving
<1>3. CASE write_accepted(w, re) /\ w.addr = a
  BY <1>2, <1>3 DEF write_accepted, Entry
<1>4. CASE ~(write_accepted(w, re) /\ w.addr = a)
  <2>1. Ages(a) # {} /\ Ages(a) \in SUBSET Places
    BY <1>4, AgesAt DEF load_forward_valid, Arriving
  <2>2. PICK k \in Ages(a) : \A j \in Ages(a) : j <= k
    BY <2>1, YoungestExists
  <2>3. load_forward(a, None, FALSE) = At(k).data /\ k \in Places /\ k < elem_count
    BY <2>2, ForwardAt, AgesAt
  <2> QED BY <1>2, <1>4, <2>3, WaitingIsEntry DEF At, Entry
<1> QED BY <1>2, <1>3, <1>4

-----------------------------------------------------------------------------
(* The ring implements the queue *)

\* The queue that a consistent ring stands for.
LEMMA QueueIsSeq ==
  ASSUME IInv
  PROVE  /\ elem_count \in 0 .. ENTRIES /\ ENTRIES \in Nat \ {0}
         /\ Queue \in Seq(Entry) /\ Len(Queue) = elem_count
         /\ \A k \in 1 .. elem_count : Queue[k] = write_buffer[SlotAt(k - 1)]
         /\ Queue = <<>> <=> elem_count = 0
<1>1. elem_count \in 0 .. ENTRIES /\ ENTRIES \in Nat \ {0}
  BY EntriesAssumption DEF IInv, TypeOK
<1>2. \A k \in 1 .. elem_count : write_buffer[SlotAt(k - 1)] \in Entry
  <2> TAKE k \in 1 .. elem_count
  <2>1. k - 1 \in Places /\ k - 1 < elem_count
    BY <1>1 DEF Places
  <2> QED BY <2>1, WaitingIsEntry
<1>3. Queue \in [1 .. elem_count -> Entry]
  BY <1>2 DEF Queue
<1>4. Queue \in Seq(Entry)
  BY <1>1, <1>3, SeqDef
<1>5. Len(Queue) = elem_count
  BY <1>1, <1>3, <1>4, LenProperties
<1>6. Queue = <<>> <=> elem_count = 0
  BY <1>4, <1>5, EmptySeq
<1> QED BY <1>1, <1>4, <1>5, <1>6 DEF Queue

\* The same of the next state.
LEMMA QueueIsSeqPrime == IInv' => (Queue \in Seq(Entry) /\ Len(Queue) = elem_count)'
<1>1. IInv => Queue \in Seq(Entry) /\ Len(Queue) = elem_count
  BY QueueIsSeq
<1> QED BY <1>1, PTL

\* The tail pointer is at the last word of the queue.
LEMMA TailIsLast ==
  ASSUME IInv, elem_count > 0
  PROVE  write_buffer[tail_pointer] = Queue[elem_count] /\ Queue[elem_count] # None
<1>1. elem_count \in 1 .. elem_count /\ elem_count - 1 \in Places
  BY QueueIsSeq DEF Places
<1>2. tail_pointer = SlotAt(elem_count - 1)
  BY TailIsYoungest
<1> QED BY <1>1, <1>2, QueueIsSeq, WaitingIsEntry

\* What arrives merges exactly when it is for the address of the last word.
LEMMA MergeIsLast ==
  ASSUME IInv, NEW w \in Entry
  PROVE  merge_write(w) <=> elem_count > 0 /\ Queue[elem_count].addr = w.addr
<1>1. w # None
  BY NoneAssumption
<1> QED BY <1>1, TailIsLast, TailIsYoungest DEF merge_write, Holds

-----------------------------------------------------------------------------
(* Sequences given element by element *)

\* A sequence without its first element.
LEMMA IsTail ==
  ASSUME NEW S, NEW s \in Seq(S), NEW t \in Seq(S), s # <<>>,
         Len(t) = Len(s) - 1, \A i \in 1 .. Len(t) : t[i] = s[i + 1]
  PROVE  t = Tail(s)
<1>1. /\ Tail(s) \in Seq(S) /\ Len(Tail(s)) = Len(s) - 1
      /\ \A i \in 1 .. Len(Tail(s)) : Tail(s)[i] = s[i + 1]
  BY HeadTailProperties
<1> QED BY <1>1, SeqEqual

\* A sequence with one more element.
LEMMA IsAppend ==
  ASSUME NEW S, NEW s \in Seq(S), NEW t \in Seq(S), NEW e \in S,
         Len(t) = Len(s) + 1, \A i \in 1 .. Len(s) : t[i] = s[i], t[Len(s) + 1] = e
  PROVE  t = Append(s, e)
<1>1. Len(s) \in Nat
  BY LenProperties
<1>2. /\ Append(s, e) \in Seq(S) /\ Len(Append(s, e)) = Len(s) + 1
      /\ \A i \in 1 .. Len(s) + 1 : Append(s, e)[i] = IF i <= Len(s) THEN s[i] ELSE e
  BY <1>1, AppendProperties
<1>3. \A i \in 1 .. Len(t) : t[i] = Append(s, e)[i]
  BY <1>1, <1>2
<1> QED BY <1>2, <1>3, SeqEqual

\* A sequence with another last element.
LEMMA IsReplaceLast ==
  ASSUME NEW S, NEW s \in Seq(S), NEW t \in Seq(S), NEW e \in S, Len(s) > 0,
         Len(t) = Len(s),
         \A i \in 1 .. Len(s) : t[i] = IF i = Len(s) THEN e ELSE s[i]
  PROVE  t = [s EXCEPT ![Len(s)] = e]
<1>1. Len(s) \in Nat /\ Len(s) \in 1 .. Len(s)
  BY LenProperties
<1>2. /\ [s EXCEPT ![Len(s)] = e] \in Seq(S)
      /\ Len([s EXCEPT ![Len(s)] = e]) = Len(s)
      /\ \A j \in 1 .. Len(s) : [s EXCEPT ![Len(s)] = e][j] = IF j = Len(s) THEN e ELSE s[j]
  BY <1>1, ExceptSeq
<1> QED BY <1>2, SeqEqual

-----------------------------------------------------------------------------
(* Each way through the clocked block, seen as a step of the queue         *)

\* The word at the read pointer is the first of the queue.
LEMMA ReadsHead ==
  ASSUME IInv, elem_count > 0
  PROVE  Queue # <<>> /\ Head(Queue) = write_buffer[read_pointer]
<1>1. Queue # <<>> /\ 1 \in 1 .. elem_count
  BY QueueIsSeq
<1>2. 0 \in Places /\ 1 - 1 = 0
  BY EntriesAssumption DEF Places
<1>3. Queue[1] = write_buffer[read_pointer]
  BY <1>1, <1>2, QueueIsSeq, PlacesDiffer
<1>4. Head(Queue) = Queue[1]
  BY QueueIsSeq
<1> QED BY <1>1, <1>3, <1>4

\* A word that stays in its slot moves up one place when the read pointer
\* moves, and keeps its place when it does not.
LEMMA StayingWord ==
  ASSUME IInv, elem_count' \in 0 .. ENTRIES
  PROVE  /\ read_pointer' = Succ(read_pointer) =>
              \A i \in 1 .. elem_count - 1 :
                i <= elem_count' /\ write_buffer'[SlotAt(i)] = write_buffer[SlotAt(i)]
                  => Queue'[i] = Queue[i + 1]
         /\ read_pointer' = read_pointer =>
              \A i \in 1 .. elem_count :
                i <= elem_count' /\ write_buffer'[SlotAt(i - 1)] = write_buffer[SlotAt(i - 1)]
                  => Queue'[i] = Queue[i]
<1>1. elem_count \in 0 .. ENTRIES /\ ENTRIES \in Nat
  BY QueueIsSeq
<1>2. ASSUME read_pointer' = Succ(read_pointer), NEW i \in 1 .. elem_count - 1,
             i <= elem_count', write_buffer'[SlotAt(i)] = write_buffer[SlotAt(i)]
      PROVE  Queue'[i] = Queue[i + 1]
  <2>1. /\ i - 1 \in Places /\ i - 1 # ENTRIES - 1 /\ (i - 1) + 1 = i
        /\ i \in 1 .. elem_count' /\ i + 1 \in 1 .. elem_count /\ (i + 1) - 1 = i
    BY <1>1, <1>2 DEF Places
  <2>2. SlotAt(i - 1)' = SlotAt(i)
    BY <1>2, <2>1, PlacesMove
  <2>3. Queue'[i] = write_buffer'[SlotAt(i - 1)']
    BY <2>1 DEF Queue
  <2>4. Queue[i + 1] = write_buffer[SlotAt(i)]
    BY <2>1, QueueIsSeq
  <2> QED BY <1>2, <2>2, <2>3, <2>4
<1>3. ASSUME read_pointer' = read_pointer, NEW i \in 1 .. elem_count,
             i <= elem_count', write_buffer'[SlotAt(i - 1)] = write_buffer[SlotAt(i - 1)]
      PROVE  Queue'[i] = Queue[i]
  <2>1. i - 1 \in Places /\ i \in 1 .. elem_count'
    BY <1>1, <1>3 DEF Places
  <2>2. SlotAt(i - 1)' = SlotAt(i - 1)
    BY <1>3, <2>1, PlacesMove
  <2>3. Queue'[i] = write_buffer'[SlotAt(i - 1)']
    BY <2>1 DEF Queue
  <2> QED BY <1>3, <2>2, <2>3, QueueIsSeq
<1> QED BY <1>2, <1>3

\* Reading takes the head of the queue.
LEMMA ReadStep ==
  ASSUME IInv, IInv', NEW w, NEW re, Read(w, re)
  PROVE  Queue # <<>> /\ wb_out' = Head(Queue) /\ Queue' = Tail(Queue)
<1>1. /\ elem_count > 0 /\ elem_count' = elem_count - 1 /\ elem_count' \in 0 .. ENTRIES
      /\ read_pointer' = Succ(read_pointer)
  BY DEF IInv, TypeOK, Read, empty
<1>2. \A i \in 1 .. elem_count - 1 : Queue'[i] = Queue[i + 1]
  <2> TAKE i \in 1 .. elem_count - 1
  <2>1. i \in Places /\ i # 0 /\ i <= elem_count' /\ 0 \in Places
    BY <1>1, QueueIsSeq DEF Places
  <2>2. SlotAt(i) \in Slots /\ SlotAt(i) # read_pointer
    BY <2>1, PlacesDiffer
  <2>3. write_buffer'[SlotAt(i)] = write_buffer[SlotAt(i)]
    BY <2>2 DEF IInv, TypeOK, Read
  <2> QED BY <1>1, <2>1, <2>3, StayingWord
<1>3. Queue' = Tail(Queue)
  BY <1>1, <1>2, QueueIsSeq, QueueIsSeqPrime, IsTail
<1> QED BY <1>1, <1>3, ReadsHead DEF Read

\* Writing appends to the queue.
LEMMA WriteStep ==
  ASSUME IInv, IInv', NEW w \in Entry, NEW re \in BOOLEAN, Write(w, re)
  PROVE  /\ elem_count < ENTRIES /\ ~merge_write(w)
         /\ Queue' = Append(Queue, w)
<1>1. /\ elem_count < ENTRIES /\ elem_count' = elem_count + 1 /\ elem_count' \in 0 .. ENTRIES
      /\ read_pointer' = read_pointer
  BY EntriesAssumption DEF IInv, TypeOK, Write, full
<1>2. elem_count \in Places /\ write_pointer = SlotAt(elem_count)
  BY <1>1, QueueIsSeq DEF IInv, RingConsistent, Places
<1>3. \A i \in 1 .. elem_count : Queue'[i] = Queue[i]
  <2> TAKE i \in 1 .. elem_count
  <2>1. i - 1 \in Places /\ i - 1 # elem_count /\ i <= elem_count'
    BY <1>1, QueueIsSeq DEF Places
  <2>2. SlotAt(i - 1) \in Slots /\ SlotAt(i - 1) # write_pointer
    BY <1>2, <2>1, PlacesDiffer
  <2>3. write_buffer'[SlotAt(i - 1)] = write_buffer[SlotAt(i - 1)]
    BY <2>2 DEF IInv, TypeOK, Write
  <2> QED BY <1>1, <2>1, <2>3, StayingWord
<1>4. Queue'[elem_count + 1] = w
  <2>1. elem_count + 1 \in 1 .. elem_count' /\ (elem_count + 1) - 1 = elem_count
    BY <1>1, QueueIsSeq
  <2>2. SlotFrom(read_pointer', elem_count) = write_pointer
    BY <1>1, <1>2 DEF SlotAt
  <2>3. Queue'[elem_count + 1] = write_buffer'[SlotFrom(read_pointer', elem_count)]
    BY <2>1 DEF Queue, SlotAt
  <2> QED BY <2>2, <2>3 DEF IInv, TypeOK, Write
<1>5. Queue' = Append(Queue, w)
  BY <1>1, <1>3, <1>4, QueueIsSeq, QueueIsSeqPrime, IsAppend
<1>6. ~merge_write(w)
  BY Zenon DEF Write, do_merge, tail_being_popped, pop
<1> QED BY <1>1, <1>5, <1>6

\* Merging replaces the last word of the queue.
LEMMA MergeStep ==
  ASSUME IInv, IInv', NEW w \in Entry, NEW re \in BOOLEAN, Merge(w, re)
  PROVE  /\ merge_write(w) /\ elem_count > 0
         /\ Queue' = [Queue EXCEPT ![elem_count] = w]
<1>1. merge_write(w) /\ elem_count > 0 /\ tail_pointer = SlotAt(elem_count - 1)
  BY TailIsYoungest DEF Merge, do_merge
<1>2. elem_count' = elem_count /\ read_pointer' = read_pointer /\ elem_count' \in 0 .. ENTRIES
  BY DEF Merge, IInv, TypeOK
<1>3. elem_count - 1 \in Places /\ elem_count \in 1 .. elem_count
  BY <1>1, QueueIsSeq DEF Places
<1>4. \A i \in 1 .. elem_count : Queue'[i] = IF i = elem_count THEN w ELSE Queue[i]
  <2> TAKE i \in 1 .. elem_count
  <2>1. i - 1 \in Places /\ i <= elem_count' /\ SlotAt(i - 1) \in Slots
    BY <1>2, QueueIsSeq, PlacesDiffer DEF Places
  <2>2. CASE i # elem_count
    <3>1. SlotAt(i - 1) # tail_pointer
      BY <1>1, <1>3, <2>1, <2>2, PlacesDiffer, QueueIsSeq
    <3>2. write_buffer'[SlotAt(i - 1)] = write_buffer[SlotAt(i - 1)]
      BY <2>1, <3>1 DEF IInv, TypeOK, Merge
    <3> QED BY <1>2, <2>1, <2>2, <3>2, StayingWord
  <2>3. CASE i = elem_count
    <3>1. SlotFrom(read_pointer', i - 1) = tail_pointer
      BY <1>1, <1>2, <2>3 DEF SlotAt
    <3>2. Queue'[i] = write_buffer'[SlotFrom(read_pointer', i - 1)]
      BY <1>2, <2>1 DEF Queue, SlotAt
    <3> QED BY <1>1, <2>3, <3>1, <3>2, TailIsYoungest DEF IInv, TypeOK, Merge
  <2> QED BY <2>2, <2>3
<1>5. Queue' = [Queue EXCEPT ![elem_count] = w]
  BY <1>1, <1>2, <1>4, QueueIsSeq, QueueIsSeqPrime, IsReplaceLast
<1> QED BY <1>1, <1>5

\* Reading while writing takes the head and appends.
LEMMA ReadWriteStep ==
  ASSUME IInv, IInv', NEW w \in Entry, NEW re \in BOOLEAN, ReadWrite(w, re)
  PROVE  /\ Queue # <<>> /\ wb_out' = Head(Queue)
         /\ merge_write(w) => elem_count = 1
         /\ Queue' = Append(Tail(Queue), w)
<1>1. /\ elem_count > 0 /\ elem_count' = elem_count /\ elem_count' \in 0 .. ENTRIES
      /\ read_pointer' = Succ(read_pointer)
  BY DEF IInv, TypeOK, ReadWrite, empty
<1>2. Tail(Queue) \in Seq(Entry) /\ Len(Tail(Queue)) = elem_count - 1
      /\ \A i \in 1 .. elem_count - 1 : Tail(Queue)[i] = Queue[i + 1]
  BY <1>1, QueueIsSeq, HeadTailProperties
<1>3. /\ 0 \in Places /\ elem_count - 1 \in Places
      /\ write_pointer = IF elem_count = ENTRIES THEN read_pointer ELSE SlotAt(elem_count)
  BY <1>1, QueueIsSeq DEF IInv, RingConsistent, Places
<1>4. \A i \in 1 .. elem_count - 1 : Queue'[i] = Tail(Queue)[i]
  <2> TAKE i \in 1 .. elem_count - 1
  <2>1. i \in Places /\ i # 0 /\ i # elem_count /\ i <= elem_count'
    BY <1>1, QueueIsSeq DEF Places
  <2>2. SlotAt(i) \in Slots /\ SlotAt(i) # read_pointer
    BY <1>3, <2>1, PlacesDiffer
  <2>3. SlotAt(i) # write_pointer
    <3>1. CASE elem_count = ENTRIES
      BY <1>3, <2>2, <3>1
    <3>2. CASE elem_count # ENTRIES
      <4>1. elem_count \in Places
        BY <1>1, <3>2, QueueIsSeq DEF Places
      <4> QED BY <1>3, <2>1, <3>2, <4>1, PlacesDiffer
    <3> QED BY <3>1, <3>2
  <2>4. write_buffer'[SlotAt(i)] = write_buffer[SlotAt(i)]
    BY <2>2, <2>3 DEF IInv, TypeOK, ReadWrite
  <2> QED BY <1>1, <1>2, <2>1, <2>4, StayingWord
<1>5. Queue'[elem_count] = w
  <2>1. SlotAt(elem_count - 1)' = write_pointer
    <3>1. SlotFrom(read_pointer', elem_count - 1)
            = IF elem_count - 1 = ENTRIES - 1 THEN read_pointer ELSE SlotAt((elem_count - 1) + 1)
      BY <1>1, <1>3, PlacesMove DEF SlotAt
    <3> QED BY <1>1, <1>3, <3>1, QueueIsSeq DEF SlotAt
  <2>2. Queue'[elem_count] = write_buffer'[SlotFrom(read_pointer', elem_count - 1)]
    BY <1>1, QueueIsSeq DEF Queue, SlotAt
  <2>3. SlotFrom(read_pointer', elem_count - 1) = write_pointer
    BY <1>1, <2>1 DEF SlotAt
  <2> QED BY <2>2, <2>3 DEF IInv, TypeOK, ReadWrite
<1>6. Queue' = Append(Tail(Queue), w)
  BY <1>1, <1>2, <1>4, <1>5, QueueIsSeq, QueueIsSeqPrime, IsAppend
<1>7. merge_write(w) => elem_count = 1
  BY Zenon DEF ReadWrite, do_merge, tail_being_popped
<1> QED BY <1>1, <1>6, <1>7, ReadsHead DEF ReadWrite

\* Reading while merging takes the head and replaces the last word.
LEMMA ReadMergeStep ==
  ASSUME IInv, IInv', NEW w \in Entry, NEW re \in BOOLEAN, ReadMerge(w, re)
  PROVE  /\ Queue # <<>> /\ wb_out' = Head(Queue)
         /\ merge_write(w) /\ elem_count > 1
         /\ Queue' = [Tail(Queue) EXCEPT ![elem_count - 1] = w]
<1>1. merge_write(w) /\ elem_count > 0 /\ elem_count # 1
  <2>1. merge_write(w) /\ ~tail_being_popped(re) /\ re
    BY Zenon DEF ReadMerge, do_merge
  <2>2. elem_count > 0
    BY <2>1, TailIsYoungest
  <2>3. ~empty
    BY <2>2, QueueIsSeq DEF empty
  <2>4. elem_count # 1
    BY Zenon, <2>1, <2>3 DEF tail_being_popped, pop
  <2> QED BY <2>1, <2>2, <2>4
<1>2. pop(re)
  <2>1. ~empty
    BY <1>1, QueueIsSeq DEF empty
  <2> QED BY Zenon, <2>1 DEF ReadMerge, pop
<1>3. /\ elem_count' = elem_count - 1 /\ elem_count' \in 0 .. ENTRIES
      /\ read_pointer' = Succ(read_pointer) /\ elem_count > 1
  BY <1>1, <1>2, QueueIsSeq DEF IInv, TypeOK, ReadMerge
<1>4. Tail(Queue) \in Seq(Entry) /\ Len(Tail(Queue)) = elem_count - 1
      /\ \A i \in 1 .. elem_count - 1 : Tail(Queue)[i] = Queue[i + 1]
  BY <1>1, QueueIsSeq, HeadTailProperties
<1>5. /\ 0 \in Places /\ elem_count - 1 \in Places /\ elem_count - 1 # 0
      /\ tail_pointer = SlotAt(elem_count - 1)
  BY <1>3, QueueIsSeq, TailIsYoungest DEF Places
<1>6. \A i \in 1 .. elem_count - 1 :
        Queue'[i] = IF i = elem_count - 1 THEN w ELSE Tail(Queue)[i]
  <2> TAKE i \in 1 .. elem_count - 1
  <2>1. i \in Places /\ i # 0 /\ i <= elem_count' /\ i - 1 \in Places /\ i - 1 # ENTRIES - 1
        /\ (i - 1) + 1 = i
    BY <1>3, QueueIsSeq DEF Places
  <2>2. SlotAt(i) \in Slots /\ SlotAt(i) # read_pointer
    BY <1>5, <2>1, PlacesDiffer
  <2>3. CASE i # elem_count - 1
    <3>1. SlotAt(i) # tail_pointer
      BY <1>5, <2>1, <2>3, PlacesDiffer
    <3>2. write_buffer'[SlotAt(i)] = write_buffer[SlotAt(i)]
      BY <2>2, <3>1 DEF IInv, TypeOK, ReadMerge
    <3> QED BY <1>3, <1>4, <2>1, <2>3, <3>2, StayingWord
  <2>4. CASE i = elem_count - 1
    <3>1. SlotAt(i - 1)' = SlotAt(i)
      BY <1>3, <2>1, PlacesMove
    <3>2. SlotFrom(read_pointer', i - 1) = tail_pointer
      BY <1>5, <2>4, <3>1 DEF SlotAt
    <3>3. Queue'[i] = write_buffer'[SlotFrom(read_pointer', i - 1)]
      BY <1>3 DEF Queue, SlotAt
    <3> QED BY <1>5, <2>2, <2>4, <3>2, <3>3 DEF IInv, TypeOK, ReadMerge
  <2> QED BY <2>3, <2>4
<1>7. Queue' = [Tail(Queue) EXCEPT ![elem_count - 1] = w]
  <2> DEFINE t == Tail(Queue)
             u == Queue'
  <2>1. u \in Seq(Entry) /\ Len(u) = elem_count - 1 /\ elem_count - 1 > 0
    BY <1>3, QueueIsSeq, QueueIsSeqPrime
  <2>2. /\ t \in Seq(Entry) /\ Len(t) = elem_count - 1
        /\ \A i \in 1 .. Len(t) : u[i] = IF i = Len(t) THEN w ELSE t[i]
    BY <1>4, <1>6
  <2> HIDE DEF t, u
  <2>3. u = [t EXCEPT ![Len(t)] = w]
    BY <2>1, <2>2, IsReplaceLast
  <2> QED BY <2>2, <2>3 DEF t, u
<1> QED BY <1>1, <1>3, <1>7, ReadsHead DEF ReadMerge

\* The word that goes through meets an empty queue and leaves it empty.
LEMMA PassThroughStep ==
  ASSUME IInv, IInv', NEW w \in Entry, NEW re \in BOOLEAN, PassThrough(w, re)
  PROVE  Queue = <<>> /\ Queue' = <<>> /\ wb_out' = w
<1>1. elem_count = 0 /\ elem_count' = 0
  BY DEF PassThrough, empty
<1>2. Queue' \in Seq(Entry) /\ Len(Queue') = 0
  BY <1>1, QueueIsSeqPrime
<1> QED BY <1>1, <1>2, QueueIsSeq, EmptySeq DEF PassThrough

\* When neither the ring's slots nor its registers move, nor does the queue.
LEMMA QueueStays ==
  ASSUME UNCHANGED <<write_buffer, read_pointer, elem_count>>
  PROVE  Queue' = Queue
BY DEF Queue, SlotAt

-----------------------------------------------------------------------------
(* The refinement *)

\* Init maps to the initial states of the queue.
LEMMA InitRefines == Init => PW!Init
<1> SUFFICES ASSUME Init PROVE PW!Init
  OBVIOUS
<1>1. IInv
  BY InitInv
<1> QED BY <1>1, QueueIsSeq DEF Init, PW!Init

\* A clock edge without an arriving word.
LEMMA QuietRefines ==
  ASSUME IInv, IInv', NEW re \in BOOLEAN, Clock(None, re)
  PROVE  PW!Cycle(None, re)
<1>1. CASE Idle(None, re)
  <2>1. Queue' = Queue /\ wb_out' = None /\ ~re
    BY <1>1, QueueStays DEF Idle
  <2> QED BY <2>1, Zenon DEF PW!Cycle
<1>2. CASE ReadEmpty(None, re)
  <2>1. read_pointer \in Slots /\ elem_count = 0
    BY <1>2 DEF IInv, TypeOK, ReadEmpty, empty
  <2>2. Queue = <<>> /\ Queue' = <<>>
    BY <1>2, <2>1, QueueIsSeq, QueueIsSeqPrime, EmptySeq DEF ReadEmpty
  <2>3. 0 \in Places /\ ~(0 < elem_count)
    BY <2>1, EntriesAssumption DEF Places
  <2>4. write_buffer[SlotAt(0)] = None
    BY <2>3 DEF IInv, RingConsistent, Places
  <2>5. wb_out' = None
    BY <1>2, <2>3, <2>4, PlacesDiffer DEF ReadEmpty
  <2> QED BY <2>2, <2>5, Zenon DEF PW!Cycle
<1>3. CASE Read(None, re)
  <2>1. Queue # <<>> /\ wb_out' = Head(Queue) /\ Queue' = Tail(Queue) /\ re
    BY <1>3, ReadStep DEF Read
  <2> QED BY <2>1, Zenon DEF PW!Cycle
<1>4. ~PassThrough(None, re) /\ ~Write(None, re) /\ ~WriteLost(None, re) /\ ~ReadWrite(None, re)
  BY DEF PassThrough, Write, WriteLost, ReadWrite
<1>5. ~Merge(None, re) /\ ~ReadMerge(None, re)
  BY Zenon DEF Merge, ReadMerge, do_merge, merge_write
<1> QED BY <1>1, <1>2, <1>3, <1>4, <1>5 DEF Clock

\* A clock edge with an arriving word.
LEMMA ArrivalRefines ==
  ASSUME IInv, IInv', NEW w \in Entry, NEW re \in BOOLEAN, Clock(w, re)
  PROVE  PW!Cycle(w, re)
<1>0. /\ w # None /\ elem_count \in 0 .. ENTRIES /\ ENTRIES \in Nat \ {0}
      /\ Queue \in Seq(Entry) /\ Len(Queue) = elem_count /\ (Queue = <<>> <=> elem_count = 0)
      /\ (merge_write(w) <=> elem_count > 0 /\ Queue[elem_count].addr = w.addr)
  BY NoneAssumption, QueueIsSeq, MergeIsLast
<1>1. CASE PassThrough(w, re)
  <2>1. Queue = <<>> /\ Queue' = <<>> /\ wb_out' = w /\ re
    BY <1>1, PassThroughStep DEF PassThrough
  <2> QED BY <1>0, <2>1, Zenon DEF PW!Cycle
<1>2. CASE Write(w, re)
  <2>1. /\ elem_count < ENTRIES /\ ~merge_write(w) /\ Queue' = Append(Queue, w)
        /\ ~re /\ wb_out' = None
    BY <1>2, WriteStep DEF Write
  <2>2. PW!Arrive(Queue, w) = Append(Queue, w)
    BY <1>0, <2>1 DEF PW!Arrive
  <2> QED BY <1>0, <2>1, <2>2, Zenon DEF PW!Cycle
<1>3. CASE WriteLost(w, re)
  <2>1. Queue' = Queue /\ ~re /\ wb_out' = None /\ elem_count = ENTRIES
    BY <1>3, QueueStays DEF WriteLost, full
  <2>2. ~merge_write(w)
    BY <1>3, Zenon DEF WriteLost, do_merge, tail_being_popped, pop
  <2>3. PW!Arrive(Queue, w) = Queue
    BY <1>0, <2>1, <2>2 DEF PW!Arrive
  <2> QED BY <1>0, <2>1, <2>3, Zenon DEF PW!Cycle
<1>4. CASE Merge(w, re)
  <2>1. /\ merge_write(w) /\ elem_count > 0 /\ Queue' = [Queue EXCEPT ![elem_count] = w]
        /\ ~re /\ wb_out' = None
    BY <1>4, MergeStep DEF Merge
  <2>2. PW!Arrive(Queue, w) = [Queue EXCEPT ![elem_count] = w]
    BY <1>0, <2>1 DEF PW!Arrive
  <2> QED BY <1>0, <2>1, <2>2, Zenon DEF PW!Cycle
<1>5. CASE ReadWrite(w, re)
  <2>1. /\ Queue # <<>> /\ wb_out' = Head(Queue) /\ (merge_write(w) => elem_count = 1)
        /\ Queue' = Append(Tail(Queue), w) /\ re
    BY <1>5, ReadWriteStep DEF ReadWrite
  <2>2. /\ Tail(Queue) \in Seq(Entry) /\ Len(Tail(Queue)) = elem_count - 1
        /\ \A i \in 1 .. elem_count - 1 : Tail(Queue)[i] = Queue[i + 1]
    BY <1>0, <2>1, HeadTailProperties
  <2>3. elem_count - 1 > 0 => Tail(Queue)[elem_count - 1] = Queue[elem_count]
    BY <1>0, <2>2
  <2>4. PW!Arrive(Tail(Queue), w) = Append(Tail(Queue), w)
    BY <1>0, <2>1, <2>2, <2>3 DEF PW!Arrive
  <2> QED BY <1>0, <2>1, <2>4, Zenon DEF PW!Cycle
<1>6. CASE ReadMerge(w, re)
  <2>1. /\ Queue # <<>> /\ wb_out' = Head(Queue) /\ merge_write(w) /\ elem_count > 1
        /\ Queue' = [Tail(Queue) EXCEPT ![elem_count - 1] = w] /\ re
    BY <1>6, ReadMergeStep DEF ReadMerge
  <2>2. /\ Tail(Queue) \in Seq(Entry) /\ Len(Tail(Queue)) = elem_count - 1
        /\ \A i \in 1 .. elem_count - 1 : Tail(Queue)[i] = Queue[i + 1]
    BY <1>0, <2>1, HeadTailProperties
  <2>3. Tail(Queue)[elem_count - 1] = Queue[elem_count]
    BY <1>0, <2>1, <2>2
  <2>4. PW!Arrive(Tail(Queue), w) = [Tail(Queue) EXCEPT ![elem_count - 1] = w]
    BY <1>0, <2>1, <2>2, <2>3 DEF PW!Arrive
  <2> QED BY <1>0, <2>1, <2>4, Zenon DEF PW!Cycle
<1>7. ~Idle(w, re) /\ ~ReadEmpty(w, re) /\ ~Read(w, re)
  BY <1>0 DEF Idle, ReadEmpty, Read
<1> QED BY <1>1, <1>2, <1>3, <1>4, <1>5, <1>6, <1>7 DEF Clock

\* The ring, with its two pointers, its counter and its valid bits, is a
\* bounded first-in first-out queue that merges only into its youngest word and
\* loses a word only when it is full and not read: rtl/z_core_write_buffer.v
\* refines PendingWrites.
THEOREM Implements == Spec => ImplementsQueue
<1>1. ASSUME IInv, IInv', [Next]_vars PROVE [PW!Next]_(PW!vars)
  <2>1. CASE UNCHANGED vars
    BY <2>1, QueueStays DEF vars, PW!vars
  <2>2. ASSUME NEW w \in Entry \cup {None}, NEW re \in BOOLEAN, Clock(w, re)
        PROVE  PW!Next
    <3>1. PW!Entry = Entry
      BY DEF PW!Entry, Entry
    <3>2. PW!Cycle(w, re)
      BY <1>1, <2>2, QuietRefines, ArrivalRefines
    <3> QED BY <3>1, <3>2 DEF PW!Next
  <2> QED BY <1>1, <2>1, <2>2 DEF Next
<1>2. IInv /\ [Next]_vars => IInv'
  BY NextInv
<1> QED BY <1>1, <1>2, InitInv, InitRefines, PTL DEF Spec, ImplementsQueue, PW!Spec
=============================================================================
