----------------------------- MODULE BootMemory -----------------------------
(***************************************************************************)
(* What the boot loader (software/bootloader/bootloader.c) does with the   *)
(* memory: its self-test sdram_bist, run against a memory path with a      *)
(* fault, and dcache_flush, which empties the two-way data cache by        *)
(* reading more words than it holds.                                       *)
(*                                                                         *)
(* A word is its four byte lanes, least significant first.  The self-test  *)
(* writes its address pattern and never reads it back: a fault of the      *)
(* address lines is none of the faults below.                              *)
(***************************************************************************)
EXTENDS Integers, Sequences, SequencesExt, FiniteSetsExt

CONSTANTS NO_FAULT,
          ROUNDS          \* how often one word is read twice

VARIABLES
  fault,                  \* what is wrong with the memory path
  sdram,                  \* the words written so far, by offset
  loads,                  \* loads so far, modulo 2
  todo,                   \* what is left of the self-test
  cur,                    \* the node the pointer chase is at
  errors,
  set, swept              \* one set of the cache, tags of it read so far

memory_vars == <<fault, sdram, loads, todo, cur, errors, set, swept>>

Lane == 1 .. 4
L(b3, b2, b1, b0) == <<b0, b1, b2, b3>>
Lanes(n) == [k \in Lane |-> (n \div 256 ^ (k - 1)) % 256]
Number(w) == w[1] + 256 * (w[2] + 256 * (w[3] + 256 * w[4]))
Bit(v, b) == (v \div 2 ^ b) % 2

-----------------------------------------------------------------------------
(* The memory path and its faults *)

Faults ==
  {NO_FAULT} \union [kind : {"stuck"}, lane : Lane, bit : 0 .. 7, at : {0, 1}]
             \union {f \in [kind : {"spill"}, lane : Lane, into : Lane] : f.lane # f.into}
             \union [kind : {"deaf"}, lane : Lane]
             \union [kind : {"halves"}] \union [kind : {"fickle"}]

Is(kind) == fault # NO_FAULT /\ fault.kind = kind

Forced(v, k) ==
  IF Is("stuck") /\ fault.lane = k /\ Bit(v, fault.bit) # fault.at
  THEN v + (IF fault.at = 1 THEN 1 ELSE -1) * 2 ^ fault.bit ELSE v

\* The lanes that a store to part of a word reaches.
Reached(lanes) ==
  IF Is("spill") /\ fault.lane \in lanes THEN lanes \union {fault.into}
  ELSE IF Is("deaf") THEN lanes \ {fault.lane}
  ELSE IF Is("halves") /\ Cardinality(lanes) = 2 THEN Lane \ lanes ELSE lanes

WordAt(a) == IF a \in DOMAIN sdram THEN sdram[a] ELSE Lanes(0)
Loaded(a) ==
  [k \in Lane |-> IF Is("fickle") /\ loads = 1 /\ k = 1 THEN (WordAt(a)[k] + 1) % 256 ELSE Forced(WordAt(a)[k], k)]
Stored(a, w, lanes) ==
  [x \in DOMAIN sdram \union {a} |->
     IF x = a THEN [k \in Lane |-> IF k \in lanes THEN w[k] ELSE WordAt(a)[k]] ELSE sdram[x]]

-----------------------------------------------------------------------------
(* sdram_bist as the accesses it makes *)

Store(a, w) == [op |-> "sw", at |-> a, word |-> w, lanes |-> Lane]
Expect(a, w) == [op |-> "lw", at |-> a, word |-> w, lanes |-> Lane]
StoreByte(a, k, v) == [op |-> "sb", at |-> a, word |-> [l \in Lane |-> v], lanes |-> {k}]
ExpectByte(a, k, v) == [op |-> "lb", at |-> a, word |-> [l \in Lane |-> v], lanes |-> {k}]
Half(h) == IF h = 0 THEN {1, 2} ELSE {3, 4}
StoreHalf(a, h, w) == [op |-> "sh", at |-> a, word |-> w, lanes |-> Half(h)]
ExpectHalf(a, h, w) == [op |-> "lh", at |-> a, word |-> w, lanes |-> Half(h)]
Twice(a) == [op |-> "twice", at |-> a]
Hop(i) == [op |-> "hop", tag |-> i]

offsets == <<0, 17, \h100, \h1000, \h10000, \h20000, \h3DEAD, \h3FFFF>>
Xor(a, b) == FoldSet(LAMBDA n, v : v + (IF Bit(a, n) # Bit(b, n) THEN 2 ^ n ELSE 0), 0, 0 .. 7)
Pattern(o) == [k \in Lane |-> Xor(Lanes(o)[k], \hA5)]

Addresses == [n \in 1 .. 8 |-> Store(offsets[n], Pattern(offsets[n]))]
Walking(b) == [k \in Lane |-> IF b \div 8 = k - 1 THEN 2 ^ (b % 8) ELSE 0]
Bits == FoldLeftDomain(LAMBDA s, b : s \o <<Store(0, Walking(b - 1)), Expect(0, Walking(b - 1))>>, <<>>, [b \in 1 .. 32 |-> b])

Bytes ==
  LET w == \h2000 IN
  << Store(w, L(\hDE, \hAD, \hBE, \hEF)), Expect(w, L(\hDE, \hAD, \hBE, \hEF)),
     StoreByte(w, 1, \h42), Expect(w, L(\hDE, \hAD, \hBE, \h42)),
     StoreByte(w, 2, \h55), Expect(w, L(\hDE, \hAD, \h55, \h42)),
     StoreByte(w, 3, \hAA), Expect(w, L(\hDE, \hAA, \h55, \h42)),
     StoreByte(w, 4, \h77), Expect(w, L(\h77, \hAA, \h55, \h42)),
     Store(w, L(4, 3, 2, 1)) >>
  \o [k \in Lane |-> ExpectByte(w, k, k)]

NoHalves == <<>> \* mutant
Halves ==
  LET w == \h2001 IN
  << Store(w, L(\hCA, \hFE, \hBA, \hBE)),
     ExpectHalf(w, 0, L(0, 0, \hBA, \hBE)), ExpectHalf(w, 1, L(\hCA, \hFE, 0, 0)),
     StoreHalf(w, 0, L(0, 0, \h12, \h34)), Expect(w, L(\hCA, \hFE, \h12, \h34)),
     StoreHalf(w, 1, L(\h56, \h78, 0, 0)), Expect(w, L(\h56, \h78, \h12, \h34)) >>

patterns ==
  << L(0, 0, 0, 0), L(255, 0, 255, 0), L(0, 255, 0, 255), L(0, 0, \h41, \h42),
     L(0, 0, \h4E, \h57), L(\h31, \h57, \h4F, \h52), L(0, 0, 0, \h42), L(\h42, 0, 0, 0) >>
Nuls == [n \in 1 .. 8 |-> Store(\h3000 + n - 1, patterns[n])] \o [n \in 1 .. 8 |-> Expect(\h3000 + n - 1, patterns[n])]

Consistency == <<Store(\h4000, L(\h12, 0, \h34, 0))>> \o [r \in 1 .. ROUNDS |-> Twice(\h4000)]

node_off == <<\h5000, \h5400, \h5010, \h5804, \h5040, \h5C08, \h5020, \h5410>>
NodeAddress(offset) == Lanes(\h10000000 + 4 * offset)
Chase ==
  [n \in 1 .. 8 |-> Store(node_off[n], NodeAddress(node_off[(n % 8) + 1]))]
  \o [n \in 1 .. 8 |-> Store(node_off[n] + 2, Lanes(n - 1))]
  \o [n \in 1 .. 8 |-> Hop(n - 1)]

sdram_bist == Addresses \o Bits \o Bytes \o Halves \o Nuls \o Consistency \o Chase

-----------------------------------------------------------------------------
(* Its steps *)

Step == Head(todo)
Doing(ops) == todo # <<>> /\ Step.op \in ops

BistStore ==
  /\ Doing({"sw", "sb", "sh"})
  /\ sdram' = Stored(Step.at, Step.word, IF Step.op = "sw" THEN Lane ELSE Reached(Step.lanes))
  /\ todo' = Tail(todo)
  /\ UNCHANGED <<fault, loads, cur, errors, set, swept>>

Seen(a, lanes) == IF Is("halves") /\ Cardinality(lanes) = 2
                  THEN [k \in Lane |-> Loaded(a)[((k + 1) % 4) + 1]] ELSE Loaded(a)

BistExpect ==
  /\ Doing({"lw", "lb", "lh"})
  /\ errors' = errors + (IF \E k \in Step.lanes : Seen(Step.at, Step.lanes)[k] # Step.word[k] THEN 1 ELSE 0)
  /\ loads' = 1 - loads /\ todo' = Tail(todo)
  /\ UNCHANGED <<fault, sdram, cur, set, swept>>

\* Two loads of one word must agree.
Disagree(a) == Is("fickle")
BistTwice ==
  /\ Doing({"twice"})
  /\ errors' = errors + (IF Disagree(Step.at) THEN 1 ELSE 0)
  /\ todo' = Tail(todo)
  /\ UNCHANGED <<fault, sdram, loads, cur, set, swept>>

\* A node must have its number and a pointer into the memory; a pointer that
\* leads out of it ends the chase.
Outside(next) == next[4] < \h10 \/ next[4] >= \h14
BistHop ==
  LET next == Loaded(cur)
  IN /\ Doing({"hop"})
     /\ errors' = errors + (IF \/ Loaded(cur + 2) # Lanes(Step.tag) \/ Disagree(cur)
                               \/ Outside(next) \/ next[1] % 4 # 0 THEN 1 ELSE 0)
     /\ todo' = IF Outside(next) THEN <<>> ELSE Tail(todo)
     /\ cur' = IF Outside(next) THEN cur ELSE (Number(next) - \h10000000) \div 4
     /\ UNCHANGED <<fault, sdram, loads, set, swept>>

-----------------------------------------------------------------------------
(* dcache_flush: the sweep as one set of the cache sees it *)

Tag == 1 .. 5             \* the last is none of the region that is read
ThreeWords == 3 \* mutant
SWEPT == 4                \* 64 KiB are four words to every set of 4096
Way == {0, 1}

LineStates == [tag : Tag, valid : BOOLEAN, dirty : BOOLEAN, lru : BOOLEAN]
Sets ==
  {s \in [Way -> LineStates] :
     /\ \A w \in Way : s[w].dirty => s[w].valid
     /\ s[0].valid /\ s[1].valid => s[0].tag # s[1].tag /\ s[0].lru # s[1].lru}

set_to_write_on_miss ==
  IF \E w \in Way : ~set[w].valid THEN (IF ~set[0].valid THEN 0 ELSE 1)
  ELSE IF set[0].lru THEN 0 ELSE 1

\* A load that misses installs a clean line and makes the other one the older.
DcacheLoad ==
  /\ todo = <<>> /\ errors = 0 /\ swept < SWEPT
  /\ swept' = swept + 1
  /\ set' = IF \E w \in Way : set[w].valid /\ set[w].tag = swept + 1 THEN set
            ELSE [w \in Way |-> IF w = set_to_write_on_miss
                                THEN [tag |-> swept + 1, valid |-> TRUE, dirty |-> FALSE, lru |-> FALSE]
                                ELSE [set[w] EXCEPT !.lru = TRUE]]
  /\ UNCHANGED <<fault, sdram, loads, todo, cur, errors>>

-----------------------------------------------------------------------------
MemoryInit ==
  /\ loads = 0 /\ cur = node_off[1] /\ errors = 0 /\ swept = 0 /\ sdram = <<>>
  /\ \/ fault \in Faults /\ todo = sdram_bist /\ set = CHOOSE s \in Sets : ~s[0].valid /\ ~s[1].valid
     \/ fault = NO_FAULT /\ todo = <<>> /\ set \in Sets

MemoryNext == BistStore \/ BistExpect \/ BistTwice \/ BistHop \/ DcacheLoad

MemorySpec == MemoryInit /\ [][MemoryNext]_memory_vars

-----------------------------------------------------------------------------
(* Properties *)

\* sdram_bist: it passes a memory without a fault, and no memory with a bit
\* stuck in a lane, byte enables that reach too many or too few lanes, swapped
\* halves or loads that disagree.
SelfTestIsRight == todo = <<>> => (errors = 0 <=> fault = NO_FAULT)

\* dcache_flush: whatever a set held, and even if it held words of the region
\* that is read, nothing dirty is left in it.
NothingDirtyIsLeft == swept = SWEPT => \A w \in Way : ~set[w].dirty

\* What the loader does to the memory itself: the self-test tells good memories
\* from bad ones, and the sweep leaves every word of the program in memory.
MemoryIsReady == SelfTestIsRight /\ NothingDirtyIsLeft
=============================================================================
