-------------------------- MODULE MCLoadStoreUnit --------------------------
(***************************************************************************)
(* The memory side of the core with small addresses, words and buffers.    *)
(*                                                                         *)
(* No guard of the core looks at a data word, and tags are compared for    *)
(* equality only.  So one address is watched, the one with tag X in the    *)
(* last set (and the device IO): stores write it with zero and one, and    *)
(* every other address with other.  A word lost, undone, or put in the     *)
(* place of another shows at the watched address, which may be any.        *)
(***************************************************************************)
EXTENDS LoadStoreUnit, TLC

CONSTANTS X, t2, IO, zero, one, other

X_addr == [tag |-> X, idx |-> CACHE_DEPTH - 1]
LastSet == {a \in CacheAddr : a.idx = CACHE_DEPTH - 1}
XandT2 == {a \in LastSet : a.tag \in {X, t2}}

Same(v) == [l \in Lanes |-> v]
TwoWords(a) == IF a \in {IO, X_addr} THEN {Same(zero), Same(one)} ELSE {Same(other)}

\* Of partial stores, lane 0 of the watched word: lane by lane words are
\* independent.
OneLane(a) == {[l \in Lanes |-> IF l = 0 THEN w[0] ELSE other] : w \in TwoWords(a)}

\* Whole words, in the last set alone or in all; and single lanes.
Whole == [a \in BusAddr |-> TwoWords(a)]
Full(instructions) == {i \in instructions : i.kind # "store" \/ i.strb = Lanes}
Uses(p, addrs) == [p EXCEPT !.instructions = {i \in Full(@) : i.addr \in addrs \cup {None}}]

DataPrograms ==
  [cached |-> Uses(Program({"load", "store"}, XandT2, Whole), LastSet),
   amo |-> Uses(Program({"store", "amo"}, {X_addr}, Whole), LastSet),
   partial |-> Program({"store"}, {}, [a \in BusAddr |-> OneLane(a)])]

ControlPrograms ==
  [uncached |-> Uses(Program({"load", "store", "div"}, Io, Whole), LastSet \cup Io),
   fetch |-> Uses(Program({"store", "branch", "icache_miss"}, {}, Whole), LastSet),
   fences |-> Uses(Program({"store", "branch", "fence", "fence_i"}, {}, Whole), LastSet),
   walk |-> Uses(Program({"store", "fence_i"}, {}, Whole), {a \in CacheAddr : a.tag = X})]

\* Divisions may follow memory accesses directly.
DividingPrograms == [divided |-> Uses(Program({"load", "store", "div"}, LastSet, Whole), LastSet)]
LosingPrograms == [losing |-> Uses(Program({"load", "store"}, LastSet, Whole), LastSet)]

\* An AMO that inverts the watched word; the other words stay what they are.
Invert(a, b) == IF a = other THEN other ELSE IF a = zero THEN one ELSE zero

\* At power-up every line looks valid and dirty, under the watched tag.
Garbage == {[tag |-> X, valid |-> TRUE, dirty |-> TRUE, lru |-> TRUE,
             data |-> [l \in Lanes |-> other]]}

\* A word the buffer refused is gone: nothing more is asked of such a run.
NothingLost == ~lost

ValueSymmetry == Permutations({zero, one})
Symmetry == Permutations(Tags \ {X}) \cup ValueSymmetry

\* What the future depends on: the metadata of a set is read anew for every
\* access and maintenance step, and the words in WB only have to be right.
View ==
  <<program, buffer_vars, line, request_refill, refill, dirty_writeback, flush_cnt,
    clean_state, clean_index, clean_way, port_vars,
    IF mem_access THEN <<meta, data_addr_q>>
    ELSE IF clean_state = "EMIT" THEN <<meta, data_addr_q.idx>> ELSE None,
    IF amo_calc THEN amo_a ELSE IF InMem({"amo_store"}) THEN amo_rd_q ELSE None,
    if_id, fetch_wait, id_ex, ex_mem, mem_op, write_r, wb_issue_valid, fence_i_state,
    LoadsReadLastStore, arch, retired, io_count, lost>>
=============================================================================
