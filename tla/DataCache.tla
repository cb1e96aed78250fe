----------------------------- MODULE DataCache -----------------------------
(***************************************************************************)
(* rtl/z_core_data_cache.v: the two-way write-back data cache of the core. *)
(* One step is one rising clock edge.                                      *)
(*                                                                         *)
(* The tag, valid, dirty and LRU bits of a set are read a cycle early,     *)
(* while the instruction is in EX, into a register (meta).  The RTL keeps  *)
(* the raw read and seven bypass registers and muxes them afterwards; all  *)
(* of them are loaded under metadata_enable only, so meta holds the output *)
(* of that mux (tag_0_r ... lru_1_r).                                      *)
(*                                                                         *)
(* The inputs of a cycle are a record: clean_req, cs, wen, strb, full      *)
(* (write_buffer_full), forward (write_buffer_forward), refill_complete,   *)
(* pipeline_enable, addr and data_in.  An address is a pair of a tag and a *)
(* set index; a word is a function of its byte lanes.                      *)
(*                                                                         *)
(* data_out is looked at only in the cycle after the hit that loads it and *)
(* the refill registers only until the refill completes: the model forgets *)
(* both (None) from then on, so that a late look at them would show.       *)
(***************************************************************************)
EXTENDS Naturals

CONSTANTS CACHE_DEPTH,  \* number of sets (4096 in the core)
          Tags,         \* the tags of cacheable addresses
          Lanes,        \* byte lanes of a word
          Val,          \* what a lane can hold
          PowerUp,      \* what a line can hold at power-up
          None

Way == {0, 1}
Index == 0 .. CACHE_DEPTH - 1
CacheAddr == [tag : Tags, idx : Index]
Word == [Lanes -> Val]
Writeback == [addr : CacheAddr, data : Word]

\* Metadata of one line, and a line with its data.
Meta == [tag : Tags, valid : BOOLEAN, dirty : BOOLEAN, lru : BOOLEAN]
Line == [tag : Tags, valid : BOOLEAN, dirty : BOOLEAN, lru : BOOLEAN, data : Word]
Refill == [idx : Index, tag : Tags, set : Way, wen : BOOLEAN, data : Word \cup {None}]

VARIABLES line,             \* the arrays: set -> way -> line
          meta,             \* metadata of the set read last: way -> Meta
          data_addr_q,      \* the address that read was for
          request_refill,
          refill,           \* refill_index_q, refill_tag_q, refill_buffer_*, refill_wen
          data_out,
          dirty_writeback,  \* dirty_writeback_*: the word for the write buffer, or None
          flush_cnt,        \* post-reset invalidation counter
          clean_state, clean_index, clean_way

maintenance == <<flush_cnt, clean_state, clean_index, clean_way>>
vars == <<line, meta, data_addr_q, request_refill, refill, data_out,
          dirty_writeback, maintenance>>

Merged(old, new, strb) == [l \in Lanes |-> IF l \in strb THEN new[l] ELSE old[l]]
MetaOf(l) == [tag |-> l.tag, valid |-> l.valid, dirty |-> l.dirty, lru |-> l.lru]
Other(w) == 1 - w

-----------------------------------------------------------------------------
(* Wires *)

flush_running == flush_cnt < CACHE_DEPTH
clean_active == clean_state # "IDLE"
clean_done == clean_state = "DONE"
metadata_enable(in) == in.pipeline_enable \/ clean_state = "READ"

\* The set whose metadata is read, and the set the latched metadata is of.
index_addr(in) == IF clean_active THEN clean_index ELSE in.addr.idx
index_addr_q == data_addr_q.idx

HitWays == {w \in Way : meta[w].valid /\ meta[w].tag = data_addr_q.tag}
cache_hit_comb(cs) == HitWays # {} /\ cs /\ ~flush_running
set_to_write_on_hit == IF 0 \in HitWays THEN 0 ELSE 1

set_to_write_on_miss ==
  IF \E w \in Way : ~meta[w].valid
  THEN IF ~meta[0].valid THEN 0 ELSE 1
  ELSE IF meta[0].lru THEN 0 ELSE 1

\* What the miss evicts: the latched tag, with the data the array holds now.
Victim ==
  LET w == set_to_write_on_miss
  IN  IF meta[w].dirty
      THEN [addr |-> [tag |-> meta[w].tag, idx |-> index_addr_q],
            data |-> line[index_addr_q][w].data]
      ELSE None

\* A line that becomes the most recently used of its set i, in way w.
Install(i, w, new) ==
  [line EXCEPT ![i] = [v \in Way |-> IF v = w THEN new
                                     ELSE [line[i][v] EXCEPT !.lru = TRUE]]]

-----------------------------------------------------------------------------
(* The metadata read, with the bypasses of what is written in this cycle.  *)

RefillNotBypassed(in, w) == FALSE  \* mutant
refill_to_same_index(in, w) ==
  /\ in.refill_complete /\ in.pipeline_enable
  /\ index_addr(in) = refill.idx /\ refill.set = w

wb_forward_write(in) ==
  /\ ~flush_running /\ ~in.refill_complete /\ in.cs /\ ~cache_hit_comb(in.cs)
  /\ ~request_refill /\ ~in.full /\ in.forward

ForwardNotBypassed(in, w) == FALSE  \* mutant
wbfwd_to_same_index(in, w) ==
  /\ wb_forward_write(in) /\ in.pipeline_enable
  /\ index_addr(in) = index_addr_q /\ set_to_write_on_miss = w

hit_write_to_same_index(in, w) ==
  /\ in.pipeline_enable /\ in.cs /\ in.wen /\ cache_hit_comb(in.cs)
  /\ set_to_write_on_hit = w /\ index_addr(in) = index_addr_q

Bypassed(in, w) ==
  LET l == line[index_addr(in)][w]
      filled == refill_to_same_index(in, w)
      forwarded == wbfwd_to_same_index(in, w)
      written == hit_write_to_same_index(in, w)
  IN [tag   |-> IF filled THEN refill.tag
                ELSE IF forwarded THEN data_addr_q.tag ELSE l.tag,
      valid |-> filled \/ forwarded \/ l.valid,
      dirty |-> IF filled THEN refill.wen ELSE forwarded \/ written \/ l.dirty,
      lru   |-> IF filled \/ refill_to_same_index(in, Other(w)) THEN ~filled
                ELSE IF forwarded \/ wbfwd_to_same_index(in, Other(w)) THEN ~forwarded
                ELSE IF written \/ hit_write_to_same_index(in, Other(w)) THEN ~written
                ELSE l.lru]

ReadMetadata(in) ==
  IF metadata_enable(in)
  THEN /\ meta' = [w \in Way |-> Bypassed(in, w)]
       /\ data_addr_q' = IF clean_active THEN [in.addr EXCEPT !.idx = clean_index]
                         ELSE in.addr
  ELSE UNCHANGED <<meta, data_addr_q>>

-----------------------------------------------------------------------------
(* The clocked block of the arrays, one operator for each way through it.  *)

\* Post-reset invalidation, one set a cycle.
Flush(in) ==
  /\ flush_running
  /\ line' = [line EXCEPT ![flush_cnt] = [w \in Way |->
                [@[w] EXCEPT !.valid = FALSE, !.dirty = FALSE, !.lru = FALSE]]]
  /\ flush_cnt' = flush_cnt + 1
  /\ dirty_writeback' = None
  /\ data_out' = None
  /\ UNCHANGED <<request_refill, refill, clean_state, clean_index, clean_way>>

Maintained(in) == in.clean_req \/ clean_active

OneSetTooFar == clean_way = 1 /\ clean_index = CACHE_DEPTH  \* mutant
last_way == clean_way = 1 /\ clean_index = CACHE_DEPTH - 1

\* CLEAN_IDLE, CLEAN_READ, CLEAN_WAIT and CLEAN_DONE of the maintenance walk.
CleanStep(in) ==
  /\ ~flush_running /\ Maintained(in) /\ clean_state # "EMIT"
  /\ dirty_writeback' = None
  /\ \/ /\ clean_state = "IDLE"
        /\ clean_state' = "READ" /\ clean_index' = 0 /\ clean_way' = 0
     \/ /\ clean_state = "READ"
        /\ clean_state' = "EMIT" /\ UNCHANGED <<clean_index, clean_way>>
     \/ /\ clean_state = "WAIT"
        /\ clean_way' = Other(clean_way)
        /\ IF last_way
           THEN clean_state' = "DONE" /\ UNCHANGED clean_index
           ELSE clean_state' = "READ" /\ clean_index' = clean_index + clean_way
     \/ /\ clean_state = "DONE"
        /\ clean_state' = IF in.clean_req THEN "DONE" ELSE "IDLE"
        /\ UNCHANGED <<clean_index, clean_way>>
  /\ data_out' = None
  /\ UNCHANGED <<line, request_refill, refill, flush_cnt>>

\* CLEAN_EMIT: one way is written back, when the write buffer has a slot.
CleanEmit(in) ==
  /\ ~flush_running /\ clean_state = "EMIT"
  /\ IF in.full
     THEN /\ dirty_writeback' = None
          /\ UNCHANGED <<line, clean_state>>
     ELSE LET m == meta[clean_way]
          IN /\ dirty_writeback' =
                  IF m.valid /\ m.dirty
                  THEN [addr |-> [tag |-> m.tag, idx |-> clean_index],
                        data |-> line[index_addr_q][clean_way].data]
                  ELSE None
             /\ line' = [line EXCEPT ![index_addr_q][clean_way].dirty = FALSE]
             /\ clean_state' = "WAIT"
  /\ data_out' = None
  /\ UNCHANGED <<request_refill, refill, flush_cnt, clean_index, clean_way>>

Normal(in) == ~flush_running /\ ~Maintained(in)

\* The word came from memory: it is installed, under the store that missed.
RefillComplete(in) ==
  /\ Normal(in) /\ in.refill_complete
  /\ line' = Install(refill.idx, refill.set,
               [tag |-> refill.tag, valid |-> TRUE, dirty |-> refill.wen, lru |-> FALSE,
                data |-> IF refill.wen THEN Merged(in.data_in, refill.data, in.strb)
                         ELSE in.data_in])
  /\ request_refill' = FALSE
  /\ refill' = None
  /\ dirty_writeback' = None
  /\ data_out' = None
  /\ UNCHANGED maintenance

Access(in) == Normal(in) /\ ~in.refill_complete /\ in.cs

NoAccess(in) ==
  /\ Normal(in) /\ ~in.refill_complete /\ ~in.cs
  /\ dirty_writeback' = None
  /\ data_out' = None
  /\ UNCHANGED <<line, request_refill, refill, maintenance>>

HitWrite(in) ==
  /\ Access(in) /\ cache_hit_comb(in.cs) /\ in.wen
  /\ LET w == set_to_write_on_hit
     IN  line' = Install(index_addr_q, w,
                   [tag |-> data_addr_q.tag, valid |-> TRUE, dirty |-> TRUE, lru |-> FALSE,
                    data |-> Merged(line[index_addr_q][w].data, in.data_in, in.strb)])
  /\ dirty_writeback' = None
  /\ data_out' = None
  /\ UNCHANGED <<request_refill, refill, maintenance>>

HitRead(in) ==
  /\ Access(in) /\ cache_hit_comb(in.cs) /\ ~in.wen
  /\ data_out' = line[index_addr_q][set_to_write_on_hit].data
  /\ dirty_writeback' = None
  /\ UNCHANGED <<line, request_refill, refill, maintenance>>

\* A miss is looked at once, when the write buffer is seen to have a slot.
Miss(in) == Access(in) /\ ~cache_hit_comb(in.cs) /\ ~request_refill /\ ~in.full

\* The word waits in the write buffer: it goes straight into the line.
MissForward(in) ==
  /\ Miss(in) /\ in.forward
  /\ dirty_writeback' = Victim
  /\ line' = Install(index_addr_q, set_to_write_on_miss,
               [tag |-> data_addr_q.tag, valid |-> TRUE, dirty |-> TRUE, lru |-> FALSE,
                data |-> in.data_in])
  /\ data_out' = None
  /\ UNCHANGED <<request_refill, refill, maintenance>>

MissRefill(in) ==
  /\ Miss(in) /\ ~in.forward
  /\ dirty_writeback' = Victim
  /\ request_refill' = TRUE
  /\ refill' = [idx |-> index_addr_q, tag |-> data_addr_q.tag,
                set |-> set_to_write_on_miss, wen |-> in.wen,
                data |-> IF in.wen THEN in.data_in ELSE None]
  /\ data_out' = None
  /\ UNCHANGED <<line, maintenance>>

\* The write buffer is full, or the refill is already on its way.
MissWait(in) ==
  /\ Access(in) /\ ~cache_hit_comb(in.cs) /\ (request_refill \/ in.full)
  /\ dirty_writeback' = None
  /\ data_out' = None
  /\ UNCHANGED <<line, request_refill, refill, maintenance>>

Clock(in) ==
  /\ ReadMetadata(in)
  /\ \/ Flush(in)
     \/ CleanStep(in)
     \/ CleanEmit(in)
     \/ RefillComplete(in)
     \/ NoAccess(in)
     \/ HitWrite(in)
     \/ HitRead(in)
     \/ MissForward(in)
     \/ MissRefill(in)
     \/ MissWait(in)

-----------------------------------------------------------------------------
(* States *)

\* Registers after reset; the arrays are not reset and hold whatever they did.
Init ==
  /\ line \in [Index -> [Way -> PowerUp]]
  /\ meta \in [Way -> {MetaOf(l) : l \in PowerUp}]
  /\ \E l \in PowerUp : data_addr_q = [tag |-> l.tag, idx |-> 0]
  /\ refill = None
  /\ request_refill = FALSE
  /\ data_out = None
  /\ dirty_writeback = None
  /\ flush_cnt = 0
  /\ clean_state = "IDLE" /\ clean_index = 0 /\ clean_way = 0

\* Every register and array of the cache holds what it is declared for.
TypeOK ==
  /\ line \in [Index -> [Way -> Line]]
  /\ meta \in [Way -> Meta]
  /\ data_addr_q \in CacheAddr
  /\ request_refill \in BOOLEAN
  /\ refill \in Refill \cup {None}
  /\ data_out \in Word \cup {None}
  /\ dirty_writeback \in Writeback \cup {None}
  /\ flush_cnt \in 0 .. CACHE_DEPTH
  /\ clean_state \in {"IDLE", "READ", "EMIT", "WAIT", "DONE"}
  /\ clean_index \in Index
  /\ clean_way \in Way
=============================================================================
