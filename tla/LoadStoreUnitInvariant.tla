----------------------- MODULE LoadStoreUnitInvariant -----------------------
(***************************************************************************)
(* The inductive invariant of the memory side of the pipeline, in parts:   *)
(* what the registers hold (Typed), who owns the bus (Bus), what retires   *)
(* (Retire), who works while the cache is walked (Maintained), what a      *)
(* latched set and a refill stand for (Metadata, Refilling), how far the   *)
(* walk is (Walk), and where the newest copy of a word is (Coherent).      *)
(***************************************************************************)
EXTENDS LoadStoreUnit

\* What can be in EX/MEM.
MemKinds == {"load", "store", "amo_load", "amo_calc", "amo_store"}
MemInstr ==
  {i \in [kind : MemKinds, addr : DataAddr, data : Word \cup {None}, strb : SUBSET Lanes] :
     /\ i.kind # "load" => i.data \in Word
     /\ i.kind \notin {"load", "store"} => i.addr \in CacheAddr /\ i.strb = Lanes}

\* An operation is on the bus, or was answered in the cycle before.
OnBus == port # "idle" \/ mem_ready

\* What the core is, apart from the parts whose registers depend on data.
Shapes ==
  /\ program \in DOMAIN Programs
  /\ if_id \in Fences
  /\ id_ex \in Programs[program].instructions \cup {None}
  /\ ex_mem \in MemInstr \cup {None}
  /\ mem_op \in {None, "refill", "uncached", "write_buffer"}
  /\ port \in {"idle", "read", "read_done", "write"}
  /\ mem_ready \in BOOLEAN /\ fetch_wait \in BOOLEAN
  /\ fence_i_state \in {"IDLE", "DRAIN", "CLEAN", "WRITEBACK", "FINISH"}
  /\ mem_ready => port = "idle"

\* The bus has one owner; an access is on it for the instruction in MEM.
Bus ==
  /\ ~(mem_op_pending /\ fetch_wait)
  /\ wb_issue_valid = FALSE
  /\ wb_out # None => mem_can_issue
  /\ cpu_op => mem_access
  /\ mem_op = "refill" => ~data_uncacheable_mem
  /\ mem_op = "uncached" => data_uncacheable_mem
  /\ OnBus => captured \in BusRequest
  /\ port = "write" => captured.wen
  /\ port \in {"read", "read_done"} => ~captured.wen
  /\ OnBus /\ captured.wen => mem_op_pending
  /\ OnBus /\ mem_op_pending => captured = Requested
  /\ OnBus /\ fetch_wait => captured.addr = Code
  /\ write_r \in WriteReg \cup {None}
  /\ mem_op = "write_buffer" => /\ write_r # None /\ write_r.addr \in CacheAddr
                                /\ write_r.strb = Lanes
  /\ mem_op = "uncached" /\ ex_mem_is_store =>
       write_r = [addr |-> ex_mem.addr, data |-> ex_mem.data, strb |-> ex_mem.strb]

\* What retires, and how often the bus has served it.
Retire ==
  /\ ~retired
  /\ InEx({"div"}) => ex_mem = None
  /\ io_count = IF mem_op = "uncached" /\ OnBus THEN 1 ELSE 0

\* The parts that hold words.
Words ==
  /\ WB!TypeOK /\ WB!RingConsistent /\ DC!TypeOK
  /\ memory \in [BusAddr -> Word] /\ arch \in [DataAddr -> Word]
  /\ amo_calc => amo_a \in Word
  /\ port = "read_done" \/ (mem_ready /\ ~captured.wen) => mem_rdata = memory[captured.addr]

\* After reset, and while FENCE.I walks the cache, nothing else works.
Alone ==
  /\ DC!flush_running =>
       /\ if_id = "plain" /\ fence_i_state = "IDLE" /\ clean_state = "IDLE"
       /\ id_ex = None /\ ex_mem = None /\ mem_op = None
       /\ dirty_writeback = None /\ WB!empty /\ wb_out = None
  /\ fence_i_state \in {"CLEAN", "WRITEBACK", "FINISH"} => id_ex = None /\ ex_mem = None
  /\ fence_i_state \in {"IDLE", "DRAIN"} => clean_state = "IDLE"
  /\ fence_i_state \in {"WRITEBACK", "FINISH"} => clean_state = "DONE"
  /\ clean_state = "EMIT" => dirty_writeback = None
  /\ fence_i_state \in {"CLEAN", "WRITEBACK", "FINISH"} /\ dirty_writeback # None => ~WB!full

\* A dirty line is valid, and the sets the reset flush has passed are empty.
\* What is latched of a set is what the arrays hold of it.
Metadata ==
  /\ \A i \in DC!Index, w \in DC!Way :
       /\ DC!flush_running /\ i < flush_cnt => ~line[i][w].valid /\ ~line[i][w].dirty
       /\ ~DC!flush_running /\ line[i][w].dirty => line[i][w].valid
  /\ mem_access /\ ~data_uncacheable_mem => data_addr_q = ex_mem.addr
  /\ clean_state = "EMIT" => data_addr_q.idx = clean_index
  /\ (mem_access /\ ~data_uncacheable_mem) \/ clean_state = "EMIT" =>
       \A w \in DC!Way : meta[w] = DC!MetaOf(line[data_addr_q.idx][w])

\* A word for a is on its way to memory.
Evicted(a) == (dirty_writeback # None /\ dirty_writeback.addr = a) \/ WB!Ages(a) # {}
UnderWay(a) ==
  \/ Evicted(a)
  \/ wb_out # None /\ wb_out.addr = a
  \/ mem_op = "write_buffer" /\ write_r.addr = a

\* A refill belongs to the access in MEM, which waits; what it reads is not
\* about to be overwritten.
Refilling ==
  /\ request_refill =>
       /\ mem_access /\ ~data_uncacheable_mem
       /\ DC!HitWays = {}
       /\ refill = [idx |-> ex_mem.addr.idx, tag |-> ex_mem.addr.tag,
                    set |-> DC!set_to_write_on_miss, wen |-> ex_mem_is_store,
                    data |-> IF ex_mem_is_store THEN ex_mem.data ELSE None]
       /\ ex_mem_is_load => ~Evicted(ex_mem.addr)
  /\ mem_op = "refill" => request_refill /\ ~UnderWay(ex_mem.addr)

\* The lines that the walk has passed are clean.
AllClean == \A i \in DC!Index, w \in DC!Way : ~line[i][w].dirty
Walk ==
  /\ clean_state \in {"READ", "EMIT", "WAIT"} =>
       \A i \in DC!Index, w \in DC!Way :
         i < clean_index \/ (i = clean_index /\ (w < clean_way \/ (w = clean_way /\ clean_state = "WAIT")))
           => ~line[i][w].dirty
  /\ clean_state = "DONE" => AllClean
  /\ fence_i_state = "FINISH" => \A a \in CacheAddr : ~UnderWay(a)

\* Where the newest copy of a word is, as long as the write buffer has accepted
\* every evicted word.
BeingEvicted(i, w) == request_refill /\ refill.idx = i /\ refill.set = w
\* One way at most holds a word, and it is the newest copy; a word that is in no
\* way, in a clean one or in one that a refill is about to take is below the cache.
CacheCoherent(a) ==
  /\ \A v, w \in CachedWays(a) : v = w
  /\ CachedWays(a) = {} => arch[a] = Below(a)
  /\ \A w \in CachedWays(a) :
       /\ arch[a] = line[a.idx][w].data
       /\ ~line[a.idx][w].dirty \/ BeingEvicted(a.idx, w) => Below(a) = line[a.idx][w].data
\* A device holds what was stored to it; the store that the bus has just answered
\* counts in memory already, and for the program one cycle later.
DeviceCoherent(a) ==
  memory[a] = IF mem_op = "uncached" /\ ex_mem_is_store /\ mem_ready /\ ex_mem.addr = a
              THEN BP!Merged(arch[a], ex_mem.data, ex_mem.strb) ELSE arch[a]
\* All of them, what an AMO has loaded, and what the next load to retire delivers.
Coherent ==
  lost \/ /\ \A a \in CacheAddr : CacheCoherent(a)
          /\ \A a \in Io : DeviceCoherent(a)
          /\ mem_op = "write_buffer" /\ mem_ready => memory[write_r.addr] = write_r.data
          /\ amo_calc => amo_a = arch[ex_mem.addr]
          /\ InMem({"amo_store"}) => amo_rd_q = arch[ex_mem.addr]
          /\ LoadsReadLastStore
=============================================================================
