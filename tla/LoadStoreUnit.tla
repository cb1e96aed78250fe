--------------------------- MODULE LoadStoreUnit ---------------------------
(***************************************************************************)
(* The memory side of the pipeline in rtl/z_core_control_u.v: the EX/MEM   *)
(* register, the stalls, the issue of refills, uncached accesses, buffered *)
(* writes and instruction fetches to the one bus port, and FENCE/FENCE.I,  *)
(* composed with the data cache, the write buffer and the bus port.  One   *)
(* step is one rising clock edge of all of them.                           *)
(*                                                                         *)
(* The program is any stream of instructions.  Instructions that neither   *)
(* touch memory nor stall are bubbles here (None).  "branch" is a branch   *)
(* or jump whose prediction was wrong, "div" a division.                   *)
(***************************************************************************)
EXTENDS Naturals

CONSTANTS Tags, CACHE_DEPTH,  \* the cacheable addresses: tag and set index
          Io,                 \* addresses the PMA map makes uncacheable
          Code,               \* stands for every address that is fetched
          Lanes, Val,         \* words: what each byte lane can hold
          ENTRIES,            \* slots of the write buffer
          Programs,           \* the programs, by name: see Program
          DivBehindMem,       \* may a division directly follow a memory access?
          AmoOp(_, _),        \* the function of the AMO, lane by lane
          PowerUp,            \* what a cache line may hold before reset
          None

ASSUME SizesAssumption == CACHE_DEPTH \in Nat \ {0} /\ ENTRIES \in Nat \ {0}

CacheAddr == [tag : Tags, idx : 0 .. CACHE_DEPTH - 1]
DataAddr == CacheAddr \cup Io
BusAddr == DataAddr \cup {Code}
Word == [Lanes -> Val]

ASSUME AddressAssumption == Io \cap CacheAddr = {} /\ Code \notin DataAddr

\* What an instruction of a program may be: AMOs are made to cacheable words.
Accesses == {"load", "store", "amo"}
InstrType ==
  {i \in [kind : Accesses \cup {"div", "branch"}, addr : DataAddr \cup {None},
          data : Word \cup {None}, strb : SUBSET Lanes] :
     /\ i.kind \in Accesses => i.addr \in DataAddr
     /\ i.kind \in {"store", "amo"} => i.data \in Word
     /\ i.kind = "amo" => i.addr \in CacheAddr /\ i.strb = Lanes}

ASSUME ProgramsAssumption ==
  \A p \in DOMAIN Programs :
    /\ Programs[p].instructions \subseteq InstrType
    /\ \A a \in BusAddr : Programs[p].words[a] \subseteq Word
ASSUME AmoAssumption == \A old, operand \in Val : AmoOp(old, operand) \in Val

VARIABLES
  program,           \* the name of the program that runs
  write_buffer, read_pointer, write_pointer, elem_count, wb_out,
  line, meta, data_addr_q, request_refill, refill, data_out,
  dirty_writeback, flush_cnt, clean_state, clean_index, clean_way,
  port, captured, mem_ready, mem_rdata, memory,
  if_id,             \* is a "fence" or "fence_i" in IF/ID?
  fetch_wait,        \* an instruction fetch is on the bus
  id_ex,             \* the instruction in EX, or None
  ex_mem,            \* the memory access in MEM, or None
  mem_op,            \* mem_op_pending and its kind: None, "refill", "uncached", "write_buffer"
  write_r,           \* write_buffer_addr_r, mem_data_out_r, mem_wstrb_r
  wb_issue_valid,
  data_cache_hit_q,
  amo_rd_q,
  mem_wb,            \* the load or AMO in WB: its result and the value it should have
  fence_i_state,
  \* History
  arch,              \* what the program's stores so far leave in memory
  retired,           \* has the access in MEM retired already?
  io_count,          \* bus transactions made for uncached accesses still in MEM
  stalled,           \* did the last cycle stall IF/ID? "no", "yes", or "division"
  lost               \* has the write buffer lost a word?

buffer_vars == <<write_buffer, read_pointer, write_pointer, elem_count, wb_out>>
cache_vars == <<line, meta, data_addr_q, request_refill, refill, data_out,
                dirty_writeback, flush_cnt, clean_state, clean_index, clean_way>>
port_vars == <<port, captured, mem_ready, mem_rdata, memory>>
core_vars == <<if_id, fetch_wait, id_ex, ex_mem, mem_op, write_r, wb_issue_valid,
               data_cache_hit_q, amo_rd_q, mem_wb, fence_i_state>>
history == <<arch, retired, io_count, stalled, lost>>
vars == <<program, buffer_vars, cache_vars, port_vars, core_vars, history>>

WB == INSTANCE WriteBuffer WITH Addr <- CacheAddr, Data <- Word
DC == INSTANCE DataCache
BP == INSTANCE BusPort WITH Addr <- BusAddr

\* What can be on the request wires of the bus, where a read drives no word, and
\* in the registers of the write data.
BusRequest == [wen : BOOLEAN, addr : BusAddr, data : Word \cup {None}, strb : SUBSET Lanes]
WriteReg == [addr : DataAddr, data : Word, strb : SUBSET Lanes]

ASSUME NoneAssumption ==
  /\ None \notin {"refill", "uncached", "write_buffer"}
  /\ None \notin Word \cup DC!Writeback \cup DC!Refill
  /\ None \notin BusRequest \cup WriteReg \cup InstrType
ASSUME PowerUpAssumption == PowerUp \subseteq DC!Line

-----------------------------------------------------------------------------
(* The instructions *)

Instr(k, a, d, s) == [kind |-> k, addr |-> a, data |-> d, strb |-> s]

\* The instructions of these kinds that load from some addresses and store some
\* words.
Instructions(kinds, loaded, stored) ==
  {i \in { Instr("load", a, None, {}) : a \in loaded }
         \cup UNION { { Instr("store", a, d, s) : d \in stored[a], s \in SUBSET Lanes \ {{}} }
                       : a \in DataAddr }
         \cup UNION { { Instr("amo", a, d, Lanes) : d \in stored[a] } : a \in loaded \cap CacheAddr }
         \cup { Instr("div", None, None, {}), Instr("branch", None, None, {}) }
   : i.kind \in kinds}

\* A program is what any stream of its instructions may consist of, and the
\* words that memory holds when it starts.
Program(kinds, loaded, stored) ==
  [kinds |-> kinds, instructions |-> Instructions(kinds, loaded, stored), words |-> stored]

InProgram(kind) == kind \in Programs[program].kinds

InEx(kinds) == id_ex # None /\ id_ex.kind \in kinds
InMem(kinds) == ex_mem # None /\ ex_mem.kind \in kinds

-----------------------------------------------------------------------------
(* Wires that depend on the registers alone *)

ex_mem_is_load == InMem({"load", "amo_load"})
ex_mem_is_store == InMem({"store", "amo_store"})
mem_access == ex_mem_is_load \/ ex_mem_is_store
amo_calc == InMem({"amo_calc"})
amo_stall == InMem({"amo_load", "amo_calc"})
data_uncacheable_mem == ex_mem # None /\ ex_mem.addr \in Io

mem_op_pending == mem_op # None
cpu_op == mem_op \in {"refill", "uncached"}
mem_stall == cpu_op /\ ~mem_ready
cpu_mem_complete == cpu_op /\ mem_ready
IssueWhileBusy == ~mem_op_pending /\ ~fetch_wait /\ ~mem_ready  \* mutant
mem_can_issue == ~mem_op_pending /\ ~fetch_wait /\ ~BP!mem_busy /\ ~mem_ready

data_cache_cs == mem_access /\ ~cpu_op /\ ~data_uncacheable_mem
data_cache_hit_comb == DC!cache_hit_comb(data_cache_cs)
data_cache_refill_complete == mem_op = "refill" /\ mem_ready /\ request_refill

\* The forwarding network is only used when the buffer is not full, and then
\* what it offers does not depend on read_enable.
ForwardRingOnly(hit) ==  \* mutant
  /\ ex_mem_is_load /\ data_cache_cs /\ ~hit /\ ~WB!full
  /\ WB!load_forward_valid(ex_mem.addr, None, FALSE)
load_forward_use(hit) ==
  /\ ex_mem_is_load /\ data_cache_cs /\ ~hit /\ ~WB!full
  /\ WB!load_forward_valid(ex_mem.addr, dirty_writeback, FALSE)
load_forward_out == WB!load_forward(ex_mem.addr, dirty_writeback, FALSE)

store_buffer_hazard(hit) ==
  /\ ex_mem_is_store /\ data_cache_cs /\ ~hit
  /\ WB!address_pending(ex_mem.addr, dirty_writeback)

prediction_flush == InEx({"branch"})
fence_i_finish == fence_i_state = "FINISH"
flush == prediction_flush \/ fence_i_finish

WritesInRing == dirty_writeback # None \/ ~WB!empty  \* mutant
writes_waiting ==
  dirty_writeback # None \/ ~WB!empty \/ wb_out # None \/ wb_issue_valid
fence_stall ==
  \/ fence_i_state # "IDLE"
  \/ if_id = "fence_i"
  \/ /\ if_id = "fence"
     /\ InEx(Accesses) \/ mem_access \/ writes_waiting \/ mem_op = "write_buffer"

amo_a == IF data_cache_hit_q THEN data_out ELSE amo_rd_q

-----------------------------------------------------------------------------
(* Wires that also depend on the inputs of the cycle: div_done, the        *)
(* division unit is done, and drain_prediction, the instruction cache is   *)
(* predicted to hit, so that the bus is free for buffered writes.          *)

div_stall(div_done) == InEx({"div"}) /\ ~div_done

ex_stall(div_done, hit, forward) ==
  \/ mem_stall
  \/ /\ mem_access /\ ~hit /\ ~forward
     /\ mem_op \in {None, "write_buffer"} \/ BP!mem_busy
  \/ div_stall(div_done)
  \/ amo_stall

NoDrainUnderFlush(ex_stalls) ==  \* mutant
  /\ ~WB!empty /\ mem_can_issue /\ wb_out = None /\ ~wb_issue_valid
  /\ ~flush
drain_possible(ex_stalls) ==
  /\ ~WB!empty /\ mem_can_issue /\ wb_out = None /\ ~wb_issue_valid
  /\ ~flush \/ (prediction_flush /\ ex_stalls)
drain_wb(div_done, drain_prediction, hazard, ex_stalls) ==
  /\ \/ div_stall(div_done) \/ WB!full \/ drain_prediction
     \/ fence_stall \/ hazard
  /\ drain_possible(ex_stalls)

FetchOverDrain(drain) ==  \* mutant
  /\ ~BP!mem_busy /\ ~mem_op_pending /\ ~mem_ready
  /\ ~(mem_access \/ amo_calc)
inst_fetch_can_issue(drain) ==
  /\ ~BP!mem_busy /\ ~mem_op_pending /\ ~mem_ready
  /\ ~drain /\ wb_out = None /\ ~wb_issue_valid
  /\ ~(mem_access \/ amo_calc)

\* The wires of a cycle that several of the blocks below look at.
Wires(div_done, drain_prediction) ==
  LET hit == data_cache_hit_comb
      forward == load_forward_use(hit)
      hazard == store_buffer_hazard(hit)
      ex_stalls == ex_stall(div_done, hit, forward)
      stall == fence_stall \/ ex_stalls \/ DC!flush_running
      drain == drain_wb(div_done, drain_prediction, hazard, ex_stalls)
  IN [hit |-> hit, forward |-> forward, hazard |-> hazard,
      div_stall |-> div_stall(div_done), ex_stall |-> ex_stalls, stall |-> stall, drain |-> drain,
      can_fetch |-> /\ ~flush /\ ~fetch_wait /\ ~stall
                    /\ inst_fetch_can_issue(drain)]

-----------------------------------------------------------------------------
(* What the core drives into its parts in a cycle *)

\* The metadata of an uncacheable address is never looked at: it is not read.
ReadsMetadata == InEx(Accesses) /\ id_ex.addr \notin Io

pipeline_enable(w) == amo_calc \/ (ReadsMetadata /\ ~w.ex_stall)

CacheInputs(w) ==
  [clean_req |-> fence_i_state \in {"CLEAN", "WRITEBACK"},
   cs |-> data_cache_cs,
   wen |-> ex_mem_is_store \/ w.forward,
   strb |-> IF ex_mem_is_store THEN ex_mem.strb ELSE Lanes,
   full |-> WB!full,
   forward |-> w.forward,
   refill_complete |-> data_cache_refill_complete,
   pipeline_enable |-> pipeline_enable(w),
   addr |-> IF amo_calc THEN ex_mem.addr
            ELSE IF ReadsMetadata THEN id_ex.addr ELSE data_addr_q,
   data_in |-> IF w.forward THEN load_forward_out
               ELSE IF data_cache_refill_complete THEN mem_rdata
               ELSE IF ex_mem # None THEN ex_mem.data ELSE None]

BusRead(a) == [wen |-> FALSE, addr |-> a, data |-> None, strb |-> Lanes]

\* mem_req, mem_wen, mem_addr and the registered write data.
Requested ==
  IF mem_op = "uncached" /\ ex_mem_is_store
       THEN [wen |-> TRUE, addr |-> ex_mem.addr, data |-> write_r.data, strb |-> write_r.strb]
  ELSE IF mem_op = "write_buffer"
       THEN [wen |-> TRUE, addr |-> write_r.addr, data |-> write_r.data, strb |-> write_r.strb]
  ELSE IF cpu_op THEN BusRead(ex_mem.addr)
  ELSE IF fetch_wait THEN BusRead(Code)
  ELSE None
RequestDuringReady == Requested  \* mutant
MemRequest == IF mem_ready THEN None ELSE Requested

-----------------------------------------------------------------------------
(* The clocked blocks; w is the record of the wires of the cycle.          *)

\* IF/ID and the fetch: a flush forgets the fetch even when it is on the bus.
Fetch(w, miss, next) ==
  /\ fetch_wait' = IF flush THEN FALSE
                   ELSE IF fetch_wait THEN ~mem_ready
                   ELSE miss /\ w.can_fetch
  /\ if_id' = IF flush THEN "plain"
              ELSE IF w.stall THEN if_id
              ELSE IF fetch_wait' THEN "plain" ELSE next

\* ID/EX: what IF/ID delivers, or a bubble.
Delivers == /\ ~flush /\ ~fence_stall /\ ~DC!flush_running
            /\ ~fetch_wait /\ if_id = "plain"
Decode(w, next) ==
  id_ex' = IF w.ex_stall THEN id_ex ELSE IF Delivers THEN next ELSE None

\* EX/MEM, and the two extra cycles of an AMO.
amo_load_done(w) == InMem({"amo_load"}) /\ (w.hit \/ w.forward \/ cpu_mem_complete)

Execute(w) ==
  ex_mem' = IF ~w.ex_stall
            THEN IF InEx({"amo"}) THEN [id_ex EXCEPT !.kind = "amo_load"]
                 ELSE IF InEx(Accesses) THEN id_ex ELSE None
            ELSE IF amo_calc
            THEN [ex_mem EXCEPT !.kind = "amo_store",
                                !.data = [l \in Lanes |-> AmoOp(amo_a[l], @[l])]]
            ELSE IF amo_load_done(w) THEN [ex_mem EXCEPT !.kind = "amo_calc"]
            ELSE ex_mem

\* The issue of memory operations, in the order of their priority.
data_cache_refill_comb(w) ==
  data_cache_cs /\ ~w.hit /\ request_refill /\ ~w.forward /\ ~w.hazard
uncached_req == mem_access /\ data_uncacheable_mem /\ mem_can_issue

Issue(w) ==
  IF wb_out # None
  THEN /\ write_r' = [addr |-> wb_out.addr, data |-> wb_out.data, strb |-> Lanes]
       /\ mem_op' = IF mem_can_issue THEN "write_buffer" ELSE mem_op
       /\ wb_issue_valid' = ~mem_can_issue
  ELSE IF wb_issue_valid /\ mem_can_issue
  THEN mem_op' = "write_buffer" /\ wb_issue_valid' = FALSE /\ write_r' = write_r
  ELSE IF data_cache_refill_comb(w) /\ mem_can_issue /\ ~wb_issue_valid /\ ~w.drain
  THEN mem_op' = "refill" /\ UNCHANGED <<write_r, wb_issue_valid>>
  ELSE IF uncached_req /\ ~w.drain
  THEN /\ mem_op' = "uncached" /\ UNCHANGED wb_issue_valid
       /\ write_r' = IF ex_mem_is_store
                     THEN [addr |-> ex_mem.addr, data |-> ex_mem.data, strb |-> ex_mem.strb]
                     ELSE None
  ELSE IF mem_op_pending /\ mem_ready
  THEN mem_op' = None /\ write_r' = None /\ UNCHANGED wb_issue_valid
  ELSE UNCHANGED <<mem_op, write_r, wb_issue_valid>>

\* Does the MEM/WB register take what is in MEM?
AdvanceAmo(w) == ~w.ex_stall \/ cpu_mem_complete \/ w.hit  \* mutant
mem_wb_advance(w) == (~w.ex_stall \/ cpu_mem_complete \/ w.hit) /\ ~amo_stall

WriteBack(w) ==
  /\ data_cache_hit_q' = (w.hit /\ ex_mem_is_load)
  /\ amo_rd_q' = IF amo_load_done(w) THEN IF w.forward THEN load_forward_out ELSE mem_rdata
                 ELSE IF amo_calc THEN amo_a
                 ELSE IF w.ex_stall THEN amo_rd_q ELSE None
  /\ mem_wb' = IF mem_wb_advance(w) /\ InMem({"load", "amo_store"})
               THEN [result |-> IF w.forward THEN load_forward_out
                                ELSE IF ex_mem_is_load THEN mem_rdata ELSE amo_rd_q,
                     expected |-> arch[ex_mem.addr]]
               ELSE None

DrainedForStores == id_ex = None /\ mem_can_issue /\ ~writes_waiting  \* mutant
fence_i_drained == id_ex = None /\ ex_mem = None /\ mem_can_issue /\ ~writes_waiting

FenceI ==
  fence_i_state' =
    IF prediction_flush THEN "IDLE"
    ELSE CASE fence_i_state = "IDLE" -> IF if_id = "fence_i" THEN "DRAIN" ELSE "IDLE"
           [] fence_i_state = "DRAIN" ->
                IF fence_i_drained THEN "CLEAN" ELSE "DRAIN"
           [] fence_i_state = "CLEAN" -> IF DC!clean_done THEN "WRITEBACK" ELSE "CLEAN"
           [] fence_i_state = "WRITEBACK" ->
                IF ~writes_waiting /\ ~mem_op_pending /\ ~BP!mem_busy /\ ~mem_ready
                THEN "FINISH" ELSE "WRITEBACK"
           [] fence_i_state = "FINISH" -> "IDLE"

\* History: the program order view of memory, and what may happen only once.
Record(w) ==
  /\ arch' = IF ex_mem_is_store /\ (~w.ex_stall \/ w.hit \/ cpu_mem_complete)
             THEN [arch EXCEPT ![ex_mem.addr] = BP!Merged(@, ex_mem.data, ex_mem.strb)]
             ELSE arch
  /\ retired' = (w.ex_stall /\ (retired \/ (mem_wb_advance(w) /\ ex_mem # None)))
  /\ io_count' = io_count
        + (IF mem_op = "uncached" /\ port = "idle" /\ MemRequest # None THEN 1 ELSE 0)
        - (IF mem_access /\ data_uncacheable_mem /\ ~w.ex_stall THEN 1 ELSE 0)
  /\ stalled' = IF ~w.stall THEN "no" ELSE IF w.div_stall THEN "division" ELSE "yes"
  /\ lost' = (lost \/ (dirty_writeback # None /\ ~WB!write_accepted(dirty_writeback, w.drain)))

-----------------------------------------------------------------------------
(* One clock edge.  The inputs that the model leaves open: the division    *)
(* unit is done; the hit predictor asks for a drain; the memory answers;   *)
(* the fetch misses; the next instructions of the program.                 *)

Choice(c) == IF c THEN BOOLEAN ELSE {FALSE}
Fences == {"plain"} \cup {f \in {"fence", "fence_i"} : InProgram(f)}
Decodable ==
  {None} \cup {i \in Programs[program].instructions : i.kind # "div" \/ DivBehindMem \/ ~InEx(Accesses)}

Edge(div_done, drain_prediction) ==
  LET w == Wires(div_done, drain_prediction)
  IN /\ WB!Clock(dirty_writeback, w.drain)
     /\ DC!Clock(CacheInputs(w))
     /\ Execute(w)
     /\ Issue(w)
     /\ WriteBack(w)
     /\ FenceI
     /\ Record(w)
     /\ \E answer \in Choice(port \in {"read", "write"}) : BP!Clock(MemRequest, answer)
     /\ \E miss \in Choice(w.can_fetch /\ InProgram("icache_miss")),
           fetched \in IF w.stall THEN {"plain"} ELSE Fences : Fetch(w, miss, fetched)
     /\ \E decoded \in IF ~w.ex_stall /\ Delivers THEN Decodable ELSE {None} :
          Decode(w, decoded)
     /\ UNCHANGED program

Next ==
  \E div_done \in Choice(InEx({"div"})),
     drain_prediction \in Choice(~WB!empty /\ mem_can_issue) :
    Edge(div_done, drain_prediction)

\* After reset; the invalidation of the cache is still to come.
Init ==
  /\ program \in DOMAIN Programs
  /\ WB!Init
  /\ DC!Init
  /\ memory \in {m \in [BusAddr -> Word] : \A a \in BusAddr : m[a] \in Programs[program].words[a]}
  /\ arch = [a \in DataAddr |-> memory[a]]
  /\ port = "idle" /\ captured = None /\ mem_ready = FALSE /\ mem_rdata = None
  /\ if_id = "plain" /\ fetch_wait = FALSE /\ id_ex = None /\ ex_mem = None
  /\ mem_op = None /\ write_r = None /\ wb_issue_valid = FALSE
  /\ data_cache_hit_q = FALSE /\ amo_rd_q = None /\ mem_wb = None
  /\ fence_i_state = "IDLE"
  /\ retired = FALSE /\ io_count = 0 /\ stalled = "no" /\ lost = FALSE

Spec == Init /\ [][Next]_vars

-----------------------------------------------------------------------------
(* Properties *)

\* The registers of the core and of its parts hold what they are declared for,
\* during the invalidation after reset and every maintenance walk too.
TypeOK ==
  /\ WB!TypeOK /\ DC!TypeOK
  /\ port \in {"idle", "read", "read_done", "write"}
  /\ if_id \in Fences /\ fetch_wait \in BOOLEAN
  /\ id_ex \in Programs[program].instructions \cup {None}
  /\ mem_op \in {None, "refill", "uncached", "write_buffer"}
  /\ fence_i_state \in {"IDLE", "DRAIN", "CLEAN", "WRITEBACK", "FINISH"}
  /\ memory \in [BusAddr -> Word] /\ arch \in [DataAddr -> Word]

CachedWays(a) ==
  {w \in DC!Way : ~DC!flush_running /\ line[a.idx][w].valid /\ line[a.idx][w].tag = a.tag}

\* The word for a on its way to memory, newest first: just evicted, waiting in
\* the ring, handed to the bus, on the bus, in memory.
Below(a) ==
  IF dirty_writeback # None /\ dirty_writeback.addr = a THEN dirty_writeback.data
  ELSE IF WB!Ages(a) # {} THEN WB!load_forward(a, None, FALSE)
  ELSE IF wb_out # None /\ wb_out.addr = a THEN wb_out.data
  ELSE IF mem_op = "write_buffer" /\ write_r.addr = a THEN write_r.data
  ELSE memory[a]

\* No store is ever lost or undone: the newest copy of every cacheable word,
\* in the cache or below it, is what the program's stores so far leave there.
StoresSurvive ==
  \A a \in CacheAddr :
    arch[a] = IF CachedWays(a) # {}
              THEN line[a.idx][CHOOSE w \in CachedWays(a) : TRUE].data
              ELSE Below(a)

\* The same as long as the write buffer has accepted every evicted word.
NewestCopyIsCurrent == lost \/ StoresSurvive

\* A clean line may be dropped at any moment: what is below it is the same
\* word.  And no word is cached twice.
CleanLinesAreBacked ==
  lost \/ \A a \in CacheAddr :
    /\ \A v, w \in CachedWays(a) : v = w
    /\ \A w \in CachedWays(a) :
         ~line[a.idx][w].dirty => Below(a) = line[a.idx][w].data

\* Every load and AMO delivers what the last store before it in program order
\* wrote, whichever of cache, forwarding network, refill or device it read.
LoadsReadLastStore ==
  lost \/ mem_wb = None
  \/ mem_wb.expected = IF data_cache_hit_q THEN data_out ELSE mem_wb.result

\* mem_ready belongs to the operation that is pending: never to a fetch that a
\* flush forgot, a buffered write or an access of another instruction.
CompletionIsOwn ==
  /\ ~(mem_op_pending /\ fetch_wait)
  /\ mem_op_pending /\ (mem_ready \/ BP!mem_busy) =>
       /\ captured.wen <=> (mem_op = "write_buffer" \/ (mem_op = "uncached" /\ ex_mem_is_store))
       /\ captured.addr = IF mem_op = "write_buffer" THEN write_r.addr ELSE ex_mem.addr
  /\ fetch_wait /\ (mem_ready \/ BP!mem_busy) => captured.addr = Code

\* A word popped from the write buffer always finds the bus free, so that the
\* second chance wb_issue_valid is never needed and no two words are in hand.
PoppedWordIsIssued ==
  /\ ~wb_issue_valid
  /\ wb_out # None => mem_can_issue

\* The access in MEM retires once, in the cycle in which it leaves MEM.
RetiresOnce == ~retired

\* An uncached access makes one bus transaction, neither none nor two: a device
\* register that is read twice or not at all loses a byte.
UncachedOnce == io_count \in IF mem_access /\ data_uncacheable_mem THEN {0, 1} ELSE {0}

\* The metadata latched for the access in MEM is that of its set, for as long
\* as the access can act on it.
MetadataIsCurrent ==
  (data_cache_cs /\ ~cpu_op) =>
     /\ data_addr_q = ex_mem.addr
     /\ \A w \in DC!Way : meta[w] = DC!MetaOf(line[data_addr_q.idx][w])

\* The cache walk of FENCE.I never meets an access or a refill: "Core guarantees
\* no normal cache transactions throughout maintenance".
MaintenanceIsAlone ==
  fence_i_state \in {"CLEAN", "WRITEBACK"} \/ DC!clean_active =>
    /\ ~data_cache_cs /\ ~cpu_op /\ ~request_refill
    /\ dirty_writeback # None => ~WB!full

\* FENCE.I resumes fetching only when memory holds all the stores before it.
FenceISynchronises ==
  fence_i_finish => lost \/ \A a \in CacheAddr : memory[a] = arch[a]

\* A FENCE leaves IF/ID only when no older access is on its way to memory.
FenceOrders ==
  [][if_id = "fence" /\ if_id' # "fence" /\ ~flush =>
       /\ dirty_writeback = None /\ WB!empty /\ wb_out = None
       /\ mem_op # "write_buffer"
       /\ ~mem_access /\ ~InEx(Accesses)]_vars

\* The bus serves whom it answers: mem_ready is for the operation that waits for
\* it, and a word from the ring finds the bus free.
BusIsOwned == CompletionIsOwn /\ PoppedWordIsIssued

\* FENCE.I and the walk over the cache: registers keep their types through it,
\* it meets no access, and memory is complete at its end.
MaintenanceIsSound == TypeOK /\ MaintenanceIsAlone /\ FenceISynchronises
=============================================================================
