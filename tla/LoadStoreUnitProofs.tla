------------------------ MODULE LoadStoreUnitProofs ------------------------
(***************************************************************************)
(* The memory side for any addresses, words, programs, cache sets and ring *)
(* slots.  First its control: types, the ownership of the bus, how often   *)
(* an access retires and reaches a device, what the cache latches of a     *)
(* set, and that maintenance works alone; then its words.                  *)
(*                                                                         *)
(* None of these is inductive alone.  That an answer of the bus is taken   *)
(* by its own operation needs that what retires leaves MEM; that needs the *)
(* stalls, which follow from the hits, from the metadata being current;    *)
(* that needs that a refill belongs to the access in MEM.  Inv is their    *)
(* conjunction with what each of them needs of the others.                 *)
(*                                                                         *)
(* The theorems are about programs in which no division directly follows   *)
(* a memory access (~DivBehindMem): with one, the run MCLsuStaleVictim     *)
(* shows a behaviour of the core in which they fail.                       *)
(***************************************************************************)
EXTENDS LoadStoreUnitInvariant, TLAPS

\* The inductive invariant of the control.
Inv == Shapes /\ Bus /\ Retire /\ Words /\ Alone /\ Metadata /\ Refilling

-----------------------------------------------------------------------------
(* The parts of a clock edge *)

\* A clock edge is one step of each clocked block, with the same wires.
LEMMA EdgeParts ==
  ASSUME NEW dd, NEW dp, Edge(dd, dp), NEW w, w = Wires(dd, dp)
  PROVE  /\ WB!Clock(dirty_writeback, w.drain)
         /\ DC!Clock(CacheInputs(w))
         /\ Execute(w)
         /\ Issue(w)
         /\ WriteBack(w)
         /\ FenceI
         /\ Record(w)
         /\ \E answer \in BOOLEAN : BP!Clock(MemRequest, answer)
         /\ \E miss \in BOOLEAN, fetched \in Fences : Fetch(w, miss, fetched) /\ (w.stall => fetched = "plain")
         /\ \E decoded \in Decodable : Decode(w, decoded) /\ (Delivers \/ decoded = None)
         /\ program' = program
<1>1. \A c : Choice(c) \subseteq BOOLEAN
  BY DEF Choice
<1>2. \E answer \in BOOLEAN : BP!Clock(MemRequest, answer)
  BY <1>1 DEF Edge
<1>3. \E miss \in BOOLEAN, fetched \in Fences : Fetch(w, miss, fetched) /\ (w.stall => fetched = "plain")
  BY <1>1 DEF Edge, Fences
<1>4. \E decoded \in Decodable : Decode(w, decoded) /\ (Delivers \/ decoded = None)
  BY DEF Edge, Decodable
<1> QED BY <1>2, <1>3, <1>4, Zenon DEF Edge

\* The wires of a cycle, by name.
LEMMA WireFields ==
  ASSUME NEW dd, NEW dp, NEW w, w = Wires(dd, dp)
  PROVE  /\ w.hit = data_cache_hit_comb
         /\ w.forward = load_forward_use(w.hit)
         /\ w.hazard = store_buffer_hazard(w.hit)
         /\ w.div_stall = div_stall(dd)
         /\ w.ex_stall = ex_stall(dd, w.hit, w.forward)
         /\ w.stall = (fence_stall \/ w.ex_stall \/ DC!flush_running)
         /\ w.drain = drain_wb(dd, dp, w.hazard, w.ex_stall)
         /\ w.can_fetch = (~flush /\ ~fetch_wait /\ ~w.stall /\ inst_fetch_can_issue(w.drain))
BY DEF Wires

\* A word popped from the ring finds everything on its way to the bus at rest.
LEMMA DrainMeansRest ==
  ASSUME NEW dd, NEW dp, NEW w, w = Wires(dd, dp), w.drain
  PROVE  mem_can_issue /\ wb_out = None /\ ~wb_issue_valid /\ ~WB!empty
BY WireFields DEF drain_wb, drain_possible

\* The access in MEM is served by a hit, by a forwarded word or by the bus.
Served(w) == w.hit \/ w.forward \/ cpu_mem_complete

\* A cacheable access is one the cache is looked at for, unless it is pending.
LEMMA Cacheable ==
  ASSUME Shapes
  PROVE  /\ ex_mem # None /\ ~data_uncacheable_mem => ex_mem.addr \in CacheAddr
         /\ ex_mem # None => ex_mem.addr \in DataAddr
         /\ InMem({"amo_load", "amo_calc", "amo_store"}) => ex_mem.addr \in CacheAddr /\ ~data_uncacheable_mem
         /\ data_cache_cs => mem_access /\ ~cpu_op /\ ~data_uncacheable_mem
         /\ mem_access => ex_mem # None
         /\ mem_access <=> ex_mem # None /\ ~amo_calc
BY AddressAssumption DEF Shapes, MemInstr, MemKinds, DataAddr, data_uncacheable_mem, InMem, data_cache_cs, mem_access,
   ex_mem_is_load, ex_mem_is_store, amo_calc

\* It stays in MEM until it is served, and not a cycle longer, but for the two
\* extra cycles of an AMO.
LEMMA ServedLeaves ==
  ASSUME Shapes, Bus, Retire, NEW dd, NEW dp, NEW w, w = Wires(dd, dp)
  PROVE  /\ Served(w) => mem_access
         /\ w.hit \/ w.forward => data_cache_cs
         /\ mem_access => (~w.ex_stall <=> Served(w) /\ ~InMem({"amo_load"}))
         /\ amo_calc => w.ex_stall
<1>w. /\ w.hit = data_cache_hit_comb
      /\ w.forward = load_forward_use(w.hit)
      /\ w.ex_stall = ex_stall(dd, w.hit, w.forward)
  BY WireFields
<1>1. w.hit \/ w.forward => data_cache_cs
  BY <1>w DEF data_cache_hit_comb, DC!cache_hit_comb, load_forward_use
<1>2. data_cache_cs => mem_access /\ ~cpu_op
  BY DEF data_cache_cs
<1>3. Served(w) => mem_access
  BY <1>1, <1>2 DEF Served, cpu_mem_complete, Bus
<1>4. mem_access => ~div_stall(dd) /\ (amo_stall <=> InMem({"amo_load"}))
  BY DEF Retire, div_stall, mem_access, ex_mem_is_load, ex_mem_is_store, amo_stall, InMem
<1>5. cpu_op <=> mem_op \notin {None, "write_buffer"}
  BY NoneAssumption DEF cpu_op, Shapes
<1>6. mem_access => (~w.ex_stall <=> Served(w) /\ ~InMem({"amo_load"}))
  BY <1>w, <1>1, <1>2, <1>4, <1>5 DEF ex_stall, Served, cpu_mem_complete, mem_stall, Shapes, BP!mem_busy
<1>7. amo_calc => w.ex_stall
  BY <1>w DEF ex_stall, amo_stall, amo_calc, InMem
<1> QED BY <1>1, <1>3, <1>6, <1>7

\* What the EX/MEM register holds next.
LEMMA ExMemNext ==
  ASSUME Shapes, Bus, Retire, NEW dd, NEW dp, NEW w, w = Wires(dd, dp), Execute(w)
  PROVE  /\ mem_access /\ ~Served(w) => ex_mem' = ex_mem /\ w.ex_stall
         /\ InMem({"amo_load"}) /\ Served(w) => ex_mem' = [ex_mem EXCEPT !.kind = "amo_calc"] /\ w.ex_stall
         /\ amo_calc => /\ w.ex_stall
                        /\ ex_mem' = [ex_mem EXCEPT !.kind = "amo_store",
                                                    !.data = [l \in Lanes |-> AmoOp(amo_a[l], @[l])]]
         /\ ~w.ex_stall => ex_mem' = IF InEx({"amo"}) THEN [id_ex EXCEPT !.kind = "amo_load"]
                                     ELSE IF InEx(Accesses) THEN id_ex ELSE None
         /\ ex_mem = None /\ w.ex_stall => ex_mem' = None
<1>1. /\ mem_access => (~w.ex_stall <=> Served(w) /\ ~InMem({"amo_load"}))
      /\ amo_calc => w.ex_stall
  BY ServedLeaves
<1>2. /\ InMem({"amo_load"}) => mem_access
      /\ mem_access => ~amo_calc
  BY DEF InMem, mem_access, ex_mem_is_load, ex_mem_is_store, amo_calc
<1>3. amo_load_done(w) <=> InMem({"amo_load"}) /\ Served(w)
  BY DEF amo_load_done, Served
<1> QED BY <1>1, <1>2, <1>3 DEF Execute, amo_calc, InMem

-----------------------------------------------------------------------------
(* The shapes of the core's registers                                      *)

\* An access that moves on from EX is one that MEM can hold; an AMO starts as a
\* load.
LEMMA AccessFromEx ==
  ASSUME Shapes, InEx(Accesses)
  PROVE  /\ id_ex.kind = "amo" => [id_ex EXCEPT !.kind = "amo_load"] \in MemInstr
         /\ id_ex.kind # "amo" => id_ex \in MemInstr
         /\ id_ex.addr \in DataAddr
         /\ id_ex.kind \in {"load", "store", "amo"}
         /\ [id_ex EXCEPT !.kind = "amo_load"] = [kind |-> "amo_load", addr |-> id_ex.addr,
                                                  data |-> id_ex.data, strb |-> id_ex.strb]
<1>1. id_ex \in InstrType /\ id_ex.kind \in Accesses
  BY ProgramsAssumption DEF Shapes, InEx
<1>2. id_ex = [kind |-> id_ex.kind, addr |-> id_ex.addr, data |-> id_ex.data, strb |-> id_ex.strb]
  BY <1>1 DEF InstrType
<1>3. /\ id_ex.addr \in DataAddr /\ id_ex.data \in Word \cup {None} /\ id_ex.strb \in SUBSET Lanes
      /\ id_ex.kind \in {"load", "store", "amo"}
      /\ id_ex.kind # "load" => id_ex.data \in Word
      /\ id_ex.kind = "amo" => id_ex.addr \in CacheAddr /\ id_ex.strb = Lanes
  BY <1>1 DEF InstrType, Accesses
<1>4. ASSUME id_ex.kind = "amo" PROVE [id_ex EXCEPT !.kind = "amo_load"] \in MemInstr
  BY <1>2, <1>3, <1>4 DEF MemInstr, MemKinds
<1>5. ASSUME id_ex.kind # "amo" PROVE id_ex \in MemInstr
  BY <1>2, <1>3, <1>5 DEF MemInstr, MemKinds
<1>6. [id_ex EXCEPT !.kind = "amo_load"] = [kind |-> "amo_load", addr |-> id_ex.addr,
                                            data |-> id_ex.data, strb |-> id_ex.strb]
  BY <1>2
<1> QED BY <1>3, <1>4, <1>5, <1>6

\* The core registers keep their shapes over a clock edge.
LEMMA ShapesStep ==
  ASSUME Inv, NEW dd, NEW dp, Edge(dd, dp)
  PROVE  Shapes'
<1> DEFINE w == Wires(dd, dp)
<1>i. Shapes /\ Bus /\ Retire
  BY DEF Inv
<1>0. PICK decoded \in Decodable, miss \in BOOLEAN, fetched \in Fences, answer \in BOOLEAN :
        Decode(w, decoded) /\ Fetch(w, miss, fetched) /\ BP!Clock(MemRequest, answer)
  BY EdgeParts
<1>p. Execute(w) /\ Issue(w) /\ FenceI /\ program' = program
  BY EdgeParts
<1>x. /\ mem_access /\ ~Served(w) => ex_mem' = ex_mem
      /\ InMem({"amo_load"}) /\ Served(w) => ex_mem' = [ex_mem EXCEPT !.kind = "amo_calc"]
      /\ amo_calc => ex_mem' = [ex_mem EXCEPT !.kind = "amo_store",
                                              !.data = [l \in Lanes |-> AmoOp(amo_a[l], @[l])]]
      /\ ~w.ex_stall => ex_mem' = IF InEx({"amo"}) THEN [id_ex EXCEPT !.kind = "amo_load"]
                                  ELSE IF InEx(Accesses) THEN id_ex ELSE None
      /\ ex_mem = None /\ w.ex_stall => ex_mem' = None
      /\ mem_access => (~w.ex_stall <=> Served(w) /\ ~InMem({"amo_load"}))
      /\ mem_access <=> ex_mem # None /\ ~amo_calc
  BY <1>i, <1>p, ExMemNext, ServedLeaves, Cacheable
<1> HIDE DEF w
<1>1. /\ program' \in DOMAIN Programs
      /\ id_ex' \in Programs'[program'].instructions \cup {None}
  BY <1>0, <1>p, <1>i DEF Shapes, Decode, Decodable
<1>2. if_id' \in Fences'
  BY <1>0, <1>p, <1>i DEF Shapes, Fetch, Fences, InProgram
<1>3. ex_mem' \in MemInstr \cup {None}
  <2>1. CASE ex_mem' = ex_mem \/ ex_mem' = None
    BY <2>1, <1>i DEF Shapes
  <2>2. CASE InMem({"amo_load"}) /\ ex_mem' = [ex_mem EXCEPT !.kind = "amo_calc"]
    BY <2>2, <1>i DEF Shapes, InMem, MemInstr, MemKinds
  <2>3. CASE amo_calc
    <3>1. amo_a \in Word /\ ex_mem \in MemInstr /\ ex_mem.kind = "amo_calc"
      BY <2>3, <1>i DEF Inv, Words, amo_calc, InMem, Shapes
    <3>2. ex_mem.data \in Word /\ ex_mem.addr \in CacheAddr /\ ex_mem.strb = Lanes
      BY <3>1 DEF MemInstr
    <3>3. [l \in Lanes |-> AmoOp(amo_a[l], ex_mem.data[l])] \in Word
      BY <3>1, <3>2, AmoAssumption DEF Word
    <3>4. ex_mem' = [ex_mem EXCEPT !.kind = "amo_store",
                                   !.data = [l \in Lanes |-> AmoOp(amo_a[l], ex_mem.data[l])]]
      BY <2>3, <1>x, <3>1 DEF MemInstr
    <3> HIDE DEF Word
    <3> QED BY <3>1, <3>2, <3>3, <3>4 DEF MemInstr, MemKinds
  <2>4. CASE ~w.ex_stall
    BY <2>4, <1>x, <1>i, AccessFromEx DEF InEx, Accesses
  <2> QED BY <2>1, <2>2, <2>3, <2>4, <1>x
<1>4. mem_op' \in {None, "refill", "uncached", "write_buffer"}
  BY <1>p, <1>i DEF Shapes, Issue
<1>5. /\ port' \in {"idle", "read", "read_done", "write"}
      /\ mem_ready' \in BOOLEAN
      /\ mem_ready' => port' = "idle"
  BY <1>0, <1>i DEF Shapes, BP!Clock, BP!Rest, BP!Accept, BP!Wait, BP!ReadData, BP!ReadDone, BP!WriteResp
<1>6. fetch_wait' \in BOOLEAN
  BY <1>0, <1>i DEF Shapes, Fetch
<1>7. fence_i_state' \in {"IDLE", "DRAIN", "CLEAN", "WRITEBACK", "FINISH"}
  BY <1>p, <1>i DEF Shapes, FenceI
<1> QED BY <1>1, <1>2, <1>3, <1>4, <1>5, <1>6, <1>7 DEF Shapes

-----------------------------------------------------------------------------
(* The bus                                                                 *)

\* The port: a request is captured, answered, and made known for one cycle.
LEMMA PortStep ==
  ASSUME Shapes, NEW answer \in BOOLEAN, BP!Clock(MemRequest, answer)
  PROVE  /\ port = "idle" =>
              /\ ~mem_ready' /\ memory' = memory
              /\ MemRequest = None => port' = "idle"
              /\ MemRequest # None => /\ captured' = MemRequest
                                      /\ port' = IF MemRequest.wen THEN "write" ELSE "read"
         /\ port # "idle" => captured' = captured
         /\ port = "read" => /\ ~mem_ready' /\ memory' = memory
                             /\ port' = "read" \/ (port' = "read_done" /\ mem_rdata' = memory[captured.addr])
         /\ port = "read_done" => port' = "idle" /\ mem_ready' /\ UNCHANGED <<memory, mem_rdata>>
         /\ port = "write" =>
              \/ port' = "write" /\ ~mem_ready' /\ memory' = memory
              \/ /\ port' = "idle" /\ mem_ready'
                 /\ memory' = [memory EXCEPT ![captured.addr] = BP!Merged(@, captured.data, captured.strb)]
BY DEF Shapes, BP!Clock, BP!Rest, BP!Accept, BP!Wait, BP!ReadData, BP!ReadDone, BP!WriteResp

\* What is requested when, and that a request is one.
LEMMA RequestFacts ==
  ASSUME Shapes, Bus
  PROVE  /\ mem_can_issue => MemRequest = None /\ port = "idle" /\ mem_op = None /\ ~mem_ready /\ ~fetch_wait
         /\ Requested \in BusRequest \cup {None}
         /\ mem_op_pending \/ fetch_wait <=> Requested # None
         /\ Requested # None /\ Requested.wen <=>
              mem_op = "write_buffer" \/ (mem_op = "uncached" /\ ex_mem_is_store)
         /\ cpu_op <=> mem_op \in {"refill", "uncached"}
         /\ mem_op_pending <=> mem_op # None
         /\ cpu_op => mem_op_pending
<1> USE NoneAssumption
<1>1. mem_can_issue => MemRequest = None /\ port = "idle" /\ mem_op = None /\ ~mem_ready /\ ~fetch_wait
  BY DEF mem_can_issue, MemRequest, Requested, mem_op_pending, cpu_op, BP!mem_busy
<1>2. CASE mem_op = "uncached" /\ ex_mem_is_store
  <2>1. /\ Requested = [wen |-> TRUE, addr |-> ex_mem.addr, data |-> write_r.data, strb |-> write_r.strb]
        /\ write_r = [addr |-> ex_mem.addr, data |-> ex_mem.data, strb |-> ex_mem.strb]
        /\ ex_mem \in MemInstr /\ ex_mem.kind # "load"
    BY <1>2 DEF Requested, Bus, Shapes, ex_mem_is_store, InMem
  <2>2. ex_mem.addr \in BusAddr /\ ex_mem.data \in Word /\ ex_mem.strb \in SUBSET Lanes
    BY <2>1 DEF MemInstr, BusAddr
  <2>3. Requested \in BusRequest
    BY <2>1, <2>2 DEF BusRequest
  <2> QED BY <1>1, <1>2, <2>1, <2>3 DEF cpu_op, mem_op_pending
<1>3. CASE mem_op = "write_buffer"
  <2>1. /\ Requested = [wen |-> TRUE, addr |-> write_r.addr, data |-> write_r.data, strb |-> write_r.strb]
        /\ write_r \in WriteReg
    BY <1>3 DEF Requested, Bus
  <2>2. Requested \in BusRequest
    BY <2>1 DEF BusRequest, WriteReg, BusAddr
  <2> QED BY <1>1, <1>3, <2>1, <2>2 DEF cpu_op, mem_op_pending
<1>4. CASE mem_op \in {"refill", "uncached"} /\ ~(mem_op = "uncached" /\ ex_mem_is_store)
  <2>1. Requested = [wen |-> FALSE, addr |-> ex_mem.addr, data |-> None, strb |-> Lanes] /\ cpu_op
    BY <1>4 DEF Requested, cpu_op, BusRead
  <2>2. ex_mem.addr \in BusAddr
    BY <2>1, Cacheable DEF Bus, BusAddr
  <2>3. Requested \in BusRequest
    BY <2>1, <2>2 DEF BusRequest
  <2> QED BY <1>1, <1>4, <2>1, <2>3 DEF mem_op_pending
<1>5. CASE mem_op = None /\ fetch_wait
  <2>1. Requested = [wen |-> FALSE, addr |-> Code, data |-> None, strb |-> Lanes]
    BY <1>5 DEF Requested, BusRead, cpu_op
  <2>2. Requested \in BusRequest
    BY <2>1 DEF BusRequest, BusAddr
  <2> QED BY <1>1, <1>5, <2>1, <2>2 DEF mem_op_pending, cpu_op
<1>6. CASE mem_op = None /\ ~fetch_wait
  <2>1. Requested = None
    BY <1>6 DEF Requested, cpu_op
  <2> QED BY <1>1, <1>6, <2>1 DEF mem_op_pending, cpu_op
<1> QED BY <1>2, <1>3, <1>4, <1>5, <1>6 DEF Shapes

\* What is issued, to whom, and how it ends.
LEMMA IssueNext ==
  ASSUME Shapes, Bus, NEW dd, NEW dp, NEW w, w = Wires(dd, dp), Issue(w)
  PROVE  /\ mem_op # None => mem_op' = IF mem_ready THEN None ELSE mem_op
         /\ mem_op # None /\ ~mem_ready => write_r' = write_r
         /\ mem_op' # None /\ mem_op = None => mem_can_issue
         /\ mem_op' = "write_buffer" /\ mem_op = None =>
              wb_out # None /\ write_r' = [addr |-> wb_out.addr, data |-> wb_out.data, strb |-> Lanes]
         /\ wb_out # None => mem_op = None /\ mem_op' = "write_buffer"
         /\ mem_op' = "refill" /\ mem_op = None => data_cache_refill_comb(w) /\ wb_out = None /\ ~w.drain
         /\ mem_op' = "uncached" /\ mem_op = None =>
              /\ mem_access /\ data_uncacheable_mem /\ ~w.drain
              /\ ex_mem_is_store => write_r' = [addr |-> ex_mem.addr, data |-> ex_mem.data, strb |-> ex_mem.strb]
         /\ wb_issue_valid' = FALSE
         /\ w.drain => mem_op' = None
<1> USE NoneAssumption
<1>1. /\ wb_issue_valid = FALSE
      /\ wb_out # None => mem_can_issue
      /\ mem_can_issue => mem_op = None /\ ~mem_ready
      /\ w.drain => wb_out = None /\ mem_can_issue
  BY DrainMeansRest, RequestFacts DEF Bus
<1> QED BY <1>1 DEF Issue, uncached_req, mem_op_pending, Shapes

\* The write registers hold a word for the bus, or nothing.
LEMMA WriteRegStep ==
  ASSUME Shapes, Bus, WB!TypeOK, NEW w, Issue(w)
  PROVE  write_r' \in WriteReg \cup {None}
<1>1. wb_out # None => [addr |-> wb_out.addr, data |-> wb_out.data, strb |-> Lanes] \in WriteReg
                       /\ wb_out.addr \in CacheAddr
  BY DEF WB!TypeOK, WB!Entry, WriteReg, DataAddr
<1>2. ex_mem_is_store => [addr |-> ex_mem.addr, data |-> ex_mem.data, strb |-> ex_mem.strb] \in WriteReg
  BY DEF Shapes, MemInstr, WriteReg, ex_mem_is_store, InMem
<1>3. write_r \in WriteReg \cup {None}
  BY DEF Bus
<1> QED BY <1>1, <1>2, <1>3 DEF Issue

\* The bus keeps one owner: an operation is issued only when the port rests, is
\* answered once, and goes away with its answer.
LEMMA BusStep ==
  ASSUME Inv, NEW dd, NEW dp, Edge(dd, dp)
  PROVE  Bus'
<1> DEFINE w == Wires(dd, dp)
<1> USE NoneAssumption
<1>i. Shapes /\ Bus /\ Retire /\ WB!TypeOK /\ Shapes'
  BY ShapesStep DEF Inv, Words
<1>0. PICK miss \in BOOLEAN, fetched \in Fences, answer \in BOOLEAN :
        Fetch(w, miss, fetched) /\ BP!Clock(MemRequest, answer)
  BY EdgeParts
<1>p. Execute(w) /\ Issue(w) /\ WB!Clock(dirty_writeback, w.drain)
  BY EdgeParts
<1>x. /\ mem_access /\ ~Served(w) => ex_mem' = ex_mem
      /\ Served(w) => mem_access
      /\ w.hit \/ w.forward => data_cache_cs
  BY <1>i, <1>p, ExMemNext, ServedLeaves
<1>w. /\ w.can_fetch = (~flush /\ ~fetch_wait /\ ~w.stall /\ inst_fetch_can_issue(w.drain))
      /\ w.drain => mem_can_issue /\ wb_out = None /\ ~wb_issue_valid /\ ~WB!empty
  BY WireFields, DrainMeansRest
<1>b. /\ port = "idle" =>
              /\ ~mem_ready' /\ memory' = memory
              /\ MemRequest = None => port' = "idle"
              /\ MemRequest # None => /\ captured' = MemRequest
                                      /\ port' = IF MemRequest.wen THEN "write" ELSE "read"
      /\ port # "idle" => captured' = captured
      /\ port = "read" => ~mem_ready' /\ port' \in {"read", "read_done"}
      /\ port = "read_done" => port' = "idle"
      /\ port = "write" => port' \in {"idle", "write"}
  BY <1>i, <1>0, PortStep
<1>r. /\ mem_can_issue => MemRequest = None /\ port = "idle" /\ mem_op = None /\ ~mem_ready /\ ~fetch_wait
      /\ Requested \in BusRequest \cup {None}
      /\ mem_op_pending \/ fetch_wait <=> Requested # None
      /\ Requested # None /\ Requested.wen <=>
           mem_op = "write_buffer" \/ (mem_op = "uncached" /\ ex_mem_is_store)
      /\ cpu_op <=> mem_op \in {"refill", "uncached"}
      /\ mem_op_pending <=> mem_op # None
      /\ MemRequest = IF mem_ready THEN None ELSE Requested
  BY <1>i, RequestFacts DEF MemRequest
<1>n. /\ mem_op # None => mem_op' = IF mem_ready THEN None ELSE mem_op
      /\ mem_op # None /\ ~mem_ready => write_r' = write_r
      /\ mem_op' # None /\ mem_op = None => mem_can_issue
      /\ mem_op' = "write_buffer" /\ mem_op = None =>
              wb_out # None /\ write_r' = [addr |-> wb_out.addr, data |-> wb_out.data, strb |-> Lanes]
      /\ wb_out # None => mem_op = None /\ mem_op' = "write_buffer"
      /\ mem_op' = "refill" /\ mem_op = None => data_cache_cs /\ ~w.hit /\ ~w.forward
      /\ mem_op' = "uncached" /\ mem_op = None =>
            /\ mem_access /\ data_uncacheable_mem
            /\ ex_mem_is_store => write_r' = [addr |-> ex_mem.addr, data |-> ex_mem.data, strb |-> ex_mem.strb]
      /\ wb_issue_valid' = FALSE
      /\ w.drain => mem_op' = None
  BY <1>i, <1>p, IssueNext DEF data_cache_refill_comb
<1>c. data_cache_cs => mem_access /\ ~cpu_op /\ ~data_uncacheable_mem
  BY <1>i, Cacheable
<1> HIDE DEF w
\* An access that is pending, or is issued, stays in MEM.
<1>s. mem_op' \in {"refill", "uncached"} =>
        /\ ex_mem' = ex_mem /\ mem_access
        /\ mem_op' = "refill" <=> ~data_uncacheable_mem
        /\ mem_op = None => mem_can_issue
  <2>1. CASE mem_op = None
    BY <2>1, <1>n, <1>c, <1>x, <1>r DEF Served, cpu_mem_complete
  <2>2. CASE mem_op # None
    BY <2>2, <1>n, <1>c, <1>x, <1>r, <1>i DEF Served, cpu_mem_complete, Bus
  <2> QED BY <2>1, <2>2
<1>f. /\ fetch_wait' => mem_op' = None
      /\ fetch_wait' /\ ~fetch_wait => port = "idle" /\ ~mem_ready /\ mem_op = None
      /\ fetch_wait' /\ fetch_wait => ~mem_ready /\ mem_op = None
      /\ w.drain => ~fetch_wait'
  <2>1. CASE fetch_wait
    BY <2>1, <1>0, <1>w, <1>r, <1>n, <1>i DEF Fetch, Bus
  <2>2. CASE ~fetch_wait
    <3>1. fetch_wait' => w.can_fetch
      BY <2>2, <1>0 DEF Fetch
    <3>2. w.can_fetch => /\ port = "idle" /\ mem_op = None /\ ~mem_ready /\ ~w.drain
                         /\ ~mem_access /\ wb_out = None
      BY <1>w, <1>r DEF inst_fetch_can_issue, BP!mem_busy
    <3>3. w.can_fetch => mem_op' = None
      BY <3>2, <1>n, <1>c, <1>i, <1>s DEF Shapes
    <3> QED BY <2>2, <3>1, <3>2, <3>3
  <2> QED BY <2>1, <2>2, <1>i DEF Shapes
\* What is on the bus now is what was on it, or what is requested.
<1>o. OnBus' => /\ IF port = "idle" THEN ~mem_ready /\ Requested # None /\ captured' = Requested
                   ELSE captured' = captured
                /\ ~mem_ready
  BY <1>b, <1>r, <1>i DEF OnBus, Shapes
<1>1. ~(mem_op_pending /\ fetch_wait)'
  BY <1>f DEF mem_op_pending
<1>2. (wb_out # None => mem_can_issue)'
  <2>1. wb_out' # None => w.drain
    BY <1>p, <1>w DEF WB!Clock, WB!Idle, WB!ReadEmpty, WB!Read, WB!PassThrough, WB!Write, WB!WriteLost,
       WB!Merge, WB!ReadWrite, WB!ReadMerge, WB!do_merge, WB!merge_write
  <2>2. w.drain => mem_op' = None /\ ~fetch_wait' /\ port' = "idle" /\ ~mem_ready'
    BY <1>w, <1>r, <1>n, <1>f, <1>b
  <2> QED BY <2>1, <2>2 DEF mem_can_issue, mem_op_pending, BP!mem_busy
<1>3. (cpu_op => mem_access)'
  BY <1>s DEF cpu_op, mem_access, ex_mem_is_load, ex_mem_is_store, InMem
<1>4. (mem_op = "refill" => ~data_uncacheable_mem)' /\ (mem_op = "uncached" => data_uncacheable_mem)'
  BY <1>s DEF data_uncacheable_mem
<1>5. OnBus' => captured' \in BusRequest
  BY <1>o, <1>r, <1>i DEF Bus, OnBus
<1>6. /\ port' = "write" => captured'.wen
      /\ port' \in {"read", "read_done"} => ~captured'.wen
  BY <1>b, <1>i DEF Bus, OnBus, Shapes
<1>7. (OnBus /\ captured.wen => mem_op_pending)'
  <2> SUFFICES ASSUME OnBus', captured'.wen PROVE mem_op' # None
    BY DEF mem_op_pending
  <2>1. port = "idle" => mem_op # None
    BY <1>o, <1>r
  <2>2. port # "idle" => mem_op # None
    BY <1>o, <1>r, <1>i DEF Bus, OnBus
  <2> QED BY <2>1, <2>2, <1>o, <1>n
<1>8. (OnBus /\ mem_op_pending => captured = Requested)'
  <2> SUFFICES ASSUME OnBus', mem_op' # None PROVE captured' = Requested'
    BY DEF mem_op_pending
  <2>1. mem_op # None /\ mem_op' = mem_op /\ write_r' = write_r
    BY <1>o, <1>n, <1>r DEF OnBus
  <2>2. cpu_op => ex_mem' = ex_mem
    BY <2>1, <1>s, <1>r
  <2>3. Requested' = Requested
    BY <2>1, <2>2, <1>r, <1>i DEF Shapes, Requested, cpu_op, ex_mem_is_store, InMem, BusRead
  <2>4. captured' = Requested
    BY <2>1, <1>o, <1>r, <1>i DEF Bus, OnBus
  <2> QED BY <2>3, <2>4
<1>9. (OnBus /\ fetch_wait => captured.addr = Code)'
  <2>1. fetch_wait' /\ ~fetch_wait => ~OnBus'
    BY <1>f, <1>o, <1>r
  <2>2. fetch_wait' /\ fetch_wait => Requested = BusRead(Code)
    BY <1>f, <1>r DEF Requested
  <2> QED BY <2>1, <2>2, <1>o, <1>i DEF Bus, OnBus, BusRead, Shapes
<1>10. write_r' \in WriteReg \cup {None}
  BY <1>i, <1>p, WriteRegStep
<1>11. (mem_op = "write_buffer" => write_r # None /\ write_r.addr \in CacheAddr /\ write_r.strb = Lanes)'
  <2>1. wb_out # None => wb_out.addr \in CacheAddr
    BY <1>i DEF WB!TypeOK, WB!Entry
  <2>2. None \notin WriteReg
    OBVIOUS
  <2>3. ASSUME mem_op' = "write_buffer", mem_op = None
        PROVE  write_r' # None /\ write_r'.addr \in CacheAddr /\ write_r'.strb = Lanes
    <3>1. write_r' = [addr |-> wb_out.addr, data |-> wb_out.data, strb |-> Lanes] /\ wb_out # None
      BY <2>3, <1>n
    <3>2. write_r' \in WriteReg
      BY <3>1, <1>i DEF WB!TypeOK, WB!Entry, WriteReg, DataAddr
    <3> QED BY <3>1, <3>2, <2>1, <2>2
  <2> QED BY <2>3, <1>n, <1>i DEF Bus
<1>12. (mem_op = "uncached" /\ ex_mem_is_store =>
         write_r = [addr |-> ex_mem.addr, data |-> ex_mem.data, strb |-> ex_mem.strb])'
  <2> SUFFICES ASSUME mem_op' = "uncached", ex_mem_is_store'
               PROVE  write_r' = [addr |-> ex_mem'.addr, data |-> ex_mem'.data, strb |-> ex_mem'.strb]
    OBVIOUS
  <2>1. ex_mem' = ex_mem /\ ex_mem_is_store
    BY <1>s DEF ex_mem_is_store, InMem
  <2> QED BY <2>1, <1>n, <1>i DEF Bus
<1> QED BY <1>1, <1>2, <1>3, <1>4, <1>5, <1>6, <1>7, <1>8, <1>9, <1>10, <1>11, <1>12, <1>n DEF Bus

-----------------------------------------------------------------------------
(* Retirement                                                              *)

\* What retires leaves MEM in the same cycle: nothing holds it there but an AMO,
\* which has not retired yet, or a division right behind it.
LEMMA RetireStep ==
  ASSUME ~DivBehindMem, Inv, NEW dd, NEW dp, Edge(dd, dp)
  PROVE  Retire'
<1> DEFINE w == Wires(dd, dp)
<1> USE NoneAssumption
<1>i. Shapes /\ Bus /\ Retire /\ Shapes' /\ Bus'
  BY ShapesStep, BusStep DEF Inv
<1>0. PICK decoded \in Decodable, answer \in BOOLEAN :
        Decode(w, decoded) /\ BP!Clock(MemRequest, answer)
  BY EdgeParts
<1>p. Execute(w) /\ Issue(w) /\ Record(w)
  BY EdgeParts
<1>x. /\ mem_access => (~w.ex_stall <=> Served(w) /\ ~InMem({"amo_load"}))
      /\ Served(w) => mem_access
      /\ w.hit \/ w.forward => data_cache_cs
      /\ mem_access /\ ~Served(w) => ex_mem' = ex_mem
      /\ InMem({"amo_load"}) /\ Served(w) => ex_mem' = [ex_mem EXCEPT !.kind = "amo_calc"]
      /\ amo_calc => w.ex_stall
      /\ ~w.ex_stall => ex_mem' = IF InEx({"amo"}) THEN [id_ex EXCEPT !.kind = "amo_load"]
                                  ELSE IF InEx(Accesses) THEN id_ex ELSE None
      /\ ex_mem = None /\ w.ex_stall => ex_mem' = None
  BY <1>i, <1>p, ExMemNext, ServedLeaves
<1>c. /\ data_cache_cs => mem_access /\ ~cpu_op /\ ~data_uncacheable_mem
      /\ mem_access <=> ex_mem # None /\ ~amo_calc
      /\ InMem({"amo_load", "amo_calc", "amo_store"}) => ~data_uncacheable_mem
  BY <1>i, Cacheable
<1>b. /\ port = "idle" =>
           /\ ~mem_ready'
           /\ MemRequest = None => port' = "idle"
           /\ MemRequest # None => port' # "idle"
      /\ port = "read" => port' \in {"read", "read_done"}
      /\ port = "read_done" => mem_ready'
      /\ port = "write" => port' = "write" \/ mem_ready'
  <2>1. MemRequest # None => (IF MemRequest.wen THEN "write" ELSE "read") # "idle"
    OBVIOUS
  <2> QED BY <2>1, <1>i, <1>0, PortStep
<1>r. /\ mem_can_issue => MemRequest = None /\ port = "idle" /\ mem_op = None /\ ~mem_ready
      /\ mem_op_pending \/ fetch_wait <=> Requested # None
      /\ mem_op_pending <=> mem_op # None
      /\ cpu_op <=> mem_op \in {"refill", "uncached"}
      /\ MemRequest = IF mem_ready THEN None ELSE Requested
  BY <1>i, RequestFacts DEF MemRequest
<1>n. /\ mem_op # None => mem_op' = IF mem_ready THEN None ELSE mem_op
      /\ mem_op' # None /\ mem_op = None => mem_can_issue
  BY <1>i, <1>p, IssueNext
<1> HIDE DEF w
\* The access that retires leaves MEM.
<1>1. mem_wb_advance(w) /\ ex_mem # None => ~w.ex_stall
  <2>1. amo_stall <=> InMem({"amo_load"}) \/ amo_calc
    BY DEF amo_stall, amo_calc, InMem
  <2> QED BY <2>1, <1>x, <1>c DEF mem_wb_advance, Served
<1>2. ~retired'
  BY <1>p, <1>i, <1>1 DEF Record, Retire
<1>3. (InEx({"div"}) => ex_mem = None)'
  <2>1. CASE w.ex_stall
    <3>1. id_ex' = id_ex
      BY <2>1, <1>0 DEF Decode
    <3>2. ex_mem = None => ex_mem' = None
      BY <2>1, <1>x
    <3> QED BY <3>1, <3>2, <1>i DEF Retire, InEx
  <2>2. CASE ~w.ex_stall
    <3>1. id_ex' = decoded \/ id_ex' = None
      BY <2>2, <1>0 DEF Decode
    <3>2. InEx({"amo"}) => InEx(Accesses)
      BY DEF InEx, Accesses
    <3>3. ex_mem' # None => InEx(Accesses)
      BY <2>2, <3>2, <1>x
    <3> QED BY <3>1, <3>3 DEF Decodable, InEx
  <2> QED BY <2>1, <2>2
\* The transaction of an uncached access is counted once, until it leaves.
<1>4. mem_op = "uncached" => /\ mem_access /\ data_uncacheable_mem /\ ~InMem({"amo_load"})
                             /\ w.ex_stall <=> ~mem_ready
  <2>1. mem_op = "uncached" => mem_access /\ data_uncacheable_mem /\ cpu_op
    BY <1>i, <1>r DEF Bus
  <2>2. InMem({"amo_load"}) => InMem({"amo_load", "amo_calc", "amo_store"})
    BY DEF InMem
  <2> QED BY <2>1, <2>2, <1>c, <1>x DEF Served, cpu_mem_complete
<1>5. mem_access /\ data_uncacheable_mem /\ ~w.ex_stall => mem_op = "uncached" /\ mem_ready
  BY <1>x, <1>c, <1>i, <1>r DEF Served, cpu_mem_complete, Bus
<1>6. (io_count = IF mem_op = "uncached" /\ OnBus THEN 1 ELSE 0)'
  <2>1. io_count' = io_count
           + (IF mem_op = "uncached" /\ port = "idle" /\ MemRequest # None THEN 1 ELSE 0)
           - (IF mem_op = "uncached" /\ mem_ready THEN 1 ELSE 0)
    BY <1>p, <1>4, <1>5 DEF Record
  <2>2. CASE mem_op = "uncached" /\ mem_ready
    BY <2>1, <2>2, <1>i, <1>n, <1>r DEF Retire, OnBus, Shapes
  <2>3. CASE mem_op = "uncached" /\ ~mem_ready
    <3>1. OnBus' /\ mem_op' = "uncached" /\ MemRequest # None
      BY <2>3, <1>n, <1>b, <1>r, <1>i DEF OnBus, Shapes
    <3> QED BY <3>1, <2>1, <2>3, <1>i DEF Retire, OnBus
  <2>4. CASE mem_op # "uncached"
    <3>1. mem_op' = "uncached" => ~OnBus'
      BY <2>4, <1>n, <1>r, <1>b, <1>i DEF OnBus, Shapes
    <3> QED BY <3>1, <2>1, <2>4, <1>i DEF Retire
  <2> QED BY <2>2, <2>3, <2>4
<1> QED BY <1>2, <1>3, <1>6 DEF Retire

-----------------------------------------------------------------------------
(* The write buffer, from its own proofs                                   *)

WBP == INSTANCE WriteBufferProofs WITH Addr <- CacheAddr, Data <- Word

\* The two instances of the write buffer are one: in a state, and over a step.
SameState ==
  /\ WB!TypeOK /\ WB!RingConsistent <=> WBP!IInv
  /\ \A a : WB!Ages(a) = WBP!Ages(a)
  /\ \A a, w : WB!load_forward(a, w, FALSE) = WBP!load_forward(a, w, FALSE)
  /\ \A a, w : WB!load_forward_valid(a, w, FALSE) <=> WBP!load_forward_valid(a, w, FALSE)
  /\ \A w, re : WB!write_accepted(w, re) <=> WBP!write_accepted(w, re)
  /\ (WB!empty <=> WBP!empty) /\ (WB!full <=> WBP!full)

\* In a state, and as actions.
LEMMA SameBuffer == SameState /\ \A w, re : WB!Clock(w, re) <=> WBP!Clock(w, re)
<1>1. /\ WB!Slots = WBP!Slots /\ WB!Entry = WBP!Entry
      /\ (WB!empty <=> WBP!empty) /\ (WB!full <=> WBP!full)
      /\ WB!tail_pointer = WBP!tail_pointer
      /\ \A p : WB!Succ(p) = WBP!Succ(p)
      /\ \A k : WB!SlotAt(k) = WBP!SlotAt(k)
      /\ \A i, a : WB!Holds(i, a) <=> WBP!Holds(i, a)
  BY DEF WB!Slots, WBP!Slots, WB!Entry, WBP!Entry, WB!empty, WBP!empty, WB!full, WBP!full,
     WB!tail_pointer, WBP!tail_pointer, WB!Succ, WBP!Succ, WB!SlotAt, WBP!SlotAt,
     WB!SlotFrom, WBP!SlotFrom, WB!Holds, WBP!Holds
<1>2. \A w : WB!merge_write(w) <=> WBP!merge_write(w)
  BY <1>1 DEF WB!merge_write, WBP!merge_write
<1>3. \A w, re : /\ WB!do_merge(w, re) <=> WBP!do_merge(w, re)
                 /\ WB!pop(re) <=> WBP!pop(re)
                 /\ WB!write_accepted(w, re) <=> WBP!write_accepted(w, re)
  BY <1>1, <1>2 DEF WB!do_merge, WBP!do_merge, WB!tail_being_popped, WBP!tail_being_popped,
     WB!pop, WBP!pop, WB!write_accepted, WBP!write_accepted
<1>4. \A a : WB!Ages(a) = WBP!Ages(a)
  BY <1>1 DEF WB!Ages, WBP!Ages
<1>5. ASSUME NEW a, NEW w
      PROVE  /\ WB!load_forward(a, w, FALSE) = WBP!load_forward(a, w, FALSE)
             /\ WB!load_forward_valid(a, w, FALSE) <=> WBP!load_forward_valid(a, w, FALSE)
  <2> DEFINE youngest(S) == CHOOSE k \in S : \A j \in S : j <= k
  <2>1. WB!Arriving(a, w, FALSE) <=> WBP!Arriving(a, w, FALSE)
    BY <1>3 DEF WB!Arriving, WBP!Arriving
  <2>2. youngest(WB!Ages(a)) = youngest(WBP!Ages(a))
    <3> HIDE DEF youngest
    <3> QED BY <1>4
  <2>3. /\ WB!load_forward(a, w, FALSE) = IF WB!Arriving(a, w, FALSE) THEN w.data
                                       ELSE write_buffer[WB!SlotAt(youngest(WB!Ages(a)))].data
        /\ WBP!load_forward(a, w, FALSE) = IF WBP!Arriving(a, w, FALSE) THEN w.data
                                        ELSE write_buffer[WBP!SlotAt(youngest(WBP!Ages(a)))].data
    BY DEF WB!load_forward, WBP!load_forward
  <2> HIDE DEF youngest
  <2> QED BY <1>1, <1>4, <2>1, <2>2, <2>3 DEF WB!load_forward_valid, WBP!load_forward_valid
<1>6. WB!TypeOK /\ WB!RingConsistent <=> WBP!IInv
  BY <1>1 DEF WB!TypeOK, WBP!TypeOK, WB!RingConsistent, WBP!RingConsistent, WBP!IInv
<1>7. ASSUME NEW w, NEW re PROVE WB!Clock(w, re) <=> WBP!Clock(w, re)
  <2>1. WB!Idle(w, re) <=> WBP!Idle(w, re)
    BY DEF WB!Idle, WBP!Idle
  <2>2. WB!ReadEmpty(w, re) <=> WBP!ReadEmpty(w, re)
    BY <1>1, Zenon DEF WB!ReadEmpty, WBP!ReadEmpty
  <2>3. WB!Read(w, re) <=> WBP!Read(w, re)
    BY <1>1, Zenon DEF WB!Read, WBP!Read
  <2>4. WB!PassThrough(w, re) <=> WBP!PassThrough(w, re)
    BY <1>1, <1>3, Zenon DEF WB!PassThrough, WBP!PassThrough
  <2>5. WB!Write(w, re) <=> WBP!Write(w, re)
    BY <1>1, <1>3, Zenon DEF WB!Write, WBP!Write
  <2>6. WB!WriteLost(w, re) <=> WBP!WriteLost(w, re)
    BY <1>1, <1>3, Zenon DEF WB!WriteLost, WBP!WriteLost
  <2>7. WB!Merge(w, re) <=> WBP!Merge(w, re)
    BY <1>1, <1>3, Zenon DEF WB!Merge, WBP!Merge
  <2>8. WB!ReadWrite(w, re) <=> WBP!ReadWrite(w, re)
    BY <1>1, <1>3, Zenon DEF WB!ReadWrite, WBP!ReadWrite
  <2>9. WB!ReadMerge(w, re) <=> WBP!ReadMerge(w, re)
    BY <1>1, <1>3, Zenon DEF WB!ReadMerge, WBP!ReadMerge
  <2> QED BY <2>1, <2>2, <2>3, <2>4, <2>5, <2>6, <2>7, <2>8, <2>9, Zenon DEF WB!Clock, WBP!Clock
<1> QED BY <1>1, <1>3, <1>4, <1>5, <1>6, <1>7 DEF SameState

\* In the next state.
LEMMA SameBufferNext == SameState'
<1>1. SameState
  BY SameBuffer
<1> QED BY <1>1, PTL

\* What a clock edge does to the ring, whatever the cache evicts.
LEMMA RingStep ==
  ASSUME Words, NEW dd, NEW dp, Edge(dd, dp), NEW w, w = Wires(dd, dp)
  PROVE  /\ WB!TypeOK' /\ WB!RingConsistent'
         /\ wb_out' # None <=> w.drain
         /\ dirty_writeback = None /\ ~WB!full => ~WB!full'
         /\ dirty_writeback = None /\ WB!empty => WB!empty'
         /\ \A a :
              /\ WB!write_accepted(dirty_writeback, w.drain) /\ dirty_writeback.addr = a =>
                   WB!Ages(a)' # {} /\ WB!load_forward(a, None, FALSE)' = dirty_writeback.data
              /\ ~(WB!write_accepted(dirty_writeback, w.drain) /\ dirty_writeback.addr = a) =>
                   /\ WB!Ages(a)' # {} =>
                        /\ WB!Ages(a) # {}
                        /\ WB!load_forward(a, None, FALSE)' = WB!load_forward(a, None, FALSE)
                   /\ WB!Ages(a) # {} /\ WB!Ages(a)' = {} =>
                        /\ w.drain /\ wb_out' # None /\ wb_out'.addr = a
                        /\ wb_out'.data = WB!load_forward(a, None, FALSE)
              /\ w.drain /\ wb_out'.addr = a => WB!Ages(a) # {}
<1>1. PICK d \in WBP!Entry \cup {None}, re \in BOOLEAN : d = dirty_writeback /\ re = w.drain
  <2>1. dirty_writeback \in WBP!Entry \cup {None}
    BY DEF Words, DC!TypeOK, DC!Writeback, DC!CacheAddr, DC!Index, DC!Word, WBP!Entry, CacheAddr, Word
  <2>2. w.drain \in BOOLEAN
    BY WireFields DEF drain_wb
  <2> QED BY <2>1, <2>2
<1>2. WBP!Clock(d, re) /\ WBP!IInv /\ (re => ~WBP!empty)
  BY <1>1, EdgeParts, DrainMeansRest, SameBuffer DEF Words, SameState
<1>a. ENTRIES \in Nat \ {0} /\ None \notin WBP!Entry
  BY SizesAssumption, NoneAssumption
     DEF WBP!Entry, DC!Writeback, Word, DC!Word, CacheAddr, DC!CacheAddr, DC!Index
<1>3. WBP!IInv'
  BY <1>1, <1>2, <1>a, WBP!NextInv DEF WBP!Next
<1>4. ASSUME NEW a
      PROVE
         /\ WBP!write_accepted(d, re) /\ d.addr = a =>
              WBP!Ages(a)' # {} /\ WBP!load_forward(a, None, FALSE)' = d.data
         /\ ~(WBP!write_accepted(d, re) /\ d.addr = a) =>
              /\ WBP!Ages(a)' # {} => /\ WBP!Ages(a) # {}
                                  /\ WBP!load_forward(a, None, FALSE)' = WBP!load_forward(a, None, FALSE)
              /\ WBP!Ages(a) # {} /\ WBP!Ages(a)' = {} =>
                   /\ re /\ wb_out' # None /\ wb_out'.addr = a
                   /\ wb_out'.data = WBP!load_forward(a, None, FALSE)
         /\ wb_out' # None <=> re
         /\ re /\ wb_out'.addr = a => WBP!Ages(a) # {}
         /\ d = None /\ ~WBP!full => ~WBP!full'
         /\ d = None /\ WBP!empty => WBP!empty'
  BY <1>1, <1>2, <1>3, <1>a, WBP!LatestWord
<1>5. /\ WB!TypeOK' /\ WB!RingConsistent'
      /\ (WB!empty <=> WBP!empty) /\ (WB!full <=> WBP!full)
      /\ (WB!empty <=> WBP!empty)' /\ (WB!full <=> WBP!full)'
      /\ WB!write_accepted(d, re) <=> WBP!write_accepted(d, re)
  BY <1>3, SameBuffer, SameBufferNext DEF SameState
<1>6. ASSUME NEW a
      PROVE  /\ WB!Ages(a) = WBP!Ages(a) /\ WB!Ages(a)' = WBP!Ages(a)'
             /\ WB!load_forward(a, None, FALSE) = WBP!load_forward(a, None, FALSE)
             /\ WB!load_forward(a, None, FALSE)' = WBP!load_forward(a, None, FALSE)'
  BY SameBuffer, SameBufferNext DEF SameState
<1>7. ASSUME NEW a
      PROVE
         /\ WB!write_accepted(d, re) /\ d.addr = a =>
              WB!Ages(a)' # {} /\ WB!load_forward(a, None, FALSE)' = d.data
         /\ ~(WB!write_accepted(d, re) /\ d.addr = a) =>
              /\ WB!Ages(a)' # {} => /\ WB!Ages(a) # {}
                                 /\ WB!load_forward(a, None, FALSE)' = WB!load_forward(a, None, FALSE)
              /\ WB!Ages(a) # {} /\ WB!Ages(a)' = {} =>
                   /\ re /\ wb_out' # None /\ wb_out'.addr = a
                   /\ wb_out'.data = WB!load_forward(a, None, FALSE)
         /\ re /\ wb_out'.addr = a => WB!Ages(a) # {}
  BY <1>4, <1>5, <1>6
<1>8. wb_out' # None <=> re
  BY <1>4
<1>9. /\ d = None /\ ~WB!full => ~WB!full'
      /\ d = None /\ WB!empty => WB!empty'
  BY <1>4, <1>5
<1> QED BY <1>1, <1>5, <1>7, <1>8, <1>9

\* What a load is given by the forwarding network: the word just evicted, or
\* the last one in the ring.
LEMMA ForwardedWord ==
  ASSUME Words, NEW hit, load_forward_use(hit)
  PROVE  /\ load_forward_out \in Word
         /\ IF dirty_writeback # None /\ dirty_writeback.addr = ex_mem.addr
            THEN load_forward_out = dirty_writeback.data
            ELSE /\ WB!Ages(ex_mem.addr) # {}
                 /\ load_forward_out = WB!load_forward(ex_mem.addr, None, FALSE)
<1>0. PICK a : a = ex_mem.addr
  OBVIOUS
<1>1. PICK d \in WBP!Entry \cup {None} : d = dirty_writeback
  BY DEF Words, DC!TypeOK, DC!Writeback, DC!CacheAddr, DC!Index, DC!Word, WBP!Entry, CacheAddr, Word
<1>a. ENTRIES \in Nat \ {0} /\ None \notin WBP!Entry
  BY SizesAssumption, NoneAssumption
     DEF WBP!Entry, DC!Writeback, Word, DC!Word, CacheAddr, DC!CacheAddr, DC!Index
<1>2. WBP!IInv /\ WBP!load_forward_valid(a, d, FALSE) /\ ~WB!full
  BY <1>0, <1>1, SameBuffer DEF Words, SameState, load_forward_use
<1>3. WB!write_accepted(d, FALSE) <=> d # None
  BY <1>2 DEF WB!write_accepted
<1>4. /\ WBP!load_forward(a, d, FALSE) = IF WBP!write_accepted(d, FALSE) /\ d.addr = a THEN d.data
                                         ELSE WBP!load_forward(a, None, FALSE)
      /\ WBP!load_forward(a, d, FALSE) \in Word
  BY <1>1, <1>2, <1>a, WBP!ForwardedIsWord
<1>5. load_forward_out = WBP!load_forward(a, d, FALSE)
  BY <1>0, <1>1, SameBuffer DEF SameState, load_forward_out
<1>6. WBP!write_accepted(d, FALSE) <=> d # None
  BY <1>3, SameBuffer DEF SameState
<1>7. WB!load_forward(a, None, FALSE) = WBP!load_forward(a, None, FALSE) /\ WB!Ages(a) = WBP!Ages(a)
  BY SameBuffer DEF SameState
<1>8. ~(d # None /\ d.addr = a) => WBP!Ages(a) # {}
  BY <1>2, <1>6 DEF WBP!load_forward_valid, WBP!Arriving
<1> QED BY <1>0, <1>1, <1>4, <1>5, <1>6, <1>7, <1>8

-----------------------------------------------------------------------------
(* The cache: which of its blocks a clock edge is                          *)

\* While the cache is flushed after reset or walked by FENCE.I there is no
\* access; otherwise the access in MEM, or its absence, decides.
LEMMA CacheStep ==
  ASSUME Inv, NEW dd, NEW dp, Edge(dd, dp), NEW w, w = Wires(dd, dp),
         NEW in, in = CacheInputs(w)
  PROVE  /\ DC!ReadMetadata(in)
         /\ \/ DC!flush_running /\ ex_mem = None /\ DC!Flush(in)
            \/ /\ ~DC!flush_running /\ DC!Maintained(in) /\ id_ex = None /\ ex_mem = None
               /\ ~request_refill
               /\ DC!CleanStep(in) \/ DC!CleanEmit(in)
            \/ /\ DC!Normal(in) /\ ~DC!clean_active /\ data_cache_refill_complete
               /\ mem_access /\ ~data_uncacheable_mem /\ request_refill
               /\ ~w.hit /\ ~w.forward /\ in.data_in = mem_rdata
               /\ DC!RefillComplete(in)
            \/ /\ DC!Normal(in) /\ ~DC!clean_active /\ ~data_cache_refill_complete
               /\ ~data_cache_cs /\ ~w.hit /\ ~w.forward
               /\ DC!NoAccess(in)
            \/ /\ DC!Normal(in) /\ ~DC!clean_active /\ ~data_cache_refill_complete
               /\ data_cache_cs /\ w.hit /\ ~w.forward /\ ex_mem_is_store
               /\ in.data_in = ex_mem.data /\ in.strb = ex_mem.strb
               /\ DC!HitWrite(in)
            \/ /\ DC!Normal(in) /\ ~DC!clean_active /\ ~data_cache_refill_complete
               /\ data_cache_cs /\ w.hit /\ ~w.forward /\ ex_mem_is_load
               /\ DC!HitRead(in)
            \/ /\ DC!Normal(in) /\ ~DC!clean_active /\ ~data_cache_refill_complete
               /\ data_cache_cs /\ ~w.hit /\ w.forward /\ ex_mem_is_load /\ ~ex_mem_is_store
               /\ ~request_refill /\ ~WB!full
               /\ in.data_in = load_forward_out
               /\ DC!MissForward(in)
            \/ /\ DC!Normal(in) /\ ~DC!clean_active /\ ~data_cache_refill_complete
               /\ data_cache_cs /\ ~w.hit /\ ~w.forward
               /\ ~request_refill /\ ~WB!full
               /\ in.wen = ex_mem_is_store /\ in.data_in = ex_mem.data
               /\ DC!MissRefill(in)
            \/ /\ DC!Normal(in) /\ ~DC!clean_active /\ ~data_cache_refill_complete
               /\ data_cache_cs /\ ~w.hit /\ ~w.forward
               /\ request_refill \/ WB!full
               /\ DC!MissWait(in)
<1>i. Shapes /\ Bus /\ Alone /\ Refilling
  BY DEF Inv
<1>k. DC!Clock(in)
  BY EdgeParts
<1>w. /\ w.hit = data_cache_hit_comb
      /\ w.forward = load_forward_use(w.hit)
  BY WireFields
<1>1. /\ in.clean_req <=> fence_i_state \in {"CLEAN", "WRITEBACK"}
      /\ in.cs <=> data_cache_cs
      /\ in.wen <=> ex_mem_is_store \/ w.forward
      /\ in.strb = IF ex_mem_is_store THEN ex_mem.strb ELSE Lanes
      /\ in.full <=> WB!full
      /\ in.forward <=> w.forward
      /\ in.refill_complete <=> data_cache_refill_complete
      /\ in.data_in = IF w.forward THEN load_forward_out
                      ELSE IF data_cache_refill_complete THEN mem_rdata
                      ELSE IF ex_mem # None THEN ex_mem.data ELSE None
  BY DEF CacheInputs
<1>2. /\ data_cache_cs => mem_access /\ ~cpu_op /\ ~data_uncacheable_mem
      /\ mem_access => ex_mem # None
      /\ mem_access <=> ex_mem_is_load \/ ex_mem_is_store
      /\ ~(ex_mem_is_load /\ ex_mem_is_store)
  BY <1>i, Cacheable DEF mem_access, ex_mem_is_load, ex_mem_is_store, InMem
<1>3. data_cache_refill_complete => /\ mem_access /\ ~data_uncacheable_mem /\ ~data_cache_cs
                                    /\ request_refill
  BY <1>i DEF Bus, data_cache_refill_complete, data_cache_cs, cpu_op
<1>4. ex_mem # None => ~DC!flush_running /\ ~DC!Maintained(in)
  BY <1>i, <1>1 DEF Alone, Shapes, DC!Maintained, DC!clean_active
<1>5. DC!Maintained(in) => fence_i_state \in {"CLEAN", "WRITEBACK", "FINISH"}
  BY <1>i, <1>1 DEF Alone, Shapes, DC!Maintained, DC!clean_active
<1>6. ~DC!Maintained(in) => ~DC!clean_active
  BY DEF DC!Maintained
<1>7. /\ w.hit => data_cache_cs /\ ~w.forward
      /\ w.forward => data_cache_cs /\ ex_mem_is_load /\ ~WB!full
      /\ w.hit <=> DC!cache_hit_comb(in.cs)
  BY <1>w, <1>1 DEF data_cache_hit_comb, DC!cache_hit_comb, load_forward_use
<1>8. w.forward => ~request_refill
  <2>1. w.forward => Evicted(ex_mem.addr)
    BY <1>w DEF load_forward_use, WB!load_forward_valid, WB!Arriving, Evicted, WB!write_accepted
  <2> QED BY <2>1, <1>7, <1>i DEF Refilling
<1>9. DC!ReadMetadata(in)
  BY <1>k DEF DC!Clock
<1>10. CASE DC!Flush(in)
  BY <1>10, <1>9, <1>4 DEF DC!Flush
<1>11. CASE DC!CleanStep(in) \/ DC!CleanEmit(in)
  <2>1. ~DC!flush_running /\ DC!Maintained(in)
    BY <1>11 DEF DC!CleanStep, DC!CleanEmit, DC!Maintained, DC!clean_active
  <2>2. id_ex = None /\ ex_mem = None
    BY <2>1, <1>5, <1>i DEF Alone
  <2>3. ~request_refill
    BY <2>2, <1>2, <1>i DEF Refilling
  <2> QED BY <2>1, <2>2, <2>3, <1>11, <1>9
<1>12. CASE DC!RefillComplete(in)
  <2>1. DC!Normal(in) /\ data_cache_refill_complete
    BY <1>12, <1>1 DEF DC!RefillComplete
  <2> QED BY <2>1, <1>12, <1>9, <1>1, <1>3, <1>6, <1>7 DEF DC!Normal
<1>13. CASE DC!NoAccess(in)
  <2>1. DC!Normal(in) /\ ~data_cache_refill_complete /\ ~data_cache_cs
    BY <1>13, <1>1 DEF DC!NoAccess
  <2> QED BY <2>1, <1>13, <1>9, <1>6, <1>7 DEF DC!Normal
<1>14. CASE DC!HitWrite(in) \/ DC!HitRead(in)
  <2>1. /\ DC!Normal(in) /\ ~data_cache_refill_complete /\ data_cache_cs /\ w.hit
        /\ DC!HitWrite(in) => in.wen
        /\ DC!HitRead(in) => ~in.wen
    BY <1>14, <1>1, <1>7 DEF DC!HitWrite, DC!HitRead, DC!Access
  <2> QED BY <2>1, <1>14, <1>9, <1>1, <1>2, <1>6, <1>7 DEF DC!Normal
<1>15. CASE DC!MissForward(in)
  <2>1. /\ DC!Normal(in) /\ ~data_cache_refill_complete /\ data_cache_cs /\ ~w.hit /\ w.forward
        /\ ~request_refill /\ ~WB!full
    BY <1>15, <1>1, <1>7 DEF DC!MissForward, DC!Miss, DC!Access
  <2> QED BY <2>1, <1>15, <1>9, <1>1, <1>2, <1>6, <1>7 DEF DC!Normal
<1>16. CASE DC!MissRefill(in)
  <2>1. /\ DC!Normal(in) /\ ~data_cache_refill_complete /\ data_cache_cs /\ ~w.hit /\ ~w.forward
        /\ ~request_refill /\ ~WB!full
    BY <1>16, <1>1, <1>7 DEF DC!MissRefill, DC!Miss, DC!Access
  <2>2. in.data_in = ex_mem.data /\ (in.wen <=> ex_mem_is_store)
    BY <2>1, <1>1, <1>2
  <2>3. in.wen = ex_mem_is_store
    <3>1. in.wen = (ex_mem_is_store \/ w.forward)
      BY DEF CacheInputs
    <3> QED BY <2>1, <3>1 DEF ex_mem_is_store, InMem
  <2> QED BY <2>1, <2>2, <2>3, <1>16, <1>9, <1>6 DEF DC!Normal
<1>17. CASE DC!MissWait(in)
  <2>1. /\ DC!Normal(in) /\ ~data_cache_refill_complete /\ data_cache_cs /\ ~w.hit
        /\ request_refill \/ WB!full
    BY <1>17, <1>1, <1>7 DEF DC!MissWait, DC!Access
  <2> QED BY <2>1, <1>17, <1>9, <1>6, <1>7, <1>8 DEF DC!Normal
<1> QED BY <1>k, <1>10, <1>11, <1>12, <1>13, <1>14, <1>15, <1>16, <1>17 DEF DC!Clock

-----------------------------------------------------------------------------
(* The parts that hold words                                               *)

\* What the cache is driven with has the type of its ports.
LEMMA CacheInputsTyped ==
  ASSUME Inv, NEW dd, NEW dp, NEW w, w = Wires(dd, dp), NEW in, in = CacheInputs(w)
  PROVE  /\ in.addr \in CacheAddr
         /\ data_cache_refill_complete =>
              /\ mem_rdata \in Word /\ mem_rdata = memory[ex_mem.addr]
              /\ refill \in DC!Refill /\ refill.wen = ex_mem_is_store
              /\ refill.wen => refill.data \in Word
         /\ ex_mem_is_store => ex_mem.data \in Word
<1>i. Shapes /\ Bus /\ Words /\ Refilling
  BY DEF Inv
<1>1. in.addr \in CacheAddr
  <2>1. in.addr = IF amo_calc THEN ex_mem.addr ELSE IF ReadsMetadata THEN id_ex.addr ELSE data_addr_q
    BY DEF CacheInputs
  <2>2. data_addr_q \in CacheAddr
    BY <1>i DEF Words, DC!TypeOK, DC!CacheAddr, CacheAddr, DC!Index
  <2>3. amo_calc => ex_mem.addr \in CacheAddr
    BY <1>i, Cacheable DEF amo_calc, InMem
  <2>4. ReadsMetadata => id_ex.addr \in CacheAddr
    BY <1>i, AccessFromEx DEF ReadsMetadata, DataAddr
  <2> QED BY <2>1, <2>2, <2>3, <2>4
<1>2. ex_mem_is_store => ex_mem.data \in Word
  BY <1>i DEF Shapes, MemInstr, ex_mem_is_store, InMem
<1>3. ASSUME data_cache_refill_complete
      PROVE  /\ mem_rdata \in Word /\ mem_rdata = memory[ex_mem.addr]
             /\ refill \in DC!Refill /\ refill.wen = ex_mem_is_store
             /\ refill.wen => refill.data \in Word
  <2>1. mem_op = "refill" /\ mem_ready /\ request_refill /\ mem_access /\ ~data_uncacheable_mem
    BY <1>3, <1>i DEF data_cache_refill_complete, Bus, cpu_op
  <2>2. ex_mem.addr \in CacheAddr /\ ex_mem.addr \in BusAddr
    BY <2>1, <1>i, Cacheable DEF BusAddr, DataAddr
  <2>3. captured = BusRead(ex_mem.addr)
    <3>1. mem_op # None
      BY <2>1, NoneAssumption
    <3> QED BY <2>1, <1>i, <3>1 DEF Bus, OnBus, mem_op_pending, Requested, cpu_op
  <2>4. mem_rdata = memory[ex_mem.addr] /\ mem_rdata \in Word
    BY <2>1, <2>2, <2>3, <1>i DEF Words, BusRead
  <2>5. refill = [idx |-> ex_mem.addr.idx, tag |-> ex_mem.addr.tag,
                  set |-> DC!set_to_write_on_miss, wen |-> ex_mem_is_store,
                  data |-> IF ex_mem_is_store THEN ex_mem.data ELSE None]
    BY <2>1, <1>i DEF Refilling
  <2>6. ex_mem_is_store \in BOOLEAN /\ DC!set_to_write_on_miss \in DC!Way
    BY DEF ex_mem_is_store, InMem, DC!set_to_write_on_miss, DC!Way
  <2>7. refill \in DC!Refill
    BY <2>2, <2>5, <2>6, <1>2 DEF CacheAddr, DC!Refill, DC!Index, DC!Word, Word
  <2>8. refill.wen = ex_mem_is_store /\ (refill.wen => refill.data \in Word)
    BY <2>5, <1>2
  <2> QED BY <2>4, <2>7, <2>8
<1> QED BY <1>1, <1>2, <1>3

\* What the cache latches of a set is metadata.
LEMMA MetadataTyped ==
  ASSUME Inv, NEW dd, NEW dp, NEW w, w = Wires(dd, dp), NEW in, in = CacheInputs(w),
         DC!ReadMetadata(in)
  PROVE  meta' \in [DC!Way -> DC!Meta] /\ data_addr_q' \in DC!CacheAddr
<1>1. /\ line \in [DC!Index -> [DC!Way -> DC!Line]] /\ meta \in [DC!Way -> DC!Meta]
      /\ data_addr_q \in DC!CacheAddr /\ clean_index \in DC!Index
  BY DEF Inv, Words, DC!TypeOK
<1>2. in.addr \in DC!CacheAddr
  BY CacheInputsTyped DEF CacheAddr, DC!CacheAddr, DC!Index
<1>3. in.refill_complete => refill \in DC!Refill
  BY CacheInputsTyped DEF CacheInputs
<1>4. ASSUME NEW v \in DC!Way PROVE DC!Bypassed(in, v) \in DC!Meta
  <2>1. DC!index_addr(in) \in DC!Index
    BY <1>1, <1>2 DEF DC!index_addr, DC!CacheAddr
  <2>2. line[DC!index_addr(in)][v] \in DC!Line
    BY <2>1, <1>1
  <2>3. DC!refill_to_same_index(in, v) => refill \in DC!Refill
    BY <1>3 DEF DC!refill_to_same_index
  <2>4. /\ DC!refill_to_same_index(in, v) \in BOOLEAN
        /\ DC!wbfwd_to_same_index(in, v) \in BOOLEAN
        /\ DC!hit_write_to_same_index(in, v) \in BOOLEAN
    BY DEF DC!refill_to_same_index, DC!wbfwd_to_same_index, DC!hit_write_to_same_index
  <2> DEFINE l == line[DC!index_addr(in)][v]
             filled == DC!refill_to_same_index(in, v)
             forwarded == DC!wbfwd_to_same_index(in, v)
             written == DC!hit_write_to_same_index(in, v)
             tag == IF filled THEN refill.tag ELSE IF forwarded THEN data_addr_q.tag ELSE l.tag
             valid == filled \/ forwarded \/ l.valid
             dirty == IF filled THEN refill.wen ELSE forwarded \/ written \/ l.dirty
             lru == IF filled \/ DC!refill_to_same_index(in, DC!Other(v)) THEN ~filled
                    ELSE IF forwarded \/ DC!wbfwd_to_same_index(in, DC!Other(v)) THEN ~forwarded
                    ELSE IF written \/ DC!hit_write_to_same_index(in, DC!Other(v)) THEN ~written
                    ELSE l.lru
  <2>5. tag \in Tags
    BY <1>1, <2>2, <2>3 DEF DC!Line, DC!Refill, DC!CacheAddr
  <2>6. valid \in BOOLEAN
    BY <2>2, <2>4 DEF DC!Line
  <2>7. dirty \in BOOLEAN
    BY <2>2, <2>3, <2>4 DEF DC!Line, DC!Refill
  <2>8. lru \in BOOLEAN
    BY <2>2, <2>4 DEF DC!Line
  <2>9. DC!Bypassed(in, v) = [tag |-> tag, valid |-> valid, dirty |-> dirty, lru |-> lru]
    BY DEF DC!Bypassed
  <2> HIDE DEF tag, valid, dirty, lru
  <2> QED BY <2>5, <2>6, <2>7, <2>8, <2>9 DEF DC!Meta
<1>5. meta' \in [DC!Way -> DC!Meta]
  BY <1>1, <1>4 DEF DC!ReadMetadata
<1>6. data_addr_q' \in DC!CacheAddr
  BY <1>1, <1>2 DEF DC!ReadMetadata, DC!CacheAddr
<1> QED BY <1>5, <1>6

\* Lines stay lines when one is written.
LEMMA InstallTyped ==
  ASSUME line \in [DC!Index -> [DC!Way -> DC!Line]], NEW i \in DC!Index, NEW v \in DC!Way, NEW new \in DC!Line
  PROVE  DC!Install(i, v, new) \in [DC!Index -> [DC!Way -> DC!Line]]
<1>1. ASSUME NEW u \in DC!Way PROVE [line[i][u] EXCEPT !.lru = TRUE] \in DC!Line
  <2>1. line[i][u] \in DC!Line
    OBVIOUS
  <2> QED BY <2>1 DEF DC!Line
<1>2. [u \in DC!Way |-> IF u = v THEN new ELSE [line[i][u] EXCEPT !.lru = TRUE]] \in [DC!Way -> DC!Line]
  BY <1>1
<1> QED BY <1>2 DEF DC!Install

\* Some lanes of a word over another are a word.
LEMMA MergedTyped ==
  ASSUME NEW old \in Word, NEW new \in Word, NEW strb
  PROVE  DC!Merged(old, new, strb) \in Word /\ BP!Merged(old, new, strb) \in Word
BY DEF Word, DC!Merged, BP!Merged

\* Every block of the cache writes what its arrays and registers can hold.
LEMMA CacheTyped ==
  ASSUME Inv, NEW dd, NEW dp, Edge(dd, dp)
  PROVE  DC!TypeOK'
<1> DEFINE w == Wires(dd, dp)
           in == CacheInputs(w)
<1>i. Shapes /\ Bus /\ Words /\ Refilling
  BY DEF Inv
<1>t. /\ line \in [DC!Index -> [DC!Way -> DC!Line]]
      /\ meta \in [DC!Way -> DC!Meta]
      /\ data_addr_q \in DC!CacheAddr /\ data_addr_q.idx \in DC!Index /\ data_addr_q.tag \in Tags
      /\ request_refill \in BOOLEAN
      /\ refill \in DC!Refill \cup {None}
      /\ flush_cnt \in 0 .. CACHE_DEPTH
      /\ clean_state \in {"IDLE", "READ", "EMIT", "WAIT", "DONE"}
      /\ clean_index \in DC!Index
      /\ clean_way \in DC!Way
  BY <1>i DEF Words, DC!TypeOK, DC!CacheAddr
<1>m. meta' \in [DC!Way -> DC!Meta] /\ data_addr_q' \in DC!CacheAddr
  BY CacheStep, MetadataTyped
<1>w. DC!set_to_write_on_miss \in DC!Way /\ DC!set_to_write_on_hit \in DC!Way
  BY DEF DC!set_to_write_on_miss, DC!set_to_write_on_hit, DC!Way
<1>d. \A i \in DC!Index, v \in DC!Way : line[i][v] \in DC!Line /\ line[i][v].data \in Word
  BY <1>t DEF DC!Line, DC!Word, Word
<1>a. /\ data_cache_refill_complete =>
           /\ mem_rdata \in Word /\ refill \in DC!Refill
           /\ refill.wen => refill.data \in Word
      /\ ex_mem_is_store => ex_mem.data \in Word
  BY CacheInputsTyped
<1> DEFINE Rest == /\ request_refill' \in BOOLEAN
                   /\ refill' \in DC!Refill \cup {None}
                   /\ data_out' \in Word \cup {None}
                   /\ dirty_writeback' \in DC!Writeback \cup {None}
                   /\ flush_cnt' \in 0 .. CACHE_DEPTH
                   /\ clean_state' \in {"IDLE", "READ", "EMIT", "WAIT", "DONE"}
                   /\ clean_index' \in DC!Index
                   /\ clean_way' \in DC!Way
<1>v. DC!Victim \in DC!Writeback \cup {None}
  <2>1. meta[DC!set_to_write_on_miss] \in DC!Meta
    BY <1>t, <1>w
  <2> QED BY <2>1, <1>t, <1>d, <1>w DEF DC!Victim, DC!index_addr_q, DC!Writeback, DC!CacheAddr, DC!Meta, DC!Word, Word
<1>1. CASE DC!Flush(in)
  <2>1. flush_cnt \in DC!Index /\ flush_cnt + 1 \in 0 .. CACHE_DEPTH
    <3>1. flush_cnt < CACHE_DEPTH
      BY <1>1 DEF DC!Flush, DC!flush_running
    <3> QED BY <3>1, <1>t, SizesAssumption DEF DC!Index
  <2>2. ASSUME NEW v \in DC!Way
        PROVE  [line[flush_cnt][v] EXCEPT !.valid = FALSE, !.dirty = FALSE, !.lru = FALSE] \in DC!Line
    <3>1. line[flush_cnt][v] \in DC!Line
      BY <2>1, <1>d
    <3> QED BY <3>1 DEF DC!Line
  <2>3. line' \in [DC!Index -> [DC!Way -> DC!Line]]
    BY <1>1, <1>t, <2>1, <2>2 DEF DC!Flush
  <2>4. Rest
    BY <1>1, <1>t, <2>1 DEF DC!Flush
  <2> QED BY <2>3, <2>4, <1>m DEF DC!TypeOK, Word, DC!Word
<1>2. CASE DC!CleanStep(in)
  <2>1. clean_index + clean_way \in DC!Index \/ DC!last_way
    BY <1>t, SizesAssumption DEF DC!Index, DC!Way, DC!last_way
  <2>2. 0 \in DC!Index /\ 0 \in DC!Way /\ DC!Other(clean_way) \in DC!Way
    BY <1>t, SizesAssumption DEF DC!Index, DC!Way, DC!Other
  <2>3. Rest /\ line' = line
    BY <1>2, <1>t, <2>1, <2>2 DEF DC!CleanStep
  <2> QED BY <2>3, <1>t, <1>m DEF DC!TypeOK, Word, DC!Word
<1>3. CASE DC!CleanEmit(in)
  <2>1. [line[data_addr_q.idx][clean_way] EXCEPT !.dirty = FALSE] \in DC!Line
    <3>1. line[data_addr_q.idx][clean_way] \in DC!Line
      BY <1>t
    <3> QED BY <3>1 DEF DC!Line
  <2>2. [line[data_addr_q.idx] EXCEPT ![clean_way].dirty = FALSE] \in [DC!Way -> DC!Line]
    BY <1>t, <2>1
  <2>5. line' \in [DC!Index -> [DC!Way -> DC!Line]]
    <3>1. CASE WB!full
      <4>1. line' = line
        BY <1>3, <3>1 DEF DC!CleanEmit, CacheInputs
      <4> QED BY <4>1, <1>t
    <3>2. CASE ~WB!full
      <4>1. line' = [line EXCEPT ![data_addr_q.idx][clean_way].dirty = FALSE]
        BY <1>3, <3>2 DEF DC!CleanEmit, DC!index_addr_q, CacheInputs
      <4>2. line' = [line EXCEPT ![data_addr_q.idx] = [line[data_addr_q.idx] EXCEPT ![clean_way].dirty = FALSE]]
        BY <4>1
      <4> QED BY <4>2, <2>2, <1>t
    <3> QED BY <3>1, <3>2
  <2>3. dirty_writeback' \in DC!Writeback \cup {None}
    <3>1. meta[clean_way].tag \in Tags
      BY <1>t DEF DC!Meta
    <3>2. line[data_addr_q.idx][clean_way].data \in Word
      BY <1>t, <1>d
    <3> QED BY <1>3, <1>t, <3>1, <3>2 DEF DC!CleanEmit, DC!index_addr_q, DC!Writeback, DC!CacheAddr, DC!Word, Word
  <2>4. Rest
    BY <1>3, <1>t, <2>3 DEF DC!CleanEmit
  <2> QED BY <2>5, <2>4, <1>m DEF DC!TypeOK, Word, DC!Word
<1>4. CASE DC!RefillComplete(in) /\ data_cache_refill_complete /\ in.data_in = mem_rdata
  <2> DEFINE word == IF refill.wen THEN DC!Merged(in.data_in, refill.data, in.strb) ELSE in.data_in
             new == [tag |-> refill.tag, valid |-> TRUE, dirty |-> refill.wen, lru |-> FALSE, data |-> word]
  <2>1. word \in Word
    BY <1>4, <1>a, MergedTyped
  <2>2. refill.tag \in Tags /\ refill.wen \in BOOLEAN /\ refill.idx \in DC!Index /\ refill.set \in DC!Way
    BY <1>4, <1>a DEF DC!Refill
  <2>3. line' = DC!Install(refill.idx, refill.set, new)
    BY <1>4 DEF DC!RefillComplete
  <2>4. new \in DC!Line
    <3> HIDE DEF word
    <3> QED BY <2>1, <2>2 DEF DC!Line, Word, DC!Word
  <2> HIDE DEF new
  <2>5. line' \in [DC!Index -> [DC!Way -> DC!Line]]
    BY <2>2, <2>3, <2>4, <1>t, InstallTyped
  <2>6. Rest
    BY <1>4, <1>t DEF DC!RefillComplete, DC!maintenance
  <2> QED BY <2>5, <2>6, <1>m DEF DC!TypeOK, Word, DC!Word
<1>5. CASE DC!NoAccess(in) \/ DC!MissWait(in)
  <2>1. Rest /\ line' = line
    BY <1>5, <1>t DEF DC!NoAccess, DC!MissWait, DC!maintenance
  <2> QED BY <2>1, <1>t, <1>m DEF DC!TypeOK, Word, DC!Word
<1>6. CASE DC!HitWrite(in) /\ ex_mem_is_store /\ in.data_in = ex_mem.data
  <2> DEFINE word == DC!Merged(line[data_addr_q.idx][DC!set_to_write_on_hit].data, in.data_in, in.strb)
             new == [tag |-> data_addr_q.tag, valid |-> TRUE, dirty |-> TRUE, lru |-> FALSE, data |-> word]
  <2>1. word \in Word
    BY <1>6, <1>a, <1>t, <1>d, <1>w, MergedTyped
  <2>2. line' = DC!Install(data_addr_q.idx, DC!set_to_write_on_hit, new)
    BY <1>6 DEF DC!HitWrite, DC!index_addr_q
  <2>3. new \in DC!Line
    <3> HIDE DEF word
    <3> QED BY <2>1, <1>t DEF DC!Line, Word, DC!Word
  <2> HIDE DEF new
  <2>4. line' \in [DC!Index -> [DC!Way -> DC!Line]]
    BY <2>2, <2>3, <1>t, <1>w, InstallTyped
  <2>5. Rest
    BY <1>6, <1>t DEF DC!HitWrite, DC!maintenance
  <2> QED BY <2>4, <2>5, <1>m DEF DC!TypeOK, Word, DC!Word
<1>7. CASE DC!HitRead(in)
  <2>1. data_out' \in Word
    BY <1>7, <1>t, <1>d, <1>w DEF DC!HitRead, DC!index_addr_q
  <2>2. Rest /\ line' = line
    BY <1>7, <1>t, <2>1 DEF DC!HitRead, DC!maintenance
  <2> QED BY <2>2, <1>t, <1>m DEF DC!TypeOK, Word, DC!Word
<1>8. CASE DC!MissForward(in) /\ w.forward /\ in.data_in = load_forward_out
  <2> DEFINE new == [tag |-> data_addr_q.tag, valid |-> TRUE, dirty |-> TRUE, lru |-> FALSE, data |-> in.data_in]
  <2>1. in.data_in \in Word
    <3>1. w.forward = load_forward_use(w.hit)
      BY WireFields
    <3> QED BY <3>1, <1>8, <1>i, ForwardedWord
  <2>2. line' = DC!Install(data_addr_q.idx, DC!set_to_write_on_miss, new)
    BY <1>8 DEF DC!MissForward, DC!index_addr_q
  <2>3. new \in DC!Line
    BY <2>1, <1>t DEF DC!Line, Word, DC!Word
  <2> HIDE DEF new
  <2>4. line' \in [DC!Index -> [DC!Way -> DC!Line]]
    BY <2>2, <2>3, <1>t, <1>w, InstallTyped
  <2>5. Rest
    BY <1>8, <1>t, <1>v DEF DC!MissForward, DC!maintenance
  <2> QED BY <2>4, <2>5, <1>m DEF DC!TypeOK, Word, DC!Word
<1>9. CASE DC!MissRefill(in) /\ in.wen = ex_mem_is_store /\ in.data_in = ex_mem.data
  <2>1. in.wen \in BOOLEAN /\ (in.wen => in.data_in \in Word)
    BY <1>9, <1>a DEF ex_mem_is_store, InMem
  <2>2. refill' \in DC!Refill
    <3>1. refill' = [idx |-> data_addr_q.idx, tag |-> data_addr_q.tag,
                     set |-> DC!set_to_write_on_miss, wen |-> in.wen,
                     data |-> IF in.wen THEN in.data_in ELSE None]
      BY <1>9 DEF DC!MissRefill, DC!index_addr_q
    <3> HIDE DEF in
    <3> QED BY <3>1, <2>1, <1>t, <1>w DEF DC!Refill, DC!Word, Word
  <2>3. Rest /\ line' = line
    BY <1>9, <1>t, <1>v, <2>2 DEF DC!MissRefill, DC!maintenance
  <2> QED BY <2>3, <1>t, <1>m DEF DC!TypeOK, Word, DC!Word
<1>10. \/ DC!Flush(in) \/ DC!CleanStep(in) \/ DC!CleanEmit(in)
       \/ DC!RefillComplete(in) /\ data_cache_refill_complete /\ in.data_in = mem_rdata
       \/ DC!NoAccess(in) \/ DC!MissWait(in)
       \/ DC!HitWrite(in) /\ ex_mem_is_store /\ in.data_in = ex_mem.data
       \/ DC!HitRead(in)
       \/ DC!MissForward(in) /\ w.forward /\ in.data_in = load_forward_out
       \/ DC!MissRefill(in) /\ in.wen = ex_mem_is_store /\ in.data_in = ex_mem.data
  <2> HIDE DEF w, in
  <2>1. w = Wires(dd, dp) /\ in = CacheInputs(w)
    BY DEF w, in
  <2> QED BY <2>1, CacheStep
<1> QED BY <1>1, <1>2, <1>3, <1>4, <1>5, <1>6, <1>7, <1>8, <1>9, <1>10

\* The word that an AMO stores.
AmoResult == [l \in Lanes |-> AmoOp(amo_a[l], ex_mem.data[l])]

\* An AMO in MEM changes its kind and, once, its word.
LEMMA AmoNext ==
  ASSUME Shapes, Bus, Retire, NEW dd, NEW dp, NEW w, w = Wires(dd, dp), Execute(w)
  PROVE  /\ amo_calc =>
              ex_mem' = [kind |-> "amo_store", addr |-> ex_mem.addr, data |-> AmoResult, strb |-> ex_mem.strb]
         /\ InMem({"amo_load"}) /\ Served(w) =>
              ex_mem' = [kind |-> "amo_calc", addr |-> ex_mem.addr, data |-> ex_mem.data, strb |-> ex_mem.strb]
<1>1. amo_calc \/ InMem({"amo_load"}) => ex_mem \in MemInstr
  BY DEF Shapes, amo_calc, InMem
<1>2. ASSUME amo_calc
      PROVE  ex_mem' = [kind |-> "amo_store", addr |-> ex_mem.addr, data |-> AmoResult, strb |-> ex_mem.strb]
  <2>1. ex_mem' = [ex_mem EXCEPT !.kind = "amo_store", !.data = [l \in Lanes |-> AmoOp(amo_a[l], @[l])]]
    BY <1>2, ExMemNext
  <2>2. ex_mem' = [ex_mem EXCEPT !.kind = "amo_store", !.data = [l \in Lanes |-> AmoOp(amo_a[l], ex_mem.data[l])]]
    BY <2>1, <1>1, <1>2 DEF MemInstr
  <2>3. ex_mem' = [ex_mem EXCEPT !.kind = "amo_store", !.data = AmoResult]
    BY <2>2 DEF AmoResult
  <2> QED BY <2>3, <1>1, <1>2 DEF MemInstr
<1>3. ASSUME InMem({"amo_load"}), Served(w)
      PROVE  ex_mem' = [kind |-> "amo_calc", addr |-> ex_mem.addr, data |-> ex_mem.data, strb |-> ex_mem.strb]
  <2>1. ex_mem' = [ex_mem EXCEPT !.kind = "amo_calc"]
    BY <1>3, ExMemNext
  <2> QED BY <2>1, <1>1, <1>3 DEF MemInstr
<1> QED BY <1>2, <1>3

\* A word to compute with is there when an AMO has loaded it.
LEMMA AmoCalcFrom ==
  ASSUME Shapes, Bus, Retire, NEW dd, NEW dp, NEW w, w = Wires(dd, dp), Execute(w), amo_calc'
  PROVE  InMem({"amo_load"}) /\ Served(w)
<1>1. amo_calc => ~amo_calc'
  BY AmoNext DEF amo_calc, InMem
<1>2. mem_access /\ ~Served(w) => ~amo_calc'
  BY ExMemNext DEF amo_calc, InMem, mem_access, ex_mem_is_load, ex_mem_is_store
<1>3. ~w.ex_stall => ~amo_calc'
  <2>1. InEx({"amo"}) => InEx(Accesses) /\ id_ex.kind = "amo"
    BY DEF InEx, Accesses
  <2>2. InEx(Accesses) => id_ex.kind # "amo_calc" /\ [id_ex EXCEPT !.kind = "amo_load"].kind # "amo_calc"
    BY AccessFromEx
  <2> QED BY <2>1, <2>2, ExMemNext DEF amo_calc, InMem
<1>4. ex_mem = None => ~amo_calc'
  BY <1>3, ExMemNext DEF amo_calc, InMem
<1>5. mem_access /\ Served(w) /\ ~InMem({"amo_load"}) => ~w.ex_stall
  BY ServedLeaves
<1>6. mem_access <=> ex_mem # None /\ ~amo_calc
  BY Cacheable
<1> QED BY <1>1, <1>2, <1>3, <1>4, <1>5, <1>6

\* A load that hits reads the line.
LEMMA CacheHits ==
  ASSUME Inv, NEW dd, NEW dp, Edge(dd, dp), NEW w, w = Wires(dd, dp), w.hit, ex_mem_is_load
  PROVE  /\ data_out' = line[data_addr_q.idx][DC!set_to_write_on_hit].data
         /\ data_out' \in Word
<1> DEFINE in == CacheInputs(w)
<1>1. DC!HitRead(in)
  <2>1. ~(ex_mem_is_load /\ ex_mem_is_store)
    BY DEF ex_mem_is_load, ex_mem_is_store, InMem
  <2>2. w.hit => data_cache_cs /\ ~DC!flush_running
    BY WireFields DEF data_cache_hit_comb, DC!cache_hit_comb
  <2>3. data_cache_cs => ex_mem # None /\ ~data_cache_refill_complete
    BY Cacheable DEF Inv, data_cache_refill_complete, data_cache_cs, cpu_op
  <2> HIDE DEF in
  <2>4. in = CacheInputs(w)
    BY DEF in
  <2> QED BY <2>1, <2>2, <2>3, <2>4, CacheStep
<1>2. data_out' = line[data_addr_q.idx][DC!set_to_write_on_hit].data
  BY <1>1 DEF DC!HitRead, DC!index_addr_q
<1>3. /\ data_addr_q.idx \in DC!Index /\ DC!set_to_write_on_hit \in DC!Way
      /\ line \in [DC!Index -> [DC!Way -> DC!Line]]
  BY DEF Inv, Words, DC!TypeOK, DC!CacheAddr, DC!set_to_write_on_hit, DC!Way
<1>4. line[data_addr_q.idx][DC!set_to_write_on_hit] \in DC!Line
  BY <1>3
<1> QED BY <1>2, <1>4 DEF DC!Line, DC!Word, Word

\* The word that a write on the bus carries.
LEMMA WordOnBus ==
  ASSUME Shapes, Bus, OnBus, captured.wen
  PROVE  /\ captured.addr \in DataAddr /\ captured.data \in Word
         /\ \/ /\ mem_op = "write_buffer" /\ captured.addr = write_r.addr /\ captured.data = write_r.data
               /\ captured.strb = Lanes
            \/ /\ mem_op = "uncached" /\ ex_mem_is_store /\ captured.addr = ex_mem.addr
               /\ captured.data = ex_mem.data /\ captured.strb = ex_mem.strb
<1>1. mem_op_pending /\ captured = Requested
  BY DEF Bus
<1>2. \/ mem_op = "write_buffer"
      \/ mem_op = "uncached" /\ ex_mem_is_store
  BY <1>1, RequestFacts
<1>3. CASE mem_op = "write_buffer"
  <2>1. /\ captured = [wen |-> TRUE, addr |-> write_r.addr, data |-> write_r.data, strb |-> write_r.strb]
        /\ write_r \in WriteReg /\ write_r.strb = Lanes
    BY <1>1, <1>3 DEF Requested, Bus
  <2> QED BY <1>3, <2>1 DEF WriteReg
<1>4. CASE mem_op = "uncached" /\ ex_mem_is_store
  <2>1. /\ captured = [wen |-> TRUE, addr |-> ex_mem.addr, data |-> write_r.data, strb |-> write_r.strb]
        /\ write_r = [addr |-> ex_mem.addr, data |-> ex_mem.data, strb |-> ex_mem.strb]
    BY <1>1, <1>4 DEF Requested, Bus
  <2>2. ex_mem \in MemInstr /\ ex_mem.kind # "load"
    BY <1>4 DEF Shapes, ex_mem_is_store, InMem
  <2> QED BY <1>4, <2>1, <2>2 DEF MemInstr
<1> QED BY <1>2, <1>3, <1>4

\* Memory, the ring, the cache and what the bus has read keep holding words.
LEMMA WordsStep ==
  ASSUME Inv, NEW dd, NEW dp, Edge(dd, dp)
  PROVE  Words'
<1> DEFINE w == Wires(dd, dp)
           in == CacheInputs(w)
<1>i. Shapes /\ Bus /\ Retire /\ Words /\ Refilling /\ Shapes'
  BY ShapesStep DEF Inv
<1>0. PICK answer \in BOOLEAN : BP!Clock(MemRequest, answer)
  BY EdgeParts
<1>p. Execute(w) /\ Record(w) /\ WriteBack(w)
  BY EdgeParts
<1>b. /\ port = "idle" => ~mem_ready' /\ memory' = memory /\ port' # "read_done"
      /\ port # "idle" => captured' = captured
      /\ port = "read" => /\ ~mem_ready' /\ memory' = memory
                          /\ port' = "read" \/ (port' = "read_done" /\ mem_rdata' = memory[captured.addr])
      /\ port = "read_done" => port' = "idle" /\ mem_ready' /\ UNCHANGED <<memory, mem_rdata>>
      /\ port = "write" =>
           \/ port' = "write" /\ ~mem_ready' /\ memory' = memory
           \/ /\ port' = "idle" /\ mem_ready'
              /\ memory' = [memory EXCEPT ![captured.addr] = BP!Merged(@, captured.data, captured.strb)]
  BY <1>i, <1>0, PortStep
<1>1. (WB!TypeOK /\ WB!RingConsistent)'
  BY <1>i, RingStep
<1>2. DC!TypeOK'
  BY CacheTyped
<1>3. memory' \in [BusAddr -> Word]
  <2>1. CASE port = "write"
    <3>1. captured.addr \in BusAddr /\ captured.data \in Word
      BY <2>1, <1>i, WordOnBus DEF OnBus, Bus, BusAddr
    <3>2. memory \in [BusAddr -> Word] /\ memory[captured.addr] \in Word
      BY <3>1, <1>i DEF Words
    <3>3. BP!Merged(memory[captured.addr], captured.data, captured.strb) \in Word
      BY <3>1, <3>2, MergedTyped
    <3> QED BY <2>1, <1>b, <3>2, <3>3
  <2>2. CASE port # "write"
    BY <2>2, <1>b, <1>i DEF Shapes, Words
  <2> QED BY <2>1, <2>2
<1>4. arch' \in [DataAddr -> Word]
  <2>1. CASE ex_mem_is_store
    <3>1. ex_mem.addr \in DataAddr /\ ex_mem.data \in Word
      BY <2>1, <1>i DEF Shapes, MemInstr, ex_mem_is_store, InMem
    <3>2. arch \in [DataAddr -> Word] /\ arch[ex_mem.addr] \in Word
      BY <3>1, <1>i DEF Words
    <3>3. BP!Merged(arch[ex_mem.addr], ex_mem.data, ex_mem.strb) \in Word
      BY <3>1, <3>2, MergedTyped
    <3> QED BY <1>p, <3>2, <3>3 DEF Record
  <2>2. CASE ~ex_mem_is_store
    BY <2>2, <1>p, <1>i DEF Record, Words
  <2> QED BY <2>1, <2>2
<1>5. (amo_calc => amo_a \in Word)'
  <2> SUFFICES ASSUME amo_calc' PROVE amo_a' \in Word
    OBVIOUS
  <2> HIDE DEF w, in
  <2>w. w = Wires(dd, dp) /\ in = CacheInputs(w)
    BY DEF w, in
  <2>1. InMem({"amo_load"}) /\ Served(w)
    BY <1>i, <1>p, <2>w, ExMemNext, AmoCalcFrom
  <2>2. amo_load_done(w) /\ ex_mem_is_load /\ ~amo_calc
    BY <2>1 DEF amo_load_done, Served, ex_mem_is_load, InMem, amo_calc
  <2>3. CASE w.hit
    <3>1. data_cache_hit_q' = TRUE
      BY <2>2, <2>3, <1>p DEF WriteBack
    <3>2. data_out' \in Word
      BY <2>2, <2>3, <2>w, CacheHits
    <3> QED BY <3>1, <3>2 DEF amo_a
  <2>4. CASE w.forward /\ ~w.hit
    <3>1. data_cache_hit_q' = FALSE /\ amo_rd_q' = load_forward_out
      BY <2>2, <2>4, <1>p DEF WriteBack
    <3>2. load_forward_out \in Word
      BY <2>4, <2>w, <1>i, WireFields, ForwardedWord
    <3> QED BY <3>1, <3>2 DEF amo_a
  <2>5. CASE ~w.forward /\ ~w.hit
    <3>1. data_cache_hit_q' = FALSE /\ amo_rd_q' = mem_rdata
      BY <2>2, <2>5, <1>p DEF WriteBack
    <3>2. mem_rdata \in Word
      <4>1. cpu_mem_complete /\ ~data_uncacheable_mem
        BY <2>1, <2>5, <1>i, Cacheable DEF Served, InMem
      <4>2. data_cache_refill_complete
        BY <4>1, <1>i DEF cpu_mem_complete, cpu_op, Bus, Refilling, data_cache_refill_complete
      <4> QED BY <4>2, <2>w, CacheInputsTyped
    <3> QED BY <3>1, <3>2 DEF amo_a
  <2> QED BY <2>3, <2>4, <2>5
<1>6. (port = "read_done" \/ (mem_ready /\ ~captured.wen) => mem_rdata = memory[captured.addr])'
  <2>1. port = "write" => captured.wen
    BY <1>i DEF Bus
  <2> QED BY <2>1, <1>b, <1>i DEF Words, Shapes
<1> QED BY <1>1, <1>2, <1>3, <1>4, <1>5, <1>6 DEF Words

-----------------------------------------------------------------------------
(* Who works while the cache is flushed or walked                          *)

\* The walk and the words it evicts, clock edge by clock edge.
LEMMA WalkNext ==
  ASSUME Inv, NEW dd, NEW dp, Edge(dd, dp)
  PROVE  /\ DC!flush_running' => /\ DC!flush_running
                                 /\ dirty_writeback' = None /\ clean_state' = "IDLE"
         /\ DC!flush_running => clean_state' = clean_state /\ dirty_writeback' = None
         /\ fence_i_state \in {"IDLE", "DRAIN"} => clean_state' = "IDLE"
         /\ fence_i_state = "FINISH" => clean_state' = "IDLE"
         /\ fence_i_state \in {"CLEAN", "WRITEBACK"} /\ DC!clean_done => clean_state' = "DONE"
         /\ clean_state' = "EMIT" => dirty_writeback' = None
         /\ fence_i_state \in {"CLEAN", "WRITEBACK"} /\ dirty_writeback' # None =>
              clean_state = "EMIT" /\ ~WB!full
         /\ ex_mem = None /\ fence_i_state \in {"IDLE", "DRAIN", "FINISH"} => dirty_writeback' = None
<1> DEFINE w == Wires(dd, dp)
           in == CacheInputs(w)
<1>i. Shapes /\ Alone
  BY DEF Inv
<1>t. /\ clean_state \in {"IDLE", "READ", "EMIT", "WAIT", "DONE"}
      /\ flush_cnt \in 0 .. CACHE_DEPTH
  BY DEF Inv, Words, DC!TypeOK
<1>r. in.clean_req = (fence_i_state \in {"CLEAN", "WRITEBACK"}) /\ in.full = WB!full
  BY DEF CacheInputs
<1>1. CASE DC!Flush(in)
  BY <1>1, <1>i, <1>t DEF DC!Flush, DC!flush_running, Alone, DC!clean_done
<1>2. CASE DC!CleanStep(in) /\ ~DC!flush_running /\ DC!Maintained(in)
  BY <1>2, <1>i, <1>r, <1>t DEF DC!CleanStep, DC!Maintained, DC!clean_active, DC!flush_running,
     Alone, Shapes, DC!clean_done
<1>3. CASE DC!CleanEmit(in) /\ ~DC!flush_running /\ DC!Maintained(in)
  BY <1>3, <1>i, <1>r, <1>t DEF DC!CleanEmit, DC!Maintained, DC!clean_active, DC!flush_running,
     Alone, Shapes, DC!clean_done
<1>4. CASE ~DC!flush_running /\ ~DC!Maintained(in)
  <2>1. clean_state = "IDLE" /\ fence_i_state \notin {"CLEAN", "WRITEBACK"} /\ fence_i_state # "FINISH"
    BY <1>4, <1>r, <1>i DEF DC!Maintained, DC!clean_active, Alone
  <2>2. clean_state' = clean_state /\ flush_cnt' = flush_cnt
    BY <1>4, CacheStep DEF DC!Normal, DC!RefillComplete, DC!NoAccess, DC!HitWrite, DC!HitRead, DC!MissForward,
       DC!MissRefill, DC!MissWait, DC!maintenance
  <2>3. ex_mem = None => dirty_writeback' = None
    <3>1. ex_mem = None => ~mem_access /\ ~data_cache_cs
      BY <1>i, Cacheable
    <3> QED BY <1>4, <3>1, CacheStep DEF DC!NoAccess
  <2> QED BY <1>4, <2>1, <2>2, <2>3 DEF DC!flush_running
<1> QED BY <1>1, <1>2, <1>3, <1>4, CacheStep DEF DC!Normal

\* With nothing in EX or MEM nothing moves on, and nothing new is issued.
LEMMA NothingMoves ==
  ASSUME Inv, NEW dd, NEW dp, Edge(dd, dp), id_ex = None, ex_mem = None, ~Delivers
  PROVE  /\ id_ex' = None /\ ex_mem' = None
         /\ wb_out = None /\ mem_op = None => mem_op' = None
<1> DEFINE w == Wires(dd, dp)
<1>0. PICK decoded \in Decodable : Decode(w, decoded) /\ (Delivers \/ decoded = None)
  BY EdgeParts
<1>p. Execute(w) /\ Issue(w)
  BY EdgeParts
<1>1. id_ex' = None
  BY <1>0 DEF Decode
<1>2. ex_mem' = None
  BY <1>p DEF Execute, InEx, amo_calc, InMem, amo_load_done
<1>3. ~data_cache_cs /\ ~mem_access
  BY Cacheable DEF Inv
<1>4. wb_out = None /\ mem_op = None => mem_op' = None
  BY <1>p, <1>3 DEF Issue, data_cache_refill_comb, uncached_req, Inv, Bus
<1> QED BY <1>1, <1>2, <1>4

\* Reset flush and walk start with an empty pipeline and keep it empty.
LEMMA AloneStep ==
  ASSUME Inv, NEW dd, NEW dp, Edge(dd, dp)
  PROVE  Alone'
<1> DEFINE w == Wires(dd, dp)
<1>i. Shapes /\ Alone /\ Words
  BY DEF Inv
<1>0. PICK miss \in BOOLEAN, fetched \in Fences : Fetch(w, miss, fetched)
  BY EdgeParts
<1>p. FenceI
  BY EdgeParts
<1>c. /\ DC!flush_running' => DC!flush_running /\ dirty_writeback' = None /\ clean_state' = "IDLE"
      /\ fence_i_state \in {"IDLE", "DRAIN"} => clean_state' = "IDLE"
      /\ fence_i_state = "FINISH" => clean_state' = "IDLE"
      /\ fence_i_state \in {"CLEAN", "WRITEBACK"} /\ DC!clean_done => clean_state' = "DONE"
      /\ clean_state' = "EMIT" => dirty_writeback' = None
      /\ fence_i_state \in {"CLEAN", "WRITEBACK"} /\ dirty_writeback' # None =>
           clean_state = "EMIT" /\ ~WB!full
      /\ ex_mem = None /\ fence_i_state \in {"IDLE", "DRAIN", "FINISH"} => dirty_writeback' = None
  BY WalkNext
<1>n. id_ex = None /\ ex_mem = None /\ ~Delivers =>
        /\ id_ex' = None /\ ex_mem' = None
        /\ wb_out = None /\ mem_op = None => mem_op' = None
  BY NothingMoves
<1>r. /\ wb_out' # None <=> w.drain
      /\ dirty_writeback = None /\ ~WB!full => ~WB!full'
      /\ dirty_writeback = None /\ WB!empty => WB!empty'
  BY <1>i, RingStep
<1>d. w.drain => ~WB!empty
  BY DrainMeansRest
<1>s. w.stall = (fence_stall \/ w.ex_stall \/ DC!flush_running)
  BY WireFields
<1>f. /\ fence_i_state \in {"CLEAN", "WRITEBACK", "FINISH"} => id_ex = None /\ ex_mem = None
      /\ fence_i_state = "DRAIN" /\ fence_i_drained => id_ex = None /\ ex_mem = None
      /\ fence_i_state # "IDLE" \/ DC!flush_running => ~Delivers
      /\ prediction_flush => id_ex # None
  BY <1>i DEF Alone, fence_i_drained, Delivers, fence_stall, prediction_flush, InEx
<1>g. /\ fence_i_state' \in {"CLEAN", "WRITEBACK", "FINISH"} =>
           /\ fence_i_state \in {"DRAIN", "CLEAN", "WRITEBACK"}
           /\ fence_i_state = "DRAIN" => fence_i_drained /\ fence_i_state' = "CLEAN"
      /\ fence_i_state' \in {"WRITEBACK", "FINISH"} =>
           \/ fence_i_state = "CLEAN" /\ DC!clean_done
           \/ fence_i_state = "WRITEBACK"
      /\ fence_i_state' \in {"IDLE", "DRAIN"} =>
           \/ fence_i_state \in {"IDLE", "DRAIN", "FINISH"}
           \/ prediction_flush
  BY <1>p, <1>i DEF FenceI, Shapes
<1> HIDE DEF w
<1>1. (DC!flush_running =>
       /\ if_id = "plain" /\ fence_i_state = "IDLE" /\ clean_state = "IDLE"
       /\ id_ex = None /\ ex_mem = None /\ mem_op = None
       /\ dirty_writeback = None /\ WB!empty /\ wb_out = None)'
  <2> SUFFICES ASSUME DC!flush_running'
               PROVE  /\ if_id' = "plain" /\ fence_i_state' = "IDLE" /\ clean_state' = "IDLE"
                      /\ id_ex' = None /\ ex_mem' = None /\ mem_op' = None
                      /\ dirty_writeback' = None /\ WB!empty' /\ wb_out' = None
    OBVIOUS
  <2>1. /\ if_id = "plain" /\ fence_i_state = "IDLE" /\ clean_state = "IDLE"
        /\ id_ex = None /\ ex_mem = None /\ mem_op = None
        /\ dirty_writeback = None /\ WB!empty /\ wb_out = None /\ DC!flush_running
    BY <1>c, <1>i DEF Alone
  <2>2. if_id' = "plain" /\ fence_i_state' = "IDLE"
    BY <2>1, <1>0, <1>p, <1>s DEF Fetch, FenceI
  <2> QED BY <2>1, <2>2, <1>c, <1>n, <1>f, <1>r, <1>d
<1>2. (fence_i_state \in {"CLEAN", "WRITEBACK", "FINISH"} => id_ex = None /\ ex_mem = None)'
  BY <1>g, <1>f, <1>n
<1>3. (fence_i_state \in {"IDLE", "DRAIN"} => clean_state = "IDLE")'
  BY <1>g, <1>c, <1>f, <1>i DEF Shapes
<1>4. (fence_i_state \in {"WRITEBACK", "FINISH"} => clean_state = "DONE")'
  BY <1>g, <1>c, <1>i DEF Alone, DC!clean_done
<1>5. (clean_state = "EMIT" => dirty_writeback = None)'
  BY <1>c
<1>6. (fence_i_state \in {"CLEAN", "WRITEBACK", "FINISH"} /\ dirty_writeback # None => ~WB!full)'
  BY <1>g, <1>f, <1>c, <1>r, <1>i DEF Alone
<1> QED BY <1>1, <1>2, <1>3, <1>4, <1>5, <1>6 DEF Alone

-----------------------------------------------------------------------------
(* The metadata that is latched                                            *)

\* What the lines are after one is installed.
LEMMA InstallLines ==
  ASSUME line \in [DC!Index -> [DC!Way -> DC!Line]], NEW i \in DC!Index, NEW v \in DC!Way, NEW new,
         NEW j \in DC!Index, NEW u \in DC!Way
  PROVE  DC!Install(i, v, new)[j][u] =
           IF j = i THEN IF u = v THEN new ELSE [line[j][u] EXCEPT !.lru = TRUE]
           ELSE line[j][u]
BY DEF DC!Install

\* The metadata of the lines that an access does not write.
LEMMA MetaOfLru ==
  ASSUME NEW l \in DC!Line
  PROVE  LET m == [l EXCEPT !.lru = TRUE]
         IN  m.tag = l.tag /\ m.valid = l.valid /\ m.dirty = l.dirty /\ m.lru = TRUE /\ m.data = l.data
BY DEF DC!Line

\* What the metadata of a line says of it.
LEMMA MetaFields ==
  ASSUME NEW l
  PROVE  DC!MetaOf(l).tag = l.tag /\ DC!MetaOf(l).valid = l.valid /\ DC!MetaOf(l).dirty = l.dirty
BY DEF DC!MetaOf

\* The bypasses of the cache make up for reading before writing: what is
\* latched is what the arrays hold of the set afterwards.
LEMMA BypassIsCurrent ==
  ASSUME Inv, NEW dd, NEW dp, Edge(dd, dp), NEW w, w = Wires(dd, dp), NEW in, in = CacheInputs(w),
         in.pipeline_enable \/ clean_state = "READ", ~DC!flush_running, NEW v \in DC!Way
  PROVE  DC!Bypassed(in, v) = DC!MetaOf(line'[DC!index_addr(in)][v])
<1> DEFINE l == line[DC!index_addr(in)][v]
<1>t. /\ line \in [DC!Index -> [DC!Way -> DC!Line]] /\ meta \in [DC!Way -> DC!Meta]
      /\ data_addr_q \in DC!CacheAddr /\ data_addr_q.idx \in DC!Index /\ clean_index \in DC!Index
  BY DEF Inv, Words, DC!TypeOK, DC!CacheAddr
<1>x. DC!index_addr(in) \in DC!Index
  BY <1>t, CacheInputsTyped DEF DC!index_addr, CacheAddr, DC!Index
<1>l. l \in DC!Line /\ line[DC!index_addr(in)] \in [DC!Way -> DC!Line]
  BY <1>t, <1>x
<1>m. l = [tag |-> l.tag, valid |-> l.valid, dirty |-> l.dirty, lru |-> l.lru, data |-> l.data]
      /\ l.valid \in BOOLEAN /\ l.dirty \in BOOLEAN /\ l.lru \in BOOLEAN
  BY <1>l DEF DC!Line
<1>r. /\ (in.cs <=> data_cache_cs) /\ (in.wen <=> ex_mem_is_store \/ w.forward)
      /\ (in.full <=> WB!full) /\ (in.forward <=> w.forward)
      /\ (in.refill_complete <=> data_cache_refill_complete)
      /\ (in.pipeline_enable <=> pipeline_enable(w))
  BY DEF CacheInputs
<1>h. w.hit <=> DC!cache_hit_comb(in.cs)
  BY <1>r, WireFields DEF data_cache_hit_comb, DC!cache_hit_comb
<1>w. DC!set_to_write_on_miss \in DC!Way /\ DC!set_to_write_on_hit \in DC!Way /\ DC!Other(v) \in DC!Way
      /\ DC!Other(v) # v /\ \A u \in DC!Way : u = v \/ u = DC!Other(v)
  BY DEF DC!set_to_write_on_miss, DC!set_to_write_on_hit, DC!Way, DC!Other
<1> HIDE DEF l
\* Nothing is written to the arrays.
<1>1. ASSUME line' = line,
             \A u : ~DC!refill_to_same_index(in, u), \A u : ~DC!wbfwd_to_same_index(in, u),
             \A u : ~DC!hit_write_to_same_index(in, u)
      PROVE  DC!Bypassed(in, v) = DC!MetaOf(line'[DC!index_addr(in)][v])
  <2>1. DC!Bypassed(in, v) = [tag |-> l.tag, valid |-> l.valid, dirty |-> l.dirty, lru |-> l.lru]
    BY <1>1, <1>m DEF DC!Bypassed, l
  <2> QED BY <1>1, <2>1 DEF DC!MetaOf, l
<1>2. ASSUME DC!Maintained(in), clean_state = "READ", ex_mem = None, id_ex = None, DC!CleanStep(in) \/ DC!CleanEmit(in)
      PROVE  DC!Bypassed(in, v) = DC!MetaOf(line'[DC!index_addr(in)][v])
  <2>1. line' = line
    BY <1>2 DEF DC!CleanStep, DC!CleanEmit
  <2>2. ~pipeline_enable(w)
    BY <1>2 DEF pipeline_enable, amo_calc, InMem, ReadsMetadata, InEx
  <2> QED BY <2>1, <2>2, <1>1, <1>r DEF DC!refill_to_same_index, DC!wbfwd_to_same_index, DC!hit_write_to_same_index
<1>3. ASSUME DC!NoAccess(in) \/ DC!MissWait(in) \/ DC!HitRead(in) \/ DC!MissRefill(in),
             ~data_cache_refill_complete
      PROVE  DC!Bypassed(in, v) = DC!MetaOf(line'[DC!index_addr(in)][v])
  <2>1. line' = line
    BY <1>3 DEF DC!NoAccess, DC!MissWait, DC!HitRead, DC!MissRefill
  <2>2. ~DC!wb_forward_write(in)
    BY <1>3 DEF DC!NoAccess, DC!MissWait, DC!HitRead, DC!MissRefill, DC!wb_forward_write
  <2>3. ~(in.cs /\ in.wen /\ DC!cache_hit_comb(in.cs))
    BY <1>3 DEF DC!NoAccess, DC!MissWait, DC!HitRead, DC!MissRefill, DC!Miss
  <2> QED BY <2>1, <2>2, <2>3, <1>1, <1>3, <1>r
         DEF DC!refill_to_same_index, DC!wbfwd_to_same_index, DC!hit_write_to_same_index
\* The line that is written, and what of it the bypass shows.
<1>4. ASSUME NEW i \in DC!Index, NEW u \in DC!Way, NEW new \in DC!Line, line' = DC!Install(i, u, new),
             DC!Bypassed(in, v) =
               IF DC!index_addr(in) # i THEN [tag |-> l.tag, valid |-> l.valid, dirty |-> l.dirty, lru |-> l.lru]
               ELSE IF u = v THEN [tag |-> new.tag, valid |-> new.valid, dirty |-> new.dirty, lru |-> FALSE]
               ELSE [tag |-> l.tag, valid |-> l.valid, dirty |-> l.dirty, lru |-> TRUE],
             new.lru = FALSE
      PROVE  DC!Bypassed(in, v) = DC!MetaOf(line'[DC!index_addr(in)][v])
  <2>1. line'[DC!index_addr(in)][v] =
          IF DC!index_addr(in) = i THEN IF v = u THEN new ELSE [l EXCEPT !.lru = TRUE]
          ELSE l
    BY <1>4, <1>t, <1>x, InstallLines DEF l
  <2>2. [l EXCEPT !.lru = TRUE].tag = l.tag /\ [l EXCEPT !.lru = TRUE].valid = l.valid
        /\ [l EXCEPT !.lru = TRUE].dirty = l.dirty /\ [l EXCEPT !.lru = TRUE].lru = TRUE
    BY <1>m
  <2> QED BY <1>4, <2>1, <2>2 DEF DC!MetaOf
<1>5. ASSUME DC!RefillComplete(in), data_cache_refill_complete, in.data_in = mem_rdata, ~data_cache_cs
      PROVE  DC!Bypassed(in, v) = DC!MetaOf(line'[DC!index_addr(in)][v])
  <2> DEFINE new == [tag |-> refill.tag, valid |-> TRUE, dirty |-> refill.wen, lru |-> FALSE,
                     data |-> IF refill.wen THEN DC!Merged(in.data_in, refill.data, in.strb) ELSE in.data_in]
  <2>1. line' = DC!Install(refill.idx, refill.set, new)
    BY <1>5 DEF DC!RefillComplete
  <2>2. /\ refill \in DC!Refill /\ mem_rdata \in Word /\ (refill.wen => refill.data \in Word)
        /\ refill.idx \in DC!Index /\ refill.set \in DC!Way /\ refill.tag \in Tags /\ refill.wen \in BOOLEAN
    BY <1>5, CacheInputsTyped DEF DC!Refill
  <2>3. new.data \in Word
    BY <2>2, <1>5, MergedTyped
  <2>4. new \in DC!Line
    BY <2>2, <2>3 DEF DC!Line, Word, DC!Word
  <2>5. ~DC!wb_forward_write(in) /\ ~(in.cs /\ in.wen)
    BY <1>5, <1>r DEF DC!wb_forward_write
  <2>6. \A u : /\ ~DC!wbfwd_to_same_index(in, u) /\ ~DC!hit_write_to_same_index(in, u)
               /\ DC!refill_to_same_index(in, u) <=>
                    in.pipeline_enable /\ DC!index_addr(in) = refill.idx /\ refill.set = u
    BY <2>5, <1>5, <1>r DEF DC!wbfwd_to_same_index, DC!hit_write_to_same_index, DC!refill_to_same_index
  <2>7. in.pipeline_enable
    <3>1. DC!Normal(in)
      BY <1>5 DEF DC!RefillComplete
    <3> QED BY <3>1 DEF DC!Normal, DC!Maintained, DC!clean_active
  <2>8. /\ new.tag = refill.tag /\ new.valid = TRUE /\ new.dirty = refill.wen /\ new.lru = FALSE
    OBVIOUS
  <2> HIDE DEF new
  <2>9. DC!Bypassed(in, v) =
          IF DC!index_addr(in) # refill.idx THEN [tag |-> l.tag, valid |-> l.valid, dirty |-> l.dirty, lru |-> l.lru]
          ELSE IF refill.set = v THEN [tag |-> new.tag, valid |-> new.valid, dirty |-> new.dirty, lru |-> FALSE]
          ELSE [tag |-> l.tag, valid |-> l.valid, dirty |-> l.dirty, lru |-> TRUE]
    BY <2>2, <2>6, <2>7, <2>8, <1>m, <1>w DEF DC!Bypassed, l
  <2> QED BY <2>1, <2>2, <2>4, <2>8, <2>9, <1>4
<1>6. ASSUME DC!HitWrite(in), w.hit, data_cache_cs, ex_mem_is_store, in.data_in = ex_mem.data, ~data_cache_refill_complete
      PROVE  DC!Bypassed(in, v) = DC!MetaOf(line'[DC!index_addr(in)][v])
  <2> DEFINE u == DC!set_to_write_on_hit
             i == data_addr_q.idx
             new == [tag |-> data_addr_q.tag, valid |-> TRUE, dirty |-> TRUE, lru |-> FALSE,
                     data |-> DC!Merged(line[i][u].data, in.data_in, in.strb)]
  <2>1. line' = DC!Install(i, u, new)
    BY <1>6 DEF DC!HitWrite, DC!index_addr_q
  <2>2. line[i][u] \in DC!Line /\ line[i][u].data \in Word /\ ex_mem.data \in Word
    <3>1. line[i][u] \in DC!Line
      BY <1>t, <1>w
    <3> QED BY <3>1, <1>6, CacheInputsTyped DEF DC!Line, Word, DC!Word
  <2>3. new.data \in Word
    BY <2>2, <1>6, MergedTyped
  <2>4. new \in DC!Line
    BY <2>3, <1>t DEF DC!Line, Word, DC!Word, DC!CacheAddr
  <2>5. ~DC!wb_forward_write(in) /\ DC!cache_hit_comb(in.cs) /\ in.cs /\ in.wen /\ ~in.refill_complete
    BY <1>6, <1>r, <1>h DEF DC!wb_forward_write
  <2>6. in.pipeline_enable
    BY <1>6 DEF DC!HitWrite, DC!Access, DC!Normal, DC!Maintained, DC!clean_active
  <2>7. /\ ~DC!wbfwd_to_same_index(in, v) /\ ~DC!wbfwd_to_same_index(in, DC!Other(v))
        /\ ~DC!refill_to_same_index(in, v) /\ ~DC!refill_to_same_index(in, DC!Other(v))
        /\ DC!hit_write_to_same_index(in, v) <=> u = v /\ DC!index_addr(in) = i
        /\ DC!hit_write_to_same_index(in, DC!Other(v)) <=> u # v /\ DC!index_addr(in) = i
    BY <2>5, <2>6, <1>w DEF DC!wbfwd_to_same_index, DC!hit_write_to_same_index, DC!refill_to_same_index, DC!index_addr_q
  <2>8. line[i][u].valid = TRUE /\ line[i][u].tag = data_addr_q.tag
    <3>1. u \in DC!HitWays
      BY <2>5 DEF DC!cache_hit_comb, DC!HitWays, DC!set_to_write_on_hit, DC!Way
    <3>2. meta[u] = DC!MetaOf(line[i][u])
      BY <1>6, <1>w, Cacheable DEF Inv, Metadata
    <3> QED BY <3>1, <3>2, <2>2 DEF DC!HitWays, DC!MetaOf, DC!Line
  <2>9. new.tag = data_addr_q.tag /\ new.valid = TRUE /\ new.dirty = TRUE /\ new.lru = FALSE
    OBVIOUS
  <2> HIDE DEF new
  <2>10. DC!Bypassed(in, v) =
          IF DC!index_addr(in) # i THEN [tag |-> l.tag, valid |-> l.valid, dirty |-> l.dirty, lru |-> l.lru]
          ELSE IF u = v THEN [tag |-> new.tag, valid |-> new.valid, dirty |-> new.dirty, lru |-> FALSE]
          ELSE [tag |-> l.tag, valid |-> l.valid, dirty |-> l.dirty, lru |-> TRUE]
    <3>1. DC!index_addr(in) = i /\ u = v => l.tag = new.tag /\ l.valid = TRUE
      BY <2>8, <2>9 DEF l
    <3> HIDE DEF u, i
    <3>b. CASE DC!index_addr(in) # i
      BY <2>7, <3>b, <1>m DEF DC!Bypassed, l
    <3>c. CASE DC!index_addr(in) = i /\ u = v
      BY <2>7, <3>c, <3>1, <2>9, <1>m DEF DC!Bypassed, l
    <3>d. CASE DC!index_addr(in) = i /\ u # v
      BY <2>7, <3>d, <1>m DEF DC!Bypassed, l
    <3> QED BY <3>b, <3>c, <3>d
  <2> QED BY <2>1, <2>4, <2>9, <2>10, <1>4, <1>t, <1>w
<1>7. ASSUME DC!MissForward(in), w.forward, data_cache_cs, ~w.hit, in.data_in = load_forward_out, ~request_refill,
             ~WB!full, ~data_cache_refill_complete
      PROVE  DC!Bypassed(in, v) = DC!MetaOf(line'[DC!index_addr(in)][v])
  <2> DEFINE u == DC!set_to_write_on_miss
             i == data_addr_q.idx
             new == [tag |-> data_addr_q.tag, valid |-> TRUE, dirty |-> TRUE, lru |-> FALSE, data |-> in.data_in]
  <2>1. line' = DC!Install(i, u, new)
    BY <1>7 DEF DC!MissForward, DC!index_addr_q
  <2>2. in.data_in \in Word
    <3>1. w.forward = load_forward_use(w.hit)
      BY WireFields
    <3> QED BY <3>1, <1>7, ForwardedWord DEF Inv
  <2>3. new \in DC!Line
    BY <2>2, <1>t DEF DC!Line, Word, DC!Word, DC!CacheAddr
  <2>4. DC!wb_forward_write(in) /\ ~DC!cache_hit_comb(in.cs) /\ ~in.refill_complete
    BY <1>7, <1>r, <1>h DEF DC!wb_forward_write
  <2>5. in.pipeline_enable
    BY <1>7 DEF DC!MissForward, DC!Miss, DC!Access, DC!Normal, DC!Maintained, DC!clean_active
  <2>6. /\ ~DC!hit_write_to_same_index(in, v) /\ ~DC!hit_write_to_same_index(in, DC!Other(v))
        /\ ~DC!refill_to_same_index(in, v) /\ ~DC!refill_to_same_index(in, DC!Other(v))
        /\ DC!wbfwd_to_same_index(in, v) <=> u = v /\ DC!index_addr(in) = i
        /\ DC!wbfwd_to_same_index(in, DC!Other(v)) <=> u # v /\ DC!index_addr(in) = i
    BY <2>4, <2>5, <1>w DEF DC!wbfwd_to_same_index, DC!hit_write_to_same_index, DC!refill_to_same_index, DC!index_addr_q
  <2>7. new.tag = data_addr_q.tag /\ new.valid = TRUE /\ new.dirty = TRUE /\ new.lru = FALSE
    OBVIOUS
  <2> HIDE DEF new
  <2>8. DC!Bypassed(in, v) =
          IF DC!index_addr(in) # i THEN [tag |-> l.tag, valid |-> l.valid, dirty |-> l.dirty, lru |-> l.lru]
          ELSE IF u = v THEN [tag |-> new.tag, valid |-> new.valid, dirty |-> new.dirty, lru |-> FALSE]
          ELSE [tag |-> l.tag, valid |-> l.valid, dirty |-> l.dirty, lru |-> TRUE]
    <3> HIDE DEF u, i
    <3>b. CASE DC!index_addr(in) # i
      BY <2>6, <3>b, <1>m DEF DC!Bypassed, l
    <3>c. CASE DC!index_addr(in) = i /\ u = v
      BY <2>6, <3>c, <2>7, <1>m DEF DC!Bypassed, l
    <3>d. CASE DC!index_addr(in) = i /\ u # v
      BY <2>6, <3>d, <1>m DEF DC!Bypassed, l
    <3> QED BY <3>b, <3>c, <3>d
  <2> QED BY <2>1, <2>3, <2>7, <2>8, <1>4, <1>t, <1>w
<1>8. clean_state = "READ" => DC!Maintained(in)
  BY DEF DC!Maintained, DC!clean_active
<1>9. ex_mem = None /\ id_ex = None => ~pipeline_enable(w)
  BY DEF pipeline_enable, amo_calc, InMem, ReadsMetadata, InEx
<1> QED BY <1>2, <1>3, <1>5, <1>6, <1>7, <1>8, <1>9, <1>r, CacheStep, Cacheable DEF Inv, DC!Normal, data_cache_refill_complete, data_cache_cs, cpu_op

\* What may become of a line in a clock edge: it is made the older of its set,
\* loses its dirty bit to the walk, or is written by the access in MEM.
LEMMA LineWrites ==
  ASSUME Inv, NEW dd, NEW dp, Edge(dd, dp), NEW w, w = Wires(dd, dp), NEW in, in = CacheInputs(w),
         ~DC!flush_running, NEW i \in DC!Index, NEW v \in DC!Way
  PROVE  LET l == line[i][v]
             k == line'[i][v]
         IN  \/ k = l
             \/ k = [l EXCEPT !.lru = TRUE] /\ k.dirty = l.dirty /\ k.valid = l.valid
                /\ k.tag = l.tag /\ k.data = l.data
             \/ /\ DC!CleanEmit(in) /\ i = data_addr_q.idx /\ v = clean_way /\ ~WB!full
                /\ k = [l EXCEPT !.dirty = FALSE] /\ k.dirty = FALSE /\ k.valid = l.valid
                /\ k.tag = l.tag /\ k.data = l.data
             \/ /\ DC!RefillComplete(in) /\ i = refill.idx /\ v = refill.set
                /\ k = [tag |-> refill.tag, valid |-> TRUE, dirty |-> refill.wen, lru |-> FALSE,
                        data |-> IF refill.wen THEN DC!Merged(in.data_in, refill.data, in.strb)
                                 ELSE in.data_in]
                /\ k.valid = TRUE
             \/ /\ DC!HitWrite(in) /\ i = data_addr_q.idx /\ v = DC!set_to_write_on_hit
                /\ k = [tag |-> data_addr_q.tag, valid |-> TRUE, dirty |-> TRUE, lru |-> FALSE,
                        data |-> DC!Merged(l.data, in.data_in, in.strb)]
                /\ k.valid = TRUE
             \/ /\ DC!MissForward(in) /\ i = data_addr_q.idx /\ v = DC!set_to_write_on_miss
                /\ k = [tag |-> data_addr_q.tag, valid |-> TRUE, dirty |-> TRUE, lru |-> FALSE,
                        data |-> in.data_in]
                /\ k.valid = TRUE
<1> DEFINE l == line[i][v]
           k == line'[i][v]
<1>t. /\ line \in [DC!Index -> [DC!Way -> DC!Line]]
      /\ data_addr_q.idx \in DC!Index /\ clean_way \in DC!Way
      /\ DC!set_to_write_on_miss \in DC!Way /\ DC!set_to_write_on_hit \in DC!Way
  BY DEF Inv, Words, DC!TypeOK, DC!CacheAddr, DC!set_to_write_on_miss, DC!set_to_write_on_hit, DC!Way
<1>l. l \in DC!Line
  BY <1>t
<1>k. [l EXCEPT !.lru = TRUE].dirty = l.dirty /\ [l EXCEPT !.lru = TRUE].valid = l.valid
      /\ [l EXCEPT !.lru = TRUE].tag = l.tag /\ [l EXCEPT !.lru = TRUE].data = l.data
  BY <1>l, MetaOfLru
<1>1. CASE DC!CleanStep(in) \/ DC!NoAccess(in) \/ DC!HitRead(in) \/ DC!MissRefill(in) \/ DC!MissWait(in)
  <2>1. line' = line
    BY <1>1 DEF DC!CleanStep, DC!NoAccess, DC!HitRead, DC!MissRefill, DC!MissWait
  <2> QED BY <2>1
<1>2. CASE DC!CleanEmit(in)
  <2>1. CASE WB!full
    <3>1. line' = line
      BY <1>2, <2>1 DEF DC!CleanEmit, CacheInputs
    <3> QED BY <3>1
  <2>2. CASE ~WB!full
    <3>1. line' = [line EXCEPT ![data_addr_q.idx][clean_way].dirty = FALSE]
      BY <1>2, <2>2 DEF DC!CleanEmit, DC!index_addr_q, CacheInputs
    <3>2. line' = [line EXCEPT ![data_addr_q.idx] = [line[data_addr_q.idx] EXCEPT ![clean_way].dirty = FALSE]]
      BY <3>1
    <3>3. line'[i] = IF i = data_addr_q.idx THEN [line[i] EXCEPT ![clean_way].dirty = FALSE] ELSE line[i]
      BY <3>2, <1>t
    <3>4. k = IF i = data_addr_q.idx /\ v = clean_way THEN [l EXCEPT !.dirty = FALSE] ELSE l
      BY <3>3, <1>t
    <3>5. [l EXCEPT !.dirty = FALSE].dirty = FALSE /\ [l EXCEPT !.dirty = FALSE].valid = l.valid
          /\ [l EXCEPT !.dirty = FALSE].tag = l.tag /\ [l EXCEPT !.dirty = FALSE].data = l.data
      BY <1>l DEF DC!Line
    <3> QED BY <3>4, <3>5, <1>2, <2>2
  <2> QED BY <2>1, <2>2
<1>3. CASE DC!RefillComplete(in) /\ data_cache_refill_complete
  <2> DEFINE new == [tag |-> refill.tag, valid |-> TRUE, dirty |-> refill.wen, lru |-> FALSE,
                     data |-> IF refill.wen THEN DC!Merged(in.data_in, refill.data, in.strb)
                              ELSE in.data_in]
  <2>1. line' = DC!Install(refill.idx, refill.set, new) /\ new.valid = TRUE
    BY <1>3 DEF DC!RefillComplete
  <2>2. refill.idx \in DC!Index /\ refill.set \in DC!Way
    BY <1>3, CacheInputsTyped DEF DC!Refill
  <2>3. k = IF i = refill.idx THEN IF v = refill.set THEN new ELSE [l EXCEPT !.lru = TRUE] ELSE l
    <3> HIDE DEF new
    <3> QED BY <2>1, <2>2, <1>t, InstallLines
  <2> QED BY <2>1, <2>3, <1>3, <1>k
<1>4. CASE DC!HitWrite(in)
  <2> DEFINE j == data_addr_q.idx
             u == DC!set_to_write_on_hit
             new == [tag |-> data_addr_q.tag, valid |-> TRUE, dirty |-> TRUE, lru |-> FALSE,
                     data |-> DC!Merged(line[j][u].data, in.data_in, in.strb)]
  <2>1. line' = DC!Install(j, u, new) /\ new.valid = TRUE
    BY <1>4 DEF DC!HitWrite, DC!index_addr_q
  <2>2. k = IF i = j THEN IF v = u THEN new ELSE [l EXCEPT !.lru = TRUE] ELSE l
    <3> HIDE DEF new
    <3> QED BY <2>1, <1>t, InstallLines
  <2> QED BY <2>1, <2>2, <1>4, <1>k
<1>5. CASE DC!MissForward(in)
  <2> DEFINE j == data_addr_q.idx
             u == DC!set_to_write_on_miss
             new == [tag |-> data_addr_q.tag, valid |-> TRUE, dirty |-> TRUE, lru |-> FALSE,
                     data |-> in.data_in]
  <2>1. line' = DC!Install(j, u, new) /\ new.valid = TRUE
    BY <1>5 DEF DC!MissForward, DC!index_addr_q
  <2>2. k = IF i = j THEN IF v = u THEN new ELSE [l EXCEPT !.lru = TRUE] ELSE l
    <3> HIDE DEF new
    <3> QED BY <2>1, <1>t, InstallLines
  <2> QED BY <2>1, <2>2, <1>5, <1>k
<1> QED BY <1>1, <1>2, <1>3, <1>4, <1>5, CacheStep

\* The access that is in MEM next is the one that waits there now, or its set
\* is read in this cycle.
LEMMA NextAccess ==
  ASSUME Inv, NEW dd, NEW dp, Edge(dd, dp), NEW w, w = Wires(dd, dp), NEW in, in = CacheInputs(w),
         mem_access', ~data_uncacheable_mem'
  PROVE  \/ ex_mem' = ex_mem /\ mem_access /\ ~data_uncacheable_mem /\ ~Served(w) /\ ~pipeline_enable(w)
         \/ /\ pipeline_enable(w) /\ in.addr = ex_mem'.addr /\ ~DC!clean_active
            /\ ~DC!flush_running
<1>i. Shapes /\ Bus /\ Retire /\ Alone
  BY DEF Inv
<1>p. Execute(w)
  BY EdgeParts
<1>a. /\ mem_access' => ex_mem' # None
      /\ data_uncacheable_mem' <=> ex_mem' # None /\ ex_mem'.addr \in Io
      /\ mem_access <=> ex_mem # None /\ ~amo_calc
  BY <1>i, Cacheable DEF mem_access, ex_mem_is_load, ex_mem_is_store, InMem, data_uncacheable_mem
<1>q. ex_mem # None \/ id_ex # None => ~DC!clean_active /\ ~DC!flush_running
  BY <1>i DEF Alone, Shapes, DC!clean_active
<1>1. CASE amo_calc
  <2>1. ex_mem'.addr = ex_mem.addr /\ pipeline_enable(w)
    BY <1>1, <1>i, <1>p, AmoNext DEF pipeline_enable
  <2> QED BY <1>1, <2>1, <1>q DEF CacheInputs, amo_calc, InMem
<1>2. CASE InMem({"amo_load"}) /\ Served(w)
  <2>1. ex_mem'.kind = "amo_calc"
    BY <1>2, <1>i, <1>p, AmoNext
  <2> QED BY <2>1 DEF mem_access, ex_mem_is_load, ex_mem_is_store, InMem
<1>3. CASE mem_access /\ ~Served(w)
  <2>1. ex_mem' = ex_mem /\ w.ex_stall
    BY <1>3, <1>i, <1>p, ExMemNext
  <2>2. ~pipeline_enable(w)
    BY <1>3, <2>1, <1>a DEF pipeline_enable
  <2> QED BY <1>3, <2>1, <2>2 DEF data_uncacheable_mem
<1>4. CASE ~w.ex_stall
  <2>1. ex_mem' = IF InEx({"amo"}) THEN [id_ex EXCEPT !.kind = "amo_load"]
                  ELSE IF InEx(Accesses) THEN id_ex ELSE None
    BY <1>4, <1>i, <1>p, ExMemNext
  <2>2. InEx({"amo"}) => InEx(Accesses)
    BY DEF InEx, Accesses
  <2>3. InEx(Accesses) /\ ex_mem'.addr = id_ex.addr
    BY <1>a, <2>1, <2>2, <1>i, AccessFromEx
  <2>4. ReadsMetadata /\ pipeline_enable(w) /\ ~amo_calc
    BY <1>a, <1>4, <2>3, <1>i, ServedLeaves DEF ReadsMetadata, pipeline_enable
  <2> QED BY <2>3, <2>4, <1>q DEF CacheInputs, InEx
<1>5. ex_mem = None /\ w.ex_stall => ex_mem' = None
  BY <1>i, <1>p, ExMemNext
<1>6. mem_access => (~w.ex_stall <=> Served(w) /\ ~InMem({"amo_load"}))
  BY <1>i, ServedLeaves
<1> QED BY <1>1, <1>2, <1>3, <1>4, <1>5, <1>6, <1>a

\* The arrays do not change while an access waits to be served.
LEMMA LinesWait ==
  ASSUME Inv, NEW dd, NEW dp, Edge(dd, dp), NEW w, w = Wires(dd, dp), NEW in, in = CacheInputs(w),
         mem_access, ~data_uncacheable_mem, ~Served(w)
  PROVE  /\ line' = line
         /\ DC!NoAccess(in) \/ DC!MissRefill(in) \/ DC!MissWait(in)
         /\ DC!HitWays # {} => ~data_cache_cs
<1>1. ~w.hit /\ ~w.forward /\ ~cpu_mem_complete
  BY DEF Served
<1>2. ~data_cache_refill_complete /\ ex_mem # None
  BY <1>1, Cacheable DEF Inv, data_cache_refill_complete, cpu_mem_complete, cpu_op
<1>3. DC!NoAccess(in) \/ DC!MissRefill(in) \/ DC!MissWait(in)
  BY <1>1, <1>2, CacheStep DEF Inv, Alone, Shapes, DC!Maintained, DC!clean_active
<1>4. line' = line
  BY <1>3 DEF DC!NoAccess, DC!MissRefill, DC!MissWait
<1>5. DC!HitWays # {} => ~data_cache_cs
  <2>1. ~DC!flush_running
    BY <1>2 DEF Inv, Alone
  <2> QED BY <2>1, <1>1, WireFields DEF data_cache_hit_comb, DC!cache_hit_comb
<1> QED BY <1>3, <1>4, <1>5

\* What the cache latched of a set stays true of it while an access can act on
\* it: every write to the arrays in between is bypassed or belongs to the access.
LEMMA MetadataStep ==
  ASSUME Inv, NEW dd, NEW dp, Edge(dd, dp)
  PROVE  Metadata'
<1> DEFINE w == Wires(dd, dp)
           in == CacheInputs(w)
<1>i. Shapes /\ Bus /\ Alone /\ Metadata /\ Words'
  BY WordsStep DEF Inv
<1>w. w = Wires(dd, dp) /\ in = CacheInputs(w)
  OBVIOUS
<1>t. /\ line \in [DC!Index -> [DC!Way -> DC!Line]] /\ meta \in [DC!Way -> DC!Meta]
      /\ data_addr_q \in DC!CacheAddr /\ data_addr_q.idx \in DC!Index /\ clean_index \in DC!Index
      /\ DC!set_to_write_on_miss \in DC!Way /\ DC!set_to_write_on_hit \in DC!Way
      /\ in.addr \in DC!CacheAddr /\ in.addr.idx \in DC!Index
      /\ flush_cnt \in 0 .. CACHE_DEPTH
  BY CacheInputsTyped DEF Inv, Words, DC!TypeOK, DC!CacheAddr, DC!set_to_write_on_miss,
     DC!set_to_write_on_hit, DC!Way, CacheAddr, DC!Index
<1>e. in.pipeline_enable = pipeline_enable(w)
  BY DEF CacheInputs
<1>r. DC!ReadMetadata(in)
  BY CacheStep
<1> HIDE DEF w, in
\* The latched metadata of the access that is in MEM next.
<1>1. ASSUME mem_access', ~data_uncacheable_mem', NEW v \in DC!Way
      PROVE  data_addr_q' = ex_mem'.addr /\ meta'[v] = DC!MetaOf(line'[data_addr_q'.idx][v])
  <2>1. CASE ex_mem' = ex_mem /\ mem_access /\ ~data_uncacheable_mem /\ ~Served(w) /\ ~pipeline_enable(w)
    <3>1. clean_state # "READ"
      BY <2>1, <1>i, Cacheable DEF Alone, Shapes
    <3>2. meta' = meta /\ data_addr_q' = data_addr_q
      BY <2>1, <3>1, <1>r, <1>e DEF DC!ReadMetadata, DC!metadata_enable
    <3>3. line' = line
      BY <2>1, <1>w, LinesWait
    <3> QED BY <2>1, <3>2, <3>3, <1>i DEF Metadata
  <2>2. CASE pipeline_enable(w) /\ in.addr = ex_mem'.addr /\ ~DC!clean_active /\ ~DC!flush_running
    <3>1. /\ meta' = [u \in DC!Way |-> DC!Bypassed(in, u)]
          /\ data_addr_q' = in.addr
      BY <2>2, <1>r, <1>e DEF DC!ReadMetadata, DC!metadata_enable
    <3>2. DC!Bypassed(in, v) = DC!MetaOf(line'[DC!index_addr(in)][v])
      BY <2>2, <1>w, <1>e, BypassIsCurrent
    <3>3. DC!index_addr(in) = data_addr_q'.idx
      BY <2>2, <3>1 DEF DC!index_addr
    <3> QED BY <2>2, <3>1, <3>2, <3>3
  <2> QED BY <1>1, <2>1, <2>2, <1>w, NextAccess
\* The latched metadata of the set that is walked.
<1>2. ASSUME clean_state' = "EMIT", NEW v \in DC!Way
      PROVE  /\ data_addr_q'.idx = clean_index'
             /\ meta'[v] = DC!MetaOf(line'[data_addr_q'.idx][v])
  <2>1. /\ ~DC!flush_running /\ DC!clean_active /\ id_ex = None /\ ex_mem = None
        /\ clean_index' = clean_index /\ line' = line
        /\ clean_state \in {"READ", "EMIT"}
    <3>1. ~DC!clean_active => clean_state' # "EMIT" \/ DC!CleanStep(in) \/ DC!CleanEmit(in)
      BY <1>w, CacheStep DEF DC!Flush, DC!RefillComplete, DC!NoAccess, DC!HitWrite, DC!HitRead, DC!MissForward,
         DC!MissRefill, DC!MissWait, DC!maintenance, DC!clean_active
    <3>2. ~DC!clean_active => clean_state' # "EMIT"
      BY <3>1 DEF DC!CleanStep, DC!CleanEmit, DC!clean_active
    <3>3. /\ ~DC!flush_running /\ id_ex = None /\ ex_mem = None
          /\ DC!CleanStep(in) \/ DC!CleanEmit(in)
      BY <1>2, <3>2, <1>w, <1>i, CacheStep DEF DC!Normal, DC!Maintained, Alone, DC!clean_active
    <3>4. clean_index' = clean_index /\ line' = line /\ clean_state \in {"READ", "EMIT"}
      BY <1>2, <3>3 DEF DC!CleanStep, DC!CleanEmit
    <3> QED BY <1>2, <3>2, <3>3, <3>4
  <2>2. ~pipeline_enable(w)
    BY <2>1 DEF pipeline_enable, amo_calc, InMem, ReadsMetadata, InEx
  <2>3. CASE clean_state = "READ"
    <3>1. /\ meta' = [u \in DC!Way |-> DC!Bypassed(in, u)]
          /\ data_addr_q' = [in.addr EXCEPT !.idx = clean_index]
      BY <2>1, <2>3, <1>r DEF DC!ReadMetadata, DC!metadata_enable
    <3>2. data_addr_q'.idx = clean_index /\ DC!index_addr(in) = clean_index
      BY <3>1, <2>1, <1>t DEF DC!CacheAddr, DC!index_addr
    <3>3. DC!Bypassed(in, v) = DC!MetaOf(line'[DC!index_addr(in)][v])
      BY <2>1, <2>3, <1>w, BypassIsCurrent
    <3> QED BY <2>1, <3>1, <3>2, <3>3
  <2>4. CASE clean_state = "EMIT"
    <3>1. meta' = meta /\ data_addr_q' = data_addr_q
      BY <2>2, <2>4, <1>r, <1>e DEF DC!ReadMetadata, DC!metadata_enable
    <3> QED BY <2>1, <2>4, <3>1, <1>i DEF Metadata
  <2> QED BY <2>1, <2>3, <2>4
\* Only valid lines are dirty.
<1>3. ASSUME NEW i \in DC!Index, NEW v \in DC!Way
      PROVE  /\ DC!flush_running' /\ i < flush_cnt' => ~line'[i][v].valid /\ ~line'[i][v].dirty
             /\ ~DC!flush_running' /\ line'[i][v].dirty => line'[i][v].valid
  <2> DEFINE l == line[i][v]
  <2>l. l \in DC!Line
    BY <1>t
  <2>m. /\ DC!flush_running /\ i < flush_cnt => ~l.valid /\ ~l.dirty
        /\ ~DC!flush_running /\ l.dirty => l.valid
    BY <1>i DEF Metadata
  <2> HIDE DEF l
  <2>1. ASSUME DC!flush_running, DC!Flush(in)
        PROVE  \/ i = flush_cnt /\ ~line'[i][v].valid /\ ~line'[i][v].dirty
               \/ i < flush_cnt' /\ ~line'[i][v].valid /\ ~line'[i][v].dirty
               \/ i > flush_cnt /\ DC!flush_running'
    <3>1. flush_cnt < CACHE_DEPTH /\ flush_cnt \in DC!Index /\ flush_cnt' = flush_cnt + 1
      <4>1. flush_cnt < CACHE_DEPTH /\ flush_cnt' = flush_cnt + 1
        BY <2>1 DEF DC!Flush, DC!flush_running
      <4> QED BY <4>1, <1>t, SizesAssumption DEF DC!Index
    <3>2. line' = [line EXCEPT ![flush_cnt] = [u \in DC!Way |->
                     [line[flush_cnt][u] EXCEPT !.valid = FALSE, !.dirty = FALSE, !.lru = FALSE]]]
      BY <2>1 DEF DC!Flush
    <3>3. CASE i = flush_cnt
      <4>1. line'[i][v] = [l EXCEPT !.valid = FALSE, !.dirty = FALSE, !.lru = FALSE]
        BY <3>1, <3>2, <3>3, <1>t DEF l
      <4> QED BY <4>1, <3>3, <2>l DEF DC!Line
    <3>4. CASE i < flush_cnt
      <4>3. i # flush_cnt
        BY <3>1, <3>4, SizesAssumption DEF DC!Index
      <4>1. line'[i][v] = l
        BY <3>1, <3>2, <4>3, <1>t DEF l
      <4>2. i < flush_cnt'
        BY <3>1, <3>4, SizesAssumption DEF DC!Index
      <4> QED BY <4>1, <4>2, <3>4, <2>1, <2>m
    <3>5. CASE i > flush_cnt
      <4>1. flush_cnt' < CACHE_DEPTH
        BY <3>1, <3>5, SizesAssumption DEF DC!Index
      <4> QED BY <4>1, <3>5 DEF DC!flush_running
    <3> QED BY <3>1, <3>3, <3>4, <3>5, SizesAssumption DEF DC!Index
  <2>2. CASE DC!flush_running /\ DC!Flush(in)
    <3>1. flush_cnt < CACHE_DEPTH /\ flush_cnt' = flush_cnt + 1
      BY <2>2 DEF DC!Flush, DC!flush_running
    <3>2. i < flush_cnt' => ~(i > flush_cnt)
      BY <3>1, <1>t, SizesAssumption DEF DC!Index
    <3> QED BY <2>1, <2>2, <3>2
  <2>3. CASE ~DC!flush_running
    <3>1. ~DC!flush_running'
      BY <2>3, WalkNext
    <3>2. \/ line'[i][v].dirty = l.dirty /\ line'[i][v].valid = l.valid
          \/ line'[i][v].dirty = FALSE
          \/ line'[i][v].valid = TRUE
      BY <2>3, <1>w, LineWrites DEF l
    <3> QED BY <2>3, <3>1, <3>2, <2>m
  <2> QED BY <2>2, <2>3, <1>w, CacheStep DEF DC!Normal
<1>4. (\A i \in DC!Index, v \in DC!Way :
         /\ DC!flush_running /\ i < flush_cnt => ~line[i][v].valid /\ ~line[i][v].dirty
         /\ ~DC!flush_running /\ line[i][v].dirty => line[i][v].valid)'
  BY <1>3
<1>5. (mem_access /\ ~data_uncacheable_mem => data_addr_q = ex_mem.addr)'
  BY <1>1 DEF DC!Way
<1>6. (clean_state = "EMIT" => data_addr_q.idx = clean_index)'
  BY <1>2 DEF DC!Way
<1>7. ((mem_access /\ ~data_uncacheable_mem) \/ clean_state = "EMIT" =>
         \A v \in DC!Way : meta[v] = DC!MetaOf(line[data_addr_q.idx][v]))'
  BY <1>1, <1>2
<1> QED BY <1>4, <1>5, <1>6, <1>7 DEF Metadata

-----------------------------------------------------------------------------
(* The refill                                                              *)

\* An access that waits keeps its set.
LEMMA AccessWaits ==
  ASSUME Inv, NEW dd, NEW dp, Edge(dd, dp), NEW w, w = Wires(dd, dp),
         mem_access, ~data_uncacheable_mem, ~Served(w)
  PROVE  /\ ex_mem' = ex_mem /\ meta' = meta /\ data_addr_q' = data_addr_q /\ line' = line
         /\ data_addr_q = ex_mem.addr
<1> DEFINE in == CacheInputs(w)
<1>1. ex_mem' = ex_mem /\ w.ex_stall
  BY EdgeParts, ExMemNext DEF Inv
<1>2. ~pipeline_enable(w) /\ clean_state # "READ"
  BY <1>1, Cacheable DEF Inv, Alone, Shapes, pipeline_enable
<1>3. meta' = meta /\ data_addr_q' = data_addr_q
  <2>1. in.pipeline_enable = pipeline_enable(w)
    BY DEF CacheInputs
  <2>2. DC!ReadMetadata(in)
    BY CacheStep
  <2> QED BY <1>2, <2>1, <2>2 DEF DC!ReadMetadata, DC!metadata_enable
<1>4. line' = line
  BY LinesWait
<1> QED BY <1>1, <1>3, <1>4 DEF Inv, Metadata

\* A refill that is not complete goes on waiting.
LEMMA RefillWaits ==
  ASSUME Inv, NEW dd, NEW dp, Edge(dd, dp), NEW w, w = Wires(dd, dp),
         request_refill, ~data_cache_refill_complete
  PROVE  /\ mem_access /\ ~data_uncacheable_mem /\ ~Served(w)
         /\ dirty_writeback' = None /\ request_refill' = TRUE /\ refill' = refill
<1> DEFINE in == CacheInputs(w)
<1>1. mem_access /\ ~data_uncacheable_mem /\ DC!HitWays = {} /\ ex_mem # None
  BY Cacheable DEF Inv, Refilling
<1>2. ~w.hit
  BY <1>1, WireFields DEF data_cache_hit_comb, DC!cache_hit_comb
<1>3. ~cpu_mem_complete
  BY <1>1 DEF Inv, Bus, cpu_mem_complete, cpu_op, data_cache_refill_complete
<1>4. ~w.forward
  <2>1. CASE ex_mem_is_load
    <3>1. ~Evicted(ex_mem.addr)
      BY <2>1 DEF Inv, Refilling
    <3> QED BY <3>1, WireFields
            DEF load_forward_use, WB!load_forward_valid, WB!Arriving, Evicted, WB!write_accepted
  <2>2. CASE ~ex_mem_is_load
    BY <2>2, WireFields DEF load_forward_use
  <2> QED BY <2>1, <2>2
<1>5. ~Served(w)
  BY <1>2, <1>3, <1>4 DEF Served
<1>6. DC!NoAccess(in) \/ DC!MissWait(in)
  <2>1. ~DC!flush_running /\ ~DC!Maintained(in)
    BY <1>1 DEF Inv, Alone, Shapes, DC!Maintained, DC!clean_active, CacheInputs
  <2> QED BY <2>1, <1>2, <1>4, CacheStep
<1>7. request_refill \in BOOLEAN
  BY DEF Inv, Words, DC!TypeOK
<1>8. dirty_writeback' = None /\ request_refill' = TRUE /\ refill' = refill
  BY <1>6, <1>7 DEF DC!NoAccess, DC!MissWait
<1> QED BY <1>1, <1>5, <1>8

\* Nothing arrives in the ring for an address that nothing is evicted for.
LEMMA NoneArrives ==
  ASSUME Inv, NEW dd, NEW dp, Edge(dd, dp), NEW w, w = Wires(dd, dp), NEW a,
         WB!Ages(a) = {},
         ~(WB!write_accepted(dirty_writeback, w.drain) /\ dirty_writeback.addr = a)
  PROVE  WB!Ages(a)' = {}
BY RingStep DEF Inv

\* The words for an address that is refilled are all in memory: none is evicted
\* while the refill waits, and it is issued after the last of them.
LEMMA NothingUnderWay ==
  ASSUME Inv, NEW dd, NEW dp, Edge(dd, dp), NEW w, w = Wires(dd, dp),
         request_refill, ~data_cache_refill_complete
  PROVE  /\ ex_mem_is_load => ~Evicted(ex_mem.addr)'
         /\ mem_op' = "refill" => ~UnderWay(ex_mem.addr)'
<1>a. PICK a : a = ex_mem.addr
  OBVIOUS
<1>1. mem_access /\ ~data_uncacheable_mem /\ ~Served(w) /\ dirty_writeback' = None
  BY RefillWaits
<1>2. ex_mem' = ex_mem
  BY <1>1, AccessWaits
<1>3. ASSUME ~Evicted(a) PROVE WB!Ages(a)' = {}
  BY <1>3, NoneArrives DEF Evicted, WB!write_accepted
<1>4. ex_mem_is_load => ~Evicted(a)
  BY <1>a DEF Inv, Refilling
<1>5. ex_mem_is_load => ~Evicted(ex_mem.addr)'
  BY <1>a, <1>1, <1>2, <1>3, <1>4 DEF Evicted
<1>6. ASSUME mem_op' = "refill" PROVE ~UnderWay(ex_mem.addr)'
  <2>n. /\ mem_op # None => mem_op' = IF mem_ready THEN None ELSE mem_op
        /\ mem_op = None => data_cache_refill_comb(w) /\ wb_out = None /\ ~w.drain
        /\ ~w.drain
    BY <1>6, EdgeParts, IssueNext, NoneAssumption DEF Inv
  <2>1. wb_out' = None
    BY <2>n, RingStep DEF Inv
  <2>2. WB!Ages(a)' = {}
    <3>1. CASE mem_op # None
      <4>1. mem_op = "refill"
        BY <3>1, <2>n, <1>6, NoneAssumption
      <4>2. ~Evicted(a)
        BY <1>a, <4>1 DEF Inv, Refilling, UnderWay
      <4> QED BY <4>2, <1>3
    <3>2. CASE mem_op = None /\ ex_mem_is_load
      BY <3>2, <1>3, <1>4
    <3>3. CASE mem_op = None /\ ~ex_mem_is_load
      <4>1. ~store_buffer_hazard(w.hit) /\ data_cache_cs /\ ~w.hit /\ ex_mem_is_store
        BY <3>3, <2>n, <1>1, WireFields DEF data_cache_refill_comb, mem_access
      <4>2. ~WB!address_pending(a, dirty_writeback)
        BY <1>a, <4>1 DEF store_buffer_hazard
      <4>3. WB!Ages(a) = {}
        <5>1. \A k \in 0 .. ENTRIES - 1 : WB!SlotAt(k) \in WB!Slots
          BY SizesAssumption DEF Inv, Words, WB!TypeOK, WB!SlotAt, WB!SlotFrom, WB!Slots
        <5> QED BY <4>2, <5>1 DEF WB!address_pending, WB!Ages
      <4>4. ~(WB!write_accepted(dirty_writeback, w.drain) /\ dirty_writeback.addr = a)
        BY <4>2, <2>n DEF WB!address_pending, WB!write_accepted
      <4> QED BY <4>3, <4>4, NoneArrives
    <3> QED BY <3>1, <3>2, <3>3
  <2> QED BY <1>a, <1>1, <1>2, <1>6, <2>1, <2>2, NoneAssumption DEF UnderWay, Evicted
<1> QED BY <1>5, <1>6

\* The way a miss evicts holds another word than the one that is missed.
LEMMA VictimIsAnother ==
  ASSUME Inv, DC!HitWays = {}, ~DC!flush_running, mem_access, ~data_uncacheable_mem
  PROVE  /\ DC!Victim # None => DC!Victim.addr # ex_mem.addr
         /\ \A v \in DC!Way : ~(line[ex_mem.addr.idx][v].valid /\ line[ex_mem.addr.idx][v].tag = ex_mem.addr.tag)
<1> DEFINE u == DC!set_to_write_on_miss
<1>1. /\ data_addr_q = ex_mem.addr
      /\ \A v \in DC!Way : meta[v] = DC!MetaOf(line[data_addr_q.idx][v])
      /\ u \in DC!Way /\ data_addr_q.idx \in DC!Index
  BY DEF Inv, Metadata, DC!set_to_write_on_miss, DC!Way, Words, DC!TypeOK, DC!CacheAddr
<1>2. \A v \in DC!Way : /\ meta[v].tag = line[data_addr_q.idx][v].tag
                        /\ meta[v].valid = line[data_addr_q.idx][v].valid
                        /\ meta[v].dirty = line[data_addr_q.idx][v].dirty
  BY <1>1, MetaFields
<1>3. \A v \in DC!Way : ~(meta[v].valid /\ meta[v].tag = data_addr_q.tag)
  BY DEF DC!HitWays
<1>4. meta[u].dirty => meta[u].valid
  BY <1>1, <1>2 DEF Inv, Metadata
<1>5. DC!Victim # None => DC!Victim.addr = [tag |-> meta[u].tag, idx |-> data_addr_q.idx] /\ meta[u].dirty
  BY DEF DC!Victim, DC!index_addr_q
<1> HIDE DEF u
<1> QED BY <1>1, <1>2, <1>3, <1>4, <1>5

\* A refill stays the one of the access in MEM, and no newer word for its address
\* gets on the way to memory under it.
LEMMA RefillingStep ==
  ASSUME Inv, NEW dd, NEW dp, Edge(dd, dp)
  PROVE  Refilling'
<1>w. PICK w : w = Wires(dd, dp)
  OBVIOUS
<1>x. PICK in : in = CacheInputs(w)
  OBVIOUS
<1>i. Shapes /\ Bus /\ Refilling /\ Metadata /\ request_refill \in BOOLEAN
  BY DEF Inv, Words, DC!TypeOK
<1>1. CASE request_refill /\ ~data_cache_refill_complete
  <2>1. /\ mem_access /\ ~data_uncacheable_mem /\ ~Served(w)
        /\ dirty_writeback' = None /\ request_refill' = TRUE /\ refill' = refill
    BY <1>1, <1>w, RefillWaits
  <2>2. ex_mem' = ex_mem /\ meta' = meta /\ data_addr_q' = data_addr_q
    BY <2>1, <1>w, AccessWaits
  <2>3. /\ ex_mem_is_load => ~Evicted(ex_mem.addr)'
        /\ mem_op' = "refill" => ~UnderWay(ex_mem.addr)'
    BY <1>1, <1>w, NothingUnderWay
  <2>4. /\ (mem_access' <=> mem_access) /\ (data_uncacheable_mem' <=> data_uncacheable_mem)
        /\ ex_mem_is_store' = ex_mem_is_store /\ ex_mem_is_load' = ex_mem_is_load
        /\ DC!HitWays' = DC!HitWays /\ DC!set_to_write_on_miss' = DC!set_to_write_on_miss
    BY <2>2 DEF mem_access, ex_mem_is_load, ex_mem_is_store, InMem, data_uncacheable_mem, DC!HitWays,
       DC!set_to_write_on_miss
  <2> QED BY <2>1, <2>2, <2>3, <2>4, <1>1, <1>i DEF Refilling
<1>2. CASE request_refill /\ data_cache_refill_complete
  <2>1. request_refill' = FALSE
    <3>1. DC!RefillComplete(in)
      BY <1>2, <1>i, <1>w, <1>x, CacheStep, Cacheable
         DEF Inv, Refilling, Alone, DC!Normal, DC!Maintained, DC!clean_active, Shapes, CacheInputs
    <3> QED BY <3>1 DEF DC!RefillComplete
  <2>2. mem_op' = None
    BY <1>2, <1>i, <1>w, EdgeParts, IssueNext, NoneAssumption DEF data_cache_refill_complete
  <2> QED BY <2>1, <2>2, NoneAssumption DEF Refilling
<1>3. CASE ~request_refill
  <2>1. mem_op' # "refill"
    <3>1. mem_op = None /\ mem_op' = "refill" => data_cache_refill_comb(w)
      BY <1>i, <1>w, EdgeParts, IssueNext
    <3>2. mem_op # None /\ mem_op' = "refill" => mem_op = "refill"
      BY <1>i, <1>w, EdgeParts, IssueNext, NoneAssumption
    <3> QED BY <3>1, <3>2, <1>3, <1>i DEF data_cache_refill_comb, Refilling
  <2>2. ASSUME request_refill'
        PROVE  /\ DC!MissRefill(in) /\ data_cache_cs /\ ~w.hit /\ ~w.forward /\ ~WB!full
               /\ ~DC!flush_running
               /\ in.wen = ex_mem_is_store /\ in.data_in = ex_mem.data
    <3>1. DC!MissRefill(in)
      BY <2>2, <1>3, <1>w, <1>x, CacheStep DEF DC!Flush, DC!CleanStep, DC!CleanEmit, DC!RefillComplete,
         DC!NoAccess, DC!HitWrite, DC!HitRead, DC!MissForward, DC!MissWait
    <3>2. /\ (in.cs <=> data_cache_cs) /\ in.full = WB!full /\ in.forward = w.forward
          /\ in.wen = (ex_mem_is_store \/ w.forward)
          /\ in.data_in = IF w.forward THEN load_forward_out
                          ELSE IF data_cache_refill_complete THEN mem_rdata
                          ELSE IF ex_mem # None THEN ex_mem.data ELSE None
      BY <1>x DEF CacheInputs
    <3>3. data_cache_cs /\ ~DC!flush_running /\ ~w.forward /\ ~WB!full /\ ~DC!cache_hit_comb(in.cs)
      BY <3>1, <3>2 DEF DC!MissRefill, DC!Miss, DC!Access, DC!Normal
    <3>4. ~w.hit
      BY <3>2, <3>3, <1>w, WireFields DEF data_cache_hit_comb, DC!cache_hit_comb
    <3>5. ~data_cache_refill_complete /\ ex_mem # None
      BY <3>3, <1>i, Cacheable DEF data_cache_refill_complete, cpu_op
    <3>6. in.wen = ex_mem_is_store
      BY <3>2, <3>3 DEF ex_mem_is_store, InMem
    <3> QED BY <3>1, <3>2, <3>3, <3>4, <3>5, <3>6
  <2>3. ASSUME request_refill'
        PROVE  /\ (mem_access /\ ~data_uncacheable_mem)' /\ DC!HitWays' = {}
               /\ refill' = [idx |-> ex_mem'.addr.idx, tag |-> ex_mem'.addr.tag,
                             set |-> DC!set_to_write_on_miss', wen |-> ex_mem_is_store',
                             data |-> IF ex_mem_is_store' THEN ex_mem'.data ELSE None]
               /\ ex_mem_is_load' => ~Evicted(ex_mem.addr)'
    <3>1. /\ DC!MissRefill(in) /\ data_cache_cs /\ ~w.hit /\ ~w.forward /\ ~WB!full
          /\ ~DC!flush_running
          /\ in.wen = ex_mem_is_store /\ in.data_in = ex_mem.data
      BY <2>2, <2>3
    <3>2. mem_access /\ ~data_uncacheable_mem /\ ~cpu_op /\ ~Served(w)
      BY <3>1, <1>i, Cacheable DEF Served, cpu_mem_complete
    <3>3. /\ ex_mem' = ex_mem /\ meta' = meta /\ data_addr_q' = data_addr_q
          /\ data_addr_q = ex_mem.addr
      BY <3>2, <1>w, AccessWaits
    <3>4. /\ (mem_access' <=> mem_access) /\ (data_uncacheable_mem' <=> data_uncacheable_mem)
          /\ ex_mem_is_store' = ex_mem_is_store /\ ex_mem_is_load' = ex_mem_is_load
          /\ DC!HitWays' = DC!HitWays /\ DC!set_to_write_on_miss' = DC!set_to_write_on_miss
      BY <3>3 DEF mem_access, ex_mem_is_load, ex_mem_is_store, InMem, data_uncacheable_mem, DC!HitWays,
         DC!set_to_write_on_miss
    <3>5. DC!HitWays = {}
      BY <3>1, <1>w, WireFields DEF data_cache_hit_comb, DC!cache_hit_comb
    <3>6. /\ refill' = [idx |-> data_addr_q.idx, tag |-> data_addr_q.tag,
                        set |-> DC!set_to_write_on_miss, wen |-> in.wen,
                        data |-> IF in.wen THEN in.data_in ELSE None]
          /\ dirty_writeback' = DC!Victim
      BY <3>1 DEF DC!MissRefill, DC!index_addr_q
    <3>7. ASSUME ex_mem_is_load PROVE ~Evicted(ex_mem.addr)'
      <4>a. PICK a : a = ex_mem.addr
        OBVIOUS
      <4>1. ~WB!load_forward_valid(a, dirty_writeback, FALSE)
        BY <4>a, <3>1, <3>7, <1>w, WireFields DEF load_forward_use
      <4>2. WB!Ages(a) = {} /\ ~(WB!write_accepted(dirty_writeback, w.drain) /\ dirty_writeback.addr = a)
        BY <4>1, <3>1 DEF WB!load_forward_valid, WB!Arriving, WB!write_accepted
      <4>3. WB!Ages(a)' = {}
        BY <4>2, <1>w, NoneArrives
      <4>4. dirty_writeback' # None => dirty_writeback'.addr # a
        BY <4>a, <3>1, <3>2, <3>5, <3>6, VictimIsAnother
      <4> QED BY <4>a, <4>3, <4>4, <3>3 DEF Evicted
    <3> QED BY <3>1, <3>2, <3>3, <3>4, <3>5, <3>6, <3>7
  <2> QED BY <2>1, <2>3 DEF Refilling
<1> QED BY <1>1, <1>2, <1>3

-----------------------------------------------------------------------------
(* The invariant                                                           *)

\* After reset, with whatever the arrays held when the power came.
LEMMA InitInv == Init => Inv
<1> SUFFICES ASSUME Init PROVE Inv
  OBVIOUS
<1> USE SizesAssumption
<1>1. /\ id_ex = None /\ ex_mem = None /\ mem_op = None /\ fetch_wait = FALSE /\ if_id = "plain"
      /\ port = "idle" /\ mem_ready = FALSE /\ captured = None /\ write_r = None
      /\ wb_issue_valid = FALSE /\ fence_i_state = "IDLE"
      /\ retired = FALSE /\ io_count = 0
      /\ wb_out = None /\ elem_count = 0
      /\ dirty_writeback = None /\ clean_state = "IDLE" /\ flush_cnt = 0 /\ request_refill = FALSE
  BY DEF Init, WB!Init, DC!Init
<1>2. ~mem_access /\ ~amo_calc /\ ~cpu_op /\ ~mem_op_pending /\ ~ex_mem_is_store
  BY <1>1, NoneAssumption DEF mem_access, ex_mem_is_load, ex_mem_is_store, InMem, amo_calc, cpu_op, mem_op_pending
<1>3. Shapes
  BY <1>1, NoneAssumption DEF Init, Shapes, Fences
<1>4. Bus
  BY <1>1, <1>2, NoneAssumption DEF Bus, OnBus
<1>5. Retire
  BY <1>1, NoneAssumption DEF Retire, InEx
<1>6. Words
  <2>1. WB!TypeOK /\ WB!RingConsistent
    <3>1. WBP!Init
      BY DEF Init, WB!Init, WBP!Init, WB!Slots, WBP!Slots
    <3>2. ENTRIES \in Nat \ {0} /\ None \notin WBP!Entry
      BY NoneAssumption DEF WBP!Entry, DC!Writeback, Word, DC!Word, CacheAddr, DC!CacheAddr, DC!Index
    <3>3. WBP!IInv
      BY <3>1, <3>2, WBP!InitInv
    <3> QED BY <3>3, SameBuffer DEF SameState
  <2>2. DC!TypeOK
    <3>1. \A l \in PowerUp : l \in DC!Line /\ DC!MetaOf(l) \in DC!Meta
      BY PowerUpAssumption DEF DC!Line, DC!Meta, DC!MetaOf
    <3>2. line \in [DC!Index -> [DC!Way -> DC!Line]]
      BY <3>1 DEF Init, DC!Init
    <3>3. meta \in [DC!Way -> DC!Meta]
      BY <3>1 DEF Init, DC!Init
    <3>4. data_addr_q \in DC!CacheAddr
      BY <3>1 DEF Init, DC!Init, DC!CacheAddr, DC!Index, DC!Line
    <3>5. /\ request_refill = FALSE /\ refill = None /\ data_out = None /\ dirty_writeback = None
          /\ flush_cnt = 0 /\ clean_state = "IDLE" /\ clean_index = 0 /\ clean_way = 0
      BY DEF Init, DC!Init
    <3>6. 0 \in 0 .. CACHE_DEPTH /\ 0 \in DC!Index /\ 0 \in DC!Way
      BY DEF DC!Index, DC!Way
    <3> QED BY <3>2, <3>3, <3>4, <3>5, <3>6 DEF DC!TypeOK
  <2>3. memory \in [BusAddr -> Word] /\ arch \in [DataAddr -> Word]
    BY DEF Init, BusAddr
  <2> QED BY <1>1, <1>2, <2>1, <2>2, <2>3 DEF Words
<1>7. Alone
  BY <1>1 DEF Alone, WB!empty
<1>8. Metadata
  <2>1. \A i \in DC!Index : ~(i < flush_cnt)
    BY <1>1 DEF DC!Index
  <2>2. DC!flush_running
    BY <1>1 DEF DC!flush_running
  <2> QED BY <1>1, <1>2, <2>1, <2>2 DEF Metadata
<1>9. Refilling
  BY <1>1, NoneAssumption DEF Refilling
<1> QED BY <1>3, <1>4, <1>5, <1>6, <1>7, <1>8, <1>9 DEF Inv

\* Every step keeps the invariant, part by part.
LEMMA NextInv == ASSUME ~DivBehindMem PROVE Inv /\ [Next]_vars => Inv'
<1>1. ASSUME Inv, NEW dd, NEW dp, Edge(dd, dp) PROVE Inv'
  BY <1>1, ShapesStep, BusStep, RetireStep, WordsStep, AloneStep, MetadataStep, RefillingStep DEF Inv
<1>2. ASSUME Inv, UNCHANGED vars PROVE Inv'
  <2>1. Shapes'
    BY <1>2 DEF Inv, Shapes, vars, core_vars, port_vars, Fences, InProgram
  <2>2. Bus'
    BY <1>2 DEF Inv, Bus, vars, core_vars, port_vars, buffer_vars, OnBus, Requested, BusRead, mem_can_issue, mem_op_pending,
       BP!mem_busy, cpu_op, mem_access, ex_mem_is_load, ex_mem_is_store, InMem, data_uncacheable_mem
  <2>3. Retire'
    BY <1>2 DEF Inv, Retire, vars, core_vars, port_vars, history, OnBus, InEx
  <2>4. Words'
    BY <1>2 DEF Inv, Words, vars, core_vars, port_vars, history, buffer_vars, cache_vars, amo_calc, InMem, amo_a,
       WB!TypeOK, WB!RingConsistent, WB!SlotAt, WB!SlotFrom, DC!TypeOK
  <2>5. Alone'
    BY <1>2 DEF Inv, Alone, vars, core_vars, port_vars, buffer_vars, cache_vars, WB!empty, WB!full, DC!flush_running
  <2>6. Metadata'
    BY <1>2 DEF Inv, Metadata, vars, core_vars, cache_vars, DC!flush_running, mem_access, ex_mem_is_load,
       ex_mem_is_store, InMem, data_uncacheable_mem
  <2>7. Refilling'
    BY <1>2 DEF Inv, Refilling, vars, core_vars, cache_vars, buffer_vars, mem_access, ex_mem_is_load,
       ex_mem_is_store, InMem, data_uncacheable_mem, DC!HitWays, DC!set_to_write_on_miss, UnderWay, Evicted,
       WB!Ages, WB!Holds, WB!SlotAt, WB!SlotFrom
  <2> QED BY <2>1, <2>2, <2>3, <2>4, <2>5, <2>6, <2>7 DEF Inv
<1> QED BY <1>1, <1>2 DEF Next

-----------------------------------------------------------------------------
(* What follows of it                                                      *)

\* Every register of the core, of the cache and of the write buffer keeps its
\* type, with any number of sets, slots, tags and words.
THEOREM RegistersKeepTheirTypes == ASSUME ~DivBehindMem PROVE Spec => []TypeOK
<1>1. Inv => TypeOK
  BY DEF Inv, Shapes, Words, TypeOK
<1>2. Inv /\ [Next]_vars => Inv'
  BY NextInv
<1> QED BY <1>1, <1>2, InitInv, PTL DEF Spec

\* The instruction in MEM retires in one cycle only, unless a division directly
\* behind it holds it there.
THEOREM AccessesRetireOnce == ASSUME ~DivBehindMem PROVE Spec => []RetiresOnce
<1>1. Inv => RetiresOnce
  BY DEF Inv, Retire, RetiresOnce
<1>2. Inv /\ [Next]_vars => Inv'
  BY NextInv
<1> QED BY <1>1, <1>2, InitInv, PTL DEF Spec

\* A device sees an uncached access once, however long the bus takes and
\* whatever else waits for it.
THEOREM UncachedAccessesHappenOnce == ASSUME ~DivBehindMem PROVE Spec => []UncachedOnce
<1>1. Inv => UncachedOnce
  BY NoneAssumption DEF Inv, Retire, Bus, UncachedOnce, cpu_op
<1>2. Inv /\ [Next]_vars => Inv'
  BY NextInv
<1> QED BY <1>1, <1>2, InitInv, PTL DEF Spec

\* mem_ready is taken by the operation it answers, and a word that leaves the
\* write buffer finds the bus free.
THEOREM BusServesItsOwner == ASSUME ~DivBehindMem PROVE Spec => []BusIsOwned
<1>1. ASSUME Inv PROVE CompletionIsOwn
  <2>1. Shapes /\ Bus
    BY <1>1 DEF Inv
  <2>2. ASSUME mem_op_pending, mem_ready \/ BP!mem_busy
        PROVE  /\ captured.wen <=> (mem_op = "write_buffer" \/ (mem_op = "uncached" /\ ex_mem_is_store))
               /\ captured.addr = IF mem_op = "write_buffer" THEN write_r.addr ELSE ex_mem.addr
    <3>1. captured = Requested /\ Requested # None
      BY <2>1, <2>2, RequestFacts DEF Bus, OnBus, BP!mem_busy
    <3>2. captured.wen <=> (mem_op = "write_buffer" \/ (mem_op = "uncached" /\ ex_mem_is_store))
      BY <2>1, <3>1, RequestFacts
    <3>3. mem_op \in {"refill", "uncached", "write_buffer"}
      BY <2>1, <2>2 DEF Shapes, mem_op_pending
    <3>4. Requested.addr = IF mem_op = "write_buffer" THEN write_r.addr ELSE ex_mem.addr
      BY <3>3 DEF Requested, cpu_op, BusRead
    <3> QED BY <3>1, <3>2, <3>4
  <2>3. fetch_wait /\ (mem_ready \/ BP!mem_busy) => captured.addr = Code
    BY <2>1 DEF Bus, OnBus, BP!mem_busy
  <2>4. ~(mem_op_pending /\ fetch_wait)
    BY <2>1 DEF Bus
  <2> QED BY <2>2, <2>3, <2>4 DEF CompletionIsOwn
<1>2. Inv => BusIsOwned
  BY <1>1 DEF BusIsOwned, PoppedWordIsIssued, Inv, Bus
<1>3. Inv /\ [Next]_vars => Inv'
  BY NextInv
<1> QED BY <1>2, <1>3, InitInv, PTL DEF Spec

\* The tags, valid and dirty bits that an access acts on are those that the
\* arrays hold in the cycle in which it does.
THEOREM LatchedMetadataIsCurrent == ASSUME ~DivBehindMem PROVE Spec => []MetadataIsCurrent
<1>1. Inv => MetadataIsCurrent
  BY DEF Inv, Metadata, MetadataIsCurrent, data_cache_cs
<1>2. Inv /\ [Next]_vars => Inv'
  BY NextInv
<1> QED BY <1>1, <1>2, InitInv, PTL DEF Spec

\* FENCE.I walks over the cache alone: no access, no refill, and a slot in the
\* write buffer for every word it evicts.
THEOREM MaintenanceHasTheCacheToItself == ASSUME ~DivBehindMem PROVE Spec => []MaintenanceIsAlone
<1>1. ASSUME Inv PROVE MaintenanceIsAlone
  <2>1. Shapes /\ Bus /\ Alone /\ Refilling
    BY <1>1 DEF Inv
  <2>2. SUFFICES ASSUME fence_i_state \in {"CLEAN", "WRITEBACK"} \/ DC!clean_active
        PROVE  /\ ~data_cache_cs /\ ~cpu_op /\ ~request_refill
               /\ dirty_writeback # None => ~WB!full
    BY DEF MaintenanceIsAlone
  <2>3. fence_i_state \in {"CLEAN", "WRITEBACK", "FINISH"}
    BY <2>1, <2>2 DEF Alone, Shapes, DC!clean_active
  <2>4. ex_mem = None /\ ~mem_access
    BY <2>1, <2>3, Cacheable DEF Alone
  <2> QED BY <2>1, <2>3, <2>4 DEF Alone, Bus, Refilling, data_cache_cs
<1>2. Inv => MaintenanceIsAlone
  BY <1>1
<1>3. Inv /\ [Next]_vars => Inv'
  BY NextInv
<1> QED BY <1>2, <1>3, InitInv, PTL DEF Spec

\* A FENCE lets the instructions behind it go when every access before it has
\* left MEM, the write buffer and the bus.
THEOREM FenceWaitsForStores == Spec => FenceOrders
<1> DEFINE Passes == if_id = "fence" /\ if_id' # "fence" /\ ~flush
           AtRest == /\ dirty_writeback = None /\ WB!empty /\ wb_out = None
                     /\ mem_op # "write_buffer" /\ ~mem_access /\ ~InEx(Accesses)
<1>1. ASSUME NEW dd, NEW dp, Edge(dd, dp), Passes PROVE AtRest
  <2>1. PICK w : w = Wires(dd, dp)
    OBVIOUS
  <2>2. PICK miss \in BOOLEAN, fetched \in Fences : Fetch(w, miss, fetched)
    BY <1>1, <2>1, EdgeParts
  <2>3. ~w.stall
    BY <1>1, <2>2 DEF Fetch
  <2>4. ~fence_stall
    BY <2>1, <2>3, WireFields
  <2> QED BY <1>1, <2>4 DEF fence_stall, writes_waiting
<1>2. [Next]_vars => [Passes => AtRest]_vars
  BY <1>1 DEF Next
<1> QED BY <1>2, PTL DEF Spec, FenceOrders

-----------------------------------------------------------------------------
(***************************************************************************)
(* The words of the memory side: wherever the newest copy of a word is, in *)
(* the cache, on its way out or in memory, it is the word that the stores  *)
(* of the program so far leave there.                                      *)
(*                                                                         *)
(* Coherent is kept by a step whose every word the write buffer accepts:   *)
(* each block of the cache moves a word to where Below finds it, and what  *)
(* is Below stays there until memory has it.  Coherent says more than the  *)
(* properties do: a line whose refill is under way is backed by what is    *)
(* below it even while it is dirty, or the refill would drop its word.     *)
(***************************************************************************)

-----------------------------------------------------------------------------
(* What is below the cache                                                 *)

\* Nothing under way for an address: what is below the cache is memory.
LEMMA BelowAtRest ==
  ASSUME NEW a, ~UnderWay(a)
  PROVE  Below(a) = memory[a]
BY DEF UnderWay, Evicted, Below

\* A word written to memory for the write buffer is the word written.
LEMMA WrittenBack ==
  ASSUME Inv, NEW dd, NEW dp, Edge(dd, dp)
  PROVE  (mem_op = "write_buffer" /\ mem_ready => memory[write_r.addr] = write_r.data)'
<1> DEFINE w == Wires(dd, dp)
<1>i. Shapes /\ Bus /\ Words
  BY DEF Inv
<1>0. PICK answer \in BOOLEAN : BP!Clock(MemRequest, answer)
  BY EdgeParts
<1> SUFFICES ASSUME mem_op' = "write_buffer", mem_ready'
             PROVE  memory'[write_r'.addr] = write_r'.data
  OBVIOUS
<1>1. /\ port \in {"read_done", "write"} /\ ~mem_ready /\ OnBus
      /\ port = "write" => memory' = [memory EXCEPT ![captured.addr] = BP!Merged(@, captured.data, captured.strb)]
  BY <1>0, <1>i, PortStep DEF Shapes, OnBus
<1>2. mem_op = "write_buffer" /\ write_r' = write_r
  <2>1. mem_op = None => port = "idle"
    BY <1>i, <1>1, IssueNext, RequestFacts, EdgeParts, NoneAssumption
  <2> QED BY <2>1, <1>1, <1>i, IssueNext, EdgeParts, NoneAssumption
<1>3. captured = Requested /\ Requested.wen
  BY <1>1, <1>2, <1>i, RequestFacts, NoneAssumption DEF Bus
<1>4. port = "write"
  BY <1>1, <1>3, <1>i DEF Bus
<1>5. /\ captured.addr = write_r.addr /\ captured.data = write_r.data /\ captured.strb = Lanes
      /\ captured.data \in Word /\ captured.addr \in BusAddr
  BY <1>1, <1>2, <1>3, <1>i, WordOnBus DEF BusAddr
<1>6. BP!Merged(memory[captured.addr], captured.data, Lanes) = captured.data
  BY <1>5 DEF BP!Merged, Word
<1>7. memory \in [BusAddr -> Word]
  BY <1>i DEF Words
<1> QED BY <1>1, <1>2, <1>4, <1>5, <1>6, <1>7

\* What is below the cache changes only with what the cache evicts: on its way
\* through the ring, the bus and into memory a word is never lost, passed by an
\* older one or mixed with another.
LEMMA BelowStep ==
  ASSUME Inv, NEW dd, NEW dp, Edge(dd, dp), ~lost',
         mem_op = "write_buffer" /\ mem_ready => memory[write_r.addr] = write_r.data,
         NEW a \in CacheAddr
  PROVE  Below(a)' = IF dirty_writeback' # None /\ dirty_writeback'.addr = a THEN dirty_writeback'.data
                     ELSE Below(a)
<1>w. PICK w : w = Wires(dd, dp)
  OBVIOUS
<1>i. Shapes /\ Bus /\ Words
  BY DEF Inv
<1>0. PICK answer \in BOOLEAN : BP!Clock(MemRequest, answer)
  BY EdgeParts
<1>1. dirty_writeback # None => WB!write_accepted(dirty_writeback, w.drain)
  BY <1>w, EdgeParts DEF Record
<1>2. /\ dirty_writeback # None /\ dirty_writeback.addr = a =>
           WB!Ages(a)' # {} /\ WB!load_forward(a, None, FALSE)' = dirty_writeback.data
      /\ ~(dirty_writeback # None /\ dirty_writeback.addr = a) =>
           /\ WB!Ages(a)' # {} =>
                /\ WB!Ages(a) # {}
                /\ WB!load_forward(a, None, FALSE)' = WB!load_forward(a, None, FALSE)
           /\ WB!Ages(a) # {} /\ WB!Ages(a)' = {} =>
                /\ wb_out' # None /\ wb_out'.addr = a
                /\ wb_out'.data = WB!load_forward(a, None, FALSE)
      /\ wb_out' # None /\ wb_out'.addr = a => WB!Ages(a) # {}
  <2>1. WB!write_accepted(dirty_writeback, w.drain) => dirty_writeback # None
    BY DEF WB!write_accepted
  <2>2. wb_out' # None <=> w.drain
    BY <1>w, <1>i, RingStep
  <2>3. /\ WB!write_accepted(dirty_writeback, w.drain) /\ dirty_writeback.addr = a =>
             WB!Ages(a)' # {} /\ WB!load_forward(a, None, FALSE)' = dirty_writeback.data
        /\ ~(WB!write_accepted(dirty_writeback, w.drain) /\ dirty_writeback.addr = a) =>
             /\ WB!Ages(a)' # {} =>
                  /\ WB!Ages(a) # {}
                  /\ WB!load_forward(a, None, FALSE)' = WB!load_forward(a, None, FALSE)
             /\ WB!Ages(a) # {} /\ WB!Ages(a)' = {} =>
                  /\ w.drain /\ wb_out' # None /\ wb_out'.addr = a
                  /\ wb_out'.data = WB!load_forward(a, None, FALSE)
        /\ w.drain /\ wb_out'.addr = a => WB!Ages(a) # {}
    BY <1>w, <1>i, RingStep
  <2> QED BY <2>1, <2>2, <2>3, <1>1
<1>n. /\ mem_op # None => mem_op' = IF mem_ready THEN None ELSE mem_op
      /\ mem_op # None /\ ~mem_ready => write_r' = write_r
      /\ mem_op' = "write_buffer" /\ mem_op = None =>
           wb_out # None /\ write_r' = [addr |-> wb_out.addr, data |-> wb_out.data, strb |-> Lanes]
      /\ wb_out # None => mem_op = None /\ mem_op' = "write_buffer"
  BY <1>w, <1>i, EdgeParts, IssueNext
<1>m. memory'[a] = IF port = "write" /\ mem_ready' /\ mem_op = "write_buffer" /\ write_r.addr = a
                   THEN memory'[a] ELSE memory[a]
  <2>1. CASE port = "write" /\ memory' # memory
    <3>1. memory' = [memory EXCEPT ![captured.addr] = BP!Merged(@, captured.data, captured.strb)] /\ mem_ready'
      BY <2>1, <1>i, <1>0, PortStep
    <3>2. \/ mem_op = "write_buffer" /\ captured.addr = write_r.addr
          \/ mem_op = "uncached" /\ captured.addr = ex_mem.addr
      BY <2>1, <1>i, WordOnBus DEF Bus, OnBus
    <3>3. mem_op = "uncached" => ex_mem.addr \in Io
      BY <1>i DEF Bus, data_uncacheable_mem
    <3>4. a \notin Io /\ a \in BusAddr /\ memory \in [BusAddr -> Word]
      BY <1>i, AddressAssumption DEF BusAddr, DataAddr, Words
    <3> QED BY <2>1, <3>1, <3>2, <3>3, <3>4
  <2>2. CASE memory' = memory
    BY <2>2
  <2> QED BY <2>1, <2>2, <1>i, <1>0, PortStep DEF Shapes
<1>p. mem_ready => port = "idle"
  BY <1>i DEF Shapes
<1>3. ASSUME ~(dirty_writeback' # None /\ dirty_writeback'.addr = a)
      PROVE  Below(a)' = Below(a)
  <2>0. Below(a)' = IF WB!Ages(a)' # {} THEN WB!load_forward(a, None, FALSE)'
                    ELSE IF wb_out' # None /\ wb_out'.addr = a THEN wb_out'.data
                    ELSE IF mem_op' = "write_buffer" /\ write_r'.addr = a THEN write_r'.data
                    ELSE memory'[a]
    BY <1>3 DEF Below
  <2>1. CASE dirty_writeback # None /\ dirty_writeback.addr = a
    BY <2>0, <2>1, <1>2 DEF Below
  <2>2. CASE ~(dirty_writeback # None /\ dirty_writeback.addr = a) /\ WB!Ages(a) # {}
    BY <2>0, <2>2, <1>2 DEF Below
  <2>3. CASE ~(dirty_writeback # None /\ dirty_writeback.addr = a) /\ WB!Ages(a) = {}
    <3>1. /\ WB!Ages(a)' = {} /\ ~(wb_out' # None /\ wb_out'.addr = a)
      BY <2>3, <1>2
    <3>2. Below(a)' = IF mem_op' = "write_buffer" /\ write_r'.addr = a THEN write_r'.data
                      ELSE memory'[a]
      BY <2>0, <3>1
    <3>3. Below(a) = IF wb_out # None /\ wb_out.addr = a THEN wb_out.data
                     ELSE IF mem_op = "write_buffer" /\ write_r.addr = a THEN write_r.data
                     ELSE memory[a]
      BY <2>3 DEF Below
    <3>4. CASE wb_out # None /\ wb_out.addr = a
      BY <3>2, <3>3, <3>4, <1>n
    <3>5. CASE ~(wb_out # None /\ wb_out.addr = a) /\ mem_op = "write_buffer" /\ write_r.addr = a
      <4>1. CASE mem_ready
        <5>1. mem_op' = None /\ memory'[a] = memory[a]
          BY <4>1, <3>5, <1>n, <1>m, <1>p, NoneAssumption
        <5> QED BY <5>1, <4>1, <3>2, <3>3, <3>5, NoneAssumption
      <4>2. CASE ~mem_ready
        BY <4>2, <3>2, <3>3, <3>5, <1>n, NoneAssumption
      <4> QED BY <4>1, <4>2
    <3>6. CASE ~(wb_out # None /\ wb_out.addr = a) /\ ~(mem_op = "write_buffer" /\ write_r.addr = a)
      <4>1. ~(mem_op' = "write_buffer" /\ write_r'.addr = a)
        BY <3>6, <1>n, NoneAssumption
      <4>2. memory'[a] = memory[a]
        BY <3>6, <1>m
      <4> QED BY <4>1, <4>2, <3>2, <3>3, <3>6
    <3> QED BY <3>4, <3>5, <3>6
  <2> QED BY <2>1, <2>2, <2>3
<1>4. ASSUME dirty_writeback' # None, dirty_writeback'.addr = a
      PROVE  Below(a)' = dirty_writeback'.data
  BY <1>4 DEF Below
<1> QED BY <1>3, <1>4

-----------------------------------------------------------------------------
(* What a step looks at and changes                                        *)

\* The stores of the program take effect when they are served.
LEMMA ArchNext ==
  ASSUME Inv, NEW dd, NEW dp, Edge(dd, dp), NEW w, w = Wires(dd, dp)
  PROVE  arch' = IF ex_mem_is_store /\ Served(w)
                 THEN [arch EXCEPT ![ex_mem.addr] = BP!Merged(@, ex_mem.data, ex_mem.strb)]
                 ELSE arch
<1>1. ex_mem_is_store => mem_access /\ ~InMem({"amo_load"})
  BY DEF mem_access, ex_mem_is_store, InMem
<1>2. mem_access => (~w.ex_stall <=> Served(w) /\ ~InMem({"amo_load"}))
  BY ServedLeaves DEF Inv
<1>3. ex_mem_is_store => (Served(w) <=> ~w.ex_stall \/ w.hit \/ cpu_mem_complete)
  BY <1>1, <1>2 DEF Served
<1>4. Record(w)
  BY EdgeParts
<1> QED BY <1>3, <1>4 DEF Record

\* The ways that hit hold the word of the access in MEM.
LEMMA HitIsCached ==
  ASSUME Inv, mem_access, ~data_uncacheable_mem
  PROVE  /\ DC!HitWays = CachedWays(ex_mem.addr)
         /\ ~DC!flush_running /\ data_addr_q = ex_mem.addr
         /\ ex_mem.addr \in CacheAddr /\ ex_mem.addr.idx \in DC!Index
         /\ \A v \in DC!Way : meta[v] = DC!MetaOf(line[ex_mem.addr.idx][v])
<1>1. ex_mem # None /\ ex_mem.addr \in CacheAddr
  BY Cacheable DEF Inv
<1>2. ~DC!flush_running
  BY <1>1 DEF Inv, Alone
<1>3. data_addr_q = ex_mem.addr /\ \A v \in DC!Way : meta[v] = DC!MetaOf(line[ex_mem.addr.idx][v])
  BY DEF Inv, Metadata
<1>4. ASSUME NEW v \in DC!Way
      PROVE  meta[v].valid = line[ex_mem.addr.idx][v].valid /\ meta[v].tag = line[ex_mem.addr.idx][v].tag
  BY <1>3, MetaFields
<1>5. DC!HitWays = CachedWays(ex_mem.addr)
  BY <1>2, <1>3, <1>4 DEF DC!HitWays, CachedWays
<1> QED BY <1>1, <1>2, <1>3, <1>5 DEF CacheAddr, DC!Index

\* What is coherent before a step, as long as no word has been lost.
LEMMA CoherentBefore ==
  ASSUME Coherent, NEW dd, NEW dp, Edge(dd, dp), ~lost'
  PROVE  /\ \A a \in CacheAddr : CacheCoherent(a)
         /\ \A a \in Io : DeviceCoherent(a)
         /\ mem_op = "write_buffer" /\ mem_ready => memory[write_r.addr] = write_r.data
         /\ amo_calc => amo_a = arch[ex_mem.addr]
         /\ InMem({"amo_store"}) => amo_rd_q = arch[ex_mem.addr]
<1>1. ~lost
  BY EdgeParts DEF Record
<1> QED BY <1>1 DEF Coherent

\* Lines, by address.
LEMMA LineOf ==
  ASSUME Inv, NEW a \in CacheAddr, NEW v \in DC!Way
  PROVE  line[a.idx][v] \in DC!Line /\ a.idx \in DC!Index /\ a.tag \in Tags
BY DEF Inv, Words, DC!TypeOK, CacheAddr, DC!Index

-----------------------------------------------------------------------------
(* The copies of a word, block by block of the cache                       *)

\* Nothing is written to the lines, and nothing evicted.
LEMMA QuietCoherent ==
  ASSUME Inv, Coherent, NEW dd, NEW dp, Edge(dd, dp), ~lost', NEW a \in CacheAddr,
         ~DC!flush_running, line' = line, dirty_writeback' = None, flush_cnt' = flush_cnt,
         request_refill' = request_refill, refill' = refill, arch'[a] = arch[a]
  PROVE  CacheCoherent(a)'
<1>1. CacheCoherent(a) /\ Below(a)' = Below(a)
  BY CoherentBefore, BelowStep
<1>2. CachedWays(a)' = CachedWays(a)
  BY DEF CachedWays, DC!flush_running
<1>3. \A v : BeingEvicted(a.idx, v)' <=> BeingEvicted(a.idx, v)
  BY DEF BeingEvicted
<1> QED BY <1>1, <1>2, <1>3 DEF CacheCoherent

\* The reset flush: no line counts until the last one is invalid.
LEMMA FlushCoherent ==
  ASSUME Inv, Coherent, NEW dd, NEW dp, Edge(dd, dp), ~lost', NEW a \in CacheAddr,
         NEW in, DC!Flush(in), ex_mem = None
  PROVE  CacheCoherent(a)'
<1>1. CacheCoherent(a) /\ Below(a)' = Below(a)
  BY CoherentBefore, BelowStep DEF DC!Flush
<1>2. arch' = arch
  BY ArchNext DEF ex_mem_is_store, InMem
<1>3. CachedWays(a) = {}
  BY DEF CachedWays, DC!Flush
<1>4. CachedWays(a)' = {}
  <2> SUFFICES ASSUME NEW v \in DC!Way, ~DC!flush_running'
               PROVE  ~line'[a.idx][v].valid
    BY DEF CachedWays
  <2>1. flush_cnt < CACHE_DEPTH /\ flush_cnt' = flush_cnt + 1 /\ flush_cnt \in 0 .. CACHE_DEPTH
    BY DEF DC!Flush, DC!flush_running, Inv, Words, DC!TypeOK
  <2>2. ~(flush_cnt' < CACHE_DEPTH)
    BY DEF DC!flush_running
  <2>3. flush_cnt \in DC!Index /\ a.idx \in DC!Index /\ (a.idx < flush_cnt \/ a.idx = flush_cnt)
    BY <2>1, <2>2, SizesAssumption DEF CacheAddr, DC!Index
  <2>4. line' = [line EXCEPT ![flush_cnt] = [u \in DC!Way |->
                   [line[flush_cnt][u] EXCEPT !.valid = FALSE, !.dirty = FALSE, !.lru = FALSE]]]
    BY DEF DC!Flush
  <2>5. line \in [DC!Index -> [DC!Way -> DC!Line]] /\ line[a.idx][v] \in DC!Line
    BY LineOf DEF Inv, Words, DC!TypeOK
  <2>6. CASE a.idx = flush_cnt
    <3>1. line'[a.idx][v] = [line[a.idx][v] EXCEPT !.valid = FALSE, !.dirty = FALSE, !.lru = FALSE]
      BY <2>3, <2>4, <2>5, <2>6
    <3> QED BY <3>1, <2>5 DEF DC!Line
  <2>7. CASE a.idx < flush_cnt /\ a.idx # flush_cnt
    <3>1. line'[a.idx][v] = line[a.idx][v]
      BY <2>3, <2>4, <2>5, <2>7
    <3>2. DC!flush_running
      BY DEF DC!Flush
    <3> QED BY <2>3, <2>7, <3>1, <3>2 DEF Inv, Metadata
  <2> QED BY <2>3, <2>6, <2>7
<1> QED BY <1>1, <1>2, <1>3, <1>4 DEF CacheCoherent

\* The walk of FENCE.I: a dirty word goes into the write buffer as its line is
\* marked clean.
LEMMA EmitCoherent ==
  ASSUME Inv, Coherent, NEW dd, NEW dp, Edge(dd, dp), ~lost', NEW a \in CacheAddr,
         NEW in, DC!CleanEmit(in), in.full = WB!full, ex_mem = None, ~request_refill
  PROVE  CacheCoherent(a)'
<1> DEFINE i == clean_index
           c == clean_way
           l == line[i][c]
<1>1. CacheCoherent(a) /\ ~DC!flush_running /\ arch' = arch /\ ~BeingEvicted(a.idx, 0) /\ ~request_refill'
  BY CoherentBefore, ArchNext DEF DC!CleanEmit, ex_mem_is_store, InMem, BeingEvicted
<1>2. /\ data_addr_q.idx = i /\ meta[c] = DC!MetaOf(l)
      /\ i \in DC!Index /\ c \in DC!Way /\ l \in DC!Line
      /\ line \in [DC!Index -> [DC!Way -> DC!Line]]
  BY DEF DC!CleanEmit, Inv, Metadata, Words, DC!TypeOK
<1>3. CASE WB!full
  <2>1. line' = line /\ dirty_writeback' = None /\ flush_cnt' = flush_cnt
        /\ request_refill' = request_refill /\ refill' = refill
    BY <1>3 DEF DC!CleanEmit
  <2> QED BY <2>1, <1>1, QuietCoherent
<1>4. CASE ~WB!full
  <2> HIDE DEF l, i, c
  <2>1. meta[c].tag = l.tag /\ meta[c].valid = l.valid /\ meta[c].dirty = l.dirty
    BY <1>2 DEF DC!MetaOf
  <2>2. dirty_writeback' = IF l.valid /\ l.dirty
                           THEN [addr |-> [tag |-> l.tag, idx |-> i], data |-> l.data] ELSE None
    BY <1>4, <1>2, <2>1 DEF DC!CleanEmit, DC!index_addr_q, l, i, c
  <2>3. line' = [line EXCEPT ![i] = [line[i] EXCEPT ![c].dirty = FALSE]]
    <3>1. line' = [line EXCEPT ![i][c].dirty = FALSE]
      BY <1>4, <1>2 DEF DC!CleanEmit, DC!index_addr_q, i, c
    <3> QED BY <3>1
  <2>4. ASSUME NEW v \in DC!Way
        PROVE  LET k == line'[a.idx][v]
               IN  /\ k.valid = line[a.idx][v].valid /\ k.tag = line[a.idx][v].tag
                   /\ k.data = line[a.idx][v].data
                   /\ k.dirty = IF a.idx = i /\ v = c THEN FALSE ELSE line[a.idx][v].dirty
    <3>1. line'[a.idx] = IF a.idx = i THEN [line[a.idx] EXCEPT ![c].dirty = FALSE] ELSE line[a.idx]
      BY <1>2, <2>3, LineOf
    <3>2. line'[a.idx][v] = IF a.idx = i /\ v = c THEN [line[a.idx][v] EXCEPT !.dirty = FALSE]
                            ELSE line[a.idx][v]
      BY <3>1, <1>2, LineOf
    <3>3. line[a.idx][v] \in DC!Line
      BY LineOf
    <3> QED BY <3>2, <3>3 DEF DC!Line
  <2>5. CachedWays(a)' = CachedWays(a)
    BY <1>1, <2>4 DEF CachedWays, DC!CleanEmit, DC!flush_running
  <2>6. Below(a)' = IF dirty_writeback' # None /\ dirty_writeback'.addr = a THEN dirty_writeback'.data
                    ELSE Below(a)
    BY CoherentBefore, BelowStep
  <2>7. dirty_writeback' # None /\ dirty_writeback'.addr = a => c \in CachedWays(a) /\ a.idx = i /\ Below(a)' = l.data
    BY <1>1, <1>2, <2>2, <2>6 DEF CachedWays, l
  <2>8. ASSUME NEW v \in CachedWays(a)
        PROVE  /\ arch'[a] = line'[a.idx][v].data
               /\ ~line'[a.idx][v].dirty \/ BeingEvicted(a.idx, v)' => Below(a)' = line'[a.idx][v].data
    <3>1. v \in DC!Way /\ arch[a] = line[a.idx][v].data
          /\ (~line[a.idx][v].dirty => Below(a) = line[a.idx][v].data)
      BY <1>1 DEF CachedWays, CacheCoherent
    <3>2. arch'[a] = line'[a.idx][v].data
      BY <1>1, <2>4, <3>1
    <3>3. ~BeingEvicted(a.idx, v)'
      BY <1>1 DEF BeingEvicted
    <3>4. CASE a.idx = i /\ v = c /\ l.valid /\ l.dirty
      <4>1. dirty_writeback' # None /\ dirty_writeback'.addr = a
        <5>1. dirty_writeback' = [addr |-> [tag |-> l.tag, idx |-> i], data |-> l.data]
          BY <2>2, <3>4
        <5>2. a = [tag |-> l.tag, idx |-> i]
          BY <3>4 DEF CachedWays, CacheAddr, l
        <5>3. [addr |-> [tag |-> l.tag, idx |-> i], data |-> l.data] \in DC!Writeback
          BY <1>2 DEF DC!Writeback, DC!CacheAddr, DC!Line
        <5> QED BY <5>1, <5>2, <5>3, NoneAssumption
      <4> QED BY <4>1, <2>7, <3>2, <3>3, <2>4, <3>1, <3>4 DEF l
    <3>5. CASE ~(a.idx = i /\ v = c /\ l.valid /\ l.dirty)
      <4>1. ~line'[a.idx][v].dirty => ~line[a.idx][v].dirty
        BY <2>4, <3>1, <3>5 DEF CachedWays, l
      <4>2. ~(dirty_writeback' # None /\ dirty_writeback'.addr = a) \/ line[a.idx][v].dirty
        <5>1. dirty_writeback' # None /\ dirty_writeback'.addr = a => v = c /\ a.idx = i
          BY <2>7, <1>1 DEF CacheCoherent
        <5>2. dirty_writeback' # None => l.valid /\ l.dirty
          BY <2>2
        <5> QED BY <5>1, <5>2, <3>5
      <4> QED BY <4>1, <4>2, <2>6, <3>1, <3>2, <3>3, <2>4
    <3> QED BY <3>4, <3>5
  <2>9. CachedWays(a) = {} => arch'[a] = Below(a)'
    BY <1>1, <2>6, <2>7 DEF CacheCoherent
  <2> QED BY <2>5, <2>8, <2>9, <1>1 DEF CacheCoherent
<1> QED BY <1>3, <1>4

\* A word is installed in a way that holds it, or when no way does.
LEMMA InstalledWays ==
  ASSUME Inv, NEW a \in CacheAddr, NEW b \in CacheAddr, NEW u \in DC!Way, NEW new,
         line' = DC!Install(b.idx, u, new), new.valid = TRUE, new.tag = b.tag,
         ~DC!flush_running, flush_cnt' = flush_cnt, CachedWays(b) \subseteq {u}
  PROVE  /\ CachedWays(b)' = {u} /\ line'[b.idx][u] = new
         /\ a # b /\ a.idx = b.idx => CachedWays(a)' = CachedWays(a) \ {u}
         /\ a # b /\ a.idx # b.idx => CachedWays(a)' = CachedWays(a)
         /\ a # b => \A v \in CachedWays(a)' : line'[a.idx][v].data = line[a.idx][v].data
                                              /\ line'[a.idx][v].dirty = line[a.idx][v].dirty
<1>1. ~DC!flush_running'
  BY DEF DC!flush_running
<1>2. ASSUME NEW c \in CacheAddr, NEW v \in DC!Way
      PROVE  /\ c.idx = b.idx /\ v = u => line'[c.idx][v] = new
             /\ ~(c.idx = b.idx /\ v = u) =>
                  /\ line'[c.idx][v].valid = line[c.idx][v].valid
                  /\ line'[c.idx][v].tag = line[c.idx][v].tag
                  /\ line'[c.idx][v].data = line[c.idx][v].data
                  /\ line'[c.idx][v].dirty = line[c.idx][v].dirty
  <2>1. b.idx \in DC!Index /\ c.idx \in DC!Index /\ line[c.idx][v] \in DC!Line
    BY LineOf
  <2>2. line'[c.idx][v] = IF c.idx = b.idx THEN IF v = u THEN new ELSE [line[c.idx][v] EXCEPT !.lru = TRUE]
                          ELSE line[c.idx][v]
    BY <2>1, InstallLines DEF Inv, Words, DC!TypeOK
  <2> QED BY <2>1, <2>2, MetaOfLru
<1>3. a # b /\ a.idx = b.idx => a.tag # b.tag
  BY DEF CacheAddr
<1>4. CachedWays(b)' = {u}
  <2>1. \A v \in DC!Way : v # u => ~(line[b.idx][v].valid /\ line[b.idx][v].tag = b.tag)
    BY DEF CachedWays
  <2>2. \A v \in DC!Way : (line'[b.idx][v].valid /\ line'[b.idx][v].tag = b.tag) <=> v = u
    BY <1>2, <2>1
  <2> QED BY <1>1, <2>2 DEF CachedWays
<1>5. ASSUME a # b, a.idx = b.idx PROVE CachedWays(a)' = CachedWays(a) \ {u}
  BY <1>1, <1>2, <1>3, <1>5 DEF CachedWays
<1>6. ASSUME a # b, a.idx # b.idx PROVE CachedWays(a)' = CachedWays(a)
  BY <1>1, <1>2, <1>6 DEF CachedWays
<1>7. ASSUME a # b, NEW v \in CachedWays(a)'
      PROVE  line'[a.idx][v].data = line[a.idx][v].data /\ line'[a.idx][v].dirty = line[a.idx][v].dirty
  <2>1. v \in DC!Way /\ ~(a.idx = b.idx /\ v = u)
    BY <1>2, <1>3, <1>7 DEF CachedWays
  <2> QED BY <2>1, <1>2
<1> QED BY <1>2, <1>4, <1>5, <1>6, <1>7

\* The copies stay coherent when what is installed is, and when the word that
\* had the way is below the cache.
LEMMA InstallCoherent ==
  ASSUME Inv, NEW a \in CacheAddr, NEW b \in CacheAddr, NEW u \in DC!Way, NEW new,
         line' = DC!Install(b.idx, u, new), new.valid = TRUE, new.tag = b.tag,
         ~DC!flush_running, flush_cnt' = flush_cnt, CachedWays(b) \subseteq {u},
         ~request_refill', CacheCoherent(a),
         a = b => arch'[a] = new.data,
         a = b /\ ~new.dirty => Below(a)' = new.data,
         a # b => arch'[a] = arch[a],
         a # b /\ a.idx = b.idx /\ u \in CachedWays(a) => Below(a)' = line[a.idx][u].data,
         a # b /\ ~(a.idx = b.idx /\ u \in CachedWays(a)) => Below(a)' = Below(a)
  PROVE  CacheCoherent(a)'
<1>1. /\ CachedWays(b)' = {u} /\ line'[b.idx][u] = new
      /\ a # b /\ a.idx = b.idx => CachedWays(a)' = CachedWays(a) \ {u}
      /\ a # b /\ a.idx # b.idx => CachedWays(a)' = CachedWays(a)
      /\ a # b => \A v \in CachedWays(a)' : line'[a.idx][v].data = line[a.idx][v].data
                                           /\ line'[a.idx][v].dirty = line[a.idx][v].dirty
  BY InstalledWays
<1>2. \A v : ~BeingEvicted(a.idx, v)'
  BY DEF BeingEvicted
<1>3. CASE a = b
  BY <1>1, <1>2, <1>3 DEF CacheCoherent
<1>4. CASE a # b
  <2>1. /\ \A v, w \in CachedWays(a) : v = w
        /\ CachedWays(a) = {} => arch[a] = Below(a)
        /\ \A v \in CachedWays(a) : /\ arch[a] = line[a.idx][v].data
                                    /\ ~line[a.idx][v].dirty => Below(a) = line[a.idx][v].data
    BY DEF CacheCoherent
  <2>2. CASE a.idx = b.idx /\ u \in CachedWays(a)
    <3>1. CachedWays(a)' = {}
      BY <1>1, <1>4, <2>1, <2>2
    <3>2. arch'[a] = Below(a)'
      BY <1>4, <2>1, <2>2
    <3> QED BY <3>1, <3>2 DEF CacheCoherent
  <2>3. CASE ~(a.idx = b.idx /\ u \in CachedWays(a))
    <3>1. CachedWays(a)' = CachedWays(a) /\ Below(a)' = Below(a)
      BY <1>1, <1>4, <2>3
    <3> QED BY <1>1, <1>2, <1>4, <2>1, <3>1 DEF CacheCoherent
  <2> QED BY <2>2, <2>3
<1> QED BY <1>3, <1>4

\* A miss evicts the word of its victim, if it is not below the cache already.
LEMMA VictimBelow ==
  ASSUME Inv, Coherent, NEW dd, NEW dp, Edge(dd, dp), ~lost', NEW a \in CacheAddr,
         DC!HitWays = {}, ~DC!flush_running, mem_access, ~data_uncacheable_mem,
         dirty_writeback' = DC!Victim, NEW b, b = ex_mem.addr,
         NEW u, u = DC!set_to_write_on_miss
  PROVE  /\ u \in DC!Way /\ CachedWays(b) = {}
         /\ a.idx = b.idx /\ u \in CachedWays(a) => Below(a)' = line[a.idx][u].data
         /\ ~(a.idx = b.idx /\ u \in CachedWays(a)) => Below(a)' = Below(a)
<1>1. /\ CacheCoherent(a)
      /\ Below(a)' = IF dirty_writeback' # None /\ dirty_writeback'.addr = a THEN dirty_writeback'.data
                     ELSE Below(a)
  BY CoherentBefore, BelowStep
<1>2. /\ CachedWays(b) = {} /\ data_addr_q = b /\ b \in CacheAddr /\ u \in DC!Way
      /\ \A v \in DC!Way : meta[v] = DC!MetaOf(line[b.idx][v])
  BY HitIsCached DEF DC!set_to_write_on_miss, DC!Way
<1>3. DC!Victim = IF meta[u].dirty
                  THEN [addr |-> [tag |-> meta[u].tag, idx |-> b.idx], data |-> line[b.idx][u].data]
                  ELSE None
  BY <1>2 DEF DC!Victim, DC!index_addr_q
<1>4. meta[u].dirty = line[b.idx][u].dirty /\ meta[u].tag = line[b.idx][u].tag
  BY <1>2, MetaFields
<1>5. line[b.idx][u] \in DC!Line /\ b.idx \in DC!Index
  BY <1>2, LineOf
<1>6. line[b.idx][u].dirty => line[b.idx][u].valid
  BY <1>2, <1>5 DEF Inv, Metadata
<1>7. CASE line[b.idx][u].dirty
  <2>1. dirty_writeback' = [addr |-> [tag |-> line[b.idx][u].tag, idx |-> b.idx], data |-> line[b.idx][u].data]
    BY <1>3, <1>4, <1>7
  <2>2. [addr |-> [tag |-> line[b.idx][u].tag, idx |-> b.idx], data |-> line[b.idx][u].data] \in DC!Writeback
    BY <1>5 DEF DC!Writeback, DC!CacheAddr, DC!Line
  <2>3. dirty_writeback' # None
    BY <2>1, <2>2, NoneAssumption
  <2>4. a = [tag |-> line[b.idx][u].tag, idx |-> b.idx] <=> a.idx = b.idx /\ u \in CachedWays(a)
    BY <1>2, <1>6, <1>7 DEF CachedWays, CacheAddr
  <2> QED BY <1>1, <1>2, <2>1, <2>3, <2>4
<1>8. CASE ~line[b.idx][u].dirty
  <2>1. Below(a)' = Below(a)
    BY <1>1, <1>3, <1>4, <1>8
  <2> QED BY <1>1, <1>2, <1>8, <2>1 DEF CacheCoherent
<1> QED BY <1>7, <1>8

\* A miss asks for a refill: the word of the victim is on its way to memory, and
\* its line stays until the refill is there.
LEMMA MissRefillCoherent ==
  ASSUME Inv, Coherent, NEW dd, NEW dp, Edge(dd, dp), ~lost', NEW a \in CacheAddr,
         NEW w, w = Wires(dd, dp), NEW in, DC!MissRefill(in),
         data_cache_cs, ~w.hit, ~w.forward
  PROVE  CacheCoherent(a)'
<1>1. mem_access /\ ~data_uncacheable_mem /\ ~cpu_op /\ ~DC!flush_running
  BY Cacheable DEF Inv, DC!MissRefill, DC!Miss, DC!Access, DC!Normal
<1>2. DC!HitWays = {}
  BY <1>1, WireFields DEF data_cache_hit_comb, DC!cache_hit_comb
<1>b. PICK b : b = ex_mem.addr
  OBVIOUS
<1>u. PICK u : u = DC!set_to_write_on_miss
  OBVIOUS
<1>3. /\ dirty_writeback' = DC!Victim /\ line' = line /\ flush_cnt' = flush_cnt
      /\ refill'.idx = data_addr_q.idx /\ refill'.set = u
  BY <1>u DEF DC!MissRefill, DC!index_addr_q, DC!maintenance
<1>4. arch' = arch
  BY <1>1, ArchNext DEF Served, cpu_mem_complete
<1>5. /\ a.idx = b.idx /\ u \in CachedWays(a) => Below(a)' = line[a.idx][u].data
      /\ ~(a.idx = b.idx /\ u \in CachedWays(a)) => Below(a)' = Below(a)
      /\ data_addr_q = b /\ CacheCoherent(a)
  BY <1>b, <1>u, <1>1, <1>2, <1>3, VictimBelow, HitIsCached, CoherentBefore
<1>6. CachedWays(a)' = CachedWays(a)
  BY <1>3 DEF CachedWays, DC!flush_running
<1>7. \A v : BeingEvicted(a.idx, v)' => a.idx = b.idx /\ v = u
  BY <1>3, <1>5 DEF BeingEvicted
<1> QED BY <1>3, <1>4, <1>5, <1>6, <1>7 DEF CacheCoherent

\* A miss that the write buffer answers: the word that waits there is the newest.
LEMMA MissForwardCoherent ==
  ASSUME Inv, Coherent, NEW dd, NEW dp, Edge(dd, dp), ~lost', NEW a \in CacheAddr,
         NEW w, w = Wires(dd, dp), NEW in, DC!MissForward(in),
         data_cache_cs, ~w.hit, w.forward, ~ex_mem_is_store, ~request_refill,
         in.data_in = load_forward_out
  PROVE  CacheCoherent(a)'
<1>1. mem_access /\ ~data_uncacheable_mem /\ ~DC!flush_running
  BY Cacheable DEF Inv, DC!MissForward, DC!Miss, DC!Access, DC!Normal
<1>2. DC!HitWays = {}
  BY <1>1, WireFields DEF data_cache_hit_comb, DC!cache_hit_comb
<1>b. PICK b : b = ex_mem.addr
  OBVIOUS
<1>u. PICK u : u = DC!set_to_write_on_miss
  OBVIOUS
<1>n. PICK new : new = [tag |-> b.tag, valid |-> TRUE, dirty |-> TRUE, lru |-> FALSE, data |-> load_forward_out]
  OBVIOUS
<1>3. /\ data_addr_q = b /\ b \in CacheAddr /\ CachedWays(b) = {} /\ u \in DC!Way
      /\ dirty_writeback' = DC!Victim
      /\ CacheCoherent(a) /\ CacheCoherent(b)
  BY <1>b, <1>u, <1>1, <1>2, HitIsCached, CoherentBefore DEF DC!MissForward, DC!set_to_write_on_miss, DC!Way
<1>4. /\ line' = DC!Install(b.idx, u, new) /\ flush_cnt' = flush_cnt /\ ~request_refill'
  BY <1>3, <1>n, <1>u DEF DC!MissForward, DC!index_addr_q, DC!maintenance
<1>5. arch' = arch
  BY ArchNext
<1>6. arch[b] = load_forward_out
  <2>1. arch[b] = Below(b)
    BY <1>3 DEF CacheCoherent
  <2>2. load_forward_use(w.hit)
    BY WireFields
  <2>3. IF dirty_writeback # None /\ dirty_writeback.addr = b
        THEN load_forward_out = dirty_writeback.data
        ELSE WB!Ages(b) # {} /\ load_forward_out = WB!load_forward(b, None, FALSE)
    BY <1>b, <2>2, ForwardedWord DEF Inv
  <2> QED BY <2>1, <2>3 DEF Below
<1>7. /\ a.idx = b.idx /\ u \in CachedWays(a) => Below(a)' = line[a.idx][u].data
      /\ ~(a.idx = b.idx /\ u \in CachedWays(a)) => Below(a)' = Below(a)
  BY <1>b, <1>u, <1>1, <1>2, <1>3, VictimBelow
<1>8. new.valid = TRUE /\ new.tag = b.tag /\ new.dirty = TRUE /\ new.data = load_forward_out
  BY <1>n
<1> QED BY <1>1, <1>3, <1>4, <1>5, <1>6, <1>7, <1>8, InstallCoherent

\* A store that hits: the line, and what the program leaves there, change alike.
LEMMA HitWriteCoherent ==
  ASSUME Inv, Coherent, NEW dd, NEW dp, Edge(dd, dp), ~lost', NEW a \in CacheAddr,
         NEW w, w = Wires(dd, dp), NEW in, DC!HitWrite(in),
         data_cache_cs, w.hit, ex_mem_is_store,
         in.data_in = ex_mem.data, in.strb = ex_mem.strb
  PROVE  CacheCoherent(a)'
<1>1. mem_access /\ ~data_uncacheable_mem /\ ~DC!flush_running /\ DC!HitWays # {}
  BY Cacheable, WireFields
     DEF Inv, DC!HitWrite, DC!Access, DC!Normal, data_cache_hit_comb, DC!cache_hit_comb
<1>b. PICK b : b = ex_mem.addr
  OBVIOUS
<1>u. PICK u : u = DC!set_to_write_on_hit
  OBVIOUS
<1>n. PICK new : new = [tag |-> b.tag, valid |-> TRUE, dirty |-> TRUE, lru |-> FALSE,
                        data |-> DC!Merged(line[b.idx][u].data, ex_mem.data, ex_mem.strb)]
  OBVIOUS
<1>3. /\ data_addr_q = b /\ b \in CacheAddr /\ DC!HitWays = CachedWays(b)
      /\ CacheCoherent(a) /\ CacheCoherent(b)
  BY <1>b, <1>1, HitIsCached, CoherentBefore
<1>4. u \in DC!Way /\ CachedWays(b) = {u}
  <2>1. u \in CachedWays(b)
    BY <1>u, <1>1, <1>3 DEF DC!set_to_write_on_hit, CachedWays, DC!Way
  <2> QED BY <2>1, <1>3 DEF CachedWays, CacheCoherent
<1>5. /\ line' = DC!Install(b.idx, u, new) /\ flush_cnt' = flush_cnt /\ ~request_refill'
      /\ dirty_writeback' = None
  BY <1>1, <1>3, <1>n, <1>u DEF DC!HitWrite, DC!index_addr_q, DC!maintenance, Inv, Refilling
<1>6. arch' = [arch EXCEPT ![b] = BP!Merged(@, ex_mem.data, ex_mem.strb)]
  BY <1>b, ArchNext DEF Served
<1>7. arch'[b] = new.data /\ (a # b => arch'[a] = arch[a])
  <2>1. arch \in [DataAddr -> Word] /\ b \in DataAddr /\ a \in DataAddr
    BY <1>3 DEF DataAddr, Inv, Words
  <2>2. arch[b] = line[b.idx][u].data
    BY <1>3, <1>4 DEF CacheCoherent
  <2> QED BY <1>6, <2>1, <2>2, <1>n DEF DC!Merged, BP!Merged
<1>8. Below(a)' = Below(a)
  BY <1>5, CoherentBefore, BelowStep
<1>9. ~(a # b /\ a.idx = b.idx /\ u \in CachedWays(a))
  BY <1>3, <1>4 DEF CachedWays, CacheAddr
<1>10. new.valid = TRUE /\ new.tag = b.tag /\ new.dirty = TRUE
  BY <1>n
<1> QED BY <1>1, <1>3, <1>4, <1>5, <1>7, <1>8, <1>9, <1>10, InstallCoherent

\* A refill: what memory answered is the newest word, and the word of the victim
\* is below the cache.
LEMMA RefillCoherent ==
  ASSUME Inv, Coherent, NEW dd, NEW dp, Edge(dd, dp), ~lost', NEW a \in CacheAddr,
         NEW w, w = Wires(dd, dp), NEW in, in = CacheInputs(w), DC!RefillComplete(in),
         data_cache_refill_complete, mem_access, ~data_uncacheable_mem, request_refill,
         in.data_in = mem_rdata
  PROVE  CacheCoherent(a)'
<1>1. ~DC!flush_running /\ mem_op = "refill" /\ mem_ready
  BY DEF DC!RefillComplete, DC!Normal, data_cache_refill_complete
<1>b. PICK b : b = ex_mem.addr
  OBVIOUS
<1>u. PICK u : u = DC!set_to_write_on_miss
  OBVIOUS
<1>n. PICK new : new = [tag |-> b.tag, valid |-> TRUE, dirty |-> refill.wen, lru |-> FALSE,
                        data |-> IF refill.wen THEN DC!Merged(mem_rdata, refill.data, in.strb) ELSE mem_rdata]
  OBVIOUS
<1>2. /\ DC!HitWays = {} /\ ~UnderWay(b)
      /\ refill = [idx |-> b.idx, tag |-> b.tag, set |-> u, wen |-> ex_mem_is_store,
                   data |-> IF ex_mem_is_store THEN ex_mem.data ELSE None]
  BY <1>b, <1>u, <1>1 DEF Inv, Refilling
<1>3. /\ b \in CacheAddr /\ CachedWays(b) = {} /\ u \in DC!Way
      /\ CacheCoherent(a) /\ CacheCoherent(b)
  BY <1>b, <1>u, <1>2, HitIsCached, CoherentBefore DEF DC!set_to_write_on_miss, DC!Way
<1>4. /\ line' = DC!Install(b.idx, u, new) /\ flush_cnt' = flush_cnt /\ ~request_refill'
      /\ dirty_writeback' = None
  BY <1>2, <1>n DEF DC!RefillComplete, DC!maintenance
<1>5. Below(a)' = Below(a)
  BY <1>4, CoherentBefore, BelowStep
<1>6. arch[b] = mem_rdata /\ Below(b) = mem_rdata
  <2>1. mem_rdata = memory[b]
    BY <1>b, CacheInputsTyped
  <2>2. Below(b) = memory[b]
    BY <1>2, BelowAtRest
  <2> QED BY <1>3, <2>1, <2>2 DEF CacheCoherent
<1>7. arch' = IF ex_mem_is_store THEN [arch EXCEPT ![b] = BP!Merged(@, ex_mem.data, ex_mem.strb)] ELSE arch
  <2>1. Served(w)
    BY <1>1 DEF Served, cpu_mem_complete, cpu_op
  <2> QED BY <1>b, <2>1, ArchNext
<1>8. arch \in [DataAddr -> Word] /\ b \in DataAddr /\ a \in DataAddr
  BY <1>3 DEF DataAddr, Inv, Words
<1>9. arch'[b] = new.data
  <2>1. CASE ex_mem_is_store
    <3>1. in.strb = ex_mem.strb
      BY <2>1 DEF CacheInputs
    <3>2. refill.wen = TRUE /\ refill.data = ex_mem.data
      BY <1>2, <2>1
    <3> QED BY <1>6, <1>7, <1>8, <2>1, <3>1, <3>2, <1>n DEF DC!Merged, BP!Merged
  <2>2. CASE ~ex_mem_is_store
    <3>1. refill.wen = FALSE
      BY <1>2, <2>2 DEF ex_mem_is_store, InMem
    <3> QED BY <1>6, <1>7, <2>2, <3>1, <1>n
  <2> QED BY <2>1, <2>2
<1>10. a = b /\ ~new.dirty => Below(a)' = new.data
  BY <1>5, <1>6, <1>n
<1>11. a # b => arch'[a] = arch[a]
  BY <1>7, <1>8
<1>12. a.idx = b.idx /\ u \in CachedWays(a) => Below(a)' = line[a.idx][u].data
  BY <1>2, <1>3, <1>5 DEF CacheCoherent, BeingEvicted
<1>13. new.valid = TRUE /\ new.tag = b.tag
  BY <1>n
<1> QED BY <1>1, <1>3, <1>4, <1>5, <1>9, <1>10, <1>11, <1>12, <1>13, InstallCoherent

\* The copies of a cacheable word stay coherent, whichever way the cache goes.
LEMMA CacheCoherentStep ==
  ASSUME Inv, Coherent, NEW dd, NEW dp, Edge(dd, dp), ~lost', NEW a \in CacheAddr
  PROVE  CacheCoherent(a)'
<1>w. PICK w : w = Wires(dd, dp)
  OBVIOUS
<1>in. PICK in : in = CacheInputs(w)
  OBVIOUS
<1>1. arch' = IF ex_mem_is_store /\ Served(w)
              THEN [arch EXCEPT ![ex_mem.addr] = BP!Merged(@, ex_mem.data, ex_mem.strb)] ELSE arch
  BY <1>w, ArchNext
<1>2. CASE DC!flush_running /\ ex_mem = None /\ DC!Flush(in)
  BY <1>2, FlushCoherent
<1>3. CASE ~DC!flush_running /\ ex_mem = None /\ ~request_refill /\ DC!CleanStep(in)
  <2>1. arch' = arch
    BY <1>1, <1>3 DEF ex_mem_is_store, InMem
  <2> QED BY <1>3, <2>1, QuietCoherent DEF DC!CleanStep
<1>4. CASE ex_mem = None /\ ~request_refill /\ DC!CleanEmit(in)
  <2>1. in.full = WB!full
    BY <1>in DEF CacheInputs
  <2> QED BY <1>4, <2>1, EmitCoherent
<1>5. CASE /\ data_cache_refill_complete /\ mem_access /\ ~data_uncacheable_mem /\ request_refill
           /\ in.data_in = mem_rdata /\ DC!RefillComplete(in)
  BY <1>5, <1>w, <1>in, RefillCoherent
<1>6. CASE /\ ~data_cache_refill_complete /\ ~data_cache_cs /\ ~w.hit /\ ~w.forward
           /\ ~DC!flush_running /\ DC!NoAccess(in)
  <2>1. ASSUME ex_mem_is_store, Served(w)
        PROVE  ex_mem.addr # a
    <3>1. mem_op \in {"refill", "uncached"} /\ mem_ready
      BY <2>1, <1>6 DEF Served, cpu_mem_complete, cpu_op
    <3>2. mem_op # "refill"
      BY <3>1, <1>6 DEF Inv, Refilling, data_cache_refill_complete
    <3>3. ex_mem.addr \in Io
      BY <3>1, <3>2 DEF Inv, Bus, data_uncacheable_mem
    <3> QED BY <3>3, AddressAssumption
  <2>2. arch'[a] = arch[a]
    BY <1>1, <2>1
  <2> QED BY <1>6, <2>2, QuietCoherent DEF DC!NoAccess, DC!maintenance
<1>7. CASE /\ data_cache_cs /\ w.hit /\ ex_mem_is_store
           /\ in.data_in = ex_mem.data /\ in.strb = ex_mem.strb /\ DC!HitWrite(in)
  BY <1>7, <1>w, HitWriteCoherent
<1>8. CASE ~DC!flush_running /\ ex_mem_is_load /\ DC!HitRead(in)
  <2>1. arch' = arch
    BY <1>1, <1>8 DEF ex_mem_is_load, ex_mem_is_store, InMem
  <2> QED BY <1>8, <2>1, QuietCoherent DEF DC!HitRead, DC!maintenance
<1>9. CASE /\ data_cache_cs /\ ~w.hit /\ w.forward /\ ~ex_mem_is_store /\ ~request_refill
           /\ in.data_in = load_forward_out /\ DC!MissForward(in)
  BY <1>9, <1>w, MissForwardCoherent
<1>10. CASE data_cache_cs /\ ~w.hit /\ ~w.forward /\ DC!MissRefill(in)
  BY <1>10, <1>w, MissRefillCoherent
<1>11. CASE data_cache_cs /\ ~w.hit /\ ~w.forward /\ ~DC!flush_running /\ DC!MissWait(in)
  <2>1. arch' = arch
    BY <1>1, <1>11 DEF Served, cpu_mem_complete, data_cache_cs
  <2> QED BY <1>11, <2>1, QuietCoherent DEF DC!MissWait, DC!maintenance
<1> QED BY <1>2, <1>3, <1>4, <1>5, <1>6, <1>7, <1>8, <1>9, <1>10, <1>11, <1>w, <1>in, CacheStep DEF DC!Normal

-----------------------------------------------------------------------------
(* Devices *)

\* An uncached access that waits for the bus stays in MEM.
LEMMA UncachedWaits ==
  ASSUME Inv, NEW dd, NEW dp, Edge(dd, dp), mem_op = "uncached", ~mem_ready
  PROVE  ex_mem' = ex_mem /\ mem_op' = "uncached"
<1>w. PICK w : w = Wires(dd, dp)
  OBVIOUS
<1>1. mem_access /\ data_uncacheable_mem
  BY DEF Inv, Bus, cpu_op
<1>2. ~Served(w)
  BY <1>1, <1>w, ServedLeaves, Cacheable DEF Inv, Served, cpu_mem_complete
<1>3. Execute(w) /\ Issue(w)
  BY <1>w, EdgeParts
<1>4. mem_op # None
  BY NoneAssumption
<1> QED BY <1>1, <1>2, <1>3, <1>4, <1>w, ExMemNext, IssueNext DEF Inv

\* A device is written once for each store, with the word of that store.
LEMMA DeviceStep ==
  ASSUME Inv, Coherent, NEW dd, NEW dp, Edge(dd, dp), ~lost', NEW a \in Io
  PROVE  DeviceCoherent(a)'
<1> DEFINE Answered == mem_op = "uncached" /\ ex_mem_is_store /\ mem_ready /\ ex_mem.addr = a
<1>w. PICK w : w = Wires(dd, dp)
  OBVIOUS
<1>0. PICK answer \in BOOLEAN : BP!Clock(MemRequest, answer)
  BY EdgeParts
<1>i. Shapes /\ Bus /\ Words
  BY DEF Inv
<1>1. memory[a] = IF Answered THEN BP!Merged(arch[a], ex_mem.data, ex_mem.strb) ELSE arch[a]
  BY CoherentBefore DEF DeviceCoherent
<1>2. arch' = IF ex_mem_is_store /\ Served(w)
              THEN [arch EXCEPT ![ex_mem.addr] = BP!Merged(@, ex_mem.data, ex_mem.strb)] ELSE arch
  BY <1>w, ArchNext
<1>3. ex_mem_is_store /\ Served(w) /\ ex_mem.addr = a <=> Answered
  <2>1. Answered => Served(w)
    BY DEF Served, cpu_mem_complete, cpu_op
  <2>2. ASSUME ex_mem_is_store, Served(w), ex_mem.addr = a
        PROVE  Answered
    <3>1. ex_mem # None /\ data_uncacheable_mem
      BY <2>2 DEF ex_mem_is_store, InMem, data_uncacheable_mem
    <3>2. cpu_mem_complete
      BY <2>2, <3>1, <1>w, <1>i, ServedLeaves, Cacheable DEF Inv, Served
    <3> QED BY <2>2, <3>1, <3>2, <1>i DEF Bus, cpu_mem_complete, cpu_op
  <2> QED BY <2>1, <2>2
<1>4. /\ arch \in [DataAddr -> Word] /\ memory \in [BusAddr -> Word]
      /\ a \in DataAddr /\ a \in BusAddr /\ a \notin CacheAddr
  BY <1>i, AddressAssumption DEF DataAddr, BusAddr, Words
<1>5. CASE Answered
  <2>1. memory' = memory /\ ~mem_ready'
    BY <1>0, <1>5, <1>i, PortStep DEF Shapes
  <2>2. arch'[a] = BP!Merged(arch[a], ex_mem.data, ex_mem.strb)
    BY <1>2, <1>3, <1>4, <1>5
  <2> QED BY <1>1, <1>5, <2>1, <2>2 DEF DeviceCoherent
<1>6. CASE ~Answered /\ port = "write" /\ mem_ready' /\ captured.addr = a
  <2>1. memory' = [memory EXCEPT ![a] = BP!Merged(@, captured.data, captured.strb)]
    BY <1>0, <1>6, <1>i, PortStep
  <2>2. /\ mem_op = "uncached" /\ ex_mem_is_store /\ ex_mem.addr = a
        /\ captured.data = ex_mem.data /\ captured.strb = ex_mem.strb
    BY <1>4, <1>6, <1>i, WordOnBus DEF Bus, OnBus
  <2>3. ~mem_ready
    BY <1>6, <1>i DEF Shapes
  <2>4. ex_mem' = ex_mem /\ mem_op' = "uncached"
    BY <2>2, <2>3, UncachedWaits
  <2>5. ex_mem_is_store'
    BY <2>2, <2>4 DEF ex_mem_is_store, InMem
  <2>6. arch'[a] = arch[a]
    BY <1>2, <1>3, <1>4, <1>6
  <2>7. memory'[a] = BP!Merged(arch[a], ex_mem.data, ex_mem.strb)
    BY <1>1, <1>4, <1>6, <2>1, <2>2
  <2> QED BY <1>6, <2>2, <2>4, <2>5, <2>6, <2>7 DEF DeviceCoherent
<1>7. CASE ~Answered /\ ~(port = "write" /\ mem_ready' /\ captured.addr = a)
  <2>1. memory'[a] = memory[a]
    <3>1. \/ memory' = memory
          \/ /\ port = "write" /\ mem_ready'
             /\ memory' = [memory EXCEPT ![captured.addr] = BP!Merged(@, captured.data, captured.strb)]
      BY <1>0, <1>i, PortStep DEF Shapes
    <3> QED BY <3>1, <1>4, <1>7
  <2>2. arch'[a] = arch[a]
    BY <1>2, <1>3, <1>4, <1>7
  <2>3. ASSUME mem_op' = "uncached", ex_mem_is_store', mem_ready', ex_mem'.addr = a
        PROVE  FALSE
    <3>1. port \in {"read_done", "write"} /\ ~mem_ready
      BY <2>3, <1>0, <1>i, PortStep DEF Shapes
    <3>2. mem_op = "uncached"
      <4>1. mem_op # None
        BY <2>3, <3>1, <1>w, <1>i, EdgeParts, IssueNext, RequestFacts, NoneAssumption
      <4> QED BY <2>3, <3>1, <4>1, <1>w, <1>i, EdgeParts, IssueNext
    <3>3. ex_mem' = ex_mem
      BY <3>1, <3>2, UncachedWaits
    <3>4. ex_mem_is_store
      BY <2>3, <3>3 DEF ex_mem_is_store, InMem
    <3>5. captured = Requested /\ Requested.wen
      <4>1. mem_op_pending /\ Requested # None
        BY <3>2, <1>i, RequestFacts, NoneAssumption
      <4> QED BY <3>1, <3>2, <3>4, <4>1, <1>i, RequestFacts DEF Bus, OnBus
    <3>6. port = "write"
      BY <3>1, <3>5, <1>i DEF Bus
    <3>7. captured.addr = a
      BY <2>3, <3>2, <3>3, <3>5, <3>6, <1>i, WordOnBus DEF OnBus
    <3> QED BY <1>7, <2>3, <3>6, <3>7
  <2> QED BY <1>1, <1>7, <2>1, <2>2, <2>3 DEF DeviceCoherent
<1> QED BY <1>5, <1>6, <1>7

-----------------------------------------------------------------------------
(* What loads deliver *)

\* A load is served the word that the stores before it leave at its address,
\* whether the cache, the write buffer, a refill or a device serves it.
LEMMA LoadIsCurrent ==
  ASSUME Inv, Coherent, NEW dd, NEW dp, Edge(dd, dp), ~lost', NEW w, w = Wires(dd, dp),
         ex_mem_is_load, Served(w)
  PROVE  arch[ex_mem.addr] = IF w.hit THEN data_out'
                             ELSE IF w.forward THEN load_forward_out ELSE mem_rdata
<1>b. PICK b : b = ex_mem.addr
  OBVIOUS
<1>1. /\ ex_mem # None /\ b \in DataAddr /\ ~ex_mem_is_store /\ mem_access
      /\ w.hit \/ w.forward => data_cache_cs /\ ~data_uncacheable_mem
      /\ ~data_uncacheable_mem => b \in CacheAddr
  BY <1>b, Cacheable, ServedLeaves
     DEF Inv, ex_mem_is_load, ex_mem_is_store, mem_access, InMem
<1>2. CASE w.hit
  <2>1. /\ DC!HitWays # {} /\ DC!HitWays = CachedWays(b) /\ data_addr_q = b
        /\ b \in CacheAddr
    BY <1>b, <1>1, <1>2, HitIsCached, WireFields DEF data_cache_hit_comb, DC!cache_hit_comb
  <2>2. DC!set_to_write_on_hit \in CachedWays(b)
    BY <2>1 DEF DC!set_to_write_on_hit, CachedWays, DC!Way
  <2>3. data_out' = line[b.idx][DC!set_to_write_on_hit].data
    BY <2>1, <1>2, CacheHits
  <2>4. CacheCoherent(b)
    BY <2>1, CoherentBefore
  <2> QED BY <1>b, <1>2, <2>2, <2>3, <2>4 DEF CacheCoherent
<1>3. CASE ~w.hit /\ w.forward
  <2>1. ~DC!flush_running /\ CachedWays(b) = DC!HitWays /\ b \in CacheAddr
    BY <1>b, <1>1, <1>3, HitIsCached
  <2>2. CachedWays(b) = {}
    BY <2>1, <1>1, <1>3, WireFields DEF data_cache_hit_comb, DC!cache_hit_comb
  <2>3. arch[b] = Below(b)
    BY <2>1, <2>2, CoherentBefore DEF CacheCoherent
  <2>4. load_forward_use(w.hit)
    BY <1>3, WireFields
  <2>5. IF dirty_writeback # None /\ dirty_writeback.addr = b
        THEN load_forward_out = dirty_writeback.data
        ELSE WB!Ages(b) # {} /\ load_forward_out = WB!load_forward(b, None, FALSE)
    BY <1>b, <2>4, ForwardedWord DEF Inv
  <2> QED BY <1>b, <1>3, <2>3, <2>5 DEF Below
<1>4. CASE ~w.hit /\ ~w.forward
  <2>1. mem_op \in {"refill", "uncached"} /\ mem_ready
    BY <1>4 DEF Served, cpu_mem_complete, cpu_op
  <2>2. CASE mem_op = "refill"
    <3>1. request_refill /\ ~UnderWay(b) /\ ~data_uncacheable_mem
      BY <1>b, <2>2 DEF Inv, Refilling
    <3>2. DC!HitWays = {} /\ DC!HitWays = CachedWays(b) /\ b \in CacheAddr
      BY <1>b, <1>1, <3>1, HitIsCached DEF Inv, Refilling
    <3>3. mem_rdata = memory[b]
      BY <1>b, <2>1, <2>2, <3>1, CacheInputsTyped DEF data_cache_refill_complete
    <3>4. arch[b] = Below(b)
      BY <3>2, CoherentBefore DEF CacheCoherent
    <3> QED BY <1>b, <1>4, <3>1, <3>3, <3>4, BelowAtRest
  <2>3. CASE mem_op = "uncached"
    <3>1. b \in Io
      BY <1>b, <2>3 DEF Inv, Bus, data_uncacheable_mem
    <3>2. memory[b] = arch[b]
      BY <1>1, <3>1, CoherentBefore DEF DeviceCoherent
    <3>3. captured = Requested /\ Requested = BusRead(b)
      <4>1. mem_op_pending
        BY <2>3, NoneAssumption DEF mem_op_pending
      <4> QED BY <1>b, <1>1, <2>1, <2>3, <4>1 DEF Inv, Bus, OnBus, Requested, cpu_op
    <3>4. mem_rdata = memory[b]
      BY <2>1, <3>3 DEF Inv, Words, BusRead
    <3> QED BY <1>b, <1>4, <3>2, <3>4
  <2> QED BY <2>1, <2>2, <2>3
<1> QED BY <1>2, <1>3, <1>4

\* The two extra cycles of an AMO keep the word that it loaded.
LEMMA AmoStep ==
  ASSUME Inv, Coherent, NEW dd, NEW dp, Edge(dd, dp), ~lost'
  PROVE  /\ (amo_calc => amo_a = arch[ex_mem.addr])'
         /\ (InMem({"amo_store"}) => amo_rd_q = arch[ex_mem.addr])'
<1>w. PICK w : w = Wires(dd, dp)
  OBVIOUS
<1>0. Execute(w) /\ WriteBack(w) /\ Shapes /\ Bus /\ Retire
  BY <1>w, EdgeParts DEF Inv
<1>1. arch' = IF ex_mem_is_store /\ Served(w)
              THEN [arch EXCEPT ![ex_mem.addr] = BP!Merged(@, ex_mem.data, ex_mem.strb)] ELSE arch
  BY <1>w, ArchNext
<1>2. ASSUME amo_calc'
      PROVE  amo_a' = arch'[ex_mem'.addr]
  <2>1. InMem({"amo_load"}) /\ Served(w)
    BY <1>2, <1>w, <1>0, AmoCalcFrom
  <2>2. ex_mem'.addr = ex_mem.addr
    BY <2>1, <1>w, <1>0, AmoNext
  <2>3. ex_mem_is_load /\ ~ex_mem_is_store /\ arch' = arch
    BY <2>1, <1>1 DEF ex_mem_is_load, ex_mem_is_store, InMem
  <2>4. amo_load_done(w)
    BY <2>1 DEF amo_load_done, Served
  <2>5. /\ amo_rd_q' = IF w.forward THEN load_forward_out ELSE mem_rdata
        /\ data_cache_hit_q' = (w.hit /\ ex_mem_is_load)
    BY <2>4, <1>0 DEF WriteBack
  <2>6. arch[ex_mem.addr] = IF w.hit THEN data_out'
                            ELSE IF w.forward THEN load_forward_out ELSE mem_rdata
    BY <2>1, <2>3, <1>w, LoadIsCurrent
  <2>7. amo_a' = IF data_cache_hit_q' THEN data_out' ELSE amo_rd_q'
    BY DEF amo_a
  <2> QED BY <2>2, <2>3, <2>5, <2>6, <2>7
<1>3. ASSUME InMem({"amo_store"})'
      PROVE  amo_rd_q' = arch'[ex_mem'.addr]
  <2>1. CASE amo_calc
    <3>1. ex_mem'.addr = ex_mem.addr
      BY <2>1, <1>w, <1>0, AmoNext
    <3>2. ~ex_mem_is_store /\ ~amo_load_done(w)
      BY <2>1 DEF amo_calc, ex_mem_is_store, InMem, amo_load_done
    <3>3. amo_rd_q' = amo_a
      BY <2>1, <3>2, <1>0 DEF WriteBack
    <3> QED BY <2>1, <1>1, <3>1, <3>2, <3>3, CoherentBefore
  <2>2. CASE ~amo_calc
    <3>1. mem_access /\ ~Served(w)
      <4>1. ex_mem' # None /\ ex_mem'.kind = "amo_store"
        BY <1>3 DEF InMem
      <4>2. InEx(Accesses) => id_ex.kind \in {"load", "store", "amo"}
        BY <1>0, AccessFromEx
      <4>3. w.ex_stall
        <5> SUFFICES ASSUME ~w.ex_stall PROVE FALSE
          OBVIOUS
        <5>1. ex_mem' = IF InEx({"amo"}) THEN [id_ex EXCEPT !.kind = "amo_load"]
                        ELSE IF InEx(Accesses) THEN id_ex ELSE None
          BY <1>0, <1>w, ExMemNext
        <5>2. InEx({"amo"}) => InEx(Accesses)
          BY DEF InEx, Accesses
        <5>3. InEx({"amo"}) => ex_mem'.kind = "amo_load"
          BY <5>1, <5>2, <1>0, AccessFromEx DEF InEx
        <5>4. ~InEx({"amo"}) /\ InEx(Accesses) => ex_mem' = id_ex /\ id_ex.kind # "amo"
          BY <5>1 DEF InEx
        <5> QED BY <4>1, <4>2, <5>1, <5>3, <5>4
      <4>4. ex_mem # None
        BY <4>1, <4>3, <1>0, <1>w, ExMemNext
      <4>5. mem_access
        BY <4>4, <2>2, <1>0, Cacheable
      <4>6. ~(InMem({"amo_load"}) /\ Served(w))
        <5>1. InMem({"amo_load"}) /\ Served(w) => ex_mem'.kind = "amo_calc"
          BY <1>0, <1>w, AmoNext
        <5> QED BY <4>1, <5>1
      <4>7. ~(w.ex_stall /\ Served(w) /\ ~InMem({"amo_load"}))
        BY <4>5, <1>0, <1>w, ServedLeaves
      <4> QED BY <4>3, <4>5, <4>6, <4>7
    <3>2. ex_mem' = ex_mem /\ w.ex_stall
      BY <3>1, <1>0, <1>w, ExMemNext
    <3>3. InMem({"amo_store"}) /\ ~amo_load_done(w)
      BY <1>3, <3>2 DEF InMem, amo_load_done
    <3>4. amo_rd_q' = amo_rd_q
      BY <2>2, <3>2, <3>3, <1>0 DEF WriteBack
    <3> QED BY <1>1, <3>1, <3>2, <3>3, <3>4, CoherentBefore
  <2> QED BY <2>1, <2>2
<1> QED BY <1>2, <1>3

\* What the next load to retire delivers.
LEMMA LoadsStep ==
  ASSUME Inv, Coherent, NEW dd, NEW dp, Edge(dd, dp), ~lost'
  PROVE  LoadsReadLastStore'
<1>w. PICK w : w = Wires(dd, dp)
  OBVIOUS
<1>0. WriteBack(w)
  BY <1>w, EdgeParts
<1>1. data_cache_hit_q' = (w.hit /\ ex_mem_is_load)
  BY <1>0 DEF WriteBack
<1> SUFFICES ASSUME mem_wb' # None
             PROVE  mem_wb'.expected = IF data_cache_hit_q' THEN data_out' ELSE mem_wb'.result
  BY DEF LoadsReadLastStore
<1>2. /\ mem_wb_advance(w) /\ InMem({"load", "amo_store"})
      /\ mem_wb' = [result |-> IF w.forward THEN load_forward_out
                               ELSE IF ex_mem_is_load THEN mem_rdata ELSE amo_rd_q,
                    expected |-> arch[ex_mem.addr]]
  BY <1>0 DEF WriteBack
<1>3. CASE InMem({"load"})
  <2>1. ex_mem_is_load /\ mem_access
    BY <1>3 DEF ex_mem_is_load, mem_access, InMem
  <2>2. Served(w)
    BY <1>2, <2>1, <1>w, ServedLeaves DEF Inv, mem_wb_advance, Served
  <2>3. arch[ex_mem.addr] = IF w.hit THEN data_out'
                            ELSE IF w.forward THEN load_forward_out ELSE mem_rdata
    BY <2>1, <2>2, <1>w, LoadIsCurrent
  <2> QED BY <1>1, <1>2, <2>1, <2>3
<1>4. CASE InMem({"amo_store"})
  <2>1. ~ex_mem_is_load
    BY <1>4 DEF ex_mem_is_load, InMem
  <2>2. ~w.forward
    BY <2>1, <1>w, WireFields DEF load_forward_use
  <2>3. amo_rd_q = arch[ex_mem.addr]
    BY <1>4, CoherentBefore
  <2> QED BY <1>1, <1>2, <2>1, <2>2, <2>3
<1> QED BY <1>2, <1>3, <1>4 DEF InMem

\* A clock edge keeps the words coherent, or the write buffer loses one in it.
LEMMA CoherentStep ==
  ASSUME Inv, Coherent, NEW dd, NEW dp, Edge(dd, dp)
  PROVE  Coherent'
<1> SUFFICES ASSUME ~lost'
             PROVE  Coherent'
  BY DEF Coherent
<1>1. (\A a \in CacheAddr : CacheCoherent(a))'
  BY CacheCoherentStep
<1>2. (\A a \in Io : DeviceCoherent(a))'
  BY DeviceStep
<1>3. (mem_op = "write_buffer" /\ mem_ready => memory[write_r.addr] = write_r.data)'
  BY WrittenBack
<1>4. /\ (amo_calc => amo_a = arch[ex_mem.addr])'
      /\ (InMem({"amo_store"}) => amo_rd_q = arch[ex_mem.addr])'
  BY AmoStep
<1>5. LoadsReadLastStore'
  BY LoadsStep
<1> QED BY <1>1, <1>2, <1>3, <1>4, <1>5 DEF Coherent

-----------------------------------------------------------------------------
(* The walk of FENCE.I *)

\* The walk passes a line only when it is clean, and nothing dirties it behind.
LEMMA LinesStayClean ==
  ASSUME Inv, Walk, NEW dd, NEW dp, Edge(dd, dp)
  PROVE  /\ clean_state' \in {"READ", "EMIT", "WAIT"} =>
              \A i \in DC!Index, v \in DC!Way :
                \/ i < clean_index'
                \/ i = clean_index' /\ (v < clean_way' \/ (v = clean_way' /\ clean_state' = "WAIT"))
                => ~line'[i][v].dirty
         /\ clean_state' = "DONE" => AllClean'
<1>w. PICK w : w = Wires(dd, dp)
  OBVIOUS
<1>in. PICK in : in = CacheInputs(w)
  OBVIOUS
<1> DEFINE Passed(i, v) == \/ i < clean_index
                           \/ i = clean_index /\ (v < clean_way \/ (v = clean_way /\ clean_state = "WAIT"))
<1>1. /\ clean_state \in {"IDLE", "READ", "EMIT", "WAIT", "DONE"}
      /\ clean_index \in DC!Index /\ clean_way \in DC!Way
  BY DEF Inv, Words, DC!TypeOK
<1>2. /\ clean_state \in {"READ", "EMIT", "WAIT"} =>
           \A i \in DC!Index, v \in DC!Way : Passed(i, v) => ~line[i][v].dirty
      /\ clean_state = "DONE" => AllClean
  BY DEF Walk
<1>3. CASE clean_state' = "IDLE"
  BY <1>3
<1>4. CASE ~DC!flush_running /\ DC!CleanStep(in)
  <2>1. line' = line
    BY <1>4 DEF DC!CleanStep
  <2>2. CASE clean_state = "IDLE"
    BY <1>4, <2>2 DEF DC!CleanStep, DC!Index, DC!Way
  <2>3. CASE clean_state = "READ"
    BY <1>2, <1>4, <2>1, <2>3 DEF DC!CleanStep
  <2>4. CASE clean_state = "WAIT" /\ DC!last_way
    <3>1. clean_state' = "DONE" /\ clean_way = 1 /\ clean_index = CACHE_DEPTH - 1
      BY <1>4, <2>4 DEF DC!CleanStep, DC!last_way
    <3>2. \A i \in DC!Index, v \in DC!Way : Passed(i, v)
      BY <2>4, <3>1, SizesAssumption DEF DC!Index, DC!Way
    <3> QED BY <1>2, <2>1, <2>4, <3>1, <3>2 DEF AllClean
  <2>5. CASE clean_state = "WAIT" /\ ~DC!last_way
    <3>1. /\ clean_state' = "READ" /\ clean_way' = 1 - clean_way
          /\ clean_index' = clean_index + clean_way
      BY <1>4, <2>5 DEF DC!CleanStep, DC!Other
    <3>2. ASSUME NEW i \in DC!Index, NEW v \in DC!Way,
                 i < clean_index' \/ (i = clean_index' /\ v < clean_way')
          PROVE  Passed(i, v)
      BY <1>1, <2>5, <3>1, <3>2, SizesAssumption DEF DC!Index, DC!Way
    <3> HIDE DEF Passed
    <3> QED BY <1>2, <2>1, <2>5, <3>1, <3>2
  <2>6. CASE clean_state = "DONE"
    BY <1>2, <1>4, <2>1, <2>6 DEF DC!CleanStep, AllClean
  <2> QED BY <1>1, <1>4, <2>2, <2>3, <2>4, <2>5, <2>6 DEF DC!CleanStep
<1>5. CASE ~DC!flush_running /\ DC!CleanEmit(in)
  <2>1. clean_state = "EMIT" /\ clean_index' = clean_index /\ clean_way' = clean_way
    BY <1>5 DEF DC!CleanEmit
  <2>2. in.full = WB!full
    BY <1>in DEF CacheInputs
  <2>3. CASE WB!full
    <3>1. line' = line /\ clean_state' = clean_state
      BY <1>5, <2>2, <2>3 DEF DC!CleanEmit
    <3> QED BY <1>2, <2>1, <3>1
  <2>4. CASE ~WB!full
    <3>1. clean_state' = "WAIT" /\ data_addr_q.idx = clean_index
      BY <1>5, <2>1, <2>2, <2>4 DEF DC!CleanEmit, Inv, Metadata
    <3>2. line' = [line EXCEPT ![clean_index] = [line[clean_index] EXCEPT ![clean_way].dirty = FALSE]]
      <4>1. line' = [line EXCEPT ![data_addr_q.idx][clean_way].dirty = FALSE]
        BY <1>5, <2>2, <2>4 DEF DC!CleanEmit, DC!index_addr_q
      <4> QED BY <3>1, <4>1
    <3>3. ASSUME NEW i \in DC!Index, NEW v \in DC!Way
          PROVE  line'[i][v].dirty = IF i = clean_index /\ v = clean_way THEN FALSE ELSE line[i][v].dirty
      <4>1. /\ line \in [DC!Index -> [DC!Way -> DC!Line]]
            /\ line[i] \in [DC!Way -> DC!Line] /\ line[i][v] \in DC!Line
        BY DEF Inv, Words, DC!TypeOK
      <4>2. line'[i] = IF i = clean_index THEN [line[i] EXCEPT ![clean_way].dirty = FALSE] ELSE line[i]
        BY <1>1, <3>2, <4>1
      <4>3. line'[i][v] = IF i = clean_index /\ v = clean_way THEN [line[i][v] EXCEPT !.dirty = FALSE]
                          ELSE line[i][v]
        BY <1>1, <4>1, <4>2
      <4> QED BY <4>1, <4>3 DEF DC!Line
    <3> QED BY <1>2, <2>1, <3>1, <3>3
  <2> QED BY <2>3, <2>4
<1>6. CASE DC!flush_running
  BY <1>3, <1>6, WalkNext DEF Inv, Alone
<1>7. CASE ~DC!clean_active /\ UNCHANGED DC!maintenance
  BY <1>3, <1>7 DEF DC!clean_active, DC!maintenance
<1>8. \/ DC!flush_running
      \/ ~DC!flush_running /\ DC!CleanStep(in)
      \/ ~DC!flush_running /\ DC!CleanEmit(in)
      \/ ~DC!clean_active /\ UNCHANGED DC!maintenance
  BY <1>w, <1>in, CacheStep
     DEF DC!RefillComplete, DC!NoAccess, DC!HitWrite, DC!HitRead, DC!MissForward, DC!MissRefill, DC!MissWait
<1> QED BY <1>4, <1>5, <1>6, <1>7, <1>8

\* When FENCE.I finishes, no word is on its way any more.
LEMMA NothingUnderWayAtFinish ==
  ASSUME Inv, NEW dd, NEW dp, Edge(dd, dp), fence_i_state' = "FINISH", NEW a
  PROVE  ~UnderWay(a)'
<1>w. PICK w : w = Wires(dd, dp)
  OBVIOUS
<1>1. fence_i_state = "WRITEBACK" /\ ~writes_waiting /\ ~mem_op_pending
  BY EdgeParts DEF FenceI, Inv, Shapes
<1>2. /\ dirty_writeback = None /\ WB!empty /\ wb_out = None /\ mem_op = None
      /\ id_ex = None /\ ex_mem = None /\ clean_state = "DONE" /\ ~Delivers
  BY <1>1 DEF writes_waiting, mem_op_pending, Inv, Alone, Delivers, fence_stall
<1>3. dirty_writeback' = None
  BY <1>1, <1>2, WalkNext
<1>4. WB!Ages(a)' = {}
  <2>1. WB!Ages(a) = {}
    BY <1>2 DEF WB!Ages, WB!empty
  <2>2. ~WB!write_accepted(dirty_writeback, w.drain)
    BY <1>2 DEF WB!write_accepted
  <2> QED BY <2>1, <2>2, <1>w, NoneArrives
<1>5. wb_out' = None
  <2>1. ~w.drain
    BY <1>2, <1>w, DrainMeansRest
  <2> QED BY <2>1, <1>w, RingStep DEF Inv
<1>6. mem_op' = None
  BY <1>2, NothingMoves
<1> QED BY <1>3, <1>4, <1>5, <1>6, NoneAssumption DEF UnderWay, Evicted

\* The walk stays behind what it has cleaned, and FINISH comes after the last word.
LEMMA WalkStep ==
  ASSUME Inv, Walk, NEW dd, NEW dp, Edge(dd, dp)
  PROVE  Walk'
<1>1. (clean_state \in {"READ", "EMIT", "WAIT"} =>
         \A i \in DC!Index, w \in DC!Way :
           i < clean_index \/ (i = clean_index /\ (w < clean_way \/ (w = clean_way /\ clean_state = "WAIT")))
             => ~line[i][w].dirty)'
  BY LinesStayClean
<1>2. (clean_state = "DONE" => AllClean)'
  BY LinesStayClean
<1>3. (fence_i_state = "FINISH" => \A a \in CacheAddr : ~UnderWay(a))'
  BY NothingUnderWayAtFinish
<1> QED BY <1>1, <1>2, <1>3 DEF Walk

-----------------------------------------------------------------------------
(* The invariant, with the words                                           *)

\* The control, the walk and the words.
WordsInv == Inv /\ Walk /\ Coherent

\* After reset nothing is cached, and memory is what the program starts with.
LEMMA WordsInitInv == Init => WordsInv
<1> SUFFICES ASSUME Init PROVE Walk /\ Coherent
  BY InitInv DEF WordsInv
<1>1. /\ ex_mem = None /\ mem_op = None /\ mem_wb = None /\ elem_count = 0 /\ wb_out = None
      /\ dirty_writeback = None /\ clean_state = "IDLE" /\ fence_i_state = "IDLE" /\ flush_cnt = 0
      /\ arch = [a \in DataAddr |-> memory[a]]
  BY DEF Init, WB!Init, DC!Init
<1>2. Walk
  BY <1>1 DEF Walk
<1>3. ASSUME NEW a \in CacheAddr PROVE CacheCoherent(a)
  <2>1. CachedWays(a) = {}
    BY <1>1, SizesAssumption DEF CachedWays, DC!flush_running
  <2>2. ~UnderWay(a)
    BY <1>1, NoneAssumption DEF UnderWay, Evicted, WB!Ages
  <2>3. arch[a] = memory[a]
    BY <1>1 DEF DataAddr
  <2> QED BY <2>1, <2>2, <2>3, BelowAtRest DEF CacheCoherent
<1>4. ASSUME NEW a \in Io PROVE DeviceCoherent(a)
  <2>1. ~ex_mem_is_store
    BY <1>1 DEF ex_mem_is_store, InMem
  <2> QED BY <1>1, <2>1 DEF DeviceCoherent, DataAddr
<1>5. Coherent
  BY <1>1, <1>3, <1>4, NoneAssumption DEF Coherent, amo_calc, InMem, LoadsReadLastStore
<1> QED BY <1>2, <1>5

\* Every step keeps the invariant.
LEMMA WordsNextInv == ASSUME ~DivBehindMem PROVE WordsInv /\ [Next]_vars => WordsInv'
<1>1. ASSUME WordsInv, NEW dd, NEW dp, Edge(dd, dp) PROVE (Walk /\ Coherent)'
  <2>1. Walk'
    BY <1>1, WalkStep DEF WordsInv
  <2>2. Coherent'
    BY <1>1, CoherentStep DEF WordsInv
  <2> QED BY <2>1, <2>2
<1>2. ASSUME WordsInv, UNCHANGED vars PROVE (Walk /\ Coherent)'
  <2>0. Walk /\ Coherent
    BY <1>2 DEF WordsInv
  <2>1. \A a : WB!Ages(a)' = WB!Ages(a) /\ WB!load_forward(a, None, FALSE)' = WB!load_forward(a, None, FALSE)
    BY <1>2 DEF vars, buffer_vars, cache_vars, WB!Ages, WB!Holds, WB!SlotAt, WB!SlotFrom, WB!load_forward,
       WB!Arriving, WB!write_accepted, WB!full, WB!merge_write, WB!tail_pointer
  <2>2. \A a : (UnderWay(a)' <=> UnderWay(a)) /\ Below(a)' = Below(a) /\ CachedWays(a)' = CachedWays(a)
    BY <1>2, <2>1 DEF vars, buffer_vars, cache_vars, core_vars, port_vars, UnderWay, Evicted, Below,
       CachedWays, DC!flush_running
  <2>3. \A i, v : BeingEvicted(i, v)' <=> BeingEvicted(i, v)
    BY <1>2 DEF vars, cache_vars, BeingEvicted
  <2>4. \A a : CacheCoherent(a)' <=> CacheCoherent(a)
    BY <1>2, <2>2, <2>3 DEF vars, cache_vars, history, CacheCoherent
  <2>5. \A a : DeviceCoherent(a)' <=> DeviceCoherent(a)
    BY <1>2 DEF vars, core_vars, port_vars, history, DeviceCoherent, ex_mem_is_store, InMem
  <2>6. Walk'
    BY <1>2, <2>0, <2>2 DEF vars, cache_vars, core_vars, Walk, AllClean
  <2>7. /\ (mem_op = "write_buffer" /\ mem_ready => memory[write_r.addr] = write_r.data)'
           <=> (mem_op = "write_buffer" /\ mem_ready => memory[write_r.addr] = write_r.data)
        /\ (amo_calc => amo_a = arch[ex_mem.addr])' <=> (amo_calc => amo_a = arch[ex_mem.addr])
        /\ (InMem({"amo_store"}) => amo_rd_q = arch[ex_mem.addr])'
           <=> (InMem({"amo_store"}) => amo_rd_q = arch[ex_mem.addr])
        /\ LoadsReadLastStore' <=> LoadsReadLastStore
        /\ lost' <=> lost
    BY <1>2 DEF vars, cache_vars, core_vars, port_vars, history, amo_calc, InMem, amo_a, LoadsReadLastStore
  <2>8. Coherent'
    BY <2>0, <2>4, <2>5, <2>7 DEF Coherent
  <2> QED BY <2>6, <2>8
<1>3. WordsInv /\ [Next]_vars => Inv'
  BY NextInv DEF WordsInv
<1> QED BY <1>1, <1>2, <1>3 DEF Next, WordsInv

-----------------------------------------------------------------------------
(* What follows of it                                                      *)

\* As long as the write buffer has accepted every evicted word, no store is lost
\* or undone: the newest copy of each cacheable word, in the cache or on its way
\* to memory, is what the stores of the program leave there.
THEOREM NoStoreIsLost == ASSUME ~DivBehindMem PROVE Spec => []NewestCopyIsCurrent
<1>1. ASSUME WordsInv, ~lost, NEW a \in CacheAddr
      PROVE  arch[a] = IF CachedWays(a) # {} THEN line[a.idx][CHOOSE w \in CachedWays(a) : TRUE].data
                       ELSE Below(a)
  <2>1. CacheCoherent(a)
    BY <1>1 DEF WordsInv, Coherent
  <2>2. CachedWays(a) # {} => (CHOOSE w \in CachedWays(a) : TRUE) \in CachedWays(a)
    OBVIOUS
  <2> QED BY <2>1, <2>2 DEF CacheCoherent
<1>2. WordsInv => NewestCopyIsCurrent
  BY <1>1 DEF NewestCopyIsCurrent, StoresSurvive
<1>3. WordsInv /\ [Next]_vars => WordsInv'
  BY WordsNextInv
<1> QED BY <1>2, <1>3, WordsInitInv, PTL DEF Spec

\* A clean line can be dropped, since the same word is below it; and no word is
\* in two ways of its set.
THEOREM CleanLinesCanBeDropped == ASSUME ~DivBehindMem PROVE Spec => []CleanLinesAreBacked
<1>1. WordsInv => CleanLinesAreBacked
  BY DEF WordsInv, Coherent, CacheCoherent, CleanLinesAreBacked
<1>2. WordsInv /\ [Next]_vars => WordsInv'
  BY WordsNextInv
<1> QED BY <1>1, <1>2, WordsInitInv, PTL DEF Spec

\* A load or an AMO delivers what the last store to its address wrote, whether
\* it is served by the cache, the write buffer, a refill or a device.
THEOREM LoadsSeeStores == ASSUME ~DivBehindMem PROVE Spec => []LoadsReadLastStore
<1>1. WordsInv => LoadsReadLastStore
  BY DEF WordsInv, Coherent, LoadsReadLastStore
<1>2. WordsInv /\ [Next]_vars => WordsInv'
  BY WordsNextInv
<1> QED BY <1>1, <1>2, WordsInitInv, PTL DEF Spec

\* When FENCE.I lets fetching go on, memory holds every store before it.
LEMMA SynchronisedAtFinish == WordsInv => FenceISynchronises
<1> SUFFICES ASSUME WordsInv, fence_i_state = "FINISH", ~lost, NEW a \in CacheAddr
             PROVE  memory[a] = arch[a]
  BY DEF FenceISynchronises, fence_i_finish
<1>1. CacheCoherent(a) /\ ~UnderWay(a) /\ AllClean
  BY DEF WordsInv, Inv, Alone, Walk, Coherent
<1>2. Below(a) = memory[a]
  BY <1>1, BelowAtRest
<1>3. \A v \in CachedWays(a) : ~line[a.idx][v].dirty
  BY <1>1 DEF AllClean, CachedWays, CacheAddr, DC!Index
<1> QED BY <1>1, <1>2, <1>3 DEF CacheCoherent

\* FENCE.I does what it is for: the walk has the cache to itself, and when it is
\* over memory holds the words of the program, for a cache of any size.
THEOREM FenceIDoesItsWork == ASSUME ~DivBehindMem PROVE Spec => []MaintenanceIsSound
<1>1. Spec => []TypeOK
  BY RegistersKeepTheirTypes
<1>2. Spec => []MaintenanceIsAlone
  BY MaintenanceHasTheCacheToItself
<1>3. WordsInv /\ [Next]_vars => WordsInv'
  BY WordsNextInv
<1>4. Spec => []FenceISynchronises
  BY <1>3, SynchronisedAtFinish, WordsInitInv, PTL DEF Spec
<1>5. TypeOK /\ MaintenanceIsAlone /\ FenceISynchronises => MaintenanceIsSound
  BY DEF MaintenanceIsSound
<1> QED BY <1>1, <1>2, <1>4, <1>5, PTL
=============================================================================
