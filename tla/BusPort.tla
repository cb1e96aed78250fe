------------------------------ MODULE BusPort ------------------------------
(***************************************************************************)
(* The one door of the core to memory, as the core sees it: the mem_*      *)
(* signals of rtl/axil_master.v over a memory that answers in its own      *)
(* time.  A request that meets an idle port is captured; a read samples    *)
(* the memory, a write changes it, and one cycle of mem_ready ends the     *)
(* transaction.  A read raises mem_ready one cycle after its data          *)
(* (STATE_READ_DONE); during mem_ready the port is already idle.           *)
(***************************************************************************)
EXTENDS Naturals

CONSTANTS Addr,   \* every address the core can put on the bus
          Lanes,  \* the byte lanes of a word
          Val,    \* what a lane can hold
          None

Word == [Lanes -> Val]

\* A request: strb is the set of lanes a write drives.
Request == [wen : BOOLEAN, addr : Addr, data : Word, strb : SUBSET Lanes]

VARIABLES port,       \* "idle", "read", "read_done" or "write"
          captured,   \* addr_reg, wdata_reg, wstrb_reg, wen_reg
          mem_ready,
          mem_rdata,
          memory      \* what the memory behind the bus holds

vars == <<port, captured, mem_ready, mem_rdata, memory>>

mem_busy == port # "idle"

\* The word that results from writing the lanes strb of new over old.
Merged(old, new, strb) == [l \in Lanes |-> IF l \in strb THEN new[l] ELSE old[l]]

Init ==
  /\ port = "idle"
  /\ captured = None
  /\ mem_ready = FALSE
  /\ mem_rdata = None
  /\ memory \in [Addr -> Word]

\* STATE_IDLE without mem_req.  Nothing looks at the last transaction any more.
Rest(req, answer) ==
  /\ port = "idle" /\ req = None
  /\ captured' = None /\ mem_rdata' = None
  /\ mem_ready' = FALSE
  /\ UNCHANGED <<port, memory>>

\* STATE_IDLE with mem_req: the parameters are captured.
Accept(req, answer) ==
  /\ port = "idle" /\ req # None
  /\ port' = IF req.wen THEN "write" ELSE "read"
  /\ captured' = req /\ mem_rdata' = None
  /\ mem_ready' = FALSE
  /\ UNCHANGED memory

\* The memory has not answered yet; requests are not looked at.
Wait(req, answer) ==
  /\ port \in {"read", "write"} /\ ~answer
  /\ mem_ready' = FALSE
  /\ UNCHANGED <<port, captured, mem_rdata, memory>>

ReadData(req, answer) ==
  /\ port = "read" /\ answer
  /\ mem_rdata' = memory[captured.addr]
  /\ port' = "read_done"
  /\ mem_ready' = FALSE
  /\ UNCHANGED <<captured, memory>>

ReadDone(req, answer) ==
  /\ port = "read_done"
  /\ mem_ready' = TRUE
  /\ port' = "idle"
  /\ UNCHANGED <<captured, mem_rdata, memory>>

WriteResp(req, answer) ==
  /\ port = "write" /\ answer
  /\ memory' = [memory EXCEPT ![captured.addr] = Merged(@, captured.data, captured.strb)]
  /\ mem_ready' = TRUE
  /\ port' = "idle"
  /\ UNCHANGED <<captured, mem_rdata>>

Clock(req, answer) ==
  \/ Rest(req, answer)
  \/ Accept(req, answer)
  \/ Wait(req, answer)
  \/ ReadData(req, answer)
  \/ ReadDone(req, answer)
  \/ WriteResp(req, answer)

Next == \E req \in Request \cup {None}, answer \in BOOLEAN : Clock(req, answer)

Spec == Init /\ [][Next]_vars
=============================================================================
