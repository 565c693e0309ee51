---------------------------- MODULE CachedMemory ----------------------------
(***************************************************************************)
(* The D-cache between the processor's MEM stage and its port of the       *)
(* arbiter.  The processor holds a request until cache_ready (the pipeline *)
(* is stalled) and may then present any other, also the same one again     *)
(* when an NPU hazard keeps it stalled.  The arbiter port answers a        *)
(* request after any time with one cycle of mem_ready (SharedMemory), and  *)
(* the IO block answers an IO request with one cycle of IO_ready.          *)
(***************************************************************************)
EXTENDS DCache

CONSTANTS
  LoadPlaces,  \* the << tag, index, offset >> the processor loads from
  Stores       \* the << tag, index, offset, value >> it stores

ASSUME CachedMemoryAssumption ==
  /\ LoadPlaces \subseteq Tag \X Index \X Offset
  /\ Stores \subseteq Tag \X Index \X Offset \X Word

VARIABLES
  ddr,         \* the blocks of the DDR2
  in_reset     \* the last clock edge was one with the reset

BlockAddr == Tag \X Index

vars == << regs, cpu, mem_ready, mem_rd, IO_ready, IO_rd, ddr, in_reset >>

----------------------------------------------------------------------------
(* The processor *)

Loads ==
  {[NoRequest EXCEPT !.valid = TRUE, !.tag = p[1], !.index = p[2], !.offset = p[3]] :
     p \in LoadPlaces}
StoreRequests ==
  {[valid |-> TRUE, flush |-> FALSE, io |-> FALSE, rw |-> TRUE,
    tag |-> s[1], index |-> s[2], offset |-> s[3], wr |-> s[4]] : s \in Stores}
Flush == [NoRequest EXCEPT !.valid = TRUE, !.flush = TRUE]
IOAccess == [NoRequest EXCEPT !.valid = TRUE, !.io = TRUE]

Stalled == cpu.valid /\ ~cache_ready

CpuStep ==
  cpu' \in IF Stalled THEN {cpu}
           ELSE {NoRequest, Flush, IOAccess} \cup Loads \cup StoreRequests

(* The arbiter's port.  The answered request is still on the port while    *)
(* mem_ready is up, so a new access starts one cycle later.                *)
PortWaits ==
  /\ mem_ready' = FALSE /\ mem_rd' = ZeroBlock
  /\ UNCHANGED ddr

PortWrites ==
  /\ mem_valid_out /\ mem_rw /\ ~mem_ready
  /\ ddr' = [ddr EXCEPT ![mem_addr] = mem_wr]
  /\ mem_ready' = TRUE /\ UNCHANGED mem_rd

PortReads ==
  /\ mem_valid_out /\ ~mem_rw /\ ~mem_ready
  /\ mem_ready' = TRUE /\ mem_rd' = ddr[mem_addr]
  /\ UNCHANGED ddr

(* The IO block answers every other cycle of a request; what it returns is *)
(* left out.                                                               *)
IOStep ==
  /\ IO_ready' = IF cpu.valid /\ cpu.io THEN ~IO_ready ELSE IO_ready
  /\ UNCHANGED IO_rd

----------------------------------------------------------------------------
CacheInit ==
  /\ Init
  /\ cpu = NoRequest
  /\ mem_ready = FALSE /\ mem_rd = ZeroBlock
  /\ IO_ready = FALSE /\ IO_rd = 0
  /\ ddr = [b \in BlockAddr |-> ZeroBlock]
  /\ in_reset = TRUE

Logic == Step /\ CpuStep /\ IOStep /\ in_reset' = FALSE

PortAnswers == Logic /\ (PortWrites \/ PortReads)
Tick == Logic /\ PortWaits

CacheReset ==
  /\ Reset
  /\ cpu' = NoRequest
  /\ mem_ready' = FALSE /\ mem_rd' = ZeroBlock
  /\ IO_ready' = FALSE /\ IO_rd' = 0
  /\ UNCHANGED ddr
  /\ in_reset' = TRUE

Next == PortAnswers \/ Tick \/ CacheReset

Spec == CacheInit /\ [][Next]_vars

(* The clock does not stop and the arbiter answers (GrantedServed of       *)
(* MemorySystem).                                                          *)
LiveSpec == Spec /\ WF_vars(PortAnswers \/ Tick) /\ WF_vars(PortAnswers)

----------------------------------------------------------------------------
(* The memory as the processor sees it: a valid line hides the DDR2. *)
Holds(w, b) == valid_bit[w][b[2]] /\ memory[w][b[2]].tag = b[1]

cur ==
  [b \in BlockAddr |->
     IF Holds(0, b) THEN memory[0][b[2]].data
     ELSE IF Holds(1, b) THEN memory[1][b[2]].data
     ELSE ddr[b]]

Promise == INSTANCE CoherentMemory WITH durable <- ddr

(* The cache implements CoherentMemory. *)
PromiseKept == Promise!Spec

(* No block is in both ways: the copy in the other way would go stale. *)
OneCopy == \A b \in BlockAddr : ~(Holds(0, b) /\ Holds(1, b))

(* What is neither dirty nor missing equals the DDR2: a clean line may be  *)
(* dropped without a write-back.                                           *)
CleanMatches ==
  \A w \in Way, i \in Index :
    valid_bit[w][i] /\ ~memory[w][i].dirty =>
      memory[w][i].data = ddr[<< memory[w][i].tag, i >>]

(* The request to the arbiter is held until answered, its address and data *)
(* included: the arbiter and the controller read them throughout the       *)
(* access.                                                                 *)
MemRequestHeld ==
  [][mem_valid_out /\ ~mem_ready /\ ~CacheReset =>
       /\ mem_valid_out' /\ mem_rw' = mem_rw
       /\ mem_addr' = mem_addr /\ mem_wr' = mem_wr]_vars

(* Every request of the processor is answered. *)
RequestServed == Stalled ~> ~Stalled

============================================================================
