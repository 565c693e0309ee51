---------------------------- MODULE MemorySystem ----------------------------
(***************************************************************************)
(* The shared memory path of the design: clients -> Arbiter -> data_rd_wr  *)
(* -> MIG -> DDR2, all on one clock.  A step of the system is one clock    *)
(* edge of all of them, or a reset.                                        *)
(*                                                                         *)
(* The clients here are the most general ones that keep the handshake the  *)
(* D-cache controller and write_rom keep: a request is held unchanged      *)
(* until mem_ready, also in the cycle of mem_ready, and in the next cycle  *)
(* it is dropped or replaced by the next request (WRITE_BACK -> ALLOCATE). *)
(***************************************************************************)
EXTENDS Integers, Sequences, FiniteSets

CONSTANTS
  N, AddrSpan,               \* see ArbiterBus
  Addr, Data,                \* addresses and blocks the clients use
  Beat, ZeroBeat, WriteCycleDelay,   \* see MemCtrl
  AFull, Lag,                \* see Mig
  Writer                     \* the clients that may write

Client == 1 .. N
Block == Beat \X Beat
ZeroBlock == << ZeroBeat, ZeroBeat >>

ASSUME MemorySystemAssumption ==
  /\ N \in Nat \ {0} /\ AddrSpan \in Nat \ {0}
  /\ Addr \subseteq Nat /\ 0 \in Addr
  /\ Data \subseteq Block /\ ZeroBeat \in Beat
  /\ WriteCycleDelay \in 1 .. 30     \* counter_wait is five bits wide
  /\ AFull \in Nat \ {0} /\ Lag \in Nat \ {0}
  /\ Writer \subseteq Client

VARIABLES
  req,                       \* each client's request wires
  in_reset,                  \* the last clock edge was one with the reset
  \* Arbiter
  sel, data_rden, data_wren, enable_active, mem_data_rd, mem_ready_data,
  mem_wr_rdy_tmp, mc_wr_rdy_accept,
  \* MemCtrl
  app_af_wren, app_af_cmd, addr_change_wr, addr_change_rd, app_wdf_wren,
  app_wdf_data, new_data_wr, data_rdy, counter_wait, data_sent, mig_data_out,
  new_data_rd, read_data_end, data_rd, mc_rd_valid,
  \* Mig
  ddr, af, wdf, rdf, phy_init_done, rd_data_valid, rd_data_fifo_out

arbVars == << sel, data_rden, data_wren, enable_active, mem_data_rd,
              mem_ready_data, mem_wr_rdy_tmp, mc_wr_rdy_accept >>
ctlVars == << app_af_wren, app_af_cmd, addr_change_wr, addr_change_rd,
              app_wdf_wren, app_wdf_data, new_data_wr, data_rdy, counter_wait,
              data_sent, mig_data_out, new_data_rd, read_data_end, data_rd,
              mc_rd_valid >>
migVars == << ddr, af, wdf, rdf, phy_init_done, rd_data_valid, rd_data_fifo_out >>
vars == << req, in_reset, arbVars, ctlVars, migVars >>

----------------------------------------------------------------------------
(* Wiring *)

mem_valid_data == [k \in Client |-> req[k].valid]
mem_rw_data == [k \in Client |-> req[k].rw]
mem_data_addr == [k \in Client |-> req[k].addr]
mem_data_wr == [k \in Client |-> req[k].data]

Bus == INSTANCE ArbiterBus

DdrAddr == {Bus!DdrAddrOf(a) : a \in Addr}

MIG == INSTANCE Mig WITH app_af_addr <- Bus!data_addr

(* interface.v: requests reach the shim only after the calibration. *)
MC == INSTANCE MemCtrl WITH
        data_wr <- Bus!data_wr,
        data_wren <- data_wren /\ phy_init_done,
        data_rden <- data_rden /\ phy_init_done,
        app_af_afull <- MIG!app_af_afull, app_wdf_afull <- MIG!app_wdf_afull

Arb == INSTANCE Arbiter WITH mc_wr_rdy <- MC!mc_wr_rdy

----------------------------------------------------------------------------
(* Clients *)

NoRequest == [valid |-> FALSE, rw |-> FALSE, addr |-> 0, data |-> ZeroBlock]

Reads == [valid : {TRUE}, rw : {FALSE}, addr : Addr, data : {ZeroBlock}]
Writes == [valid : {TRUE}, rw : {TRUE}, addr : Addr, data : Data]

Waiting(k) == req[k].valid /\ ~mem_ready_data[k]

NextRequests(k) ==
  IF Waiting(k) THEN {req[k]}
  ELSE {NoRequest} \cup Reads \cup (IF k \in Writer THEN Writes ELSE {})

ClientStep ==
  req' \in {r \in [Client -> UNION {NextRequests(k) : k \in Client}] :
              \A k \in Client : r[k] \in NextRequests(k)}

----------------------------------------------------------------------------
Init ==
  /\ req = [k \in Client |-> NoRequest] /\ in_reset = TRUE
  /\ Arb!ResetState /\ MC!Init /\ MIG!Init

(* A clock edge; in a Progress edge MIG executes a command, returns a beat *)
(* or completes the calibration.                                           *)
Logic == ClientStep /\ Arb!Step /\ MC!Step /\ in_reset' = FALSE

Progress == Logic /\ (MIG!Busy \/ MIG!Deliver)
Tick == Logic /\ MIG!Idle

Reset ==
  /\ req' = [k \in Client |-> NoRequest] /\ in_reset' = TRUE
  /\ Arb!Reset /\ MC!Reset /\ MIG!Reset

Next == Progress \/ Tick \/ Reset

Spec == Init /\ [][Next]_vars

(* The clock does not stop, and MIG executes what it has accepted. *)
LiveSpec == Spec /\ WF_vars(Progress \/ Tick) /\ WF_vars(Progress)

----------------------------------------------------------------------------
(* The promise, and what the registers stand for in it.                    *)

(* The complete write commands to address a in MIG's FIFOs.  The arbiter   *)
(* lets no command follow a read that has not been answered, so that only  *)
(* writes stand in front of the i-th command, and a write has the beats    *)
(* 2i - 1 and 2i.                                                          *)
Pending(cmds, beats, a) ==
  {i \in DOMAIN cmds :
     cmds[i].cmd = "write" /\ cmds[i].addr = a /\ 2 * i <= Len(beats)}

Latest(S) == CHOOSE i \in S : \A j \in S : j <= i

(* The DDR2 with the write commands that are complete in MIG's FIFOs. *)
Stored(mem, cmds, beats) ==
  [a \in DOMAIN mem |->
     LET W == Pending(cmds, beats, a)
         i == Latest(W)
     IN  IF W = {} THEN mem[a] ELSE << beats[2 * i - 1], beats[2 * i] >>]

store == Stored(ddr, af, wdf)

(* A write has taken effect once its second beat is in MIG's FIFO, a read  *)
(* when it is answered.                                                    *)
WritePushed == \/ data_rdy /\ ~app_wdf_wren
               \/ addr_change_wr /\ ~new_data_wr

done ==
  [k \in Client |-> /\ enable_active[k]
                    /\ mem_ready_data[k] \/ (req[k].rw /\ WritePushed)]

Promise == INSTANCE SharedMemory

(* The memory path implements SharedMemory: accesses of all clients take   *)
(* effect one at a time, a write stores its own block at its own address   *)
(* exactly once before it is answered, and a read is answered with the     *)
(* latest block of its address and to the client that asked for it.        *)
PromiseKept == Promise!Spec

(* The three components' registers and the clients' wires keep their types. *)
TypeOK ==
  /\ req \in [Client -> {NoRequest} \cup Reads \cup Writes]
  /\ Arb!TypeOK
  /\ MC!TypeOK
  /\ ddr \in [DdrAddr -> Block]

(* No answer of the controller is lost: when no access is in progress the  *)
(* next one may be granted.  An answer that came while mc_wr_rdy_accept    *)
(* was still on its way down would leave it down for ever.                 *)
AcceptsWhenIdle == (\A k \in Client : ~enable_active[k]) => mc_wr_rdy_accept

(* The controller is asked for the direction the owner of the bus wants,   *)
(* and for nothing when nobody owns the bus.                               *)
DirectionMatches ==
  /\ data_wren <=> \E k \in Client : sel = k /\ req[k].rw
  /\ data_rden <=> \E k \in Client : sel = k /\ ~req[k].rw

(* A controller answer always finds the client it is for. *)
AnswerHasOwner ==
  /\ MC!mc_wr_rdy => \E k \in Client : sel = k /\ req[k].rw
  /\ mc_rd_valid => \E k \in Client : sel = k /\ ~req[k].rw

(* Command and beats stay paired: what MIG holds is a whole number of      *)
(* blocks once the writer is between accesses.                             *)
BeatsPaired ==
  sel = 0 /\ ~app_wdf_wren =>
    Len(wdf) = 2 * Cardinality({i \in DOMAIN af : af[i].cmd = "write"})

(* An access that has been granted is answered, whatever the other clients *)
(* do meanwhile.                                                           *)
GrantedServed == \A k \in Client : (enable_active[k] /\ Waiting(k)) ~> ~Waiting(k)

(* A client waits for ever only if clients of a higher priority keep being *)
(* granted accesses; client 1 is always answered.                          *)
StarvedOnlyByPriority ==
  \A k \in Client :
    <>[]Waiting(k) => []<>(\E j \in Client : j < k /\ enable_active[j])

============================================================================
