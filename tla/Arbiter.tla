------------------------------ MODULE Arbiter ------------------------------
(***************************************************************************)
(* The memory arbiter, Top_level_files/Arbiter.v: N clients (the I-cache,  *)
(* the D-cache and the DVI block in the design) share one memory           *)
(* controller.  A client raises mem_valid and waits for a one-cycle        *)
(* mem_ready; the controller answers a granted access with a one-cycle     *)
(* pulse, mc_wr_rdy after a write and mc_rd_valid after a read.            *)
(*                                                                         *)
(* Every register of the Verilog module is a variable that changes at a    *)
(* clock edge, and every input is a variable of its own, so that the       *)
(* module can be checked and proved with inputs that do whatever they      *)
(* like (Spec below) and can be instantiated with the real neighbours on   *)
(* its wires (MemorySystem).  A wire of the code is an operator here.      *)
(***************************************************************************)
EXTENDS ArbiterBus

CONSTANTS
  Addr,       \* the word addresses a client may present
  Block       \* the values of a 256-bit block

ASSUME ArbiterAssumption ==
  /\ N \in Nat \ {0}
  /\ Addr \subseteq Nat
  /\ AddrSpan \in Nat \ {0}
  /\ ZeroBlock \in Block

VARIABLES
  \* registers, beside the bus's sel
  data_rden,         \* the controller is asked to read
  data_wren,         \* the controller is asked to write
  enable_active,     \* the client whose access is in progress
  mem_data_rd,       \* the block returned to each client
  mem_ready_data,    \* the answer pulse of each client
  mem_wr_rdy_tmp,    \* no access is in progress
  mc_wr_rdy_accept,  \* a new access may be granted
  \* inputs
  mem_valid_data, mem_rw_data,      \* beside the bus's mem_data_addr, mem_data_wr
  mc_wr_rdy, mc_rd_valid, data_rd   \* from the controller

regs == << data_rden, data_wren, sel, enable_active, mem_data_rd,
           mem_ready_data, mem_wr_rdy_tmp, mc_wr_rdy_accept >>
clientWires == << mem_valid_data, mem_rw_data, mem_data_addr, mem_data_wr >>
controllerWires == << mc_wr_rdy, mc_rd_valid, data_rd >>
vars == << regs, clientWires, controllerWires >>

----------------------------------------------------------------------------
(* One clock edge.                                                         *)

(* Seeded fault: a client is served although another access is in progress. *)
EligibleAlways(k) == mem_valid_data[k]

(* Client k presents a request and no other client's access is in progress *)
Eligible(k) ==
  /\ mem_valid_data[k]
  /\ \A j \in Client \ {k} : ~enable_active[j]

(* The if / else-if chain serves the first eligible client. *)
Selected(k) ==
  /\ Eligible(k)
  /\ \A j \in Client : j < k => ~Eligible(j)

(* ... and it advances if an access may start or its own is in progress. *)
Serving(k) == Selected(k) /\ (mc_wr_rdy_accept \/ enable_active[k])

WriteFinishes(k) == mem_rw_data[k] /\ mc_wr_rdy /\ enable_active[k]

(* A read answer is taken whether or not client k's access is in progress. *)
ReadFinishes(k) == ~mem_rw_data[k] /\ mc_rd_valid

(* Seeded faults: the bus is not freed, or handed to the next client. *)
AnswerKeepsBus(k) ==
  /\ mem_ready_data' = [mem_ready_data EXCEPT ![k] = TRUE]
  /\ mem_wr_rdy_tmp' = TRUE
  /\ UNCHANGED sel
AnswerPassesBus(k) ==
  /\ mem_ready_data' = [mem_ready_data EXCEPT ![k] = TRUE]
  /\ sel' = k + 1
  /\ mem_wr_rdy_tmp' = TRUE

(* The answer pulse: the access leaves the bus, its client is still active. *)
Answer(k) ==
  /\ mem_ready_data' = [mem_ready_data EXCEPT ![k] = TRUE]
  /\ sel' = 0
  /\ mem_wr_rdy_tmp' = TRUE

(* Seeded fault: the access ends without its ready pulse. *)
ReleaseEarly(k) ==
  /\ mem_ready_data' = [mem_ready_data EXCEPT ![k] = FALSE]
  /\ enable_active' = [enable_active EXCEPT ![k] = FALSE]

(* The cycle after it. *)
Release(k) ==
  /\ mem_ready_data[k]
  /\ mem_ready_data' = [mem_ready_data EXCEPT ![k] = FALSE]
  /\ enable_active' = [enable_active EXCEPT ![k] = FALSE]

WriteDone(k) ==
  /\ Serving(k) /\ WriteFinishes(k)
  /\ Answer(k)
  /\ data_wren' = FALSE
  /\ UNCHANGED << data_rden, enable_active, mem_data_rd >>

WriteRelease(k) ==
  /\ Serving(k) /\ ~WriteFinishes(k) /\ mem_rw_data[k]
  /\ Release(k)
  /\ UNCHANGED << data_rden, data_wren, sel, mem_data_rd, mem_wr_rdy_tmp >>

(* Seeded fault: the controller is still asked to read after the answer. *)
ReadDoneKeepsAsking(k) ==
  /\ Serving(k) /\ ReadFinishes(k)
  /\ Answer(k)
  /\ mem_data_rd' = [mem_data_rd EXCEPT ![k] = data_rd]
  /\ UNCHANGED << data_rden, data_wren, enable_active >>

ReadDone(k) ==
  /\ Serving(k) /\ ReadFinishes(k)
  /\ Answer(k)
  /\ mem_data_rd' = [mem_data_rd EXCEPT ![k] = data_rd]
  /\ data_rden' = FALSE
  /\ UNCHANGED << data_wren, enable_active >>

ReadRelease(k) ==
  /\ Serving(k) /\ ~ReadFinishes(k) /\ ~mem_rw_data[k]
  /\ Release(k)
  /\ mem_data_rd' = [mem_data_rd EXCEPT ![k] = ZeroBlock]
  /\ UNCHANGED << data_rden, data_wren, sel, mem_wr_rdy_tmp >>

(* The grant, repeated in every cycle in which the access is under way. *)
Grant(k) ==
  /\ Serving(k) /\ ~WriteFinishes(k) /\ ~ReadFinishes(k)
  /\ ~mem_ready_data[k]
  /\ enable_active' = [enable_active EXCEPT ![k] = TRUE]
  /\ mem_wr_rdy_tmp' = FALSE
  /\ sel' = k
  /\ data_wren' = (data_wren \/ mem_rw_data[k])
  /\ data_rden' = (data_rden \/ ~mem_rw_data[k])
  /\ UNCHANGED << mem_ready_data, mem_data_rd >>

Quiet ==
  /\ \A k \in Client : ~Serving(k)
  /\ UNCHANGED << data_rden, data_wren, sel, enable_active, mem_data_rd,
                  mem_ready_data, mem_wr_rdy_tmp >>

(* Seeded fault: the accept register misses the answers to reads. *)
AcceptWritesOnly ==
  mc_wr_rdy_accept' = IF mc_wr_rdy_accept THEN mem_wr_rdy_tmp ELSE mc_wr_rdy

(* Once 0, the accept register follows the controller's answer pulses; once *)
(* 1, it follows mem_wr_rdy_tmp.                                            *)
Accept ==
  mc_wr_rdy_accept' = IF mc_wr_rdy_accept THEN mem_wr_rdy_tmp
                                          ELSE mc_wr_rdy \/ mc_rd_valid

Serve(k) ==
  \/ WriteDone(k) \/ WriteRelease(k)
  \/ ReadDone(k) \/ ReadRelease(k)
  \/ Grant(k)

Step == Accept /\ (Quiet \/ \E k \in Client : Serve(k))

ResetState ==
  /\ data_rden = FALSE
  /\ data_wren = FALSE
  /\ sel = 0
  /\ enable_active = [k \in Client |-> FALSE]
  /\ mem_data_rd = [k \in Client |-> ZeroBlock]
  /\ mem_ready_data = [k \in Client |-> FALSE]
  /\ mem_wr_rdy_tmp = TRUE
  /\ mc_wr_rdy_accept = TRUE

Reset ==
  /\ data_rden' = FALSE
  /\ data_wren' = FALSE
  /\ sel' = 0
  /\ enable_active' = [k \in Client |-> FALSE]
  /\ mem_data_rd' = [k \in Client |-> ZeroBlock]
  /\ mem_ready_data' = [k \in Client |-> FALSE]
  /\ mem_wr_rdy_tmp' = TRUE
  /\ mc_wr_rdy_accept' = TRUE

----------------------------------------------------------------------------
(* The arbiter on its own: inputs are free.                                *)

InputsOK ==
  /\ mem_valid_data \in [Client -> BOOLEAN]
  /\ mem_rw_data \in [Client -> BOOLEAN]
  /\ mem_data_addr \in [Client -> Addr]
  /\ mem_data_wr \in [Client -> Block]
  /\ mc_wr_rdy \in BOOLEAN
  /\ mc_rd_valid \in BOOLEAN
  /\ data_rd \in Block

NewInputs ==
  /\ mem_valid_data' \in [Client -> BOOLEAN]
  /\ mem_rw_data' \in [Client -> BOOLEAN]
  /\ mem_data_addr' \in [Client -> Addr]
  /\ mem_data_wr' \in [Client -> Block]
  /\ mc_wr_rdy' \in BOOLEAN
  /\ mc_rd_valid' \in BOOLEAN
  /\ data_rd' \in Block

Init == ResetState /\ InputsOK

Next == (Step \/ Reset) /\ NewInputs

Spec == Init /\ [][Next]_vars

----------------------------------------------------------------------------
FlagsOK ==
  /\ data_rden \in BOOLEAN /\ data_wren \in BOOLEAN
  /\ mem_wr_rdy_tmp \in BOOLEAN /\ mc_wr_rdy_accept \in BOOLEAN

PortsOK ==
  /\ enable_active \in [Client -> BOOLEAN]
  /\ mem_ready_data \in [Client -> BOOLEAN]
  /\ mem_data_rd \in [Client -> Block]

(* Every register has the width the Verilog gives it. *)
TypeOK == sel \in 0 .. N /\ FlagsOK /\ PortsOK /\ InputsOK

(* At most one client's access is in progress, whatever the clients and    *)
(* the controller put on the wires.                                        *)
OneActive ==
  \A i, j \in Client : enable_active[i] /\ enable_active[j] => i = j

(* The bus carries exactly the client whose access is in progress and not  *)
(* yet answered: the address and data the controller samples never belong  *)
(* to another client, and never vanish under an access still in progress.  *)
BusOwner ==
  \A k \in Client : sel = k <=> (enable_active[k] /\ ~mem_ready_data[k])

(* A client that has not been answered is never preempted: its access ends *)
(* only in the cycle after its ready pulse, or by a reset.                 *)
NoPreemption ==
  [][\A k \in Client :
       enable_active[k] /\ ~enable_active'[k] => mem_ready_data[k] \/ Reset]_vars

============================================================================
