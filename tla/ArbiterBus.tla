----------------------------- MODULE ArbiterBus -----------------------------
(***************************************************************************)
(* The multiplexer of Top_level_files/Arbiter.v: sel names the client      *)
(* whose block and address are on the bus to the memory controller.        *)
(***************************************************************************)
EXTENDS Integers

CONSTANTS
  N,          \* number of clients; client 1 has the highest priority
  AddrSpan,   \* words of DDR2 behind the controller (2^26 in the design)
  ZeroBlock   \* 256'd0

Client == 1 .. N

VARIABLES
  sel,             \* 0: nobody's block and address
  mem_data_addr,   \* the word address each client presents
  mem_data_wr      \* the block each client presents

data_wr == IF sel = 0 THEN ZeroBlock ELSE mem_data_wr[sel]

temp_addr == IF sel = 0 THEN 0 ELSE mem_data_addr[sel]

(* The bits above the DDR2's size and the last address bit are dropped. *)
DdrAddrOf(a) == (a % AddrSpan) \div 2

data_addr == DdrAddrOf(temp_addr)

============================================================================
