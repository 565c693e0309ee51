--------------------------- MODULE DisplayMemory ---------------------------
(***************************************************************************)
(* The memory system with the clients of the design: client 1 is the       *)
(* D-cache, client 2 the frame loader of the DVI block, and the I-cache's  *)
(* port is tied low (top_module_npu_memStart_ChipScope.v) and left out.    *)
(*                                                                         *)
(* Software draws a frame while the display is off and switches it on with *)
(* a store to display_on (IO_map_block.v); switching it off resets the DVI *)
(* block and its clock manager (vgamult.v), and after switching it on the  *)
(* block stays in reset until the clock manager has locked.                *)
(***************************************************************************)
EXTENDS MemorySystem

CONSTANTS
  FrameBlocks, PixelSpan,   \* see WriteRom
  FrameStart,               \* mem_start, the address of the frame
  OffAnyTime                \* the display may be switched off during a load

ASSUME DisplayMemoryAssumption ==
  /\ N = 2
  /\ FrameBlocks \in Nat /\ FrameBlocks > 1
  /\ PixelSpan \in Nat \ {0} /\ Beat \subseteq Nat
  /\ FrameStart \in Nat /\ OffAnyTime \in BOOLEAN

DCachePort == 1
DviPort == 2

VARIABLES
  display_on, locked_dcm,
  dvi_valid, addr_count, wait_for_read, write_enabled, WEN_I, data_out, rom_addr_wr,
  ram_wr_done, ram

dviVars == << display_on, locked_dcm, dvi_valid, addr_count, wait_for_read, write_enabled, WEN_I,
              data_out, rom_addr_wr, ram_wr_done, ram >>
dvars == << vars, dviVars >>

Dvi == INSTANCE WriteRom WITH
         rst <- ~display_on \/ ~locked_dcm,
         mem_valid_data <- dvi_valid,
         mem_ready_data <- mem_ready_data[DviPort],
         data_rd <- mem_data_rd[DviPort]

FrameAddr == {FrameStart + Dvi!BlockWords * i : i \in Dvi!Slot}

(* The frame is memory the clients may use, and no other address they use  *)
(* is wired to one of its blocks.                                          *)
ASSUME FrameAssumption ==
  /\ FrameAddr \subseteq Addr
  /\ \A a \in Addr, f \in FrameAddr : Bus!DdrAddrOf(a) = Bus!DdrAddrOf(f) => a = f

----------------------------------------------------------------------------
(* The D-cache's requests: a fill may follow an eviction at once, anything *)
(* else follows a cycle without a request.  Software leaves the frame      *)
(* alone while it is being loaded.                                         *)
CacheWrites == {r \in Writes : display_on \/ display_on' => r.addr \notin FrameAddr}

CacheRequests ==
  IF Waiting(DCachePort) THEN {req[DCachePort]}
  ELSE IF ~req[DCachePort].valid THEN {NoRequest} \cup Reads \cup CacheWrites
  ELSE IF req[DCachePort].rw THEN {NoRequest} \cup Reads
  ELSE {NoRequest}

(* The frame loader's wires, after the edge. *)
DviRequest(valid, count) ==
  [valid |-> valid, rw |-> FALSE, addr |-> FrameStart + count, data |-> ZeroBlock]

PortsStep ==
  \E r \in CacheRequests : req' = << r, DviRequest(dvi_valid', addr_count') >>

(* A store to display_on. The processor makes it when the D-cache is idle: *)
(* both are requests of the one MEM stage.                                 *)
MayOff == OffAnyTime \/ ram_wr_done

Switch ==
  \/ UNCHANGED display_on
  \/ /\ ~req[DCachePort].valid /\ (display_on => MayOff)
     /\ display_on' = ~display_on

(* The clock manager, external: reset with the display, it locks some time *)
(* after.                                                                  *)
Locks == display_on /\ ~locked_dcm /\ locked_dcm' = TRUE

ClockManager == Locks \/ locked_dcm' = (display_on /\ locked_dcm)

DisplayInit ==
  /\ Arb!ResetState /\ MC!Init /\ MIG!Init
  /\ display_on = FALSE /\ locked_dcm = FALSE
  /\ dvi_valid = FALSE /\ addr_count = 0 /\ wait_for_read = FALSE
  /\ write_enabled = FALSE /\ WEN_I = FALSE /\ data_out = << 0, 0 >>
  /\ rom_addr_wr = 0 /\ ram_wr_done = FALSE
  /\ ram = [i \in Dvi!Slot |-> << 0, 0 >>]
  /\ req = << NoRequest, DviRequest(FALSE, 0) >> /\ in_reset = TRUE

DisplayLogic ==
  /\ Switch /\ ClockManager /\ Dvi!Step /\ PortsStep /\ Arb!Step /\ MC!Step
  /\ in_reset' = FALSE

DisplayProgress == DisplayLogic /\ (MIG!Busy \/ MIG!Deliver)
DisplayTick == DisplayLogic /\ MIG!Idle

DisplayNext == DisplayProgress \/ DisplayTick

DisplaySpec == DisplayInit /\ [][DisplayNext]_dvars

(* As LiveSpec of MemorySystem; and the clock manager locks. *)
DisplayLiveSpec ==
  /\ DisplaySpec
  /\ WF_dvars(DisplayNext) /\ WF_dvars(DisplayProgress)
  /\ WF_dvars(DisplayNext /\ Locks)

----------------------------------------------------------------------------
(* When the frame is declared loaded, the DVI RAM holds all of its blocks, *)
(* each in its own slot: no block of a D-cache access, of an earlier frame *)
(* or of another place of this frame.                                      *)
FrameComplete ==
  ram_wr_done =>
    \A i \in Dvi!Slot :
      ram[i] = Dvi!Pixels(store[Bus!DdrAddrOf(FrameStart + Dvi!BlockWords * i)])

(* A frame that is switched on is loaded, although the D-cache has the     *)
(* higher priority and may ask for block after block.                      *)
FrameLoaded == display_on ~> (ram_wr_done \/ ~display_on)

(* Every access of the D-cache is answered. *)
CacheServed == Waiting(DCachePort) ~> ~Waiting(DCachePort)

(* Once the display is switched off for good, the DVI block is in reset    *)
(* and every access of the D-cache is answered: the arbiter holds back a   *)
(* client only while another one is operating.                             *)
ServedOnceOff ==
  <>[]~display_on => [](Waiting(DCachePort) => <>~Waiting(DCachePort))

=============================================================================
