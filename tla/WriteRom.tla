------------------------------ MODULE WriteRom ------------------------------
(***************************************************************************)
(* The frame loader, DVI_fixed_50Mhz/write_rom.v: after a reset it fetches *)
(* the blocks of one frame from the DDR2 and stores the pixels of each in  *)
(* the DVI RAM, then it stops until the next reset.                        *)
(***************************************************************************)
EXTENDS Integers

CONSTANTS
  FrameBlocks,   \* blocks of a frame, 38400 in the design
  PixelSpan      \* the values of the pixels in half a block: the lowest byte
                 \* of each of its words

BlockWords == 8
Slot == 0 .. FrameBlocks - 1

VARIABLES
  mem_valid_data, addr_count, wait_for_read,    \* the fetch
  write_enabled, WEN_I, data_out, rom_addr_wr,  \* the write to the RAM
  ram_wr_done,                                  \* the frame is loaded
  ram,                                          \* RAM_DVI of main_logic.v
  \* inputs
  rst, mem_ready_data, data_rd

Pixels(block) == << block[1] % PixelSpan, block[2] % PixelSpan >>

(* Seeded faults: the frame ends one block early; the next block goes to   *)
(* the slot of the last one.                                               *)
LastBlockEarly == addr_count = BlockWords * (FrameBlocks - 2)
NextSlotSame == rom_addr_wr

(* addr_count == 307192 *)
LastBlock == addr_count = BlockWords * (FrameBlocks - 1)
NextSlot == rom_addr_wr + 1

(* The RAM takes the word on the edge that ends the WEN cycle. *)
RamWrite ==
  ram' = IF WEN_I /\ rom_addr_wr \in Slot THEN [ram EXCEPT ![rom_addr_wr] = data_out]
                                          ELSE ram

Hold ==
  /\ rst
  /\ mem_valid_data' = FALSE /\ addr_count' = 0 /\ wait_for_read' = FALSE
  /\ write_enabled' = FALSE /\ WEN_I' = FALSE /\ rom_addr_wr' = 0
  /\ ram_wr_done' = FALSE
  /\ UNCHANGED data_out

Fetch ==
  /\ ~rst /\ ~wait_for_read
  /\ mem_valid_data' = TRUE /\ wait_for_read' = TRUE
  /\ UNCHANGED << addr_count, write_enabled, WEN_I, data_out, rom_addr_wr, ram_wr_done >>

Receive ==
  /\ ~rst /\ wait_for_read /\ mem_ready_data
  /\ mem_valid_data' = FALSE
  /\ write_enabled' = TRUE /\ WEN_I' = TRUE
  /\ data_out' = Pixels(data_rd)
  /\ UNCHANGED << addr_count, wait_for_read, rom_addr_wr, ram_wr_done >>

Written ==
  /\ ~rst /\ wait_for_read /\ ~mem_ready_data /\ write_enabled
  /\ addr_count' = addr_count + BlockWords
  /\ rom_addr_wr' = NextSlot
  /\ wait_for_read' = LastBlock
  /\ ram_wr_done' = (ram_wr_done \/ LastBlock)
  /\ write_enabled' = FALSE /\ WEN_I' = FALSE
  /\ data_out' = << 0, 0 >>
  /\ UNCHANGED mem_valid_data

Pause ==
  /\ ~rst /\ wait_for_read /\ ~mem_ready_data /\ ~write_enabled
  /\ UNCHANGED << mem_valid_data, addr_count, wait_for_read, write_enabled,
                  WEN_I, data_out, rom_addr_wr, ram_wr_done >>

Step == RamWrite /\ (Hold \/ Fetch \/ Receive \/ Written \/ Pause)

Init ==
  /\ mem_valid_data = FALSE /\ addr_count = 0 /\ wait_for_read = FALSE
  /\ write_enabled = FALSE /\ WEN_I = FALSE /\ data_out = << 0, 0 >>
  /\ rom_addr_wr = 0 /\ ram_wr_done = FALSE
  /\ ram = [i \in Slot |-> << 0, 0 >>]

=============================================================================
