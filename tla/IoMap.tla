------------------------------- MODULE IoMap --------------------------------
(***************************************************************************)
(* The IO block, Top_level_files/IO_map_block.v: the registers of the      *)
(* display and the tick counter, which it answers itself, and the way to   *)
(* the serial port.  `bus` is what the D-cache passes on of the memory     *)
(* stage: the address is there whether or not an access is made, NONE for  *)
(* an address of the DDR2.                                                 *)
(***************************************************************************)
EXTENDS Spart

CONSTANT
  TickBits      \* width of the tick counter, 32 in the design

TickValues == 2^TickBits

ASSUME IoMapAssumption == TickBits \in Nat /\ TickValues \in Nat \ {0}

VARIABLES
  tick_counter, mem_start, display_on,
  mem_ready_data, mem_data_rd,
  bus

mapVars == << tick_counter, mem_start, display_on, mem_ready_data, mem_data_rd >>

Register == {"START", "ON", "TICK", "OTHER"}    \* OTHER: one that nobody decodes
Address == Register \cup {"NONE", "DATA", "STATUS"}
Small(n) == [ZeroWord EXCEPT ![0] = n]
Idle(a) == [valid |-> FALSE, rw |-> FALSE, addr |-> a, wr |-> ZeroWord]
Load(a) == [valid |-> TRUE, rw |-> FALSE, addr |-> a, wr |-> ZeroWord]
Store(a, w) == [valid |-> TRUE, rw |-> TRUE, addr |-> a, wr |-> w]

MapInit ==
  /\ tick_counter = 0 /\ mem_start = ZeroWord /\ display_on = 0
  /\ mem_ready_data = FALSE /\ mem_data_rd = ZeroWord

spart_addr == bus.addr \in {"DATA", "STATUS"}
spart_q == IF spart_addr THEN bus ELSE Idle("NONE")

io_ready == IF spart_addr THEN SpartReady(spart_q) ELSE mem_ready_data
io_rd == IF spart_addr THEN SpartRead(spart_q) ELSE mem_data_rd

Stores(a) == bus.valid /\ bus.rw /\ bus.addr = a
Reads(a) == bus.valid /\ ~bus.rw /\ bus.addr = a

(* Seeded fault: the counter does not wrap. *)
NextTickUnwrapped == IF Stores("TICK") THEN 0 ELSE tick_counter + 1
NextTick == IF Stores("TICK") THEN 0 ELSE (tick_counter + 1) % TickValues

(* Every access is answered, in the clock after its first, those to the    *)
(* serial port and to addresses nobody decodes too: the bit that says so   *)
(* turns with each clock of an access and is not reset by its end.         *)
MapClock ==
  /\ tick_counter' = NextTick
  /\ mem_start' = IF Stores("START") THEN bus.wr ELSE mem_start
  /\ display_on' = IF Stores("ON") THEN bus.wr[0] % 2 ELSE display_on
  /\ mem_ready_data' = IF bus.valid THEN ~mem_ready_data ELSE mem_ready_data
  /\ mem_data_rd' =
       CASE ~bus.valid -> mem_data_rd
         [] bus.valid /\ mem_ready_data -> ZeroWord
         [] Reads("TICK") /\ ~mem_ready_data -> Small(tick_counter)
         [] Reads("ON") /\ ~mem_ready_data -> Small(display_on)
         [] Reads("START") /\ ~mem_ready_data -> mem_start
         [] OTHER -> mem_data_rd
=============================================================================
