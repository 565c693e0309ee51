------------------------------- MODULE DCache -------------------------------
(***************************************************************************)
(* The data cache, D_cache/D_cache_controller.v with the two instances of  *)
(* D_cache/cache_memory.v: write-back, write-allocate, two ways, one       *)
(* global replacement bit for all sets.  A FLUSH request walks all lines   *)
(* of one way, then of the other, and writes the dirty ones to memory.     *)
(*                                                                         *)
(* Each action is one clock edge in one state of the controller.  The      *)
(* array of a way is read through registers (data, tag, dirty), so that    *)
(* what the controller sees of a line is what the array held one edge      *)
(* before; the valid bits are read directly.                               *)
(***************************************************************************)
EXTENDS Integers

CONSTANTS
  Sets,       \* NUM_BLOCKS: lines of a way, 1024 in the design
  Tag,        \* the tags in use
  WordCount,  \* words of a block, 8 in the design
  Word        \* the values of a word

Way == {0, 1}
Index == 0 .. Sets - 1
Offset == 0 .. WordCount - 1
Block == [Offset -> Word]

(* NUM_BLOCKS = 1 would let an ordinary write-back turn the replacement    *)
(* bit, see Turn.                                                          *)
ASSUME DCacheAssumption ==
  /\ Sets \in Nat /\ Sets > 1
  /\ WordCount \in Nat \ {0}
  /\ 0 \in Tag /\ Tag \subseteq Nat
  /\ 0 \in Word

ZeroBlock == [o \in Offset |-> 0]

VARIABLES
  \* D_cache_controller.v
  State,       \* of the controller
  lru,         \* the way the next miss replaces (a one-hot pair in the code)
  count,       \* the line a flush has reached: way count \div Sets
  \* cache_memory.v, per way
  memory,      \* the lines: data, tag and dirty bit
  valid_bit,
  line,        \* the registered read port: data, tag, dirty
  \* inputs
  cpu,         \* the request of the processor's MEM stage
  mem_ready, mem_rd,     \* from the arbiter
  IO_ready, IO_rd        \* from the IO block

regs == << State, lru, count, memory, valid_bit, line >>

Line == [data : Block, tag : Tag, dirty : BOOLEAN]
ZeroLine == [data |-> ZeroBlock, tag |-> 0, dirty |-> FALSE]

(* Address bit 27 (io) sends a request to the IO block.  A FLUSH comes with *)
(* address 0: the ALU yields 0 for its opcode.                              *)
Request ==
  [valid : BOOLEAN, flush : BOOLEAN, io : BOOLEAN, rw : BOOLEAN,
   tag : Tag, index : Index, offset : Offset, wr : Word]
NoRequest ==
  [valid |-> FALSE, flush |-> FALSE, io |-> FALSE, rw |-> FALSE,
   tag |-> 0, index |-> 0, offset |-> 0, wr |-> 0]

----------------------------------------------------------------------------
(* Wires *)

int_cache_valid == cpu.valid /\ ~cpu.io
flush_flag == int_cache_valid /\ cpu.flush

(* The line and tag the arrays are addressed with. *)
counter == IF flush_flag THEN count % Sets ELSE cpu.index
addr_tag == IF flush_flag THEN 0 ELSE cpu.tag

valid(w) == valid_bit[w][counter]
way(w) == valid(w) /\ line[w].tag = addr_tag
hit == way(0) \/ way(1)
hitWay == IF way(1) THEN 1 ELSE 0        \* convert() takes the higher way

(* The line about to be replaced or flushed has to go to memory first. *)
victimDirty == line[lru].dirty /\ valid(lru)
flush_int == mem_ready \/ ~victimDirty

tag_matched == State = "COMPARE_TAG" /\ hit

(* Seeded fault: the write-back of the last line is not waited for. *)
AtLastLineEarly == State = "WRITE_BACK" /\ count % Sets = Sets - 1

(* Seeded faults: the flush is answered one line early, or never. *)
FlushedOneEarly ==
  State = "WRITE_BACK" /\ flush_flag /\ count = 2 * Sets - 2 /\ flush_int
FlushedNever ==
  State = "WRITE_BACK" /\ flush_flag /\ count = 2 * Sets /\ flush_int

cache_flushed ==
  State = "WRITE_BACK" /\ flush_flag /\ count = 2 * Sets - 1 /\ flush_int

(* The last line of a way has been written to memory, or need not be. *)
AtLastLine == State = "WRITE_BACK" /\ count % Sets = Sets - 1 /\ flush_int

(* To the processor *)
cache_ready == IF cpu.io THEN IO_ready ELSE tag_matched \/ cache_flushed
cache_rd ==
  CASE cpu.io -> IO_rd
    [] ~cpu.io /\ tag_matched /\ ~cpu.rw -> line[hitWay].data[cpu.offset]
    [] OTHER -> 0

(* Seeded faults: a store goes to both ways, or does not set the dirty     *)
(* bit; the line count does not wrap.                                      *)
StoresToBoth(w) == cpu.rw
StoredLineClean(w) ==
  [data |-> [line[w].data EXCEPT ![cpu.offset] = cpu.wr], tag |-> addr_tag, dirty |-> FALSE]
NextCountNoWrap == count + 1

(* To the arrays and registers *)
StoresTo(w) == way(w) /\ cpu.rw
StoredLine(w) ==
  [data |-> [line[w].data EXCEPT ![cpu.offset] = cpu.wr], tag |-> addr_tag, dirty |-> TRUE]
AfterMiss == IF victimDirty THEN "WRITE_BACK" ELSE "ALLOCATE"
NextCount == (count + 1) % (2 * Sets)

(* To the arbiter *)
flushing == flush_flag /\ State = "WRITE_BACK"
mem_valid_out ==
  IF flushing THEN victimDirty ELSE State \in {"ALLOCATE", "WRITE_BACK"}
mem_rw == IF flushing THEN victimDirty ELSE State = "WRITE_BACK"
mem_addr ==
  CASE State = "WRITE_BACK" -> << line[lru].tag, counter >>
    [] State = "ALLOCATE" -> << cpu.tag, cpu.index >>
    [] OTHER -> << 0, 0 >>
mem_wr == IF State = "WRITE_BACK" THEN line[lru].data ELSE ZeroBlock

----------------------------------------------------------------------------
(* One clock edge.                                                         *)

(* The state machine advances only under a request to the cache. *)
GoTo(s) == State' = IF int_cache_valid THEN s ELSE "IDLE"

(* The read port follows the arrays; a write is seen one edge later. *)
ReadPort == line' = [w \in Way |-> memory[w][counter]]

(* The replacement way turns once the last line of a way is done with. *)
Turn == lru' = IF AtLastLine THEN 1 - lru ELSE lru

Start ==
  /\ State = "IDLE"
  /\ GoTo(IF cpu.flush THEN "WRITE_BACK" ELSE "COMPARE_TAG")
  /\ ReadPort
  /\ UNCHANGED << lru, count, memory, valid_bit >>

Hit ==
  /\ State = "COMPARE_TAG" /\ hit
  /\ GoTo("IDLE")
  /\ lru' = IF way(0) THEN 1 ELSE 0
  /\ memory' = [w \in Way |-> IF StoresTo(w) THEN [memory[w] EXCEPT ![counter] = StoredLine(w)]
                             ELSE memory[w]]
  /\ ReadPort
  /\ UNCHANGED << count, valid_bit >>

Miss ==
  /\ State = "COMPARE_TAG" /\ ~hit
  /\ GoTo(AfterMiss)
  /\ ReadPort
  /\ UNCHANGED << lru, count, memory, valid_bit >>

Evicted ==
  /\ State = "WRITE_BACK" /\ ~flush_flag /\ flush_int
  /\ GoTo("ALLOCATE")
  /\ count' = 0
  /\ Turn
  /\ ReadPort
  /\ UNCHANGED << memory, valid_bit >>

Flushed ==
  /\ State = "WRITE_BACK" /\ flush_flag /\ flush_int
  /\ GoTo("IDLE")
  /\ count' = NextCount
  /\ Turn
  /\ ReadPort
  /\ UNCHANGED << memory, valid_bit >>

Filled ==
  /\ State = "ALLOCATE" /\ mem_ready
  /\ GoTo("ALLOCATE_IDLE")
  /\ memory' = [memory EXCEPT ![lru][counter] =
                  [data |-> mem_rd, tag |-> addr_tag, dirty |-> FALSE]]
  /\ valid_bit' = [valid_bit EXCEPT ![lru][counter] = TRUE]
  /\ ReadPort
  /\ UNCHANGED << lru, count >>

(* The read port catches up with the line just written. *)
Settle ==
  /\ State = "ALLOCATE_IDLE"
  /\ GoTo("COMPARE_TAG")
  /\ ReadPort
  /\ UNCHANGED << lru, count, memory, valid_bit >>

AwaitMemory ==
  /\ \/ State = "WRITE_BACK" /\ ~flush_int
     \/ State = "ALLOCATE" /\ ~mem_ready
  /\ GoTo(State)
  /\ Turn
  /\ ReadPort
  /\ UNCHANGED << count, memory, valid_bit >>

Step ==
  \/ Start \/ Hit \/ Miss
  \/ Evicted \/ Flushed \/ Filled
  \/ Settle \/ AwaitMemory

Init ==
  /\ State = "IDLE" /\ lru = 1 /\ count = 0
  /\ memory = [w \in Way |-> [i \in Index |-> ZeroLine]]
  /\ valid_bit = [w \in Way |-> [i \in Index |-> FALSE]]
  /\ line = [w \in Way |-> ZeroLine]

(* A reset clears the valid bits; the arrays keep their contents. *)
Reset ==
  /\ State' = "IDLE" /\ lru' = 1 /\ count' = 0
  /\ valid_bit' = [w \in Way |-> [i \in Index |-> FALSE]]
  /\ line' = [w \in Way |-> ZeroLine]
  /\ UNCHANGED memory

(* Every register has the width the Verilog gives it. *)
TypeOK ==
  /\ State \in {"IDLE", "COMPARE_TAG", "WRITE_BACK", "ALLOCATE", "ALLOCATE_IDLE"}
  /\ lru \in Way
  /\ count \in 0 .. 2 * Sets - 1
  /\ memory \in [Way -> [Index -> Line]]
  /\ valid_bit \in [Way -> [Index -> BOOLEAN]]
  /\ line \in [Way -> Line]
  /\ cpu \in Request

============================================================================
