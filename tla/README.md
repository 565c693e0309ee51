# TLA+ models of the forbidden_architecture processor

The repository is an FPGA design: a pipelined processor, a neural processing
unit (NPU), a data cache, an arbiter in front of a DDR2 controller, a serial
port (SPART) and a DVI display block. The current top level is
`src/Final_Top_level_CPU_NPU_Interfaces_50Mhz/`; other directories hold older
copies of the same modules, host tools (assembler, emulator, benchmarks) and
generated cores. Paths below are relative to that top level unless they start
with `src/`. The only design document is the list of IO registers,
`src/Application/Memory_Mapping.txt`; for the rest the Verilog, its comments, the
test benches and the assembly programs in `src/Application/` are the reference.

## 1. The system

| Part | State | Operations | Talks to |
|---|---|---|---|
| Processor, `src/CPU/Processor/src/` | pipeline registers, PC, registers, flags, predictor | fetch, decode, execute, memory, write back; stall, forward, predict, replay | D-cache port, NPU FIFOs |
| NPU, `src/NPU/` | idle / compute / stall / config, counters, FIFOs, circular buffers, engines | configure, enqueue, compute, dequeue | processor |
| D-cache, `D_cache/` | controller state, replacement bit, flush count, two ways of lines | load, store, miss, write-back, fill, FLUSH | MEM stage, arbiter port 2, IO block (address bit 27) |
| Arbiter, `Top_level_files/Arbiter.v` | bus select, active flags, answers | grant, answer, release | three clients, controller shim |
| Controller shim, `data_rd_wr.v` (in `interface.v`) | command and beat sequencing, wait counter | write, read | arbiter, MIG |
| MIG and DDR2, `user_design/` | command and data FIFOs, array | vendored | shim |
| DVI loader, `DVI_fixed_50Mhz/write_rom.v` | block counter, handshake, pixel RAM | fetch a frame block by block | arbiter port 3 |
| DVI display path, `top_display_rom.v`, `vga_logic.v` | pixel FIFO, counters | RAM to FIFO to screen | loader's RAM |
| IO block, `IO_map_block.v` | display_on, mem_start, tick counter, answer bit | IO loads and stores | D-cache, DVI, SPART |
| SPART, `SPART/` | driver state, word registers, shift registers | send and receive words | IO block, host over a serial line |

Everything but the pixel output and the serial line runs on one clock, so the
hard behaviour is in handshakes that last many cycles while the other side goes
on: a request held until a one-cycle answer, an answer that several registers
must agree about, a fixed delay instead of an acknowledgement, resets in the
middle of a transfer, a read port that lags its array by one edge, a stall that
must hold every register of a datapath or none, and an instruction that is
already behind the one that turns out to be a jump. `PROJECT.json` lists each
such place with its line ("hazards").

What makes each part correct:

- arbiter: one access at a time, the bus shows its owner, no preemption, no
  answer lost, priority is the only cause of starvation;
- shim and MIG: one command and two beats per write, one command per read, the
  answer belongs to the request, order is kept;
- D-cache: loads return the last store, clean lines match the DDR2, a block has
  one copy, FLUSH leaves the DDR2 up to date, requests to the arbiter stand still;
- DVI loader: the RAM holds exactly the frame, loading ends, the rest of the
  system goes on whatever software does with the display;
- IO, SPART: an access is answered when it is done and with its own register, no
  word is lost, mixed or sent twice, a polling program never waits for ever;
- NPU: every vector is answered by the network's own output, in order, across
  stalls and from one configuration to the next;
- processor: the pipeline computes what executing the instructions one by one
  means, whatever memory and NPU make it wait.

## 2. The modules

The memory path:

| Module | Models | Correspondence |
|---|---|---|
| `ArbiterBus` | multiplexers of `Arbiter.v` | `data_wr`, `temp_addr`, `data_addr` |
| `Arbiter` | `Arbiter.v` | a variable per register; the client branches 1, 2, 3 of the code are one set of actions with parameter `k`; `Accept` is the first always block; `Step` is an edge |
| `MemCtrl` | `data_rd_wr.v` | one operator per always block; `Step` is an edge |
| `Mig` | MIG and DDR2 (external) | command FIFO, two data FIFOs, array, `phy_init_done` |
| `SharedMemory` | what clients are promised | abstract: one memory, accesses take effect one at a time |
| `MemorySystem` | arbiter + shim + MIG + general clients | wiring of the top level and `interface.v`; a step is an edge of all of them |
| `DCache` | `D_cache_controller.v` + both `cache_memory.v` | an action per state of the controller and outcome |
| `CoherentMemory` | what the D-cache promises | abstract: memory as the processor sees it (`cur`) and DDR2 (`durable`) |
| `CachedMemory` | D-cache between MEM stage, arbiter port and IO block | any latency at the port |
| `WriteRom` | `write_rom.v` and `RAM_DVI` | an action per branch of the always block |
| `DisplayMemory` | the memory path with D-cache and frame loader as clients | adds `display_on`, the clock manager and software's rules |

The NPU:

| Module | Models | Correspondence |
|---|---|---|
| `StdFifo` | Xilinx FIFO (external) | a sequence and its registered output |
| `NpuCircBuf` | `npu_circ_buf_small.v`, `npu_circ_buf_large.v` | read with write-back one clock later, write from the configuration FIFO |
| `NpuStateMachine` | `npu_state_machine.v` | next state and control signals of the four states |
| `Npu` | the rest of `src/NPU/` | scheduler, configuration, engines, accumulator and sigmoid FIFOs, sigmoid unit; a step is an edge of all of them |
| `NpuPromise` | what a program is promised | abstract: vectors in, the network's outputs out |
| `NpuHost` | the processor's side | ENQC, ENQD, DEQD that wait while their FIFO is full or empty; the network's arithmetic layer by layer is the reference |

The processor:

| Module | Models | Correspondence |
|---|---|---|
| `Isa` | the instructions, one at a time | the reference: `Execute` of an instruction on registers, flags, memory, NPU words, PC |
| `Pipeline` | `Processor.v` and its five stages | an operator per stage or wire, one `Clock` for the edge; every committed instruction is one step of the reference kept beside it |

IO and the serial port:

| Module | Models | Correspondence |
|---|---|---|
| `Spart` | `driver.v`, `spart_top_level.v` | the driver's states and status register; transmitter and receiver by the byte |
| `IoMap` | `IO_map_block.v` | registers, the shared answer bit, the way to the serial port |
| `IoSystem` | the two programs at its ends | a program that polls before it loads or stores a word, and a host that answers words with words |

`MC...` modules hold the instances. The theorems of section 5 are in `ArbiterProofs`,
`MemoryProofs` (invariants of the memory path), `MemoryPromiseProofs` (its refinement
of `SharedMemory`), `DCacheProofs` (invariants of the D-cache and its refinement of
`CoherentMemory`), `DisplayProofs`, `IoProofs`, `NpuProofs` and `PipelineProofs`.

A wire of the code is an operator and a register a variable. Modules take their
inputs as variables, so that the same module is checked alone with free inputs
(`Arbiter!Spec`) and instantiated with the neighbours on its wires.
Clients in `MemorySystem` are the most general ones that keep the handshake of
the D-cache controller and of `write_rom`: a request stands still until
`mem_ready`, stays on the port during it, and is then dropped or replaced.
Definitions commented "Seeded fault" are variations of the definition after
them; they are used by nothing, and show that a property would notice.

Data is abstracted to what properties tell apart: a block is a pair of beats
(two different halves, so that a swap shows) or two words; a pixel is the low
part of a beat; addresses are block addresses of a small DDR2; words of the
processor have four bits and there are four registers; a byte of the serial line
is a value, and its start bit, sampling and baud rate are numbers of clocks. The
NPU's arithmetic is the real one, on integers. Debug outputs, `mc_rd_rdy` (unused
by the arbiter) and the dead registers `data_stored` and `cache_data_out` are
left out.

## 3. The runs

| Run | Instance | Shows |
|---|---|---|
| `arbiter` | 3 clients, free inputs | `TypeOK`, `OneActive`, `BusOwner`, `NoPreemption`, with resets at any edge |
| `memory` | 2 clients, one a writer, 2 addresses, 2 block values with differing halves | `PromiseKept`: the path implements `SharedMemory`; `AcceptsWhenIdle`, `DirectionMatches`, `AnswerHasOwner`, `BeatsPaired`, with resets at any edge |
| `memory_live` | 3 clients, 2 of them writers | `GrantedServed`, `StarvedOnlyByPriority` |
| `cache` | 2 sets, 3 tags, 2 words per block | `PromiseKept`: the cache implements `CoherentMemory`; `OneCopy`, `CleanMatches`, `MemRequestHeld`, `RequestServed`, with resets at any edge |
| `display` | D-cache and loader, frame of 2 blocks | `FrameComplete`, `FrameLoaded`, `CacheServed` |
| `display_off` | the same, display switched off at any time | violation of `ServedOnceOff` |
| `npu` | 3 networks in any order, 2 engines, inputs with and without gaps | `PromiseKept`: the NPU implements `NpuPromise`; `AtRest`, `BuffersRespected`, `PortsExclusive`, `LockStep`, `AllAnswered` |
| `npu_gap` | the five-input network, inputs with gaps | violation of `PromiseKept` |
| `pipeline` | every program of four shapes that is `Disciplined` or, if it calls, keeps `SoftwareRules`, memory and NPU waits at any clock | `PathInStep`, `RegistersInStep`, `MemoryInStep`, `NpuInStep`: the pipeline does what `Isa` says; `KeepsCommitting` |
| `pipeline_return` | RET in front of CALL | violation of `RegistersInStep` |
| `io` | 3 programs and a host with two words | `AnswersOwn`, `StoresCarried`, `LoadsDelivered`, `ExchangesGoOn`; `KeepsTime`: the programs keep rules 2 and 3 of the serial port |
| `io_ticks` | the same | violation of `TicksHold` |

Bounds, and why they are enough:

- `WriteCycleDelay` is 2, not 12: the counter's restart, its match and the answer
  happen; a longer wait only repeats the waiting edge.
- `Lag`, the commands MIG may have waiting, is 1 or 2, and `AFull` is 3: the
  arbiter has one access in flight, so that MIG's queue holds at most one read,
  or writes answered by the delay and not yet executed. With Lag = 2 writes of
  two accesses are waiting while a third is made. The almost-full flags do not
  rise within these bounds, as they do not in a FIFO of the real depth; what
  the shim would do if they did is listed under hazards.
- The D-cache has 2 sets for 1024: a flush crosses from way to way and wraps,
  and three tags compete for two ways of a set while another set is in use.
- A frame has 2 blocks for 38400: first, last and the step between them.
- `memory_live` has one address and one block value: liveness does not look at data.
- The NPU has 2 engines for 8 and FIFOs of 2 words for 16 and 1024, so that
  configuration and input FIFO fill and empty in the middle of everything; five
  inputs on two engines make a sum go through the accumulator FIFO twice. The
  first two networks are the repository's own (`test_cpu_configuration.coe`,
  `configuration_single_2in_0h_1o.coe`). Each is fed one vector, or three.
- Pipeline programs have up to five free places, each filled from an alphabet of
  the fifteen instructions modelled, behind a fixed prefix where the predictor or a
  call has to be set up: any three neighbours meet in straight code, any five around branches.
  The NPU's answers are taken from 4 tokens.
- A byte of the serial line takes 8 clocks, and 4 or 6 to send (the
  transmitter's phase varies); the real one takes some 13 000. What matters is
  which is longer, a byte or the program's reaction, see rule 3 below.
- The tick counter has 2 bits, to wrap in time; an access is repeated at most
  `MaxRepeats` = 1 times, and `MaxIdle` = 2 clocks lie between two accesses.

### Violations

Each of these runs is a disagreement between the code and what it says of itself.

`display_off`: `vgamult.v` 95-96
says that with the display off the module is reset; the reset also drops the
loader's request in the middle of an access. The arbiter ends an access only
while its client is still asking (`Arbiter.v` 270-304), so that the active flag
of port 3 stays up and no D-cache request is granted any more: "other two
blocks are not operating" (`Arbiter.v` 166) is no longer what the flag means.
Software cannot avoid it by looking: no register says that a load has ended.
`display` assumes that software waits long enough before switching off, and
that it does not write the frame while it is being loaded. `DisplayMemory` has
no global reset: `memory` covers it.

`npu_gap`: a stall for a missing input holds the schedule, the weights and the
engines, but not the register of the sigmoid unit (`npu_sigmoid_unit.v` 53-55).
If it falls while a value stands there, the value is lost and the next is taken
twice. It takes a network large enough that the schedule still reads inputs when
the first scaled one is in the sigmoid unit (in the instance, five inputs on two
engines), and a program that does not enqueue a vector at one go. The
programs of the repository load a vector into registers first, and so does the
program of run `npu` for that network.

`pipeline_return`: a RET empties the stages behind it while it is in the memory
stage (`Processor.v` 298, 516), but the fetch unit takes the return address one
clock later (`JumpMux.v` 29). The third instruction after a RET executes.
In `InverseKinematics.txt` a RET stands in front of ACOS, and the third instruction
fetched is the second of ASIN. It overwrites the return value.

`io_ticks`: `Memory_Mapping.txt` 29 says that the tick counter stays at its maximum;
`IO_map_block.v` 104 counts on to zero, at 50 MHz after 86 seconds. `TicksHold` says that only
a store takes the counter back. `AnswersOwn` of run `io` does not depend on it: it says what a
load returns next to the counter while that has not reached its last value.

### Rules of software

The hardware relies on what programs do. Each rule below was found by dropping
it: a run then fails.

The pipeline (`SoftwareRules` in `Pipeline`):

1. a conditional branch stands directly after the instruction that sets its flags,
   and is no jump target itself;
2. no NPU instruction stands directly after a branch, at its target, or after HALT;
3. no LHW or ENQD of a register directly follows a LOAD of it; nor does a branch whose
   offset bits name the loaded register;
4. no CALL or RET comes within two instructions after a writer of the stack
   pointer, CALL and RET themselves included, also across a call;
5. three NOPs follow a RET.

Programs without calls keep them. `InverseKinematics.txt` breaks rules 4 (ACOS
begins with CALL) and 5. The assembler checks none.

The serial port (built into `IoSystem`):

1. Between the host's first byte and the load of its last word nothing is
   stored to the DATA address and no ALU result equals it: the address reaches the
   SPART without a valid bit (`MemoryStage.v` 68, `spart_top_level.v` 62) and
   clears the status bit. The program then polls for ever.
2. The host answers only after it has heard a whole word, as the MATLAB scripts'
   `fread(..., 'uint32')` does: while a word goes out the driver does not read,
   and bytes that come in are lost.
3. The program loads a word within about one byte time: before the driver reads the
   first byte of the next (`KeepsTime` states this and what rule 2 is for).
4. A store to the SPART is not held in the memory stage (by an NPU wait) for as
   long as a word takes to send, or the word is sent twice.

## 4. Fairness

`LiveSpec` of `MemorySystem` has weak fairness of a clock edge (the clock does
not stop) and of an edge in which MIG works (`Progress`: it executes a command,
returns a beat, or ends calibration): MIG executes what it has accepted,
refresh included, in bounded time. No fairness is assumed of clients, of the
arbiter's choice, or of resets. `DisplayLiveSpec` adds that the clock manager
locks. `LiveSpec` of `CachedMemory` assumes that the arbiter port answers, which
is `CacheServed` of the `display` run for the real path.

`NpuHost` has weak fairness of an edge and of taking an output that is there:
`AllAnswered` needs a program that reads, nothing more. `FairSpec` of `Pipeline` has
weak fairness of an edge in which neither memory nor NPU makes it wait: each of
them may wait at any clock and for any time, but not for ever, which is
`RequestServed` and `AllAnswered`. `IoSystem` has weak fairness of an edge and of a
host that has something to send. All fairness is weak: each action, once enabled,
stays so until taken.

## 5. Proofs

`ArbiterProofs` proves, for every number `N` of clients, every address and block
set, and inputs that do anything at every edge:

- `TypeCorrect`: `Spec => []TypeOK`
- `MutualExclusion`: `Spec => []OneActive`
- `BusOwnership`: `Spec => []BusOwner`
- `NeverPreempted`: `Spec => NoPreemption`

The assumption is `ArbiterAssumption`: at least one client, addresses are
naturals, the zero block is a block. None of the invariants is inductive alone:
mutual exclusion needs that a grant sees every other flag down, and bus
ownership that the previous owner has released. Their conjunction `IInv` is.
`OthersIdle` is the fact the argument turns on: under `IInv` a client that is
selected is the only one that can be active. `ServeIInv` then goes through the
five branches of a client, `ResetIInv` and `NextIInv` through the rest.
`NeverPreempted` follows from `ServeEnds`: only a release lowers a flag.

`MemoryProofs` and `MemoryPromiseProofs` are about arbiter, shim and MIG together
(`MemorySystem`): for every number of clients, any of which may write, every address
and block set, `WriteCycleDelay` from 1 to 30, every `Lag` and `AFull`, and resets at
any edge,

- `TypeCorrect`, `AnswersKept`, `DirectionKept`, `AnswersFindOwner`,
  `BeatsStayPaired`: `Spec => []TypeOK`, `[]AcceptsWhenIdle`, `[]DirectionMatches`,
  `[]AnswerHasOwner`, `[]BeatsPaired`
- `PromiseHolds`: `Spec => PromiseKept`, the refinement of `SharedMemory`

The assumption is `MemorySystemAssumption`; its one bound on the design is that
`WriteCycleDelay` fits the five bits of `counter_wait`. How far an access has come is written
in some twenty registers of three components, and a step reads those the others
wrote an edge ago. `IInv` (theorem `Invariance`) is the table of the values that meet: the bus has no owner and
the shim is at rest, or the owner writes and the reading half rests (`WriteStage`:
six stages, command and first beat, second beat, wait, over), or it reads
and the writing half rests (`ReadStage`: the command behind the writes that
MIG still has, then the block beat by beat). One stage, `WriteStuck`, no run enters: an almost-full flag
has kept back the second beat; `new_data_wr` then never falls, the access is never answered, and safety
still holds. `PairInv` counts MIG's beats by its commands, `CounterInv` says where
the wait stands, and `QuietInv` that the shim has seen nothing in the cycle after a
grant, when `mc_wr_rdy_accept` is still up: that is what `AcceptsWhenIdle` turns on.
Of the clients only `Held` is used, so that the display's proof can use the same steps.

The refinement rests on one function, `Stored`: the DDR2 as it will be once MIG has
executed the complete writes in its queues. It changes at one edge only, that
at which a second beat is pushed (`PushStores`, `PushAddsNothing`), and neither
MIG's executing a write (`StoredShifts`) nor a reset at that moment changes it more than it should (`ResetDrops`: what is lost is a
write that has not been answered). `StoreMoves` and `PathStepOperates` then map an
edge to a step of `SharedMemory`.

`DisplayProofs` is about the frame loader on the same path (`DisplayMemory`), for
every frame length, start address, delay and use of the D-cache port:

- `FrameArrives`: `~OffAnyTime /\ DisplaySpec => []FrameComplete`

`OffAnyTime` is the constant that lets software switch the display off in the middle of a
load, which run `display_off` shows to be wrong. `FrameAssumption` says that the
frame lies within the modelled addresses and that no other address shares a block
with it. The argument uses of the memory path what `PromiseHolds` gives: the answered
block is the stored one. The loader's part is `LoaderInv`: in each state of `write_rom` the counter says
how many slots of the RAM are filled (`RamInv`), its request names the next one,
and `PowerInv` says that the display is not reset while a request stands.

`DCacheProofs` is about the cache between processor and arbiter (`CachedMemory`): for every number of sets above one, every set of tags,
words and values, every software, every latency of the arbiter port, and resets
at any edge,

- `TypeCorrect`, `SingleCopy`, `CleanLinesMatch`, `FlushCountRests`:
  `Spec => []TypeOK`, `[]OneCopy`, `[]CleanMatches`, `[]CountAtRest`
  (that the flush count is back at the first line outside a flush, part of `IInv`)
- `Coherence`: `Spec => PromiseKept`, the refinement of `CoherentMemory`
- `RequestStandsAtPort`: `Spec => MemRequestHeld`

A step of `CoherentMemory`, as of `SharedMemory`, is a reset only if the clock edge was one
with the reset, which the flag `in_reset` records; at any other edge the store must take effect. What is
answered must be right in every state, also in one that a reset ends (`AnswersAreRight`).

The assumptions are `DCacheAssumption` (more than one set: with one, an ordinary
write-back would turn the replacement bit, see `Turn`) and
`CachedMemoryAssumption` (software's loads and stores are within the address
space). The argument has two inductive invariants.

`IInv` makes `OneCopy` and `CleanMatches` inductive. A fill gives
a line a new tag, so both ways must still miss that tag when it comes (`Missing`),
which needs the request to have stood since the tags were compared (`Engaged`,
`Moves`). The tags compared, and the victim written back, come from the registered
read port, which is one edge late: `PortFresh` says in which states it has caught
up. `CleanMatches` needs the answered block to be the one asked for
(`FillAnswer`) and a write-back to be of a dirty line's own block (`EvictsDirty`,
`WritesOwnBlock`); the latter rests on `OneCopy` in turn.

`SInv` says what has reached the DDR2. A fill overwrites a
line that is saved (`VictimSaved`), because the answer of a write-back comes
after the write (`WriteAnswer`). A flush leaves only saved lines behind
(`PassedSaved`, with `Passed` the order in which count and replacement bit walk
the two ways); `PassesNext` is the step across the end of a way. The step
simulation then has three parts: only a hit changes the memory as the processor
sees it, as the store says (`StoreWrites`, `CurKept`); a load reads it
(`LoadReads`); an answered flush has passed every line (`FlushSaves`).

`RequestStandsAtPort` is what `MemorySystem` assumes of a client at its port, and
the one-cycle answer after any time that `CachedMemory` assumes of its port is
what `SharedMemory` promises: the two halves meet at the arbiter's port 2.

`IoProofs` proves, for every program, host, word size and timing of the line, and
every width of the tick counter,

- `TypeCorrect`: `Spec => []TypeOK`
- `AnswersOwnHolds`: `Spec => []AnswersOwn`
- `WordsGoOut`: `Spec => StoresCarried`
- `WordsComeIn`: `Spec /\ []KeepsTime => LoadsDelivered`

The assumptions are those of `IoSystem`: programs are polling programs in the sense of
`Operation`; `ShortRepeats`, which is rule 4 of the serial port with a byte in
place of a word: no access stands answered in the memory stage for as long as a byte
takes to send; and `LongGaps`: between two bytes that come in there are five clocks, where the
start bit alone takes 16 periods of the baud rate generator. `KeepsTime` are rules 2
and 3, as a property of states: no word is being sent while a byte waits for the driver, and
the last word has been loaded when the first byte of the next is read. Whether a program keeps
them depends on how long its loop takes against a byte on the line, so that it is a
hypothesis here; run `io` checks it of its programs. TLC runs on an instance that
keeps all of these.

One answer bit is shared by all IO accesses, and a register access holds it for one
clock. `AnswersOwn` is not inductive: that an answer belongs to the access that
stands now needs that the bit is set exactly in the second clock of an access, and
that the SPART's own count of the access agrees (`IInv`).

`StoresCarried` says of one edge that the byte that leaves the transmitter is the
next that is owed. `SerialInv` makes it inductive. A byte is in one of five stages
(`ByteInv`: the driver rests, it has chosen a byte, the byte is on its bus, the
transmitter sends it, it is gone), and every edge stays or goes to the next one
(`ByteMoves`). A store is taken by the driver while it stands at the port and
may stand there for some clocks more; its first byte cannot leave in that time
(`TakingInv`, the only place where the bound of `ShortRepeats` is used). The status shows
every store before a program can poll again, so that a store that follows a poll
finds the driver at rest (`PollInv`). `OwedInv` names the bytes owed in each
stage: those of the word in the driver from the stage's byte on.

`LoadsDelivered` says of one edge that the load the pipeline takes returns the next word.
`ReceiveInv`, beside `SerialInv`, makes it inductive. `LineInv`: a byte that has come in waits
at most two clocks until the driver is in READ and one more until it is taken, and the read
that follows, since the driver looks at the receiver again before its flag has fallen, is over
before a byte can be there (`LineStep`, where `LongGaps` is used). `WordInv`: the bytes in
`data_rx` and the one that waits are of one word of the host, in order. `ToldInv`: that a word
is there is told in turn by `data_received`, `read_ready` and the status bit; each of them
means a whole word in `data_rx`, a program that has seen the bit has seen the last of them, and the
load clears the bit in its first clock, so that no poll reports a word twice (`ToldStep`).

`NpuProofs` proves of the NPU with its program, for every network and schedule,
1 to 8 engines, every depth of the FIFOs and every table of the sigmoid unit,

- `TypeCorrect`: `Spec => []TypeOK`
- `PortsNeverShared`: `Spec => []PortsExclusive`
- `OneStateOnly`: `Spec => []OneState`

The assumptions are `NpuAssumption` and `HostAssumption`: configuration words have 26
bits, and a configuration is not empty. `PortsExclusive` (the comment in
`npu_circ_buf_large.v` that the two enables are never high together) turns on the four state registers,
each set and cleared by several statements: `OneState` says that one is up at a time,
hence that the NPU is idle for an edge at least between an evaluation and a
configuration, and in that edge the last word read is written back (`PortsInv`).
`OneState` needs that an evaluation does not end and stall at one edge
(`StateMachineMoves`). It also says that a stall always is for an input.

`PipelineProofs` compares the pipeline with `Isa`, for every program that is
`Disciplined`, every word size and register count, every initial contents of registers and
memory, and memory and NPU that make the pipeline wait at any clock:

- `TypeCorrect`, `PathKept`, `RegistersKept`, `MemoryKept`, `NpuKept`:
  `Spec /\ Disciplined(program) => []TypeOK`, and likewise `[]PathInStep`,
  `[]RegistersInStep`, `[]MemoryInStep`, `[]NpuInStep`

The assumptions are `IsaAssumption` (an immediate has at least two values, there is a
register besides register 0) and `PipelineAssumption` (register 0 is zero when the
reset ends). `Disciplined` is what the run's programs without calls are filtered by:
`WellFormed` (instructions the decoder knows, and fewer than there are addresses, so that
no branch runs off the end), `CallFree`, and `SoftwareRules`, of which 1 to 3 then say something.

None of the five is inductive: they speak of the last two stages only. `IInv`
(theorem `Invariance`) follows the program's path back to fetch. `PathInv`: memory
holds the instruction at the reference machine's PC (`MemOn`) or an empty stage; execute holds the
one at the address the memory stage leads to (`ExOn`, `AfterMem`: the target of a
branch predicted taken, else the next address), and decode the one that execute leads to
(`AfterEx`). That the PC which a miss restores is the right one is `MachineMoves`.
`ReplayInv` says what the cycle after a stall may find: a replay of a load's
successor finds its address in `lastNextPC`, and a saved branch address is never wrong because no
branch is ever held by a load (rule 3). `FlagInv`: a conditional branch follows the
instruction that sets its flags stage by stage (rule 1), which no stall
separates, so that the flags are the reference machine's when it is settled. Rule 2 gives
that no word for the NPU leaves execute behind a branch that turns out to
be mispredicted (`BehindBranch`, `EdgeKeepsNpu`).

The data half is `OperandInv`: an operand of the instruction in execute is the
reference machine's, or write-back is about to bring it, and what memory is about to bring
from a load is not needed (`NoHazard`: the hazard unit, and rule 3 for LHW and ENQD, whose
register the unit does not compare). `ForwardRight` shows that forwarding then gives what the
reference machine reads one instruction later, and `ResultInv` that the ALU's result is its. Both
are stated of the values put by while the pipeline is held. The proof has a lemma for each kind
of edge (HALT, full stall, miss, semi stall, advance) and each part of the invariant.

Programs with calls are checked by TLC and not proved about. A return goes where data says, so that
the rules would have to speak of runs and not of the text of a program; and CALL writes the
stack pointer in a way that rule 4 protects for CALL and RET only.

Only model-checked: `AtRest`, `BuffersRespected`, `LockStep` and `PromiseKept` of the
NPU (that a network's schedule reads and writes when the counts say and computes its
layers are facts about the given instance), `KeepsTime` (a fact about the given programs'
timing), the pipeline's programs with calls, and all liveness properties. Liveness and statements about ENABLED are beyond
the proof system.

## 6. Plan

Done: arbiter, shim, MIG, memory path, D-cache and frame loader; the NPU with its
program; the pipeline against sequential execution; the IO block and the serial port
between their programs; proofs of the memory path and the D-cache with their
refinements, of the frame loader, of the IO answers and the words sent and
received over the serial port, of the control of the NPU, and of the pipeline without calls.

What would come next:

1. `TopMemory`: `DCache` itself on port 2 of `MemorySystem`, with software
   drawing a frame, flushing and switching the display on; the RAM then holds
   what the processor stored.
2. `DisplayPath`: `top_display_rom.v` with the pixel FIFO at its limit.
3. Proofs: the pipeline with calls, with the stack's contents as an assumption on
   the run.

### Not modelled, and why

- The display path (`top_display_rom.v`, `vga_logic.v`, the pixel FIFO): nothing
  flows back from it. Read by hand: the FIFO is read on `next_pixel`, so that
  the pixel of (0,0) is not read in the first frame, and the picture stands one pixel to
  the right. Whether the pixel writer can lose a pixel when the FIFO fills up in the same
  clock (`top_display_rom.v:91`) is open. `dvi_ifc.v` is a fixed I2C sequence.
- In the NPU: the number formats that go through generated floating point cores,
  the limit of 48-bit sums, the contents of the tanh table (a constant). The
  output stall of the state machine is there but never entered (`OneStateOnly`): a full
  output FIFO freezes the NPU instead, and two OUT words back to back while
  it fills up would collide, so that programs must leave room.
- In the processor: logic, shift, multiply and floating point instructions, which
  take ADD's path through the pipeline, and branches on overflow. The instruction
  memory is always ready, as the top level wires it.
- Clock generation, Xilinx primitives and generated cores; assembler, emulator,
  benchmarks; older copies of the design.

The modules translate Verilog. The C and C++ files of the repository are generated
simulator code and benchmark programs, no part of the design, and no definition
is mapped to them.
