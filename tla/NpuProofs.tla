----------------------------- MODULE NpuProofs ------------------------------
(***************************************************************************)
(* The control of the NPU and the widths of its registers, for every       *)
(* network, schedule, number of engines, FIFO depth and program: nothing   *)
(* here looks at what the schedule says.                                   *)
(*                                                                         *)
(* That the circular buffers' two ports are never used together rests on   *)
(* the four state registers, each of which is set and cleared by several   *)
(* statements: exactly one is up at a time (OneState), so that between the *)
(* last clock of an evaluation and the first of a configuration there is   *)
(* at least one idle clock, in which the last word read is written back    *)
(* (PortsInv).                                                             *)
(***************************************************************************)
EXTENDS NpuHost, SequenceTheorems, TLAPS

Half == 0 .. Word - 1
Fifo(S, depth) == {f \in [q : Seq(S), dout : S] : Len(f.q) <= depth}
CircBuf == [fifo : Fifo(Half, CircDepth), read_en_delayed : BOOLEAN]

(* The FIFOs and buffers with the width of their words. *)
FifoTypes ==
  /\ config_fifo \in Fifo(Nat, ConfigDepth)
  /\ input_fifo \in Fifo(Half, IoDepth)
  /\ output_fifo \in Fifo(Half, IoDepth)
  /\ sigmoid_fifo \in Fifo(Half, SigmoidDepth)
  /\ accum_fifo \in Fifo(Int, AccumDepth)
BufferTypes ==
  /\ sched_buf \in CircBuf /\ offset_bram \in CircBuf
  /\ wbuf \in [Engine -> CircBuf]
EngineTypes ==
  /\ npu_pe_input_stored \in [Engine -> Half]
  /\ npu_pe_acc \in [Engine -> Int]
  /\ npu_sigmoid_data_reg \in Int
FormatTypes == npu_input_convert_format \in Count /\ npu_output_convert_format \in Count
ControlTypes ==
  /\ {npu_state_idle, npu_state_stall, npu_state_compute, npu_state_config,
      npu_inputs_done, npu_input_stall, npu_output_stall} \subseteq BOOLEAN
  /\ {npu_input_cnt, npu_output_cnt, npu_input_cnt_cur, npu_output_cnt_cur} \subseteq Count
HostTypes == network \in 0 .. Len(Networks) /\ loaded \in Nat

Types ==
  FifoTypes /\ BufferTypes /\ EngineTypes /\ FormatTypes /\ ControlTypes /\ HostTypes

(* One of the four states at a time; a stall has its one cause, a missing  *)
(* input: a full output FIFO holds the schedule without a stall, since the *)
(* write enable that would cause one is itself held back.                  *)
OneState ==
  /\ npu_state_idle => ~npu_state_stall /\ ~npu_state_compute /\ ~npu_state_config
  /\ npu_state_stall => ~npu_state_compute /\ ~npu_state_config
  /\ npu_state_compute => ~npu_state_config
  /\ npu_state_idle \/ npu_state_stall \/ npu_state_compute \/ npu_state_config
  /\ npu_input_stall <=> npu_state_stall
  /\ ~npu_output_stall

(* While the NPU is configured no word is on its way back into a buffer. *)
PortsInv ==
  npu_state_config =>
    /\ ~sched_buf.read_en_delayed /\ ~offset_bram.read_en_delayed
    /\ \A p \in Engine : ~wbuf[p].read_en_delayed

IInv == Types /\ OneState /\ PortsInv

----------------------------------------------------------------------------
(* A FIFO keeps its words' type and its depth at every edge. *)
LEMMA ClockedTyped ==
  ASSUME NEW S, NEW depth \in Nat \ {0}, NEW f \in Fifo(S, depth),
         NEW rd, NEW wr, NEW din \in S
  PROVE  Clocked(f, rd, wr, din, depth) \in Fifo(S, depth)
<1> DEFINE reads == rd /\ ~IsEmpty(f)
           writes == wr /\ ~IsFull(f, depth)
           kept == IF reads THEN Tail(f.q) ELSE f.q
           q == IF writes THEN Append(kept, din) ELSE kept
           dout == IF reads THEN Head(f.q) ELSE f.dout
<1>1. f.q \in Seq(S) /\ f.dout \in S /\ Len(f.q) <= depth /\ Len(f.q) \in Nat
  BY DEF Fifo
<1>2. reads => /\ Tail(f.q) \in Seq(S) /\ Len(Tail(f.q)) = Len(f.q) - 1
               /\ Head(f.q) \in S
  BY <1>1 DEF IsEmpty
<1>3. kept \in Seq(S) /\ Len(kept) <= Len(f.q) /\ Len(kept) \in Nat /\ dout \in S
  BY <1>1, <1>2
<1>4. writes => Len(f.q) < depth
  BY <1>1 DEF IsFull
<1>5. q \in Seq(S) /\ Len(q) <= depth
  <2>1. Append(kept, din) \in Seq(S) /\ Len(Append(kept, din)) = Len(kept) + 1
    BY <1>3
  <2> QED BY <1>1, <1>3, <1>4, <2>1
<1>6. Clocked(f, rd, wr, din, depth) = [q |-> q, dout |-> dout]
  BY DEF Clocked
<1> HIDE DEF q, dout
<1> QED BY <1>3, <1>5, <1>6 DEF Fifo

(* A reset empties a FIFO and leaves its output register. *)
LEMMA ClearedTyped ==
  ASSUME NEW S, NEW depth \in Nat \ {0}, NEW f \in Fifo(S, depth)
  PROVE  ClearFifo(f) \in Fifo(S, depth)
<1>1. f.dout \in S /\ ClearFifo(f) = [q |-> << >>, dout |-> f.dout]
  BY DEF Fifo, ClearFifo
<1>2. << >> \in Seq(S) /\ Len(<< >>) = 0
  OBVIOUS
<1> QED BY <1>1, <1>2 DEF Fifo

(* An empty FIFO, with any word in its output register. *)
LEMMA EmptyTyped ==
  ASSUME NEW S, 0 \in S, NEW depth \in Nat \ {0}
  PROVE  EmptyFifo \in Fifo(S, depth)
<1>1. << >> \in Seq(S) /\ Len(<< >>) = 0
  OBVIOUS
<1> QED BY <1>1 DEF Fifo, EmptyFifo

(* A circular buffer keeps its types; the word read comes back one clock   *)
(* later.                                                                  *)
LEMMA CircClockedTyped ==
  ASSUME CircDepth \in Nat \ {0}, NEW b \in CircBuf, NEW rst, NEW rd \in BOOLEAN, NEW wr,
         NEW din \in Half
  PROVE  CircClocked(b, rst, rd, wr, din, CircDepth) \in CircBuf
<1>0. 0 \in Half
  BY DEF Half, Word
<1>1. b.fifo \in Fifo(Half, CircDepth) /\ b.fifo.dout \in Half
  BY DEF CircBuf, Fifo
<1>2. (IF wr THEN din ELSE b.fifo.dout) \in Half
  BY <1>1
<1>3. Clocked(b.fifo, rd, wr \/ b.read_en_delayed, IF wr THEN din ELSE b.fifo.dout, CircDepth)
        \in Fifo(Half, CircDepth)
  BY <1>1, <1>2, ClockedTyped
<1>4. EmptyFifo \in Fifo(Half, CircDepth)
  BY <1>0, EmptyTyped
<1> QED BY <1>3, <1>4 DEF CircClocked, CircBuf

----------------------------------------------------------------------------
(* The wires. *)

(* A word of 16 bits is a count, and what the conversion from the          *)
(* processor's integers gives is a word.                                   *)
LEMMA Halves ==
  /\ Half = Count /\ Half \subseteq Int /\ 0 \in Half
  /\ \A n \in Int : n % Word \in Half
  /\ \A x \in Nat, n \in Count : ToFixed(x, n) \in Half
  /\ \A w \in Half : Signed(w) \in Int
  /\ \A c \in Count : Plus1(c) \in Count
<1>1. \A x, k \in Nat : (x * 2^k) % Word \in Half /\ (x \div 2^k) % Word \in Half
  <2>1. \A x, k \in Nat : (x \div 2^k) % Word \in Half
    BY DEF Half, Word
  <2>2. \A x, k \in Nat : (x * 2^k) % Word \in Half
    <3>1. \A y \in Int : y % Word \in Half
      BY DEF Half, Word
    <3>2. \A x, k \in Nat : x * 2^k \in Int
      OBVIOUS
    <3> QED BY <3>1, <3>2, Zenon
  <2> QED BY <2>1, <2>2
<1>2. \A x \in Nat, n \in Count : ToFixed(x, n) \in Half
  <2>1. TAKE x \in Nat, n \in Count
  <2>2. n \in Nat
    BY DEF Count
  <2>3. CASE n <= 7
    <3>1. PICK k \in Nat : 7 - n = k
      BY <2>2, <2>3
    <3> QED BY <1>1, <2>3, <3>1, Zenon DEF ToFixed
  <2>4. CASE ~(n <= 7)
    <3>1. PICK k \in Nat : n - 7 = k
      BY <2>2, <2>4
    <3> QED BY <1>1, <2>4, <3>1, Zenon DEF ToFixed
  <2> QED BY <2>3, <2>4
<1> QED BY <1>2 DEF Half, Count, Word, Signed, Plus1

(* The bits that address the table of the sigmoid unit. *)
LEMMA TableAddress == \A v \in Int : Field(v, 5, 11) \in 0 .. 2^11 - 1
BY DEF Field

(* What the sigmoid unit gives is a word. *)
LEMMA SigmoidTyped ==
  ASSUME npu_sigmoid_data_reg \in Int
  PROVE  npu_sigmoid_dout \in Half
<1> DEFINE f == npu_sched_sigmoid_function_sel
           v == npu_sigmoid_data_reg
<1>1. Tanh(v) \in Int
  <2>1. Field(v, 5, 11) \in 0 .. 2^11 - 1
    BY TableAddress, Zenon
  <2>2. \A a \in 0 .. 2^11 - 1 : Tansig[a] \in Int
    <3>1. \A a \in 0 .. 2^11 - 1 : Tansig[a] \in 0 .. 2^7
      BY NpuAssumption, Zenon DEF NpuAssumption
    <3>2. \A n \in 0 .. 2^7 : n \in Int
      OBVIOUS
    <3> QED BY <3>1, <3>2, Zenon
  <2>3. (2^11 - Field(v, 5, 11)) % 2^11 \in 0 .. 2^11 - 1
    <3>1. \A a \in 0 .. 2^11 - 1 : (2^11 - a) % 2^11 \in 0 .. 2^11 - 1
      OBVIOUS
    <3> QED BY <2>1, <3>1, Zenon
  <2>4. Tansig[Field(v, 5, 11)] \in Int /\ Tansig[(2^11 - Field(v, 5, 11)) % 2^11] \in Int
    BY <2>1, <2>2, <2>3
  <2> QED BY <2>4 DEF Tanh
<1>2. Linear(v) \in Int
  BY DEF Linear, Field, Signed, Word
<1>3. Activation(f, v) \in Int
  <2>1. CASE f = 0
    BY <1>1, <2>1 DEF Activation
  <2>2. CASE f = 1
    BY <1>2, <2>2 DEF Activation
  <2>3. CASE f # 0 /\ f # 1
    BY <2>3 DEF Activation
  <2> QED BY <2>1, <2>2, <2>3
<1> HIDE DEF f, v
<1>4. npu_sigmoid_dout = Activation(f, v) % Word
  BY DEF npu_sigmoid_dout, f, v
<1> QED BY <1>3, <1>4, Halves

(* Nothing is asked for by the schedule while the NPU does not run. *)
LEMMA QuietUnlessRunning ==
  /\ npu_offset_bram_read_en \in BOOLEAN
  /\ npu_state_compute \in BOOLEAN => npu_running \in BOOLEAN
  /\ npu_running => npu_state_compute
  /\ ~npu_running => ~npu_offset_bram_read_en
<1>1. npu_offset_bram_read_en \in BOOLEAN
  BY DEF npu_offset_bram_read_en, Bit
<1>2. npu_state_compute \in BOOLEAN => npu_running \in BOOLEAN
  BY DEF npu_running, Running
<1>3. npu_running => npu_state_compute
  BY DEF npu_running, Running
<1>4. (0 \div 2^13) % 2 = 0
  OBVIOUS
<1>5. ~npu_running => ~npu_offset_bram_read_en
  BY <1>4 DEF npu_offset_bram_read_en, Bit, npu_sched_val_cur
<1> QED BY <1>1, <1>2, <1>3, <1>5

(* What the configuration FIFO puts out, and what the engines take in. *)
LEMMA WiresTyped ==
  ASSUME Types
  PROVE  /\ npu_config_dout \in Half
         /\ npu_pe_input_data_bus \in Half
         /\ \A p \in Engine : CarryIn(p) \in Int
         /\ npu_pe_dout \in Int /\ npu_pe_acc[PEs - 1] \in Int
         /\ npu_running \in BOOLEAN
<1>1. npu_config_dout \in Half
  BY Halves DEF Types, FifoTypes, Fifo, npu_config_dout
<1>2. npu_pe_input_data_bus \in Half
  BY DEF Types, FifoTypes, Fifo, npu_pe_input_data_bus
<1>3. npu_pe0_cin \in Int
  <2>1. accum_fifo.dout \in Int
    BY DEF Types, FifoTypes, Fifo
  <2>2. offset_bram.fifo.dout \in Half
    BY DEF Types, BufferTypes, CircBuf, Fifo
  <2>3. Signed(offset_bram.fifo.dout) \in Int
    BY <2>2, Halves
  <2> QED BY <2>1, <2>3 DEF npu_pe0_cin
<1>4. PEs \in Nat \ {0} /\ npu_pe_acc \in [Engine -> Int]
  <2>1. PEs \in 1..8 /\ npu_pe_acc \in [Engine -> Int]
    BY NpuAssumption, Zenon DEF NpuAssumption, Types, EngineTypes
  <2> QED BY <2>1
<1>5. \A p \in Engine : CarryIn(p) \in Int
  <2>1. \A p \in Engine : p = 0 \/ p - 1 \in Engine
    BY <1>4 DEF Engine
  <2> QED BY <1>3, <1>4, <2>1 DEF CarryIn
<1>6. npu_pe_dout \in Int
  <2>1. npu_sched_sigmoid_input_sel_pe \in Nat
    <3>1. npu_sched_val_cur \in Nat
      <4>1. sched_buf.fifo.dout \in Half
        BY DEF Types, BufferTypes, CircBuf, Fifo
      <4>2. \A w \in Half : w \in Nat
        BY DEF Half, Word
      <4> QED BY <4>1, <4>2 DEF npu_sched_val_cur
    <3>2. \A v \in Nat : Field(v, 10, 3) \in Nat
      BY DEF Field
    <3> QED BY <3>1, <3>2, Zenon DEF npu_sched_sigmoid_input_sel_pe
  <2> HIDE DEF npu_sched_sigmoid_input_sel_pe
  <2> QED BY <1>4, <2>1 DEF npu_pe_dout, Engine
<1>7. npu_pe_acc[PEs - 1] \in Int
  BY <1>4 DEF Engine
<1>8. npu_running \in BOOLEAN
  BY QuietUnlessRunning DEF Types, ControlTypes
<1> QED BY <1>1, <1>2, <1>5, <1>6, <1>7, <1>8

(* The FIFOs keep their types at every edge. *)
LEMMA FifosStep ==
  ASSUME Types, NEW wc, NEW c \in Nat, NEW wx, NEW x \in Nat, NEW ro,
         ConfigFifoStep(wc, c), InputFifoStep(wx, x), OutputFifoStep(ro), AccumStep, SigmoidStep
  PROVE  FifoTypes' /\ npu_sigmoid_data_reg' \in Int
<1>0. /\ ConfigDepth \in Nat \ {0} /\ IoDepth \in Nat \ {0} /\ SigmoidDepth \in Nat \ {0}
      /\ AccumDepth \in Nat \ {0}
  BY NpuAssumption DEF NpuAssumption
<1>1. config_fifo' \in Fifo(Nat, ConfigDepth)
  BY <1>0, ClockedTyped DEF Types, FifoTypes, ConfigFifoStep
<1>2. input_fifo' \in Fifo(Half, IoDepth)
  <2>1. ToFixed(x, npu_input_convert_format) \in Half
    BY Halves DEF Types, FormatTypes
  <2> QED BY <1>0, <2>1, ClockedTyped, ClearedTyped DEF Types, FifoTypes, InputFifoStep
<1>3. npu_sigmoid_dout \in Half
  BY SigmoidTyped DEF Types, EngineTypes
<1>4. output_fifo' \in Fifo(Half, IoDepth)
  BY <1>0, <1>3, ClockedTyped, ClearedTyped DEF Types, FifoTypes, OutputFifoStep
<1>5. sigmoid_fifo' \in Fifo(Half, SigmoidDepth)
  BY <1>0, <1>3, ClockedTyped, ClearedTyped DEF Types, FifoTypes, SigmoidStep
<1>6. accum_fifo' \in Fifo(Int, AccumDepth)
  BY <1>0, WiresTyped, ClockedTyped, ClearedTyped DEF Types, FifoTypes, AccumStep
<1>7. npu_sigmoid_data_reg' \in Int
  BY WiresTyped DEF SigmoidStep
<1> QED BY <1>1, <1>2, <1>4, <1>5, <1>6, <1>7 DEF FifoTypes

(* The circular buffers keep theirs, and remember that they have been read *)
(* only if the NPU ran.                                                    *)
LEMMA BuffersStepTyped ==
  ASSUME Types, BuffersStep
  PROVE  /\ BufferTypes'
         /\ sched_buf'.read_en_delayed = npu_running
         /\ offset_bram'.read_en_delayed = npu_offset_bram_read_en
         /\ \A p \in Engine : wbuf'[p].read_en_delayed = npu_running
<1>1. CircDepth \in Nat \ {0} /\ npu_running \in BOOLEAN /\ npu_config_dout \in Half
  BY NpuAssumption, WiresTyped DEF NpuAssumption
<1>2. \A b \in CircBuf, rd \in BOOLEAN : \A sel : BufStep(b, sel, rd) \in CircBuf
  BY <1>1, CircClockedTyped DEF BufStep
<1>3. \A b, sel, rd : BufStep(b, sel, rd).read_en_delayed = rd
  BY DEF BufStep, CircClocked
<1>4. /\ sched_buf \in CircBuf /\ offset_bram \in CircBuf /\ wbuf \in [Engine -> CircBuf]
      /\ sched_buf' = BufStep(sched_buf, 13, npu_running)
      /\ offset_bram' = BufStep(offset_bram, 14, npu_offset_bram_read_en)
      /\ wbuf' = [p \in Engine |-> BufStep(wbuf[p], p, npu_running)]
      /\ npu_offset_bram_read_en \in BOOLEAN
  BY QuietUnlessRunning DEF BuffersStep, BufferTypes, Types
<1>5. sched_buf' \in CircBuf /\ offset_bram' \in CircBuf
  BY <1>1, <1>2, <1>4, Zenon
<1>6. \A p \in Engine : BufStep(wbuf[p], p, npu_running) \in CircBuf
  BY <1>1, <1>2, <1>4, Zenon
<1>7. wbuf' \in [Engine -> CircBuf]
  BY <1>4, <1>6, Zenon
<1>8. /\ sched_buf'.read_en_delayed = npu_running
      /\ offset_bram'.read_en_delayed = npu_offset_bram_read_en
      /\ \A p \in Engine : wbuf'[p].read_en_delayed = npu_running
  BY <1>3, <1>4, Zenon
<1> QED BY <1>5, <1>7, <1>8 DEF BufferTypes

(* The engines' registers keep theirs. *)
LEMMA EnginesStepTyped ==
  ASSUME Types, EnginesStep
  PROVE  npu_pe_input_stored' \in [Engine -> Half] /\ npu_pe_acc' \in [Engine -> Int]
<1>1. 0 \in Half /\ \A w \in Half : Signed(w) \in Int
  BY Halves
<1>2. /\ npu_pe_input_stored \in [Engine -> Half] /\ npu_pe_acc \in [Engine -> Int]
      /\ \A p \in Engine : wbuf[p].fifo.dout \in Half
  BY DEF Types, EngineTypes, BufferTypes, CircBuf, Fifo
<1>3. npu_pe_input_stored' \in [Engine -> Half]
  BY <1>1, <1>2, WiresTyped DEF EnginesStep
<1>4. \A p \in Engine :
        Signed(npu_pe_input_stored[p]) * Signed(wbuf[p].fifo.dout) + CarryIn(p) \in Int
  <2>1. \A a, b, k \in Int : a * b + k \in Int
    OBVIOUS
  <2>2. \A p \in Engine : /\ Signed(npu_pe_input_stored[p]) \in Int
                          /\ Signed(wbuf[p].fifo.dout) \in Int /\ CarryIn(p) \in Int
    BY <1>1, <1>2, WiresTyped
  <2> QED BY <2>1, <2>2, Zenon
<1>5. npu_pe_acc' \in [Engine -> Int]
  BY <1>2, <1>4 DEF EnginesStep
<1> QED BY <1>3, <1>5

(* The conversion formats keep theirs. *)
LEMMA FormatsStepTyped ==
  ASSUME Types, FormatsStep
  PROVE  FormatTypes'
<1>1. 0 \in Count /\ npu_config_dout \in Count
  BY WiresTyped, Halves
<1> QED BY <1>1 DEF FormatsStep, FormatTypes, Types

----------------------------------------------------------------------------
(* The state machine. *)

(* Its step keeps the types, and exactly one state: an evaluation cannot   *)
(* end and be stalled at one edge, because nothing is missing when all its *)
(* inputs are in.  Only an idle NPU begins to be configured.               *)
LEMMA StateMachineMoves ==
  ASSUME ControlTypes, OneState,
         NEW cfgEmpty \in BOOLEAN, NEW inEmpty, NEW outFull, NEW wantsIn, NEW givesOut,
         NEW setsOut, NEW setsIn, NEW data \in Count,
         StateMachineStep(cfgEmpty, inEmpty, outFull, wantsIn, givesOut, setsOut, setsIn, data)
  PROVE  /\ ControlTypes' /\ OneState'
         /\ npu_state_config' => npu_state_config \/ npu_state_idle
<1>1. /\ npu_state_idle \in BOOLEAN /\ npu_state_stall \in BOOLEAN
      /\ npu_state_compute \in BOOLEAN /\ npu_state_config \in BOOLEAN
      /\ npu_inputs_done \in BOOLEAN /\ npu_input_stall \in BOOLEAN
      /\ npu_output_stall \in BOOLEAN
      /\ npu_input_cnt \in Count /\ npu_output_cnt \in Count
      /\ npu_input_cnt_cur \in Count /\ npu_output_cnt_cur \in Count
  BY DEF ControlTypes
<1>2. CASE IdleStep(inEmpty, cfgEmpty)
  <2>1. /\ npu_state_idle /\ ~npu_state_stall /\ ~npu_state_compute /\ ~npu_state_config
        /\ ~npu_input_stall /\ ~npu_output_stall
    BY <1>2 DEF IdleStep, OneState
  <2>2. /\ npu_state_idle' \in BOOLEAN /\ npu_state_compute' \in BOOLEAN
        /\ npu_state_config' \in BOOLEAN
        /\ npu_state_idle' <=> inEmpty /\ cfgEmpty
        /\ npu_state_compute' <=> npu_state_compute \/ ~inEmpty
        /\ npu_state_config' <=> npu_state_config \/ (inEmpty /\ ~cfgEmpty)
    BY <1>1, <1>2, Zenon DEF IdleStep
  <2>3. UNCHANGED << npu_state_stall, npu_input_cnt, npu_output_cnt, npu_input_cnt_cur,
                     npu_output_cnt_cur, npu_inputs_done, npu_input_stall, npu_output_stall >>
    BY <1>2 DEF IdleStep, counts, progress, stalls
  <2> QED BY <1>1, <2>1, <2>2, <2>3 DEF ControlTypes, OneState
<1>3. CASE StallStep(inEmpty, outFull)
  <2>1. /\ ~npu_state_idle /\ npu_state_stall /\ ~npu_state_compute /\ ~npu_state_config
        /\ npu_input_stall /\ ~npu_output_stall
    BY <1>3 DEF StallStep, OneState
  <2>2. /\ npu_state_stall' \in BOOLEAN /\ npu_state_compute' \in BOOLEAN
        /\ npu_input_stall' \in BOOLEAN /\ npu_output_stall' \in BOOLEAN
        /\ npu_state_stall' <=> inEmpty
        /\ npu_state_compute' <=> ~inEmpty
        /\ npu_input_stall' <=> inEmpty
        /\ ~npu_output_stall'
    BY <1>1, <1>3, <2>1, Zenon DEF StallStep
  <2>3. UNCHANGED << npu_state_idle, npu_state_config, npu_input_cnt, npu_output_cnt,
                     npu_input_cnt_cur, npu_output_cnt_cur, npu_inputs_done >>
    BY <1>3 DEF StallStep, counts, progress
  <2> QED BY <1>1, <2>1, <2>2, <2>3 DEF ControlTypes, OneState
<1>4. CASE ComputeStep(wantsIn, givesOut, inEmpty, outFull)
  <2> DEFINE starve == Starved(inEmpty)
             block == outFull /\ npu_output_fifo_write_en(givesOut, inEmpty, outFull)
  <2>1. /\ ~npu_state_idle /\ ~npu_state_stall /\ npu_state_compute /\ ~npu_state_config
        /\ ~npu_input_stall /\ ~npu_output_stall
    BY <1>4 DEF ComputeStep, OneState
  <2>2. ~block
    BY DEF npu_output_fifo_write_en, Running
  <2>3. npu_outputs_done => ~starve
    BY DEF npu_outputs_done, Starved
  <2>4. npu_outputs_done \in BOOLEAN /\ starve \in BOOLEAN
    BY <1>1 DEF npu_outputs_done, Starved
  <2>5. /\ npu_state_idle' = npu_outputs_done
        /\ npu_state_stall' = (starve \/ block)
        /\ npu_state_compute' = ~(npu_outputs_done \/ starve \/ block)
        /\ npu_input_stall' = (npu_input_stall \/ starve)
        /\ npu_output_stall' = (npu_output_stall \/ block)
        /\ npu_inputs_done' = (npu_input_cnt_equals \/ (npu_inputs_done /\ ~npu_outputs_done))
    BY <1>4 DEF ComputeStep
  <2>6. UNCHANGED << npu_state_config, npu_input_cnt, npu_output_cnt >>
    BY <1>4 DEF ComputeStep, counts
  <2>7. npu_input_cnt_cur' \in Count /\ npu_output_cnt_cur' \in Count
    <3>1. 0 \in Count /\ Plus1(npu_input_cnt_cur) \in Count /\ Plus1(npu_output_cnt_cur) \in Count
      BY <1>1, Halves
    <3>2. /\ npu_input_cnt_cur' \in {Plus1(npu_input_cnt_cur), 0, npu_input_cnt_cur}
          /\ npu_output_cnt_cur' \in {Plus1(npu_output_cnt_cur), 0, npu_output_cnt_cur}
      BY <1>4 DEF ComputeStep
    <3> QED BY <1>1, <3>1, <3>2
  <2> HIDE DEF starve, block
  <2>8. /\ npu_state_idle' \in BOOLEAN /\ npu_state_stall' \in BOOLEAN
        /\ npu_state_compute' \in BOOLEAN /\ npu_input_stall' \in BOOLEAN
        /\ npu_output_stall' \in BOOLEAN /\ npu_inputs_done' \in BOOLEAN
        /\ npu_state_idle' <=> npu_outputs_done
        /\ npu_state_stall' <=> starve
        /\ npu_state_compute' <=> ~npu_outputs_done /\ ~starve
        /\ npu_input_stall' <=> starve
        /\ ~npu_output_stall'
    BY <2>1, <2>2, <2>4, <2>5, Zenon
  <2> QED BY <1>1, <2>1, <2>3, <2>6, <2>7, <2>8 DEF ControlTypes, OneState
<1>5. CASE ConfigStep(cfgEmpty, setsOut, setsIn, data)
  <2>1. /\ ~npu_state_idle /\ ~npu_state_stall /\ ~npu_state_compute /\ npu_state_config
        /\ ~npu_input_stall /\ ~npu_output_stall
    BY <1>5 DEF ConfigStep, OneState
  <2>2. /\ npu_state_idle' \in BOOLEAN /\ npu_state_config' \in BOOLEAN
        /\ npu_state_idle' <=> cfgEmpty
        /\ npu_state_config' <=> ~cfgEmpty
    BY <1>5, Zenon DEF ConfigStep
  <2>3. npu_input_cnt' \in Count /\ npu_output_cnt' \in Count
    BY <1>1, <1>5 DEF ConfigStep
  <2>4. UNCHANGED << npu_state_stall, npu_state_compute, npu_input_cnt_cur,
                     npu_output_cnt_cur, npu_inputs_done, npu_input_stall, npu_output_stall >>
    BY <1>5 DEF ConfigStep, progress, stalls
  <2> QED BY <1>1, <2>1, <2>2, <2>3, <2>4 DEF ControlTypes, OneState
<1> QED BY <1>2, <1>3, <1>4, <1>5 DEF StateMachineStep

(* So does its step in the NPU, with the wires of the other blocks. *)
LEMMA ControlMoves ==
  ASSUME Types, OneState, ControlStep
  PROVE  /\ ControlTypes' /\ OneState'
         /\ npu_state_config' => npu_state_config \/ npu_state_idle
<1> DEFINE cfg == IsEmpty(config_fifo)
           inp == IsEmpty(input_fifo)
           out == IsFull(output_fifo, IoDepth)
           wants == npu_sched_input_fifo_read_en
           gives == npu_sched_output_fifo_write_en
           setsO == npu_config_fifo_sel = 12
           setsI == npu_config_fifo_sel = 11
<1>1. npu_config_dout \in Count
  BY WiresTyped, Halves
<1>2. cfg \in BOOLEAN
  BY DEF IsEmpty
<1>3. ControlTypes /\ StateMachineStep(cfg, inp, out, wants, gives, setsO, setsI, npu_config_dout)
  BY DEF Types, ControlStep
<1> HIDE DEF cfg, inp, out, wants, gives, setsO, setsI
<1> HIDE DEF ControlStep
<1> QED BY <1>1, <1>2, <1>3, StateMachineMoves, Zenon

(* While the NPU is idle or configured, and while it is stalled, it does   *)
(* not run; so that when a configuration begins nothing has been read at   *)
(* the last edge.                                                          *)
LEMMA PortsStep ==
  ASSUME Types, OneState, ControlStep, BuffersStep
  PROVE  PortsInv'
<1>1. SUFFICES ASSUME npu_state_config'
               PROVE  ~npu_running /\ ~npu_offset_bram_read_en
  BY BuffersStepTyped, Zenon DEF PortsInv
<1>2. npu_state_config \/ npu_state_idle
  BY <1>1, ControlMoves
<1>3. ~npu_state_compute
  BY <1>2 DEF OneState
<1> QED BY <1>3, QuietUnlessRunning

----------------------------------------------------------------------------
(* The program. *)

(* Every step of the program is a clock edge of the NPU, which it gives a  *)
(* word of a network's configuration, an input or nothing.                 *)
LEMMA ProgramMoves ==
  ASSUME HostTypes, Next
  PROVE  /\ HostTypes'
         /\ \E wc, wx, ro \in BOOLEAN, c, x \in Nat : NpuClock(wc, c, wx, x, ro)
<1>1. /\ Networks \in Seq(Network) /\ Value \subseteq Nat
      /\ network \in 0 .. Len(Networks) /\ loaded \in Nat /\ Len(Networks) \in Nat
  BY HostAssumption DEF HostAssumption, HostTypes
<1>2. \A j \in 1 .. Len(Networks) :
        /\ Len(Networks[j].words) \in Nat \ {0}
        /\ \A k \in 1 .. Len(Networks[j].words) : Networks[j].words[k] \in Nat
  <2>1. TAKE j \in 1 .. Len(Networks)
  <2>2. Networks[j] \in Network
    BY <1>1
  <2>3. Networks[j].words \in Seq(0 .. 2^26 - 1) \ {<< >>}
    BY <2>2 DEF Network
  <2>4. \A S : \A s \in Seq(S) \ {<< >>} :
          Len(s) \in Nat \ {0} /\ \A k \in 1 .. Len(s) : s[k] \in S
    OBVIOUS
  <2>5. \A n \in 0 .. 2^26 - 1 : n \in Nat
    OBVIOUS
  <2> DEFINE words == Networks[j].words
  <2>6. Len(words) \in Nat \ {0}
    BY <2>3, <2>4, Zenon
  <2>7. \A k \in 1 .. Len(words) : words[k] \in 0 .. 2^26 - 1
    BY <2>3, <2>4, Zenon
  <2>8. \A k \in 1 .. Len(words) : words[k] \in Nat
    BY <2>5, <2>7, Zenon
  <2> QED BY <2>6, <2>8, Zenon
<1>3. CASE Configure
  <2> DEFINE next == network # Len(Networks) /\ (network = 0 \/ AllTaken)
             j == IF next THEN network + 1 ELSE network
             k == IF next THEN 1 ELSE loaded + 1
  <2>1. /\ Loading \/ next
        /\ NpuClock(TRUE, Networks[j].words[k], FALSE, 0, FALSE)
        /\ network' = j /\ loaded' = k
    BY <1>3 DEF Configure
  <2>2. j \in 1 .. Len(Networks) /\ k \in Nat
    BY <1>1, <2>1 DEF Loading
  <2>3. k \in 1 .. Len(Networks[j].words)
    <3>1. Len(Networks[j].words) \in Nat \ {0}
      BY <1>2, <2>2, Zenon
    <3>2. ~next => Loading /\ j = network /\ k = loaded + 1
      BY <2>1
    <3>3. ~next => loaded < Len(Networks[j].words)
      BY <3>2 DEF Loading, Net
    <3>4. next => k = 1
      OBVIOUS
    <3> HIDE DEF next, j
    <3> QED BY <1>1, <3>1, <3>2, <3>3, <3>4
  <2> HIDE DEF next, j, k
  <2>4. Networks[j].words[k] \in Nat
    BY <1>2, <2>2, <2>3
  <2>5. HostTypes'
    BY <1>1, <2>1, <2>2 DEF HostTypes
  <2> QED BY <2>1, <2>4, <2>5
<1>4. CASE Enqueue
  <2>1. PICK x \in Value : NpuClock(FALSE, 0, TRUE, x, FALSE)
    BY <1>4 DEF Enqueue
  <2>2. UNCHANGED << network, loaded >>
    BY <1>4 DEF Enqueue
  <2> QED BY <1>1, <2>1, <2>2 DEF HostTypes
<1>5. CASE Dequeue
  <2>1. NpuClock(FALSE, 0, FALSE, 0, TRUE) /\ UNCHANGED << network, loaded >>
    BY <1>5 DEF Dequeue
  <2> QED BY <1>1, <2>1 DEF HostTypes
<1>6. CASE Other
  <2>1. NpuClock(FALSE, 0, FALSE, 0, FALSE) /\ UNCHANGED << network, loaded >>
    BY <1>6 DEF Other, hostvars
  <2> QED BY <1>1, <2>1 DEF HostTypes
<1> QED BY <1>3, <1>4, <1>5, <1>6 DEF Next

(* The invariant holds at first. *)
LEMMA IInvInit ==
  ASSUME Init
  PROVE  IInv
<1>0. /\ ConfigDepth \in Nat \ {0} /\ IoDepth \in Nat \ {0} /\ SigmoidDepth \in Nat \ {0}
      /\ AccumDepth \in Nat \ {0} /\ CircDepth \in Nat \ {0}
  BY NpuAssumption DEF NpuAssumption
<1>1. 0 \in Half /\ 0 \in Count
  BY Halves
<1>2. FifoTypes
  <2>1. /\ EmptyFifo \in Fifo(Nat, ConfigDepth) /\ EmptyFifo \in Fifo(Half, IoDepth)
        /\ EmptyFifo \in Fifo(Half, SigmoidDepth) /\ EmptyFifo \in Fifo(Int, AccumDepth)
    BY <1>0, <1>1, EmptyTyped
  <2> QED BY <2>1 DEF Init, NpuInit, FifoTypes
<1>3. EmptyCircBuf \in CircBuf /\ ~EmptyCircBuf.read_en_delayed
  <2>1. EmptyFifo \in Fifo(Half, CircDepth)
    BY <1>0, <1>1, EmptyTyped
  <2> QED BY <2>1 DEF EmptyCircBuf, CircBuf
<1>4. BufferTypes /\ PortsInv
  BY <1>3 DEF Init, NpuInit, BufferTypes, PortsInv
<1>5. EngineTypes /\ FormatTypes
  BY <1>1 DEF Init, NpuInit, EngineTypes, FormatTypes
<1>6. ControlTypes /\ OneState
  BY <1>1 DEF Init, NpuInit, SMInit, ControlTypes, OneState
<1>7. HostTypes
  BY HostAssumption DEF Init, HostTypes, HostAssumption
<1> QED BY <1>2, <1>4, <1>5, <1>6, <1>7 DEF IInv, Types

(* Every step keeps it. *)
LEMMA IInvStep == IInv /\ [Next]_allvars => IInv'
<1>1. SUFFICES ASSUME IInv, [Next]_allvars
               PROVE  IInv'
  OBVIOUS
<1>2. CASE Next
  <2>1. HostTypes'
    BY <1>1, <1>2, ProgramMoves DEF IInv, Types
  <2>2. PICK wc, wx, ro \in BOOLEAN, c, x \in Nat : NpuClock(wc, c, wx, x, ro)
    BY <1>1, <1>2, ProgramMoves DEF IInv, Types
  <2>3. Types /\ OneState
    BY <1>1 DEF IInv
  <2>4. FifoTypes' /\ npu_sigmoid_data_reg' \in Int
    BY <2>2, <2>3, FifosStep DEF NpuClock
  <2>5. BufferTypes'
    BY <2>2, <2>3, BuffersStepTyped DEF NpuClock
  <2>6. npu_pe_input_stored' \in [Engine -> Half] /\ npu_pe_acc' \in [Engine -> Int]
    BY <2>2, <2>3, EnginesStepTyped DEF NpuClock
  <2>7. FormatTypes'
    BY <2>2, <2>3, FormatsStepTyped DEF NpuClock
  <2>8. ControlTypes' /\ OneState'
    BY <2>2, <2>3, ControlMoves DEF NpuClock
  <2>9. PortsInv'
    BY <2>2, <2>3, PortsStep DEF NpuClock
  <2> QED BY <2>1, <2>4, <2>5, <2>6, <2>7, <2>8, <2>9 DEF IInv, Types, EngineTypes
<1>3. CASE UNCHANGED allvars
  <2>1. UNCHANGED << config_fifo, input_fifo, output_fifo, formats, buffers, engines, smvars,
                     network, loaded >>
    BY <1>3 DEF allvars, npuvars, hostvars
  <2>2. FifoTypes' /\ EngineTypes'
    BY <1>1, <2>1 DEF IInv, Types, FifoTypes, EngineTypes, engines
  <2>3. BufferTypes' /\ FormatTypes' /\ HostTypes'
    BY <1>1, <2>1 DEF IInv, Types, BufferTypes, FormatTypes, HostTypes, buffers, formats
  <2>4. ControlTypes' /\ OneState'
    BY <1>1, <2>1 DEF IInv, Types, ControlTypes, OneState, smvars, states, counts, progress, stalls
  <2>5. PortsInv'
    BY <1>1, <2>1 DEF IInv, PortsInv, buffers, smvars, states
  <2> QED BY <2>2, <2>3, <2>4, <2>5 DEF IInv, Types
<1> QED BY <1>1, <1>2, <1>3

----------------------------------------------------------------------------
(* The invariant gives the properties of NpuHost. *)

(* The types of registers, FIFOs and buffers are those of TypeOK. *)
LEMMA TypesGiveTypeOK == ASSUME Types PROVE TypeOK
<1>1. SMTypeOK
  BY DEF Types, ControlTypes, SMTypeOK, states, counts, stalls
<1>2. /\ config_fifo \in Fifo(Nat, ConfigDepth) /\ input_fifo \in Fifo(Half, IoDepth)
      /\ output_fifo \in Fifo(Half, IoDepth) /\ sigmoid_fifo \in Fifo(Half, SigmoidDepth)
      /\ accum_fifo \in Fifo(Int, AccumDepth)
  BY DEF Types, FifoTypes
<1>3. /\ sched_buf.fifo \in Fifo(Half, CircDepth) /\ offset_bram.fifo \in Fifo(Half, CircDepth)
      /\ \A p \in Engine : wbuf[p].fifo \in Fifo(Half, CircDepth)
  BY DEF Types, BufferTypes, CircBuf
<1>4. /\ Len(config_fifo.q) <= ConfigDepth /\ Len(input_fifo.q) <= IoDepth
      /\ Len(output_fifo.q) <= IoDepth /\ Len(accum_fifo.q) <= AccumDepth
      /\ Len(sigmoid_fifo.q) <= SigmoidDepth /\ Len(sched_buf.fifo.q) <= CircDepth
      /\ Len(offset_bram.fifo.q) <= CircDepth
  BY <1>2, <1>3 DEF Fifo
<1>5. \A f \in {<< config_fifo, ConfigDepth >>, << input_fifo, IoDepth >>,
                << output_fifo, IoDepth >>, << accum_fifo, AccumDepth >>,
                << sigmoid_fifo, SigmoidDepth >>, << sched_buf.fifo, CircDepth >>,
                << offset_bram.fifo, CircDepth >>} : Len(f[1].q) <= f[2]
  BY <1>4
<1>6. \A S, d : \A f \in Fifo(S, d) : \A i \in DOMAIN f.q : f.q[i] \in S
  BY DEF Fifo
<1>7. \A f \in {input_fifo, output_fifo, sigmoid_fifo, sched_buf.fifo, offset_bram.fifo}
                 \cup {wbuf[p].fifo : p \in Engine} :
        \A i \in DOMAIN f.q : f.q[i] \in Half
  BY <1>2, <1>3, <1>6, Zenon
<1>8. npu_pe_input_stored \in [Engine -> Half]
  BY DEF Types, EngineTypes
<1>9. formats \in [1..2 -> Count]
  BY DEF Types, FormatTypes, formats
<1> QED BY <1>1, <1>5, <1>7, <1>8, <1>9, Zenon DEF TypeOK, Half

(* A buffer selected for configuration is not read, and no word is on its  *)
(* way back into it.                                                       *)
LEMMA ConfiguredAlone == ASSUME Types, OneState, PortsInv PROVE PortsExclusive
<1>1. npu_config_fifo_sel # 8 => npu_state_config
  BY DEF npu_config_fifo_sel
<1>2. npu_state_config => ~npu_running /\ ~npu_offset_bram_read_en
  BY QuietUnlessRunning DEF OneState
<1>3. \A p \in Engine : p # 8
  <2>1. PEs \in 1..8
    BY NpuAssumption, Zenon DEF NpuAssumption
  <2> QED BY <2>1 DEF Engine
<1>4. /\ npu_config_fifo_sel = 13 => ~npu_running /\ ~sched_buf.read_en_delayed
      /\ npu_config_fifo_sel = 14 => ~npu_offset_bram_read_en /\ ~offset_bram.read_en_delayed
      /\ \A p \in Engine : npu_config_fifo_sel = p => ~npu_running /\ ~wbuf[p].read_en_delayed
  BY <1>1, <1>2, <1>3 DEF PortsInv
<1> QED BY <1>4 DEF PortsExclusive

(* Every register of the NPU holds what its width allows, and no FIFO or   *)
(* buffer more words than it has room for, whatever the schedule does.     *)
THEOREM TypeCorrect == Spec => []TypeOK
<1>1. Init => IInv
  BY IInvInit
<1>2. IInv => TypeOK
  BY TypesGiveTypeOK DEF IInv
<1> QED BY <1>1, <1>2, IInvStep, PTL DEF Spec

(* A circular buffer is never written from the configuration FIFO while it *)
(* is read or while a word read is on its way back, whatever the schedule, *)
(* and whenever the processor sends the next configuration.                *)
THEOREM PortsNeverShared == Spec => []PortsExclusive
<1>1. Init => IInv
  BY IInvInit
<1>2. IInv => PortsExclusive
  BY ConfiguredAlone DEF IInv
<1> QED BY <1>1, <1>2, IInvStep, PTL DEF Spec

(* The NPU is in exactly one of its four states, is stalled only for want  *)
(* of an input, and forgets that cause when the stall ends.                *)
THEOREM OneStateOnly == Spec => []OneState
<1>1. Init => IInv
  BY IInvInit
<1>2. IInv => OneState
  BY DEF IInv
<1> QED BY <1>1, <1>2, IInvStep, PTL DEF Spec
=============================================================================
