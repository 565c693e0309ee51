-------------------------------- MODULE Npu ---------------------------------
(***************************************************************************)
(* The neural processing unit (npu.v): its three FIFOs towards the         *)
(* processor, the state machine, the scheduler, the row of processing      *)
(* engines with their weight buffers, and the sigmoid unit.                *)
(*                                                                         *)
(* One step is one clock edge of all of them.  The state machine enables   *)
(* the schedule, the weight buffers and the engines together, so that they *)
(* stop and go on as one; the sigmoid unit's register, which stands        *)
(* between an engine and the FIFOs, has no enable.                         *)
(*                                                                         *)
(* Words are 16 bits as in the source, two's complement, with 7 fractional *)
(* bits; the engines' sums, 48 bits wide in the DSP cores, are integers.   *)
(***************************************************************************)
EXTENDS NpuStateMachine, NpuCircBuf

CONSTANTS
  PEs,                                \* number of processing engines
  ConfigDepth, IoDepth, SigmoidDepth, AccumDepth, CircDepth,
  Tansig                              \* the table of the sigmoid unit

Engine == 0 .. PEs - 1

ASSUME NpuAssumption ==
  /\ PEs \in 1..8
  /\ {ConfigDepth, IoDepth, SigmoidDepth, AccumDepth, CircDepth} \subseteq Nat \ {0}
  /\ Tansig \in [0 .. 2^11 - 1 -> 0..2^7]

VARIABLES
  config_fifo, input_fifo, output_fifo,        \* towards the processor
  npu_input_convert_format, npu_output_convert_format,
  sched_buf, wbuf, offset_bram,                \* circular buffers
  npu_pe_input_stored, npu_pe_acc,             \* the engines
  accum_fifo, sigmoid_fifo, sigmoid_read_en_delayed,
  npu_sigmoid_data_reg

formats == << npu_input_convert_format, npu_output_convert_format >>
buffers == << sched_buf, wbuf, offset_bram >>
engines == << npu_pe_input_stored, npu_pe_acc, accum_fifo, sigmoid_fifo,
              sigmoid_read_en_delayed, npu_sigmoid_data_reg >>
npuvars == << smvars, config_fifo, input_fifo, output_fifo, formats, buffers, engines >>

NpuInit ==
  /\ SMInit
  /\ config_fifo = EmptyFifo /\ input_fifo = EmptyFifo /\ output_fifo = EmptyFifo
  /\ npu_input_convert_format = 0 /\ npu_output_convert_format = 0
  /\ sched_buf = EmptyCircBuf /\ offset_bram = EmptyCircBuf
  /\ wbuf = [p \in Engine |-> EmptyCircBuf]
  /\ npu_pe_input_stored = [p \in Engine |-> 0] /\ npu_pe_acc = [p \in Engine |-> 0]
  /\ accum_fifo = EmptyFifo /\ sigmoid_fifo = EmptyFifo
  /\ sigmoid_read_en_delayed = FALSE
  /\ npu_sigmoid_data_reg = 0

Word == 2^16
Signed(w) == IF w < 2^15 THEN w ELSE w - Word
Bit(w, n) == (w \div 2^n) % 2 = 1
Field(w, low, width) == (w \div 2^low) % 2^width

----------------------------------------------------------------------------
(* Integers from and to the processor, format n <= 23: 9 + n integer bits  *)
(* are kept of an input, and an output is sign-extended and scaled back.   *)
(* (Formats with bit 15 set go through floating-point cores.)              *)
ToFixed(x, n) == (IF n <= 7 THEN x * 2^(7 - n) ELSE x \div 2^(n - 7)) % Word
FromFixed(w, n) == IF n <= 7 THEN Signed(w) \div 2^(7 - n) ELSE Signed(w) * 2^(n - 7)

(* The configuration FIFO's output drives the write enables while the      *)
(* state machine is configuring; 8 selects nothing.                        *)
npu_config_dout == config_fifo.dout % Word
SelAlways == config_fifo.dout \div 2^22   \* seeded fault: in every state
npu_config_fifo_sel == IF npu_state_config THEN config_fifo.dout \div 2^22 ELSE 8
npu_rst == npu_config_fifo_sel = 15

(* The scheduler: a word of the schedule is in force while the NPU runs.   *)
npu_running == Running(IsEmpty(input_fifo), IsFull(output_fifo, IoDepth))
npu_sched_val_cur == IF npu_running THEN sched_buf.fifo.dout ELSE 0

npu_sched_input_fifo_read_en    == Bit(npu_sched_val_cur, 0)
npu_sched_sigmoid_fifo_read_en  == Bit(npu_sched_val_cur, 1)
npu_sched_sigmoid_fifo_write_en == Bit(npu_sched_val_cur, 2)
npu_sched_output_fifo_write_en  == Bit(npu_sched_val_cur, 3)
npu_sched_pe_select_in          == Field(npu_sched_val_cur, 4, 3)
npu_sched_pe_write_en           == Bit(npu_sched_val_cur, 7)
npu_sched_acc_fifo_read_en      == Bit(npu_sched_val_cur, 8)
npu_sched_acc_fifo_write_en     == Bit(npu_sched_val_cur, 9)
npu_sched_sigmoid_input_sel_pe  == Field(npu_sched_val_cur, 10, 3)
npu_offset_bram_read_en         == Bit(npu_sched_val_cur, 13)
npu_sched_sigmoid_function_sel  == Field(npu_sched_val_cur, 14, 2)

(* The sigmoid unit: the table is addressed by bits 15 to 5 of the sum, or *)
(* of its opposite, and saturates at one.                                  *)
Linear(v) == Signed(Field(v, 7, 16))
Tanh(v) ==
  LET a == Field(v, 5, 11)
  IN  IF v > 51104 THEN 128
      ELSE IF v < -51104 THEN -128
      ELSE IF v >= 0 THEN Tansig[a] ELSE -Tansig[(2^11 - a) % 2^11]

Activation(f, v) == CASE f = 0 -> Tanh(v) [] f = 1 -> Linear(v) [] OTHER -> 0

UntruncatedDout ==                       \* seeded fault: keeps the sign
  Activation(npu_sched_sigmoid_function_sel, npu_sigmoid_data_reg)
npu_sigmoid_dout == Activation(npu_sched_sigmoid_function_sel, npu_sigmoid_data_reg) % Word

----------------------------------------------------------------------------
(* Clock edges of the parts. *)
ClearFifo(f) == [f EXCEPT !.q = << >>]

FormatsStep ==
  /\ npu_input_convert_format' =
       IF npu_rst THEN 0
       ELSE IF npu_config_fifo_sel = 9 THEN npu_config_dout ELSE npu_input_convert_format
  /\ npu_output_convert_format' =
       IF npu_rst THEN 0
       ELSE IF npu_config_fifo_sel = 10 THEN npu_config_dout ELSE npu_output_convert_format

(* The FIFOs towards the processor: what the processor writes and reads at *)
(* this edge, and what the state machine and the schedule do.              *)
ConfigFifoStep(wr, word) ==
  config_fifo' = Clocked(config_fifo, npu_state_config, wr, word, ConfigDepth)

InputFifoStep(wr, x) ==
  input_fifo' = IF npu_rst THEN ClearFifo(input_fifo)
                ELSE Clocked(input_fifo, npu_sched_input_fifo_read_en, wr,
                             ToFixed(x, npu_input_convert_format), IoDepth)

OutputFifoStep(rd) ==
  output_fifo' = IF npu_rst THEN ClearFifo(output_fifo)
                 ELSE Clocked(output_fifo, rd, npu_sched_output_fifo_write_en,
                              npu_sigmoid_dout, IoDepth)

(* The schedule and the weights turn while the NPU runs, the offsets when  *)
(* the schedule says so.                                                   *)
BufStep(b, sel, rd) ==
  CircClocked(b, npu_rst, rd, npu_config_fifo_sel = sel, npu_config_dout, CircDepth)

(* Seeded fault: the schedule turns while an input is waited for. *)
BuffersTurnAlways ==
  /\ wbuf' = [p \in Engine |-> BufStep(wbuf[p], p, npu_running)]
  /\ sched_buf' = BufStep(sched_buf, 13, npu_state_compute)
  /\ offset_bram' = BufStep(offset_bram, 14, npu_offset_bram_read_en)

BuffersStep ==
  /\ wbuf' = [p \in Engine |-> BufStep(wbuf[p], p, npu_running)]
  /\ sched_buf' = BufStep(sched_buf, 13, npu_running)
  /\ offset_bram' = BufStep(offset_bram, 14, npu_offset_bram_read_en)

(* What flows into engine p: the sum of the engine before it; into the     *)
(* first, a sum kept in the accumulator FIFO or an offset.                 *)
npu_pe0_cin == IF npu_sched_acc_fifo_read_en THEN accum_fifo.dout
               ELSE Signed(offset_bram.fifo.dout) * 2^7
CarryIn(p) == IF p = 0 THEN npu_pe0_cin ELSE npu_pe_acc[p - 1]

InputBusUndelayed ==                     \* seeded fault: one clock early
  IF npu_sched_sigmoid_fifo_read_en THEN sigmoid_fifo.dout ELSE input_fifo.dout

npu_pe_input_data_bus ==
  IF sigmoid_read_en_delayed THEN sigmoid_fifo.dout ELSE input_fifo.dout

EnginesStep ==
  /\ npu_pe_input_stored' = [p \in Engine |->
       IF npu_rst THEN 0
       ELSE IF npu_running /\ npu_sched_pe_write_en /\ npu_sched_pe_select_in = p
            THEN npu_pe_input_data_bus ELSE npu_pe_input_stored[p]]
  /\ npu_pe_acc' = [p \in Engine |->
       IF npu_rst THEN 0
       ELSE IF npu_running
            THEN Signed(npu_pe_input_stored[p]) * Signed(wbuf[p].fifo.dout) + CarryIn(p)
            ELSE npu_pe_acc[p]]
  /\ sigmoid_read_en_delayed' =
       IF npu_rst THEN FALSE
       ELSE IF npu_running THEN npu_sched_sigmoid_fifo_read_en ELSE sigmoid_read_en_delayed

(* The sum that goes to the sigmoid unit: the last engine's, unless one    *)
(* before it is selected.                                                  *)
npu_pe_dout ==
  npu_pe_acc[IF npu_sched_sigmoid_input_sel_pe < PEs THEN npu_sched_sigmoid_input_sel_pe
             ELSE PEs - 1]

(* The accumulator FIFO takes the last engine's sum; the sigmoid FIFO the  *)
(* value of the sigmoid unit, whose register takes a sum at every edge.    *)
AccumStep ==
  accum_fifo' = IF npu_rst THEN ClearFifo(accum_fifo)
                ELSE Clocked(accum_fifo, npu_sched_acc_fifo_read_en,
                             npu_sched_acc_fifo_write_en, npu_pe_acc[PEs - 1], AccumDepth)
SigmoidStep ==
  /\ sigmoid_fifo' = IF npu_rst THEN ClearFifo(sigmoid_fifo)
                     ELSE Clocked(sigmoid_fifo, npu_sched_sigmoid_fifo_read_en,
                                  npu_sched_sigmoid_fifo_write_en, npu_sigmoid_dout,
                                  SigmoidDepth)
  /\ npu_sigmoid_data_reg' = npu_pe_dout

ControlStep ==
  StateMachineStep(IsEmpty(config_fifo), IsEmpty(input_fifo), IsFull(output_fifo, IoDepth),
                   npu_sched_input_fifo_read_en, npu_sched_output_fifo_write_en,
                   npu_config_fifo_sel = 12, npu_config_fifo_sel = 11, npu_config_dout)

(* One clock edge: the processor writes configuration word c if wc, input  *)
(* x if wx, and reads an output if ro.                                     *)
NpuClock(wc, c, wx, x, ro) ==
  /\ ControlStep
  /\ ConfigFifoStep(wc, c) /\ InputFifoStep(wx, x) /\ OutputFifoStep(ro)
  /\ FormatsStep /\ BuffersStep /\ EnginesStep /\ AccumStep /\ SigmoidStep
=============================================================================
