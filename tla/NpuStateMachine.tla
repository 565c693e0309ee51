-------------------------- MODULE NpuStateMachine ---------------------------
(***************************************************************************)
(* The control of the NPU (npu_state_machine.v): idle, configuring,        *)
(* computing, or stalled for want of an input.  Each state is a register   *)
(* of its own, as in the source, and the counters tell how many inputs and *)
(* outputs of the current evaluation have gone through.                    *)
(*                                                                         *)
(* The wires from the other blocks are parameters: the empty and full      *)
(* flags of the FIFOs and the two bits of the current schedule word which  *)
(* ask for an input and for an output.                                     *)
(***************************************************************************)
EXTENDS Integers

VARIABLES
  npu_state_idle, npu_state_stall, npu_state_compute, npu_state_config,
  npu_input_cnt, npu_input_cnt_cur, npu_output_cnt, npu_output_cnt_cur,
  npu_input_stall, npu_output_stall, npu_inputs_done

states == << npu_state_idle, npu_state_stall, npu_state_compute, npu_state_config >>
counts == << npu_input_cnt, npu_output_cnt >>
progress == << npu_input_cnt_cur, npu_output_cnt_cur, npu_inputs_done >>
stalls == << npu_input_stall, npu_output_stall >>
smvars == << states, counts, progress, stalls >>

Count == 0 .. 2^16 - 1

SMTypeOK ==
  /\ states \in [1..4 -> BOOLEAN]
  /\ counts \in [1..2 -> Count]
  /\ npu_input_cnt_cur \in Count /\ npu_output_cnt_cur \in Count
  /\ npu_inputs_done \in BOOLEAN
  /\ stalls \in [1..2 -> BOOLEAN]

SMInit ==
  /\ npu_state_idle = TRUE /\ npu_state_stall = FALSE
  /\ npu_state_compute = FALSE /\ npu_state_config = FALSE
  /\ npu_input_cnt = 0 /\ npu_input_cnt_cur = 0
  /\ npu_output_cnt = 0 /\ npu_output_cnt_cur = 0
  /\ npu_inputs_done = FALSE /\ npu_input_stall = FALSE /\ npu_output_stall = FALSE

Plus1(c) == (c + 1) % 2^16

----------------------------------------------------------------------------
npu_input_cnt_equals == npu_input_cnt = npu_input_cnt_cur
npu_outputs_done == npu_inputs_done /\ npu_output_cnt = npu_output_cnt_cur

(* Seeded fault: the counter, cleared once all inputs are in, asks again.  *)
StarvedAgain(inEmpty) == ~npu_input_cnt_equals /\ inEmpty

(* An input is still due and there is none. *)
Starved(inEmpty) == ~(npu_inputs_done \/ npu_input_cnt_equals) /\ inEmpty

(* Seeded fault: only a missing input holds the schedule. *)
RunningUnlessStarved(inEmpty, outFull) == npu_state_compute /\ ~Starved(inEmpty)

(* npu_stall_signal_inv, which is the enable of the schedule, the weights  *)
(* and the processing engines: a word of the schedule takes effect.        *)
Running(inEmpty, outFull) == npu_state_compute /\ ~Starved(inEmpty) /\ ~outFull

npu_input_fifo_read_en(wantsIn, inEmpty, outFull) == wantsIn /\ Running(inEmpty, outFull)
npu_output_fifo_write_en(givesOut, inEmpty, outFull) == givesOut /\ Running(inEmpty, outFull)

----------------------------------------------------------------------------
(* Idle: computing goes before configuring. *)
IdleStep(inEmpty, cfgEmpty) ==
  /\ npu_state_idle
  /\ npu_state_idle' = (inEmpty /\ cfgEmpty)
  /\ npu_state_compute' = (npu_state_compute \/ ~inEmpty)
  /\ npu_state_config' = (npu_state_config \/ (inEmpty /\ ~cfgEmpty))
  /\ UNCHANGED << npu_state_stall, counts, progress, stalls >>

(* Seeded fault: the cause of the stall is not cleared. *)
StallStepKeepsCause(inEmpty, outFull) ==
  LET over == (npu_input_stall /\ ~inEmpty) \/ (npu_output_stall /\ ~outFull)
  IN  /\ ~npu_state_idle /\ npu_state_stall
      /\ npu_state_stall' = ~over /\ npu_state_compute' = (npu_state_compute \/ over)
      /\ UNCHANGED << npu_state_idle, npu_state_config, stalls, counts, progress >>

StallStep(inEmpty, outFull) ==
  LET fed   == npu_input_stall /\ ~inEmpty
      eased == npu_output_stall /\ ~outFull
  IN  /\ ~npu_state_idle /\ npu_state_stall
      /\ npu_state_stall' = ~(fed \/ eased)
      /\ npu_state_compute' = (npu_state_compute \/ fed \/ eased)
      /\ npu_input_stall' = (npu_input_stall /\ ~fed)
      /\ npu_output_stall' = (npu_output_stall /\ ~eased)
      /\ UNCHANGED << npu_state_idle, npu_state_config, counts, progress >>

(* Computing.  Where two statements assign a register in one edge the      *)
(* later one stands: a read counts even while the counter is being cleared *)
(* and npu_inputs_done is set even while the evaluation ends.              *)
ComputeStep(wantsIn, givesOut, inEmpty, outFull) ==
  LET reads  == npu_input_fifo_read_en(wantsIn, inEmpty, outFull)
      writes == npu_output_fifo_write_en(givesOut, inEmpty, outFull)
      starve == Starved(inEmpty)
      block  == outFull /\ writes
  IN  /\ ~npu_state_idle /\ ~npu_state_stall /\ npu_state_compute
      /\ npu_input_cnt_cur' = IF reads THEN Plus1(npu_input_cnt_cur)
                              ELSE IF npu_inputs_done THEN 0 ELSE npu_input_cnt_cur
      /\ npu_output_cnt_cur' = IF writes THEN Plus1(npu_output_cnt_cur)
                               ELSE IF npu_outputs_done THEN 0 ELSE npu_output_cnt_cur
      /\ npu_inputs_done' = (npu_input_cnt_equals \/ (npu_inputs_done /\ ~npu_outputs_done))
      /\ npu_state_idle' = npu_outputs_done
      /\ npu_state_stall' = (starve \/ block)
      /\ npu_state_compute' = ~(npu_outputs_done \/ starve \/ block)
      /\ npu_input_stall' = (npu_input_stall \/ starve)
      /\ npu_output_stall' = (npu_output_stall \/ block)
      /\ UNCHANGED << npu_state_config, counts >>

(* Configuring: the two counts are taken from the configuration word. *)
ConfigStep(cfgEmpty, setsOut, setsIn, data) ==
  /\ ~npu_state_idle /\ ~npu_state_stall /\ ~npu_state_compute /\ npu_state_config
  /\ npu_state_idle' = cfgEmpty
  /\ npu_state_config' = ~cfgEmpty
  /\ npu_output_cnt' = IF setsOut THEN data ELSE npu_output_cnt
  /\ npu_input_cnt' = IF setsIn THEN data ELSE npu_input_cnt
  /\ UNCHANGED << npu_state_stall, npu_state_compute, progress, stalls >>

StateMachineStep(cfgEmpty, inEmpty, outFull, wantsIn, givesOut, setsOut, setsIn, data) ==
  \/ IdleStep(inEmpty, cfgEmpty)
  \/ StallStep(inEmpty, outFull)
  \/ ComputeStep(wantsIn, givesOut, inEmpty, outFull)
  \/ ConfigStep(cfgEmpty, setsOut, setsIn, data)
=============================================================================
