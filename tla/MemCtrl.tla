------------------------------ MODULE MemCtrl ------------------------------
(***************************************************************************)
(* The memory controller shim, Top_level_files/data_rd_wr.v, between the   *)
(* arbiter and the Xilinx memory interface generator (MIG).  A write       *)
(* pushes one command and the two halves of the block into MIG's FIFOs,    *)
(* waits WriteCycleDelay cycles and answers with a one-cycle mc_wr_rdy; a  *)
(* read pushes one command, collects two beats and answers with a          *)
(* one-cycle mc_rd_valid.                                                  *)
(*                                                                         *)
(* One operator per always block; Step is a clock edge.  The registers     *)
(* data_stored and cache_data_out drive nothing and are left out, and so   *)
(* is mc_rd_rdy, which the arbiter does not use.                           *)
(***************************************************************************)
EXTENDS Integers, Sequences

CONSTANTS
  Beat,             \* the values of one 128-bit half of a block
  ZeroBeat,         \* 128'd0
  WriteCycleDelay   \* WRITE_CYCLE_DELAY, 12 in the design: 1 .. 30

Block == Beat \X Beat          \* << bits 127..0, bits 255..128 >>
ZeroBlock == << ZeroBeat, ZeroBeat >>

VARIABLES
  \* registers
  app_af_wren, app_af_cmd,                \* command to MIG's address FIFO
  addr_change_wr, addr_change_rd,         \* the command has been issued
  app_wdf_wren, app_wdf_data,             \* beat to MIG's write FIFO
  new_data_wr, data_rdy,                  \* first, second beat issued
  counter_wait, data_sent,                \* wait, then the write is answered
  mig_data_out, new_data_rd, read_data_end,  \* beats read
  data_rd, mc_rd_valid,                   \* the answer to a read
  \* inputs
  data_wren, data_rden, data_wr,          \* from the arbiter
  rd_data_valid, rd_data_fifo_out,        \* from MIG
  app_af_afull, app_wdf_afull

afRegs == << app_af_wren, app_af_cmd, addr_change_wr, addr_change_rd >>
wdfRegs == << app_wdf_wren, app_wdf_data, new_data_wr, data_rdy,
              counter_wait, data_sent >>
rdRegs == << mig_data_out, new_data_rd, read_data_end, data_rd, mc_rd_valid >>
regs == << afRegs, wdfRegs, rdRegs >>

----------------------------------------------------------------------------
(* Wires *)

mig_data_wr == ~app_wdf_afull /\ ~app_af_afull
mig_data_rd == ~app_af_afull
mc_wr_rdy == mig_data_wr /\ data_sent

(* Seeded faults: a command is kept back by the beats instead of           *)
(* addr_change_wr; the next read is only prepared after data_rden has gone. *)
IssueWriteByBeats == mig_data_wr /\ data_wren /\ ~new_data_wr /\ ~data_rden
RearmReadLate == mc_rd_valid /\ ~data_rden

(* Conditions of the if / else-if chains *)
IssueWrite == mig_data_wr /\ data_wren /\ ~addr_change_wr /\ ~data_rden
HoldWrite == mig_data_wr /\ data_wren /\ addr_change_wr /\ app_af_wren
ReadTurn == ~IssueWrite /\ ~HoldWrite /\ ~mc_wr_rdy
IssueRead == mig_data_rd /\ data_rden /\ ~addr_change_rd /\ ~data_wren
HoldRead == mig_data_rd /\ data_rden /\ addr_change_rd /\ app_af_wren
RearmRead == ReadTurn /\ ~IssueRead /\ ~HoldRead /\ mc_rd_valid

FirstBeat == IssueWrite /\ ~new_data_wr /\ ~app_wdf_wren
SecondBeat == mig_data_wr /\ data_wren /\ new_data_wr /\ app_wdf_wren /\ ~data_rdy
EndBeats == data_rdy /\ app_wdf_wren
WaitOver == counter_wait = WriteCycleDelay

----------------------------------------------------------------------------
(* Clock edge: one operator per always block *)

Command ==
  app_af_cmd' = CASE mig_data_wr /\ data_wren -> "write"
                  [] ~(mig_data_wr /\ data_wren) /\ mig_data_rd /\ data_rden -> "read"
                  [] OTHER -> app_af_cmd

(* A command is issued once per access: addr_change_* stays up until the   *)
(* access is answered.                                                     *)
Issue ==
  /\ app_af_wren' = (IssueWrite \/ (ReadTurn /\ IssueRead))
  /\ addr_change_wr' = (IssueWrite \/ (addr_change_wr /\ (HoldWrite \/ ~mc_wr_rdy)))
  /\ addr_change_rd' = ((ReadTurn /\ IssueRead) \/ (addr_change_rd /\ ~RearmRead))

WriteBeats ==
  \/ /\ FirstBeat
     /\ app_wdf_data' = data_wr[1]
     /\ app_wdf_wren' = TRUE
     /\ new_data_wr' = TRUE
     /\ UNCHANGED data_rdy
  \/ /\ SecondBeat
     /\ app_wdf_data' = data_wr[2]
     /\ app_wdf_wren' = TRUE
     /\ data_rdy' = TRUE
     /\ UNCHANGED new_data_wr
  \/ /\ ~FirstBeat /\ ~SecondBeat /\ (EndBeats \/ ~WaitOver)
     /\ app_wdf_wren' = FALSE
     /\ UNCHANGED << app_wdf_data, new_data_wr, data_rdy >>
  \/ /\ ~FirstBeat /\ ~SecondBeat /\ ~EndBeats /\ WaitOver
     /\ data_rdy' = FALSE
     /\ new_data_wr' = FALSE
     /\ UNCHANGED << app_wdf_wren, app_wdf_data >>

(* Seeded fault: the wait counter is not restarted. *)
WriteAnswerNoRestart ==
  /\ counter_wait' = IF data_rdy THEN counter_wait + 1 ELSE counter_wait
  /\ data_sent' = WaitOver

WriteAnswer ==
  /\ counter_wait' = IF data_rdy THEN (counter_wait + 1) % 32 ELSE 0
  /\ data_sent' = WaitOver

ReadBeats ==
  LET beat == rd_data_valid /\ mig_data_rd
  IN  /\ mig_data_out' = IF ~beat THEN mig_data_out
                         ELSE IF new_data_rd
                              THEN << mig_data_out[1], rd_data_fifo_out >>
                              ELSE << rd_data_fifo_out, mig_data_out[2] >>
      /\ new_data_rd' = (new_data_rd # beat)
      /\ read_data_end' = (beat /\ new_data_rd)

(* Seeded faults: a read is answered after its first beat; the answer is   *)
(* held until the request has gone.                                        *)
ReadAnswerFirstBeat ==
  /\ mc_rd_valid' = (new_data_rd /\ rd_data_valid)
  /\ data_rd' = IF new_data_rd /\ data_rden THEN mig_data_out ELSE data_rd

ReadAnswerHeld ==
  /\ mc_rd_valid' = (read_data_end \/ (mc_rd_valid /\ data_rden))
  /\ data_rd' = IF read_data_end /\ data_rden THEN mig_data_out ELSE data_rd

ReadAnswer ==
  /\ mc_rd_valid' = read_data_end
  /\ data_rd' = IF read_data_end /\ data_rden THEN mig_data_out ELSE data_rd

Step ==
  Command /\ Issue /\ WriteBeats /\ WriteAnswer /\ ReadBeats /\ ReadAnswer

Init ==
  /\ app_af_cmd = "write"
  /\ app_af_wren = FALSE /\ addr_change_wr = FALSE /\ addr_change_rd = FALSE
  /\ app_wdf_data = ZeroBeat
  /\ app_wdf_wren = FALSE /\ new_data_wr = FALSE /\ data_rdy = FALSE
  /\ counter_wait = 0 /\ data_sent = FALSE
  /\ mig_data_out = ZeroBlock     \* not reset, and written before it is read
  /\ new_data_rd = FALSE /\ read_data_end = FALSE
  /\ data_rd = ZeroBlock /\ mc_rd_valid = FALSE

Reset ==
  /\ app_af_cmd' = "write"
  /\ app_af_wren' = FALSE /\ addr_change_wr' = FALSE /\ addr_change_rd' = FALSE
  /\ app_wdf_data' = ZeroBeat
  /\ app_wdf_wren' = FALSE /\ new_data_wr' = FALSE /\ data_rdy' = FALSE
  /\ counter_wait' = 0 /\ data_sent' = FALSE
  /\ new_data_rd' = FALSE /\ read_data_end' = FALSE
  /\ data_rd' = ZeroBlock /\ mc_rd_valid' = FALSE
  /\ UNCHANGED mig_data_out

(* Every register has the width the Verilog gives it. *)
TypeOK ==
  /\ app_af_cmd \in {"write", "read"}
  /\ {app_af_wren, addr_change_wr, addr_change_rd, app_wdf_wren, new_data_wr,
      data_rdy, data_sent, new_data_rd, read_data_end, mc_rd_valid} \subseteq BOOLEAN
  /\ app_wdf_data \in Beat
  /\ counter_wait \in 0 .. 31
  /\ mig_data_out \in Block
  /\ data_rd \in Block

============================================================================
