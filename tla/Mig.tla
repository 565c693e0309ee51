-------------------------------- MODULE Mig --------------------------------
(***************************************************************************)
(* The DDR2 behind the shim, as data_rd_wr.v uses it: an address FIFO of   *)
(* commands, a FIFO of write beats and a FIFO of read beats around an      *)
(* array of blocks.  The Xilinx core (user_design/) is external; it keeps  *)
(* commands in order, takes any time over each but never has more than Lag *)
(* waiting, and raises an almost-full flag when a FIFO holds AFull entries *)
(***************************************************************************)
EXTENDS Integers, Sequences

CONSTANTS
  DdrAddr,   \* block addresses on app_af_addr
  Beat,      \* the values of a beat
  ZeroBeat,
  AFull,     \* entries at which the FIFOs report almost full
  Lag        \* commands MIG may have waiting

VARIABLES
  ddr,       \* the memory array
  af,        \* commands not yet executed
  wdf,       \* write beats not yet executed
  rdf,       \* read beats not yet delivered
  phy_init_done,   \* the DDR2 has been calibrated
  rd_data_valid, rd_data_fifo_out,                            \* to the shim
  app_af_wren, app_af_cmd, app_af_addr, app_wdf_wren, app_wdf_data  \* inputs

queues == << af, wdf, rdf >>

app_af_afull == Len(af) >= AFull
app_wdf_afull == Len(wdf) >= AFull

(* What the FIFOs hold once this cycle's pushes are in. *)
afPushed ==
  IF app_af_wren THEN Append(af, [cmd |-> app_af_cmd, addr |-> app_af_addr])
                 ELSE af
wdfPushed == IF app_wdf_wren THEN Append(wdf, app_wdf_data) ELSE wdf

Wait ==
  /\ Len(afPushed) <= Lag
  /\ af' = afPushed /\ wdf' = wdfPushed
  /\ UNCHANGED << ddr, rdf, phy_init_done >>

(* A write command takes the two oldest write beats. *)
Write ==
  /\ af # << >> /\ Head(af).cmd = "write" /\ Len(wdf) >= 2
  /\ ddr' = [ddr EXCEPT ![Head(af).addr] = << wdf[1], wdf[2] >>]
  /\ af' = Tail(afPushed)
  /\ wdf' = SubSeq(wdfPushed, 3, Len(wdfPushed))
  /\ UNCHANGED << rdf, phy_init_done >>

Read ==
  /\ af # << >> /\ Head(af).cmd = "read"
  /\ rdf = << >>
  /\ rdf' = ddr[Head(af).addr]
  /\ af' = Tail(afPushed) /\ wdf' = wdfPushed
  /\ UNCHANGED << ddr, phy_init_done >>

Execute == Write \/ Read

Deliver ==
  /\ rdf # << >> /\ Len(afPushed) <= Lag
  /\ rd_data_valid' = TRUE /\ rd_data_fifo_out' = Head(rdf)
  /\ rdf' = Tail(rdf)
  /\ af' = afPushed /\ wdf' = wdfPushed
  /\ UNCHANGED << ddr, phy_init_done >>

NoDelivery == rd_data_valid' = FALSE /\ UNCHANGED rd_data_fifo_out

(* Until the calibration is over nothing is asked of MIG. *)
Calibrate ==
  /\ ~phy_init_done /\ phy_init_done' = TRUE
  /\ UNCHANGED << ddr, queues >>

Busy == (Execute \/ Calibrate) /\ NoDelivery
Idle == Wait /\ NoDelivery

Step == Busy \/ Deliver \/ Idle

Init ==
  /\ ddr \in [DdrAddr -> {<< ZeroBeat, ZeroBeat >>}]
  /\ af = << >> /\ wdf = << >> /\ rdf = << >>
  /\ rd_data_valid = FALSE /\ rd_data_fifo_out = ZeroBeat
  /\ phy_init_done = FALSE

(* The reset empties the FIFOs and starts the calibration again; the array *)
(* keeps what has been executed.                                           *)
Reset ==
  /\ phy_init_done' = FALSE
  /\ af' = << >> /\ wdf' = << >> /\ rdf' = << >>
  /\ rd_data_valid' = FALSE /\ UNCHANGED << rd_data_fifo_out, ddr >>

============================================================================
