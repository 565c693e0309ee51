------------------------------- MODULE MCNpu --------------------------------
(***************************************************************************)
(* Instances of NpuHost.  A network is given by its layers, which are the  *)
(* reference, and by the configuration words that make the NPU compute     *)
(* it: schedule, weights per engine and offsets, laid out by               *)
(* configuration_latest_with_acc_fixed.pl.                                 *)
(***************************************************************************)
EXTENDS NpuHost

(* A table as steep as the tanh at 0 and saturating as it does. *)
MCTansig == [a \in 0 .. 2^11 - 1 |-> IF a \div 4 > 128 THEN 128 ELSE a \div 4]

Words(sel, s) == [i \in DOMAIN s |-> sel * 2^22 + s[i]]
Config(ins, outs, fmtIn, fmtOut, w, sched, offs) ==
  Words(15, << 0 >>) \o Words(9, << fmtIn >>) \o Words(10, << fmtOut >>)
  \o Words(11, << ins >>) \o Words(12, << outs >>)
  \o FlattenSeq([p \in DOMAIN w |-> Words(p - 1, w[p])])
  \o Words(13, sched) \o Words(14, offs)

(* Assembler/cpu/test_cpu_configuration.coe: two inputs, two hidden        *)
(* neurons, two outputs, every function linear.                            *)
TwoTwo ==
  [inputs |-> 2, outputs |-> 2, sets |-> 1, bursts |-> FALSE, inFormat |-> 0, outFormat |-> 0,
   layers |-> << [weights |-> << << \H280, 0 >>, << 0, \H280 >> >>,
                  offsets |-> << \H100, \H100 >>, function |-> 1],
                 [weights |-> << << \H100, \H180 >>, << \H80, -\H80 >> >>,
                  offsets |-> << \H100, \H100 >>, function |-> 1],
                 [weights |-> << << \H100, 0 >>, << 0, \H100 >> >>,
                  offsets |-> << 0, 0 >>, function |-> 1] >>,
   words |-> Config(2, 2, 0, 0,
     << << 0, 0, \H280, \H280, 0, 0, 0, 0, \H100, \H80, 0, 0, 0, 0, 0, \H100, \H100, 0, 0, 0 >>,
        << 0, 0, 0, 0, 0, 0, 0, 0, 0, \H180, \HFF80, 0, 0, 0, 0, 0, 0, 0, 0, 0 >> >>,
     << \H4001, \H6081, \H6080, \H4000, \H4004, \H4004, \H4402, \H6482, \H6490, \H4400,
        \H4400, \H4404, \H4404, \H4002, \H6082, \H6080, \H4000, \H4008, \H4008, 0 >>,
     << \H100, \H100, \H100, \H100, 0, 0 >>)]

(* NPU/testbenches/configuration_single_2in_0h_1o.coe: two inputs, one     *)
(* output, a tanh layer between the two scaling layers.                    *)
TwoOne ==
  [inputs |-> 2, outputs |-> 1, sets |-> 3, bursts |-> FALSE, inFormat |-> 0, outFormat |-> 0,
   layers |-> << [weights |-> << << \H55, 0 >>, << 0, \H55 >> >>,
                  offsets |-> << -\H55, -\HAA >>, function |-> 1],
                 [weights |-> << << \H180, \H200 >> >>, offsets |-> << -\H80 >>, function |-> 0],
                 [weights |-> << << \H500 >> >>, offsets |-> << \H80 >>, function |-> 1] >>,
   words |-> Config(2, 1, 0, 0,
     << << 0, 0, \H55, \H55, 0, 0, 0, 0, \H180, 0, 0, 0, 0, 0, \H500, 0, 0, 0 >>,
        << 0, 0, 0, 0, 0, 0, 0, 0, 0, \H200, 0, 0, 0, 0, 0, 0, 0, 0 >> >>,
     << \H4001, \H6081, \H6080, \H4000, \H4004, \H4004, \H402, \H2482, \H490, \H400, \H400,
        4, \H4002, \H6080, \H4000, \H4000, \H4008, 0 >>,
     << \HFFAB, \HFF56, \HFF80, \H80 >>)]

(* Five inputs and two hidden neurons on two engines, so that the sums go  *)
(* through the accumulator FIFO twice. The schedule given selects the FIFO *)
(* as long as a sum is due from it.                                        *)
FiveOne(sched, bursts) ==
  [inputs |-> 5, outputs |-> 1, sets |-> 1, bursts |-> bursts, inFormat |-> 3, outFormat |-> 8,
   layers |-> << [weights |-> [i \in 1..5 |-> [j \in 1..5 |-> IF i = j THEN \H80 ELSE 0]],
                  offsets |-> << 0, 0, \H10, 0, 0 >>, function |-> 1],
                 [weights |-> << << \H80, \H100, \H40, \H20, \H10 >>,
                                 << \H40, \H80, \H80, \H10, \H20 >> >>,
                  offsets |-> << 0, \H10 >>, function |-> 1],
                 [weights |-> << << \H40, \H20 >> >>, offsets |-> << -\H20 >>, function |-> 0],
                 [weights |-> << << \H80 >> >>, offsets |-> << \H80 >>, function |-> 1] >>,
   words |-> Config(5, 1, 3, 8,
     << << 0, 0, \H80, \H80, \H80, \H80, \H80, 0, 0, 0, 0, \H80, \H40, 0, 0, \H40, \H80, 0, 0,
           \H10, \H20, 0, 0, 0, 0, \H40, 0, 0, 0, 0, 0, \H80, 0, 0, 0 >>,
        << 0, 0, 0, 0, 0, 0, 0, 0, 0, 0, 0, 0, \H100, \H80, 0, 0, \H20, \H10, 0, 0, 0, 0, 0,
           0, 0, 0, \H20, 0, 0, 0, 0, 0, 0, 0, 0 >> >>,
     sched, << 0, 0, \H10, 0, 0, 0, \H10, \HFFE0, \H80 >>)]

FullSched ==
  << 1, \H2081, \H2081, \H2081, \H6085, \H6084, \H4004, \H4004, \H4004, 2, \H2082, \H2090, 0,
     \H202, \H382, \H190, \H100, \H202, \H380, \H100, \H100, \H4004, \H4004, 2, \H2082, \H90,
     0, \H400, 4, 2, \H2080, 0, 0, \H4008, 0 >>

MCNetworks == << TwoTwo, TwoOne, FiveOne(FullSched, TRUE) >>

(* The five inputs of a vector enqueued with gaps between. *)
MCGapNetworks == << FiveOne(FullSched, FALSE) >>
=============================================================================
