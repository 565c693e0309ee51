------------------------------ MODULE NpuHost -------------------------------
(***************************************************************************)
(* The NPU with the program that drives it.  The processor issues at most  *)
(* one NPU instruction a clock: ENQC writes a configuration word, ENQD an  *)
(* input, DEQD reads an output, and each waits while its FIFO is full or   *)
(* empty (ExecutionStage.v).  The programs of the repository configure the *)
(* NPU by one straight run of ENQC instructions which starts with the      *)
(* reset word (configuration_sobel.coe, configuration_inversek2j.coe),     *)
(* then load the inputs of an evaluation into registers and enqueue them   *)
(* back to back (Sobeltadumdumdum.txt).                                    *)
(***************************************************************************)
EXTENDS Npu, SequencesExt

CONSTANTS
  Networks,         \* the networks used: configuration words, counts, layers;
                    \* how many vectors each is fed (a bound); and whether
                    \* the inputs of a vector come back to back
  Value             \* the inputs programs use

NeuronLayer == [weights : Seq(Seq(Int)), offsets : Seq(Int), function : 0..1]
Network ==
  [inputs : Nat \ {0}, outputs : Nat \ {0}, sets : Nat, bursts : BOOLEAN,
   inFormat : 0..23, outFormat : 0..23, layers : Seq(NeuronLayer),
   words : Seq(0 .. 2^26 - 1) \ {<< >>}]

ASSUME HostAssumption == Value \subseteq Nat /\ Networks \in Seq(Network)

VARIABLES
  network,          \* which network is loaded or being loaded, 0 at first
  loaded,           \* how many of its words the processor has written
  asked, got        \* history: inputs written, outputs read

hostvars == << network, loaded, asked, got >>
allvars == << npuvars, hostvars >>

Net == Networks[network]
Loading == network # 0 /\ loaded < Len(Net.words)
Ready == network # 0 /\ ~Loading
MidVector == Ready /\ Len(asked) % Net.inputs # 0
MustEnqueue == MidVector /\ Net.bursts
Complete == Ready /\ ~MidVector /\ Len(asked) = Net.sets * Net.inputs
AllTaken == Complete /\ Len(got) = Net.sets * Net.outputs

(* The network's own arithmetic, layer by layer: the reference. *)
Dot(row, xs) == FoldLeft(LAMBDA a, i : a + row[i] * xs[i], 0, [i \in DOMAIN row |-> i])
Layer(l, xs) ==
  [i \in DOMAIN l.weights |->
     Activation(l.function, Dot(l.weights[i], xs) + l.offsets[i] * 2^7)]
NetworkOutputs(j, xs) ==
  LET scaled == [i \in DOMAIN xs |-> Signed(ToFixed(xs[i], Networks[j].inFormat))]
      ys     == FoldLeft(LAMBDA v, l : Layer(l, v), scaled, Networks[j].layers)
  IN  [i \in DOMAIN ys |-> FromFixed(ys[i] % Word, Networks[j].outFormat)]

Promise == INSTANCE NpuPromise WITH
             Jobs <- DOMAIN Networks, Input <- Value,
             InputCount <- LAMBDA j : Networks[j].inputs,
             OutputCount <- LAMBDA j : Networks[j].outputs,
             Outputs <- NetworkOutputs

----------------------------------------------------------------------------
Init ==
  /\ NpuInit
  /\ network = 0 /\ loaded = 0 /\ asked = << >> /\ got = << >>

(* ENQC: the words of a configuration follow one another without a gap.    *)
(* The next network is loaded when every output has been taken.            *)
Configure ==
  LET next == network # Len(Networks) /\ (network = 0 \/ AllTaken)
      j    == IF next THEN network + 1 ELSE network
      k    == IF next THEN 1 ELSE loaded + 1
  IN  /\ Loading \/ next
      /\ ~IsFull(config_fifo, ConfigDepth)
      /\ NpuClock(TRUE, Networks[j].words[k], FALSE, 0, FALSE)
      /\ network' = j /\ loaded' = k
      /\ IF next THEN asked' = << >> /\ got' = << >> ELSE UNCHANGED << asked, got >>

(* ENQD. *)
Enqueue ==
  /\ Ready /\ ~Complete
  /\ ~IsFull(input_fifo, IoDepth)
  /\ \E x \in Value : NpuClock(FALSE, 0, TRUE, x, FALSE) /\ asked' = Append(asked, x)
  /\ UNCHANGED << network, loaded, got >>

(* DEQD. The word goes through the output conversion. *)
Dequeue ==
  /\ Ready /\ ~MustEnqueue
  /\ Len(got) < Net.sets * Net.outputs
  /\ ~IsEmpty(output_fifo)
  /\ NpuClock(FALSE, 0, FALSE, 0, TRUE)
  /\ got' = Append(got, FromFixed(Head(output_fifo.q), npu_output_convert_format))
  /\ UNCHANGED << network, loaded, asked >>

(* No NPU instruction: other work, or an instruction waits. *)
Other ==
  /\ Loading => IsFull(config_fifo, ConfigDepth)
  /\ MustEnqueue => IsFull(input_fifo, IoDepth)
  /\ NpuClock(FALSE, 0, FALSE, 0, FALSE)
  /\ UNCHANGED hostvars

Next == Configure \/ Enqueue \/ Dequeue \/ Other

(* The clock runs, and the program reads an output that is there. *)
Fairness == WF_allvars(Next) /\ WF_allvars(Dequeue)

Spec == Init /\ [][Next]_allvars /\ Fairness

----------------------------------------------------------------------------
(* Types: every register holds what its width allows, and no FIFO holds    *)
(* more words than it has room for.                                        *)
TypeOK ==
  /\ SMTypeOK
  /\ \A f \in {<< config_fifo, ConfigDepth >>, << input_fifo, IoDepth >>,
                << output_fifo, IoDepth >>, << accum_fifo, AccumDepth >>,
                << sigmoid_fifo, SigmoidDepth >>, << sched_buf.fifo, CircDepth >>,
                << offset_bram.fifo, CircDepth >>} : Len(f[1].q) <= f[2]
  /\ \A f \in {input_fifo, output_fifo, sigmoid_fifo, sched_buf.fifo, offset_bram.fifo}
                \cup {wbuf[p].fifo : p \in Engine} :
       \A i \in DOMAIN f.q : f.q[i] \in 0 .. Word - 1
  /\ npu_pe_input_stored \in [Engine -> 0 .. Word - 1]
  /\ formats \in [1..2 -> Count]

(* The four state registers are one state between them, and the NPU is     *)
(* only idle or configured between evaluations, when nothing of a vector   *)
(* is counted and no cause of a stall is left (npu_state_machine.v, where  *)
(* the end of an evaluation and the last input or output can fall on one   *)
(* clock edge, and the later of two assignments to a register stands).     *)
AtRest ==
  /\ \E i \in 1..4 : states = [k \in 1..4 |-> k = i]
  /\ npu_state_idle \/ npu_state_config =>
       progress = << 0, 0, FALSE >> /\ stalls = << FALSE, FALSE >>

(* No buffer is read empty or written full ("The violations of full and    *)
(* empty should never occur for these buffers", npu_circ_buf_large.v):     *)
(* neither by the state machine, which looks at the flags, nor by the      *)
(* schedule, which does not.                                               *)
BuffersRespected ==
  /\ npu_sched_input_fifo_read_en => ~IsEmpty(input_fifo)
  /\ npu_sched_output_fifo_write_en => ~IsFull(output_fifo, IoDepth)
  /\ npu_sched_sigmoid_fifo_read_en => ~IsEmpty(sigmoid_fifo)
  /\ npu_sched_sigmoid_fifo_write_en => ~IsFull(sigmoid_fifo, SigmoidDepth)
  /\ npu_sched_acc_fifo_write_en => ~IsFull(accum_fifo, AccumDepth)
  /\ npu_running => ~IsEmpty(sched_buf.fifo) /\ \A p \in Engine : ~IsEmpty(wbuf[p].fifo)
  /\ npu_offset_bram_read_en => ~IsEmpty(offset_bram.fifo)

(* A circular buffer is never written from the configuration FIFO while it *)
(* is being read or while a word read is on its way back ("Cannot be high  *)
(* when write enable is also high", npu_circ_buf_large.v).                 *)
PortsExclusive ==
  \A b \in {<< sched_buf, npu_running, 13 >>, << offset_bram, npu_offset_bram_read_en, 14 >>}
           \cup {<< wbuf[p], npu_running, p >> : p \in Engine} :
    npu_config_fifo_sel = b[3] => ~b[2] /\ ~b[1].read_en_delayed

(* Once a network is loaded the schedule and every engine's weights stay   *)
(* in step, whatever stalls come between: they hold the words configured,  *)
(* each once, turned by the same number of places; and between evaluations *)
(* the schedule stands at its first word and the offsets at their first.   *)
Segment(sel) ==
  LET in == SelectSeq(Net.words, LAMBDA w : w \div 2^22 = sel)
  IN  [i \in DOMAIN in |-> in[i] % Word]
Configured == Ready /\ IsEmpty(config_fifo) /\ ~npu_state_config

LockStep ==
  Configured =>
    \E n \in 0 .. Len(Segment(13)) - 1, k \in 0 .. Len(Segment(14)) - 1 :
      /\ Turned(sched_buf, Segment(13), n) /\ Turned(offset_bram, Segment(14), k)
      /\ \A p \in Engine : Turned(wbuf[p], Segment(p), n)
      /\ npu_state_idle =>
           k = 0 /\ << n, sched_buf.fifo.dout >> \in {<< 0, 0 >>, << 1, Segment(13)[1] >>}

(* The NPU answers every complete vector with the network's own outputs,   *)
(* in order, each once, and takes a new network only when all answers have *)
(* been read (the FIFOs, the stalls, the schedule and the sigmoid register *)
(* together).                                                              *)
PromiseKept == Promise!Spec

(* A program that has enqueued all its vectors reads all its outputs. *)
AllAnswered == Complete ~> AllTaken
=============================================================================
