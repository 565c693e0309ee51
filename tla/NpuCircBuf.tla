----------------------------- MODULE NpuCircBuf -----------------------------
(***************************************************************************)
(* The circular buffers of the NPU (npu_circ_buf_large.v and               *)
(* npu_circ_buf_small.v), which hold the schedule, the weights and the     *)
(* offsets.  A word read is written back at the tail one clock later, so   *)
(* that the buffer turns round; while the NPU is configured words are      *)
(* written from the configuration FIFO instead.                            *)
(***************************************************************************)
EXTENDS Integers, Sequences, StdFifo

EmptyCircBuf == [fifo |-> EmptyFifo, read_en_delayed |-> FALSE]

(* One clock edge.  The read enable and the write enable select what is    *)
(* written: the input, or the word read at the edge before.                *)
CircClocked(b, rst, rd, wr, din, depth) ==
  [fifo |-> IF rst THEN EmptyFifo
            ELSE Clocked(b.fifo, rd, wr \/ b.read_en_delayed,
                         IF wr THEN din ELSE b.fifo.dout, depth),
   read_en_delayed |-> rd]

(* What the buffer holds, in the order in which it will be read: a word    *)
(* read at the last edge is still to be written back.                      *)
Contents(b) ==
  IF b.read_en_delayed THEN Append(b.fifo.q, b.fifo.dout) ELSE b.fifo.q

(* The buffer holds the words of s, turned round by n places. *)
Turned(b, s, n) ==
  Contents(b) = [i \in 1..Len(s) |-> s[1 + ((i - 1 + n) % Len(s))]]
=============================================================================
