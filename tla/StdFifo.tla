------------------------------ MODULE StdFifo ------------------------------
(***************************************************************************)
(* The synchronous FIFOs of the design are cores of the Xilinx FIFO        *)
(* Generator, all of them "standard" (not first-word fall-through): a read *)
(* moves the head to the output register at the clock edge, where it stays *)
(* until the next read; a read of an empty FIFO and a write of a full one  *)
(* do nothing.  The cores are not source code of the repository; this is   *)
(* how its code uses them.                                                 *)
(***************************************************************************)
LOCAL INSTANCE Naturals
LOCAL INSTANCE Sequences

EmptyFifo == [q |-> << >>, dout |-> 0]

IsEmpty(f) == f.q = << >>
IsFull(f, depth) == Len(f.q) = depth

(* One clock edge with read enable rd and write enable wr of the word din. *)
(* Whether there is room is decided by the state before the edge.          *)
Clocked(f, rd, wr, din, depth) ==
  LET reads  == rd /\ ~IsEmpty(f)
      writes == wr /\ ~IsFull(f, depth)
      kept   == IF reads THEN Tail(f.q) ELSE f.q
  IN  [q    |-> IF writes THEN Append(kept, din) ELSE kept,
       dout |-> IF reads THEN Head(f.q) ELSE f.dout]
=============================================================================
