--------------------------- MODULE CoherentMemory ---------------------------
(***************************************************************************)
(* What the D-cache promises the processor and the other readers of the    *)
(* DDR2: loads return the last store to their address (cur), the DDR2      *)
(* (durable) changes only by whole blocks being brought up to date, and    *)
(* once a FLUSH is answered the DDR2 holds every store made before it.     *)
(***************************************************************************)
CONSTANTS
  BlockAddr,   \* addresses of blocks
  Offset,      \* words of a block
  Word

VARIABLES
  cur,         \* the memory as the processor has left it
  durable,     \* the memory as the DVI block reads it
  cpu, cache_ready, cache_rd,    \* the processor's port
  in_reset     \* the last clock edge was one with the reset

cvars == << cur, durable, cpu, cache_ready, cache_rd, in_reset >>

Answered == cpu.valid /\ ~cpu.io /\ cache_ready
Place == << cpu.tag, cpu.index >>

Init == cur = durable

Load == Answered /\ ~cpu.flush /\ ~cpu.rw

Store == Answered /\ ~cpu.flush /\ cpu.rw

(* A load is answered with the last store to its address, a FLUSH when     *)
(* nothing is left to write back.                                          *)
AnswersRight ==
  /\ Load => cache_rd = cur[Place][cpu.offset]
  /\ Answered /\ cpu.flush => durable = cur

(* A block of the DDR2 is brought up to date. *)
WriteBack(b) == durable' = [durable EXCEPT ![b] = cur[b]]

Operate ==
  /\ AnswersRight
  /\ IF Store THEN cur' = [cur EXCEPT ![Place][cpu.offset] = cpu.wr]
              ELSE UNCHANGED cur
  /\ UNCHANGED durable \/ \E b \in BlockAddr : WriteBack(b)

(* A reset forgets what has not been written back, and drops the request.  *)
Reset ==
  /\ AnswersRight
  /\ cur' = durable /\ UNCHANGED durable
  /\ ~cpu'.valid /\ ~cache_ready'

Next == IF in_reset' THEN Reset ELSE Operate

Spec == Init /\ [][Next]_cvars

============================================================================
