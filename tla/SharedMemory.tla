---------------------------- MODULE SharedMemory ----------------------------
(***************************************************************************)
(* What the memory system promises its clients: one memory, shared by N    *)
(* clients, whose accesses take effect one at a time, each at one moment   *)
(* between the cycle its request appears and the cycle its answer does.    *)
(* Wires are those of the arbiter's client ports; store and done are the   *)
(* abstract state.                                                         *)
(***************************************************************************)
EXTENDS ArbiterBus

CONSTANTS DdrAddr, Block

VARIABLES
  store,     \* the memory
  done,      \* client k's current access has taken effect
  mem_valid_data, mem_rw_data,    \* requests, with the bus's address and block
  mem_ready_data, mem_data_rd,    \* answers
  in_reset   \* the last clock edge was one with the reset

svars == << store, done, mem_valid_data, mem_rw_data, mem_data_addr,
            mem_data_wr, mem_ready_data, mem_data_rd, in_reset >>

Place(k) == DdrAddrOf(mem_data_addr[k])

Init ==
  /\ store \in [DdrAddr -> Block]
  /\ done = [k \in Client |-> FALSE]
  /\ mem_ready_data = [k \in Client |-> FALSE]

(* A request stays as it is until its answer has been shown for a cycle. *)
RequestHeld(k) ==
  (mem_valid_data[k] /\ ~mem_ready_data[k]) =>
    /\ mem_valid_data'[k] /\ mem_rw_data'[k] = mem_rw_data[k]
    /\ mem_data_addr'[k] = mem_data_addr[k] /\ mem_data_wr'[k] = mem_data_wr[k]

(* Client k's access takes effect in this step. *)
TakesEffect(k) == ~done[k] /\ done'[k]

Perform(k) ==
  /\ mem_valid_data[k]
  /\ IF mem_rw_data[k]
     THEN store' = [store EXCEPT ![Place(k)] = mem_data_wr[k]]
     ELSE UNCHANGED store

(* An answer follows the effect; a read is answered with the block of its  *)
(* address, and what it was answered stays on the port while ready does.   *)
Answer(k) ==
  mem_ready_data'[k] =>
    /\ done'[k]
    /\ ~mem_rw_data[k] => mem_data_rd'[k] = store[Place(k)]

(* An access ends with its answer. *)
Retire(k) == done[k] /\ ~done'[k] => mem_ready_data[k] /\ ~mem_ready_data'[k]

Operate ==
  /\ \A i, j \in Client : TakesEffect(i) /\ TakesEffect(j) => i = j
  /\ \A k \in Client :
       /\ RequestHeld(k) /\ Answer(k) /\ Retire(k)
       /\ TakesEffect(k) => Perform(k)
  /\ (\E k \in Client : TakesEffect(k)) \/ UNCHANGED store

(* A reset drops every access, and may lose what is not yet in the DDR2. *)
Reset ==
  /\ store' \in [DdrAddr -> Block]
  /\ done' = [k \in Client |-> FALSE]
  /\ mem_valid_data' = [k \in Client |-> FALSE]
  /\ mem_ready_data' = [k \in Client |-> FALSE]

Next == IF in_reset' THEN Reset ELSE Operate

Spec == Init /\ [][Next]_svars

============================================================================
