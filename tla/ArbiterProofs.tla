--------------------------- MODULE ArbiterProofs ---------------------------
(***************************************************************************)
(* The arbiter's invariants for every number of clients, every set of      *)
(* addresses and blocks and every behaviour of its inputs.                 *)
(***************************************************************************)
EXTENDS Arbiter, TLAPS

(* OneActive and BusOwner are inductive only together: the next grant must *)
(* not find another access in progress, which Eligible reads off           *)
(* enable_active, and what is on the bus then has to be that access's.     *)
IInv == TypeOK /\ OneActive /\ BusOwner

(* A client is served only while every other client's access is over. *)
LEMMA OthersIdle ==
  ASSUME NEW k \in Client, Serving(k)
  PROVE  \A j \in Client : j # k => ~enable_active[j]
BY DEF Serving, Selected, Eligible

(* Init establishes the invariant. *)
LEMMA InitIInv == Init => IInv
<1> SUFFICES ASSUME Init PROVE IInv
  OBVIOUS
<1> USE ArbiterAssumption DEF ArbiterAssumption
<1>1. TypeOK
  <2>1. sel \in 0 .. N
    BY DEF Init, ResetState
  <2>2. FlagsOK /\ PortsOK
    BY DEF Init, ResetState, FlagsOK, PortsOK
  <2> QED BY <2>1, <2>2 DEF TypeOK, Init
<1>2. OneActive
  BY DEF Init, ResetState, OneActive
<1>3. BusOwner
  BY DEF Init, ResetState, BusOwner, Client
<1> QED BY <1>1, <1>2, <1>3 DEF IInv

(* New inputs are well typed. *)
LEMMA InputsTyped == NewInputs => InputsOK'
BY DEF NewInputs, InputsOK

(* A reset re-establishes the invariant. *)
LEMMA ResetIInv ==
  ASSUME Reset, NewInputs PROVE IInv'
<1> USE ArbiterAssumption DEF ArbiterAssumption
<1>1. TypeOK'
  <2>1. sel' \in 0 .. N
    BY DEF Reset
  <2>2. FlagsOK' /\ PortsOK'
    BY DEF Reset, FlagsOK, PortsOK
  <2> QED BY <2>1, <2>2, InputsTyped DEF TypeOK
<1>2. OneActive'
  BY DEF Reset, OneActive
<1>3. BusOwner'
  BY DEF Reset, BusOwner, Client
<1> QED BY <1>1, <1>2, <1>3 DEF IInv

(* Serving a client preserves the invariant: one step per branch of the    *)
(* client's block.                                                         *)
LEMMA ServeIInv ==
  ASSUME IInv, Accept, NewInputs, NEW k \in Client, Serve(k)
  PROVE  IInv'
<1> USE ArbiterAssumption DEF ArbiterAssumption
<1>1. InputsOK' /\ mc_wr_rdy_accept' \in BOOLEAN
  BY InputsTyped DEF IInv, TypeOK, FlagsOK, InputsOK, Accept
<1>2. CASE WriteDone(k)
  <2> USE <1>2 DEF WriteDone, Answer
  <2>1. TypeOK'
    <3>1. sel' \in 0 .. N
      BY DEF IInv, TypeOK, Client
    <3>2. FlagsOK' /\ PortsOK'
      BY <1>1 DEF IInv, TypeOK, FlagsOK, PortsOK, InputsOK
    <3> QED BY <1>1, <3>1, <3>2 DEF TypeOK
  <2>2. OneActive'
    BY DEF IInv, OneActive
  <2>3. BusOwner'
    BY OthersIdle DEF IInv, BusOwner, TypeOK, PortsOK, Client
  <2> QED BY <2>1, <2>2, <2>3 DEF IInv
<1>3. CASE WriteRelease(k)
  <2> USE <1>3 DEF WriteRelease, Release
  <2>1. TypeOK'
    <3>1. sel' \in 0 .. N
      BY DEF IInv, TypeOK, Client
    <3>2. FlagsOK' /\ PortsOK'
      BY <1>1 DEF IInv, TypeOK, FlagsOK, PortsOK, InputsOK
    <3> QED BY <1>1, <3>1, <3>2 DEF TypeOK
  <2>2. OneActive'
    BY DEF IInv, OneActive, TypeOK, PortsOK
  <2>3. BusOwner'
    BY DEF IInv, BusOwner, TypeOK, PortsOK
  <2> QED BY <2>1, <2>2, <2>3 DEF IInv
<1>4. CASE ReadDone(k)
  <2> USE <1>4 DEF ReadDone, Answer
  <2>1. TypeOK'
    <3>1. sel' \in 0 .. N
      BY DEF IInv, TypeOK, Client
    <3>2. FlagsOK' /\ PortsOK'
      BY <1>1 DEF IInv, TypeOK, FlagsOK, PortsOK, InputsOK
    <3> QED BY <1>1, <3>1, <3>2 DEF TypeOK
  <2>2. OneActive'
    BY DEF IInv, OneActive
  <2>3. BusOwner'
    BY OthersIdle DEF IInv, BusOwner, TypeOK, PortsOK, Client
  <2> QED BY <2>1, <2>2, <2>3 DEF IInv
<1>5. CASE ReadRelease(k)
  <2> USE <1>5 DEF ReadRelease, Release
  <2>1. TypeOK'
    <3>1. sel' \in 0 .. N
      BY DEF IInv, TypeOK, Client
    <3>2. FlagsOK' /\ PortsOK'
      BY <1>1 DEF IInv, TypeOK, FlagsOK, PortsOK, InputsOK
    <3> QED BY <1>1, <3>1, <3>2 DEF TypeOK
  <2>2. OneActive'
    BY DEF IInv, OneActive, TypeOK, PortsOK
  <2>3. BusOwner'
    BY DEF IInv, BusOwner, TypeOK, PortsOK
  <2> QED BY <2>1, <2>2, <2>3 DEF IInv
<1>6. CASE Grant(k)
  <2> USE <1>6 DEF Grant
  <2>1. TypeOK'
    <3>1. sel' \in 0 .. N
      BY DEF IInv, TypeOK, Client
    <3>2. FlagsOK' /\ PortsOK'
      BY <1>1 DEF IInv, TypeOK, FlagsOK, PortsOK, InputsOK
    <3> QED BY <1>1, <3>1, <3>2 DEF TypeOK
  <2>2. OneActive'
    BY OthersIdle DEF IInv, OneActive, TypeOK, PortsOK
  <2>3. BusOwner'
    BY OthersIdle DEF IInv, BusOwner, TypeOK, PortsOK
  <2> QED BY <2>1, <2>2, <2>3 DEF IInv
<1> QED BY <1>2, <1>3, <1>4, <1>5, <1>6 DEF Serve

(* Every step preserves the invariant. *)
LEMMA NextIInv == IInv /\ [Next]_vars => IInv'
<1> SUFFICES ASSUME IInv, [Next]_vars PROVE IInv'
  OBVIOUS
<1>1. CASE Reset /\ NewInputs
  BY <1>1, ResetIInv
<1>2. CASE Step /\ NewInputs
  <2>1. CASE Quiet /\ Accept
    <3>1. TypeOK'
      BY <1>2, <2>1, InputsTyped
         DEF Quiet, Accept, IInv, TypeOK, FlagsOK, PortsOK, InputsOK
    <3>2. OneActive' /\ BusOwner'
      BY <2>1 DEF Quiet, IInv, OneActive, BusOwner
    <3> QED BY <3>1, <3>2 DEF IInv
  <2>2. CASE \E k \in Client : Serve(k) /\ Accept
    BY <1>2, <2>2, ServeIInv
  <2> QED BY <1>2, <2>1, <2>2 DEF Step
<1>3. CASE UNCHANGED vars
  BY <1>3 DEF vars, regs, clientWires, controllerWires, IInv, TypeOK, FlagsOK, PortsOK,
             InputsOK, OneActive, BusOwner
<1> QED BY <1>1, <1>2, <1>3 DEF Next

(* The conjunction is an invariant of the arbiter. *)
THEOREM Invariance == Spec => []IInv
BY InitIInv, NextIInv, PTL DEF Spec

(* Type correctness: every register stays within its width. *)
THEOREM TypeCorrect == Spec => []TypeOK
<1>1. IInv => TypeOK
  BY DEF IInv
<1> QED BY <1>1, Invariance, PTL

(* Mutual exclusion: at most one client's access is in progress, for every *)
(* number of clients and whatever they and the controller do.              *)
THEOREM MutualExclusion == Spec => []OneActive
<1>1. IInv => OneActive
  BY DEF IInv
<1> QED BY <1>1, Invariance, PTL

(* The bus carries exactly the access in progress and not yet answered. *)
THEOREM BusOwnership == Spec => []BusOwner
<1>1. IInv => BusOwner
  BY DEF IInv
<1> QED BY <1>1, Invariance, PTL

(* Serving one client ends no access of another, and its own only after    *)
(* the ready pulse.                                                        *)
LEMMA ServeEnds ==
  ASSUME TypeOK, NEW j \in Client, Serve(j), NEW k \in Client,
         enable_active[k], ~enable_active'[k]
  PROVE  mem_ready_data[k]
<1>1. CASE WriteRelease(j) \/ ReadRelease(j)
  <2>1. /\ mem_ready_data[j]
        /\ enable_active' = [enable_active EXCEPT ![j] = FALSE]
    BY <1>1 DEF WriteRelease, ReadRelease, Release
  <2>2. j = k
    BY <2>1 DEF TypeOK, PortsOK
  <2> QED BY <2>1, <2>2
<1>2. CASE Grant(j)
  BY <1>2 DEF Grant, TypeOK, PortsOK
<1>3. CASE WriteDone(j) \/ ReadDone(j)
  BY <1>3 DEF WriteDone, ReadDone
<1> QED BY <1>1, <1>2, <1>3 DEF Serve

(* An access is never preempted: unless the arbiter is reset, it ends only *)
(* in the cycle after its ready pulse.                                     *)
THEOREM NeverPreempted == Spec => NoPreemption
<1>1. ASSUME TypeOK, [Next]_vars, NEW k \in Client,
             enable_active[k], ~enable_active'[k]
      PROVE  mem_ready_data[k] \/ Reset
  <2>1. CASE Step
    BY <1>1, <2>1, ServeEnds DEF Step, Quiet
  <2>2. CASE UNCHANGED vars
    BY <1>1, <2>2 DEF vars, regs
  <2> QED BY <1>1, <2>1, <2>2 DEF Next
<1>2. TypeOK /\ [Next]_vars =>
        [\A k \in Client :
           enable_active[k] /\ ~enable_active'[k] => mem_ready_data[k] \/ Reset]_vars
  BY <1>1
<1> QED BY <1>2, TypeCorrect, PTL DEF Spec, NoPreemption

============================================================================
