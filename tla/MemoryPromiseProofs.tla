------------------------ MODULE MemoryPromiseProofs -------------------------
(***************************************************************************)
(* The memory path implements SharedMemory, for every number of clients,   *)
(* every wait, every depth of MIG's FIFOs and every use by the clients,    *)
(* with resets at any edge: each step of the specification is one step of  *)
(* the promise, or none.                                                   *)
(*                                                                         *)
(* The abstract memory is the DDR2 with the complete writes in MIG's       *)
(* FIFOs.  MIG's own steps move writes from the FIFOs into the array and   *)
(* leave it alone; the one push that changes it is that of a write's       *)
(* second beat.                                                            *)
(***************************************************************************)
EXTENDS MemoryProofs, WellFoundedInduction

-----------------------------------------------------------------------------
(* The store *)

(* A bounded set of numbers has a latest element. *)
LEMMA LatestExists ==
  ASSUME NEW n \in Nat, NEW W \in SUBSET (1 .. n), W # {}
  PROVE  \E i \in W : \A j \in W : j <= i
<1> DEFINE T == {n - i : i \in W}
<1>0. \A i \in W : i \in Nat /\ n - i \in Nat
  <2>1. \A i \in 1 .. n : i \in Nat /\ n - i \in Nat
    OBVIOUS
  <2> QED BY <2>1
<1>1. T \subseteq Nat /\ T # {}
  BY <1>0
<1>2. PICK x \in T : \A y \in T : ~(<< y, x >> \in OpToRel(<, Nat))
  BY <1>1, NatLessThanWellFounded, WFMin
<1>3. ASSUME NEW y \in T
      PROVE  x <= y
  <2>1. \A u, v \in Nat : << u, v >> \in OpToRel(<, Nat) <=> u < v
    BY DEF OpToRel
  <2>2. x \in Nat /\ y \in Nat
    BY <1>1
  <2>3. ~(y < x)
    BY <1>2, <2>1, <2>2
  <2> QED BY <2>2, <2>3
<1>4. PICK i \in W : x = n - i
  OBVIOUS
<1>5. ASSUME NEW j \in W
      PROVE  j <= i
  <2>1. x <= n - j
    BY <1>3
  <2>2. i \in 1 .. n /\ j \in 1 .. n
    OBVIOUS
  <2> QED BY <1>4, <2>1, <2>2
<1> QED BY <1>5

(* The latest of a set of positions is the one that no other follows. *)
LEMMA LatestIs ==
  ASSUME NEW W \in SUBSET Nat, NEW i \in W, \A j \in W : j <= i
  PROVE  Latest(W) = i
<1> DEFINE L == Latest(W)
<1>1. L \in W /\ \A j \in W : j <= L
  BY DEF Latest
<1>2. L <= i /\ i <= L /\ L \in Nat
  BY <1>1
<1> QED BY <1>2

(* The store at an address, by what is pending there. *)
LEMMA StoredAt ==
  ASSUME NEW mem, NEW cmds, NEW beats, NEW a \in DOMAIN mem
  PROVE  /\ Pending(cmds, beats, a) = {} => Stored(mem, cmds, beats)[a] = mem[a]
         /\ \A i \in Pending(cmds, beats, a) :
              /\ Pending(cmds, beats, a) \subseteq Nat
              /\ \A j \in Pending(cmds, beats, a) : j <= i
              => Stored(mem, cmds, beats)[a] = << beats[2 * i - 1], beats[2 * i] >>
<1> DEFINE W == Pending(cmds, beats, a)
<1>1. Stored(mem, cmds, beats)[a] =
        IF W = {} THEN mem[a]
                  ELSE << beats[2 * Latest(W) - 1], beats[2 * Latest(W)] >>
  BY DEF Stored
<1>2. ASSUME NEW i \in W, W \subseteq Nat, \A j \in W : j <= i
      PROVE  Stored(mem, cmds, beats)[a] = << beats[2 * i - 1], beats[2 * i] >>
  <2>1. Latest(W) = i
    <3> HIDE DEF W
    <3> QED BY <1>2, LatestIs
  <2> QED BY <1>1, <1>2, <2>1
<1> QED BY <1>1, <1>2

(* What is pending, by its place in the queue. *)
LEMMA PendingIs ==
  ASSUME NEW cmds \in Seq(Command), NEW beats, NEW a
  PROVE  /\ Pending(cmds, beats, a) \subseteq 1 .. Len(cmds)
         /\ Pending(cmds, beats, a) \subseteq Nat
         /\ \A i \in Nat :
              i \in Pending(cmds, beats, a) <=>
                /\ i >= 1 /\ i <= Len(cmds) /\ 2 * i <= Len(beats)
                /\ cmds[i].cmd = "write" /\ cmds[i].addr = a
<1>1. DOMAIN cmds = 1 .. Len(cmds) /\ Len(cmds) \in Nat
  BY LenProperties
<1> QED BY <1>1 DEF Pending

(* The pending writes of one pair of queues are those of another, without  *)
(* the d oldest commands and their beats.                                  *)
Shifted(d, cmds, beats, cmds2, beats2) ==
  \A a :
    /\ \A i \in Nat : i \in Pending(cmds2, beats2, a) <=>
                        i >= 1 /\ i + d \in Pending(cmds, beats, a)
    /\ \A i \in Pending(cmds2, beats2, a) :
         /\ beats2[2 * i - 1] = beats[2 * (i + d) - 1]
         /\ beats2[2 * i] = beats[2 * (i + d)]

(* The array is left alone, or takes the oldest command's block. *)
Executed(d, mem, mem2, cmds, beats) ==
  /\ DOMAIN mem2 = DOMAIN mem
  /\ d = 0 => mem2 = mem
  /\ d = 1 => /\ 1 \in Pending(cmds, beats, cmds[1].addr)
              /\ mem2 = [mem EXCEPT ![cmds[1].addr] = << beats[1], beats[2] >>]

(* Executing the oldest write, or none, moves it from the queues into the  *)
(* array and leaves the store as it is.                                    *)
LEMMA StoredShifts ==
  ASSUME NEW mem, NEW mem2, NEW cmds \in Seq(Command), NEW cmds2 \in Seq(Command),
         NEW beats, NEW beats2, NEW d \in {0, 1}, Shifted(d, cmds, beats, cmds2, beats2),
         Executed(d, mem, mem2, cmds, beats)
  PROVE  Stored(mem2, cmds2, beats2) = Stored(mem, cmds, beats)
<1> DEFINE x == cmds[1].addr
<1> USE DEF Executed
<1>0. d = 1 => \A a : 1 \in Pending(cmds, beats, a) <=> a = x
  BY DEF Pending
<1>1. ASSUME NEW a \in DOMAIN mem
      PROVE  Stored(mem2, cmds2, beats2)[a] = Stored(mem, cmds, beats)[a]
  <2> DEFINE W == Pending(cmds, beats, a)
             V == Pending(cmds2, beats2, a)
  <2> DEFINE n == Len(cmds)
  <2>0. /\ n \in Nat /\ W \subseteq 1 .. n /\ W \subseteq Nat /\ V \subseteq Nat
        /\ \A i \in Nat : i \in V <=> i >= 1 /\ i + d \in W
        /\ \A i \in V : /\ beats2[2 * i - 1] = beats[2 * (i + d) - 1]
                        /\ beats2[2 * i] = beats[2 * (i + d)]
        /\ d = 1 => (1 \in W <=> a = x)
    BY <1>0, <1>1, LenProperties, PendingIs DEF Shifted
  <2>1. /\ W = {} => Stored(mem, cmds, beats)[a] = mem[a]
        /\ \A i \in W : (W \subseteq Nat /\ \A j \in W : j <= i) =>
             Stored(mem, cmds, beats)[a] = << beats[2 * i - 1], beats[2 * i] >>
    BY <1>1, StoredAt
  <2>2. /\ V = {} => Stored(mem2, cmds2, beats2)[a] = mem2[a]
        /\ \A i \in V : (V \subseteq Nat /\ \A j \in V : j <= i) =>
             Stored(mem2, cmds2, beats2)[a] = << beats2[2 * i - 1], beats2[2 * i] >>
    BY <1>1, StoredAt
  <2> HIDE DEF W, V, n, x
  <2>3. CASE W = {}
    <3>1. V = {}
      BY <2>0, <2>3
    <3>2. mem2[a] = mem[a]
      <4>1. mem2[a] = mem[a]
        BY <1>1, <2>0, <2>3 DEF x
      <4> QED BY <4>1
    <3> QED BY <2>1, <2>2, <2>3, <3>1, <3>2
  <2>4. CASE W # {}
    <3>1. PICK i \in W : \A j \in W : j <= i
      BY <2>0, <2>4, LatestExists
    <3>2. i \in Nat /\ i >= 1
      BY <2>0
    <3>3. Stored(mem, cmds, beats)[a] = << beats[2 * i - 1], beats[2 * i] >>
      BY <2>0, <2>1, <3>1
    <3>4. CASE i > d
      <4>1. i - d \in Nat /\ i - d >= 1 /\ (i - d) + d = i
        BY <3>2, <3>4
      <4>2. i - d \in V
        BY <2>0, <4>1
      <4>3. ASSUME NEW j \in V
            PROVE  j <= i - d
        <5>1. j \in Nat /\ j + d \in W
          BY <2>0
        <5> QED BY <3>1, <3>2, <5>1
      <4>4. Stored(mem2, cmds2, beats2)[a] =
              << beats2[2 * (i - d) - 1], beats2[2 * (i - d)] >>
        BY <2>0, <2>2, <4>2, <4>3
      <4>5. /\ beats2[2 * (i - d) - 1] = beats[2 * i - 1]
            /\ beats2[2 * (i - d)] = beats[2 * i]
        BY <2>0, <4>1, <4>2
      <4> QED BY <3>3, <4>4, <4>5
    <3>5. CASE ~(i > d)
      <4>1. d = 1 /\ i = 1
        BY <3>2, <3>5
      <4>2. a = x
        BY <2>0, <4>1
      <4>3. V = {}
        <5>1. ASSUME NEW j \in V
              PROVE  FALSE
          <6>1. j \in Nat /\ j >= 1 /\ j + 1 \in W
            BY <2>0, <4>1
          <6>2. j + 1 <= 1
            BY <3>1, <4>1, <6>1
          <6> QED BY <6>1, <6>2
        <5> QED BY <5>1
      <4>4. Stored(mem2, cmds2, beats2)[a] = << beats[1], beats[2] >>
        BY <1>1, <2>2, <4>1, <4>2, <4>3 DEF x
      <4>5. 2 * i - 1 = 1 /\ 2 * i = 2
        BY <4>1
      <4> QED BY <3>3, <4>4, <4>5
    <3> QED BY <3>4, <3>5
  <2> QED BY <2>3, <2>4
<1>2. Stored(mem2, cmds2, beats2) = [a \in DOMAIN mem |-> Stored(mem2, cmds2, beats2)[a]]
  BY DEF Stored
<1>3. Stored(mem, cmds, beats) = [a \in DOMAIN mem |-> Stored(mem, cmds, beats)[a]]
  BY DEF Stored
<1> QED BY <1>1, <1>2, <1>3

(* MIG's edge leaves the store alone, but for what is pushed in it. *)
LEMMA MigKeepsStore ==
  ASSUME IInv, MIG!Step
  PROVE  store' = Stored(ddr, MIG!afPushed, MIG!wdfPushed)
<1> DEFINE P == MIG!afPushed
           Q == MIG!wdfPushed
<1>0. /\ P \in Seq(Command) /\ Q \in Seq(Beat) /\ Len(P) \in Nat /\ Len(Q) \in Nat
      /\ af' \in Seq(Command) /\ wdf' \in Seq(Beat) /\ Len(af') \in Nat /\ Len(wdf') \in Nat
      /\ DOMAIN ddr' = DOMAIN ddr
  BY Pushed, MigTyped, LenProperties DEF IInv, Types, MigTypes
<1>1. ASSUME NEW d \in {0, 1}, NEW m \in {0, 2}, m = 2 * d, AfMoves(d), WdfMoves(m)
      PROVE  Shifted(d, P, Q, af', wdf')
  <2> SUFFICES ASSUME NEW a
               PROVE  /\ \A i \in Nat : i \in Pending(af', wdf', a) <=>
                                          i >= 1 /\ i + d \in Pending(P, Q, a)
                      /\ \A i \in Pending(af', wdf', a) :
                           /\ wdf'[2 * i - 1] = Q[2 * (i + d) - 1]
                           /\ wdf'[2 * i] = Q[2 * (i + d)]
    BY DEF Shifted
  <2>1. /\ Len(af') = Len(P) - d /\ \A i \in 1 .. Len(af') : af'[i] = P[i + d]
        /\ Len(wdf') = Len(Q) - m /\ \A i \in 1 .. Len(wdf') : wdf'[i] = Q[i + m]
    BY <1>1 DEF AfMoves, WdfMoves
  <2>2. /\ Pending(P, Q, a) \subseteq 1 .. Len(P)
        /\ Pending(af', wdf', a) \subseteq Nat
        /\ \A i \in Nat : i \in Pending(P, Q, a) <=>
             /\ i >= 1 /\ i <= Len(P) /\ 2 * i <= Len(Q)
             /\ P[i].cmd = "write" /\ P[i].addr = a
        /\ \A i \in Nat : i \in Pending(af', wdf', a) <=>
             /\ i >= 1 /\ i <= Len(af') /\ 2 * i <= Len(wdf')
             /\ af'[i].cmd = "write" /\ af'[i].addr = a
    BY <1>0, PendingIs
  <2> HIDE DEF P, Q
  <2>3. ASSUME NEW i \in Nat
        PROVE  i \in Pending(af', wdf', a) <=> i >= 1 /\ i + d \in Pending(P, Q, a)
    <3>1. /\ i + d \in Nat /\ (i <= Len(af') <=> i + d <= Len(P))
          /\ 2 * i <= Len(wdf') <=> 2 * (i + d) <= Len(Q)
      BY <1>0, <1>1, <2>1
    <3>2. CASE i >= 1 /\ i <= Len(af')
      <4>1. af'[i] = P[i + d] /\ i + d >= 1
        BY <1>0, <2>1, <3>2
      <4> QED BY <2>2, <3>1, <3>2, <4>1
    <3> QED BY <2>2, <3>1, <3>2
  <2>4. ASSUME NEW i \in Pending(af', wdf', a)
        PROVE  wdf'[2 * i - 1] = Q[2 * (i + d) - 1] /\ wdf'[2 * i] = Q[2 * (i + d)]
    <3>1. i \in Nat /\ i >= 1 /\ 2 * i <= Len(wdf')
      BY <2>2
    <3>2. 2 * i - 1 \in 1 .. Len(wdf') /\ 2 * i \in 1 .. Len(wdf')
      BY <1>0, <3>1
    <3>3. (2 * i - 1) + m = 2 * (i + d) - 1 /\ 2 * i + m = 2 * (i + d)
      BY <1>1, <3>1
    <3> QED BY <2>1, <3>2, <3>3
  <2> QED BY <2>2, <2>3, <2>4
<1>2. CASE MigKeeps \/ MigDelivers
  <2>1. AfMoves(0) /\ WdfMoves(0) /\ ddr' = ddr
    BY <1>2 DEF MigKeeps, MigDelivers
  <2>2. 0 \in {0, 1} /\ 0 \in {0, 2} /\ 0 = 2 * 0
    OBVIOUS
  <2> HIDE DEF P, Q
  <2>3. Shifted(0, P, Q, af', wdf')
    BY <1>1, <2>1, <2>2
  <2>4. Executed(0, ddr, ddr', P, Q)
    BY <2>1 DEF Executed
  <2>5. Stored(ddr', af', wdf') = Stored(ddr, P, Q)
    BY <1>0, <2>2, <2>3, <2>4, StoredShifts
  <2> QED BY <2>5 DEF store, P, Q
<1>3. CASE MigWrites
  <2>1. /\ AfMoves(1) /\ WdfMoves(2) /\ Len(af) > 0 /\ Len(wdf) >= 2 /\ af[1].cmd = "write"
        /\ ddr' = [ddr EXCEPT ![af[1].addr] = << wdf[1], wdf[2] >>]
    BY <1>3 DEF MigWrites
  <2>2. 1 \in {0, 1} /\ 2 \in {0, 2} /\ 2 = 2 * 1
    OBVIOUS
  <2>3. /\ P[1] = af[1] /\ Q[1] = wdf[1] /\ Q[2] = wdf[2]
        /\ Len(P) >= 1 /\ Len(Q) >= 2
    <3>1. Len(af) \in Nat /\ Len(wdf) \in Nat
      BY LenProperties DEF IInv, Types, MigTypes
    <3>2. 1 \in 1 .. Len(af) /\ 1 \in 1 .. Len(wdf) /\ 2 \in 1 .. Len(wdf)
      BY <2>1, <3>1
    <3> QED BY <2>1, <3>1, <3>2, Pushed
  <2> HIDE DEF P, Q
  <2>4. 1 \in Pending(P, Q, P[1].addr)
    <3> DEFINE x == P[1].addr
    <3> HIDE DEF x
    <3>1. 1 \in Pending(P, Q, x) <=>
            /\ 1 >= 1 /\ 1 <= Len(P) /\ 2 * 1 <= Len(Q)
            /\ P[1].cmd = "write" /\ P[1].addr = x
      BY <1>0, PendingIs
    <3> QED BY <1>0, <2>1, <2>3, <3>1 DEF x
  <2>5. Shifted(1, P, Q, af', wdf')
    BY <1>1, <2>1, <2>2
  <2>6. ddr' = [ddr EXCEPT ![P[1].addr] = << Q[1], Q[2] >>]
    BY <2>1, <2>3
  <2>7. Executed(1, ddr, ddr', P, Q)
    BY <1>0, <2>4, <2>6 DEF Executed
  <2>8. P \in Seq(Command) /\ af' \in Seq(Command)
    BY <1>0
  <2>9. Stored(ddr', af', wdf') = Stored(ddr, P, Q)
    <3>1. PICK d \in {0, 1} : d = 1
      OBVIOUS
    <3>2. Shifted(d, P, Q, af', wdf') /\ Executed(d, ddr, ddr', P, Q)
      BY <2>5, <2>7, <3>1
    <3>3. \A mem, mem2, beats, beats2 :
            Shifted(d, P, beats, af', beats2) /\ Executed(d, mem, mem2, P, beats)
              => Stored(mem2, af', beats2) = Stored(mem, P, beats)
      BY <2>8, <3>1, StoredShifts, SMTT(60)
    <3> QED BY <3>2, <3>3
  <2> QED BY <2>9 DEF store, P, Q
<1>4. CASE MigReads
  <2>1. Len(af) > 0 /\ af[1].cmd = "read" /\ AfMoves(1) /\ ddr' = ddr
    BY <1>4 DEF MigReads
  <2>2. ReadQueued /\ ~app_af_wren
    <3>1. 1 \in 1 .. Len(af)
      BY <2>1, LenProperties DEF IInv, Types, MigTypes
    <3>2. ~OnlyWrites
      BY <2>1, <3>1 DEF OnlyWrites
    <3> QED
      BY <2>1, <3>2 DEF IInv, CtlInv, StageInv, AtRest, NoRead, ReadStage, ReadBegins,
                        ReadQueued, ReadExecuted
  <2>3. Len(af) = 1
    <3> DEFINE n == Len(af)
    <3>1. n \in Nat /\ n > 0 /\ ~(1 \in 1 .. n - 1)
      BY <2>1, <2>2, LenProperties DEF ReadQueued, IInv, Types, MigTypes
    <3> HIDE DEF n
    <3>2. n = 1
      BY <3>1
    <3> QED BY <3>2 DEF n
  <2>4. P = af /\ Len(P) = 1 /\ Len(af') = 0
    BY <1>0, <2>1, <2>2, <2>3, Pushed DEF MIG!afPushed, AfMoves
  <2>5. ASSUME NEW a
        PROVE  Pending(P, Q, a) = {} /\ Pending(af', wdf', a) = {}
    <3>1. /\ Pending(P, Q, a) \subseteq 1 .. Len(P)
          /\ 1 \in Pending(P, Q, a) => P[1].cmd = "write"
          /\ Pending(af', wdf', a) \subseteq 1 .. Len(af')
      BY <1>0, PendingIs
    <3> HIDE DEF P, Q
    <3>2. Pending(af', wdf', a) = {}
      BY <2>4, <3>1
    <3>3. ASSUME NEW i \in Pending(P, Q, a)
          PROVE  FALSE
      <4>1. i = 1
        BY <2>4, <3>1
      <4> QED BY <2>1, <2>4, <3>1, <4>1
    <3> QED BY <3>2, <3>3
  <2>6. ASSUME NEW a \in DOMAIN ddr
        PROVE  Stored(ddr', af', wdf')[a] = Stored(ddr, P, Q)[a]
    BY <1>0, <2>1, <2>5, StoredAt
  <2> QED BY <1>0, <2>1, <2>6 DEF store, Stored
<1> QED BY <1>2, <1>3, <1>4, MigMoves

(* What is pushed that does not complete a write leaves the store alone. *)
LEMMA PushAddsNothing ==
  ASSUME IInv, ~WriteEnds
  PROVE  Stored(ddr, MIG!afPushed, MIG!wdfPushed) = store
<1> DEFINE P == MIG!afPushed
           Q == MIG!wdfPushed
<1>0. /\ P \in Seq(Command) /\ Q \in Seq(Beat) /\ af \in Seq(Command)
      /\ Len(P) \in Nat /\ Len(Q) \in Nat /\ Len(af) \in Nat /\ Len(wdf) \in Nat
  BY Pushed, LenProperties DEF IInv, Types, MigTypes
<1>1. CASE ~app_af_wren /\ ~app_wdf_wren
  BY <1>1 DEF store, MIG!afPushed, MIG!wdfPushed
<1>2. CASE app_af_wren \/ app_wdf_wren
  <2>1. /\ app_af_wren
        /\ \/ app_af_cmd = "read" /\ ~app_wdf_wren
           \/ Len(wdf) = 2 * Len(af) /\ app_wdf_wren
    <3>1. WriteBegins \/ (ReadBegins /\ ~app_wdf_wren)
      BY <1>2 DEF IInv, CtlInv, StageInv, AtRest, NoWrite, NoRead, ReadStage, WriteStage,
                  WriteStuck, WriteWaits, WriteOver, ReadQueued, ReadExecuted
    <3>2. CASE WriteBegins
      <4>1. ~ReadQueued /\ ~WriteEnds /\ ~WriteStuck
        BY <3>2 DEF WriteBegins, ReadQueued, WriteEnds, WriteStuck
      <4>2. Len(wdf) = 2 * Len(af)
        BY <1>0, <4>1 DEF IInv, CtlInv, PairInv
      <4> QED BY <3>2, <4>2 DEF WriteBegins
    <3> QED BY <3>1, <3>2 DEF ReadBegins
  <2>2. /\ Len(P) = Len(af) + 1 /\ \A i \in 1 .. Len(af) : P[i] = af[i]
        /\ P[Len(af) + 1].cmd = app_af_cmd
        /\ Len(Q) = IF app_wdf_wren THEN Len(wdf) + 1 ELSE Len(wdf)
        /\ \A i \in 1 .. Len(wdf) : Q[i] = wdf[i]
    BY <2>1, Pushed
  <2> HIDE DEF P, Q
  <2>3. ASSUME NEW a
        PROVE  /\ \A i \in Nat : i \in Pending(P, Q, a) <=>
                                   i >= 1 /\ i + 0 \in Pending(af, wdf, a)
               /\ \A i \in Pending(P, Q, a) :
                    /\ Q[2 * i - 1] = wdf[2 * (i + 0) - 1]
                    /\ Q[2 * i] = wdf[2 * (i + 0)]
    <3>1. /\ Pending(P, Q, a) \subseteq Nat
          /\ \A i \in Nat : i \in Pending(P, Q, a) <=>
               /\ i >= 1 /\ i <= Len(P) /\ 2 * i <= Len(Q)
               /\ P[i].cmd = "write" /\ P[i].addr = a
          /\ \A i \in Nat : i \in Pending(af, wdf, a) <=>
               /\ i >= 1 /\ i <= Len(af) /\ 2 * i <= Len(wdf)
               /\ af[i].cmd = "write" /\ af[i].addr = a
      BY <1>0, PendingIs
    <3>2. ASSUME NEW i \in Nat
          PROVE  i \in Pending(P, Q, a) <=> i >= 1 /\ i \in Pending(af, wdf, a)
      <4>1. CASE i >= 1 /\ i <= Len(af)
        <5>1. P[i] = af[i]
          BY <1>0, <2>2, <4>1
        <5>2. 2 * i <= Len(Q) <=> 2 * i <= Len(wdf)
          BY <1>0, <2>1, <2>2, <4>1
        <5>3. i <= Len(P)
          BY <1>0, <2>2, <4>1
        <5> QED BY <3>1, <4>1, <5>1, <5>2, <5>3
      <4>2. CASE i = Len(af) + 1
        <5>1. ~(2 * i <= Len(Q)) \/ P[i].cmd = "read"
          BY <1>0, <2>1, <2>2, <4>2
        <5>2. ~(i <= Len(af))
          BY <1>0, <4>2
        <5> QED BY <3>1, <5>1, <5>2
      <4>3. CASE i < 1 \/ i > Len(af) + 1
        <5>1. ~(i >= 1) \/ (~(i <= Len(P)) /\ ~(i <= Len(af)))
          BY <1>0, <2>2, <4>3
        <5> QED BY <3>1, <5>1
      <4> QED BY <1>0, <4>1, <4>2, <4>3
    <3>3. ASSUME NEW i \in Pending(P, Q, a)
          PROVE  Q[2 * i - 1] = wdf[2 * i - 1] /\ Q[2 * i] = wdf[2 * i]
      <4>1. i \in Nat /\ i >= 1 /\ 2 * i <= Len(wdf)
        BY <3>1, <3>2
      <4>2. 2 * i - 1 \in 1 .. Len(wdf) /\ 2 * i \in 1 .. Len(wdf)
        BY <1>0, <4>1
      <4> QED BY <2>2, <4>2
    <3>4. \A i \in Nat : i + 0 = i
      OBVIOUS
    <3> QED BY <3>1, <3>2, <3>3, <3>4
  <2>4. PICK d \in {0, 1} : d = 0
    OBVIOUS
  <2>6. Shifted(d, af, wdf, P, Q)
    BY <2>3, <2>4, Zenon DEF Shifted
  <2>7. Executed(d, ddr, ddr, af, wdf)
    BY <2>4 DEF Executed
  <2>8. \A mem, mem2, beats, beats2 :
          Shifted(d, af, beats, P, beats2) /\ Executed(d, mem, mem2, af, beats)
            => Stored(mem2, P, beats2) = Stored(mem, af, beats)
    BY <1>0, <2>4, StoredShifts
  <2> QED BY <2>6, <2>7, <2>8 DEF store, P, Q
<1> QED BY <1>1, <1>2

(* The second beat of a write puts the owner's block at its address. *)
LEMMA PushStores ==
  ASSUME IInv, WriteEnds
  PROVE  Stored(ddr, MIG!afPushed, MIG!wdfPushed) = [store EXCEPT ![Place] = Bus!data_wr]
<1> DEFINE Q == MIG!wdfPushed
           n == Len(af)
           x == Place
<1>0. /\ Q \in Seq(Beat) /\ Len(Q) \in Nat /\ af \in Seq(Command) /\ MIG!afPushed = af
      /\ n \in Nat /\ Len(wdf) \in Nat /\ x \in DdrAddr /\ DOMAIN ddr = DdrAddr
      /\ Bus!data_wr = << Bus!data_wr[1], Bus!data_wr[2] >>
  <2>1. Bus!data_wr \in Block /\ Place \in DdrAddr
    BY BusTypes DEF IInv
  <2> QED BY <2>1, Pushed, LenProperties
          DEF IInv, Types, MigTypes, WriteEnds, MIG!afPushed, Block
<1>1. Len(wdf) = 2 * n - 1 /\ n >= 1
  <2>1. ~ReadQueued
    BY DEF WriteEnds, IInv, CtlInv, StageInv, AtRest, NoWrite, ReadQueued, NoRead
  <2>2. Len(wdf) = 2 * n - 1
    BY <1>0, <2>1 DEF IInv, CtlInv, PairInv
  <2> QED BY <1>0, <2>2
<1>2. /\ Len(Q) = 2 * n /\ \A i \in 1 .. 2 * n - 1 : Q[i] = wdf[i]
      /\ Q[2 * n] = Bus!data_wr[2] /\ Q[2 * n - 1] = Bus!data_wr[1]
      /\ af[n].cmd = "write" /\ af[n].addr = x
  <2>1. /\ af[n] = [cmd |-> "write", addr |-> Place]
        /\ wdf[2 * n - 1] = Bus!data_wr[1]
    BY <1>1 DEF IInv, CtlInv, LastInv
  <2>2. app_wdf_wren /\ app_wdf_data = Bus!data_wr[2]
    BY DEF WriteEnds
  <2>3. /\ Len(Q) = Len(wdf) + 1 /\ \A i \in 1 .. Len(wdf) : Q[i] = wdf[i]
        /\ Q[Len(wdf) + 1] = app_wdf_data
    BY <2>2, Pushed
  <2>4. Len(wdf) + 1 = 2 * n /\ 2 * n - 1 \in 1 .. 2 * n - 1
    BY <1>0, <1>1
  <2> QED BY <1>1, <2>1, <2>2, <2>3, <2>4
<1> HIDE DEF Q, n, x
<1>3. ASSUME NEW a \in DdrAddr
      PROVE  /\ Pending(af, Q, a) \subseteq Nat /\ Pending(af, wdf, a) \subseteq Nat
             /\ \A i \in Nat : i \in Pending(af, Q, a) <=>
                  /\ i >= 1 /\ i <= n
                  /\ af[i].cmd = "write" /\ af[i].addr = a
             /\ \A i \in Nat : i \in Pending(af, wdf, a) <=>
                  /\ i >= 1 /\ i < n
                  /\ af[i].cmd = "write" /\ af[i].addr = a
  <2>1. /\ Pending(af, Q, a) \subseteq Nat /\ Pending(af, wdf, a) \subseteq Nat
        /\ \A i \in Nat : i \in Pending(af, Q, a) <=>
             /\ i >= 1 /\ i <= n /\ 2 * i <= Len(Q)
             /\ af[i].cmd = "write" /\ af[i].addr = a
        /\ \A i \in Nat : i \in Pending(af, wdf, a) <=>
             /\ i >= 1 /\ i <= n /\ 2 * i <= Len(wdf)
             /\ af[i].cmd = "write" /\ af[i].addr = a
    BY <1>0, PendingIs DEF n
  <2>2. \A i \in Nat : /\ i <= n /\ 2 * i <= Len(Q) <=> i <= n
                       /\ i <= n /\ 2 * i <= Len(wdf) <=> i < n
    BY <1>0, <1>1, <1>2
  <2> QED BY <2>1, <2>2
<1>4. ASSUME NEW a \in DdrAddr
      PROVE  Stored(ddr, af, Q)[a] = IF a = x THEN Bus!data_wr ELSE store[a]
  <2> DEFINE V == Pending(af, Q, a)
             W == Pending(af, wdf, a)
  <2>1. /\ V = {} => Stored(ddr, af, Q)[a] = ddr[a]
        /\ \A i \in V : (V \subseteq Nat /\ \A j \in V : j <= i) =>
             Stored(ddr, af, Q)[a] = << Q[2 * i - 1], Q[2 * i] >>
        /\ W = {} => store[a] = ddr[a]
        /\ \A i \in W : (W \subseteq Nat /\ \A j \in W : j <= i) =>
             store[a] = << wdf[2 * i - 1], wdf[2 * i] >>
    BY <1>0, StoredAt DEF store
  <2>2. CASE a = x
    <3>1. n \in V /\ V \subseteq Nat /\ \A j \in V : j <= n
      BY <1>0, <1>1, <1>2, <1>3, <2>2
    <3>2. Stored(ddr, af, Q)[a] = << Q[2 * n - 1], Q[2 * n] >>
      BY <2>1, <3>1
    <3> QED BY <1>0, <1>2, <2>2, <3>2
  <2>3. CASE a # x
    <3>1. ASSUME NEW i \in Nat
          PROVE  i \in V <=> i \in W
      <4>1. i = n => ~(i \in V) /\ ~(i \in W)
        BY <1>0, <1>2, <1>3, <2>3
      <4>2. i # n => (i <= n <=> i < n)
        BY <1>0
      <4> QED BY <1>3, <4>1, <4>2
    <3>2. V = W /\ W \subseteq Nat
      BY <1>3, <3>1
    <3>3. CASE W = {}
      BY <2>1, <2>3, <3>2, <3>3
    <3>4. CASE W # {}
      <4>1. W \subseteq 1 .. n
        BY <1>0, <1>3
      <4>2. PICK i \in W : \A j \in W : j <= i
        BY <1>0, <3>4, <4>1, LatestExists
      <4>3. i \in Nat /\ i >= 1 /\ i < n
        BY <1>3
      <4>4. Q[2 * i - 1] = wdf[2 * i - 1] /\ Q[2 * i] = wdf[2 * i]
        <5>1. 2 * i - 1 \in 1 .. 2 * n - 1 /\ 2 * i \in 1 .. 2 * n - 1
          BY <1>0, <4>3
        <5> QED BY <1>2, <5>1
      <4>5. /\ Stored(ddr, af, Q)[a] = << Q[2 * i - 1], Q[2 * i] >>
            /\ store[a] = << wdf[2 * i - 1], wdf[2 * i] >>
        BY <2>1, <3>2, <4>2
      <4> QED BY <2>3, <4>4, <4>5
    <3> QED BY <3>3, <3>4
  <2> QED BY <2>2, <2>3
<1>5. Stored(ddr, af, Q) = [a \in DdrAddr |-> Stored(ddr, af, Q)[a]]
  BY <1>0 DEF Stored
<1>6. store = [a \in DdrAddr |-> store[a]]
  BY <1>0 DEF store, Stored
<1>7. Stored(ddr, af, Q) = [store EXCEPT ![x] = Bus!data_wr]
  BY <1>0, <1>4, <1>5, <1>6
<1> QED BY <1>0, <1>7 DEF Q, x

-----------------------------------------------------------------------------
(* Each step of the memory path is one of the promise *)

(* A clock edge performs a write exactly when its second beat is pushed. *)
LEMMA StoreMoves ==
  ASSUME IInv, MIG!Step
  PROVE  /\ WriteEnds => store' = [store EXCEPT ![Place] = Bus!data_wr]
         /\ ~WriteEnds => store' = store
  BY MigKeepsStore, PushAddsNothing, PushStores

(* Which accesses have taken effect. *)
LEMMA DoneIs ==
  ASSUME NEW k \in Client
  PROVE  /\ done[k] <=> /\ enable_active[k]
                        /\ mem_ready_data[k] \/ (req[k].rw /\ WritePushed)
         /\ done'[k] <=> /\ enable_active'[k]
                         /\ mem_ready_data'[k] \/ (req'[k].rw /\ WritePushed')
  BY DEF done

(* A write counts as pushed from the cycle after its second beat's. *)
LEMMA PushedIs ==
  /\ NoWrite \/ WriteBegins \/ WriteEnds \/ WriteStuck => ~WritePushed
  /\ WriteWaits \/ WriteOver => WritePushed
  /\ (NoWrite \/ WriteBegins \/ WriteEnds \/ WriteStuck)' => ~WritePushed'
  /\ (WriteWaits \/ WriteOver)' => WritePushed'
  BY DEF NoWrite, WriteBegins, WriteEnds, WriteStuck, WriteWaits, WriteOver, WritePushed

(* The clients' side of the promise's step. *)
LEMMA RequestsHeld ==
  ASSUME Held, NEW k \in Client
  PROVE  Promise!RequestHeld(k)
  BY DEF Held, Waiting, Promise!RequestHeld, mem_valid_data, mem_rw_data, mem_data_addr,
         mem_data_wr

(* The owner's address and block are those on the bus. *)
LEMMA OwnersPlace ==
  ASSUME NEW k \in Client, sel = k
  PROVE  Promise!Place(k) = Place /\ mem_data_wr[k] = Bus!data_wr
<1>1. k # 0
  BY DEF Client
<1> QED
  BY <1>1 DEF Promise!Place, Promise!DdrAddrOf, Place, Bus!data_addr, Bus!DdrAddrOf,
              Bus!temp_addr, Bus!data_wr

(* A step in which no access takes effect and no answer is given. *)
LEMMA NothingHappens ==
  ASSUME Held, store' = store,
         \A k \in Client : ~mem_ready_data'[k] /\ (done'[k] <=> done[k])
  PROVE  Promise!Operate
<1>1. \A k \in Client : ~Promise!TakesEffect(k) /\ Promise!Answer(k) /\ Promise!Retire(k)
  BY DEF Promise!TakesEffect, Promise!Answer, Promise!Retire
<1> QED BY <1>1, RequestsHeld DEF Promise!Operate, Promise!Client, Client

(* The owner's access is the one that takes effect. *)
LEMMA OneTakesEffect ==
  ASSUME Held, NEW k \in Client, Promise!Perform(k), Promise!TakesEffect(k),
         Promise!Answer(k),
         \A j \in Client \ {k} : ~done'[j] /\ ~done[j] /\ ~mem_ready_data'[j]
  PROVE  Promise!Operate
<1>1. \A j \in Client \ {k} :
        ~Promise!TakesEffect(j) /\ Promise!Answer(j) /\ Promise!Retire(j)
  BY DEF Promise!TakesEffect, Promise!Answer, Promise!Retire
<1>2. Promise!Retire(k)
  BY DEF Promise!TakesEffect, Promise!Retire
<1> QED BY <1>1, <1>2, RequestsHeld DEF Promise!Operate, Promise!Client, Client

(* A clock edge of arbiter, shim and MIG with clients that hold their      *)
(* requests is a step of the promise.                                      *)
LEMMA PathStepOperates ==
  ASSUME IInv, Held, PathStep
  PROVE  Promise!Operate
<1>0. /\ ArbTypes /\ ArbInv /\ StageInv /\ req \in [Client -> Request]
      /\ Arb!Step /\ MC!Step /\ MIG!Step
  BY DEF PathStep, IInv, Types, CtlInv
<1>1. ASSUME sel = 0
      PROVE  store' = store /\ ~WritePushed /\ ~WritePushed'
  <2>1. ~WriteEnds /\ NoWrite
    BY <1>0, <1>1 DEF StageInv, AtRest, NoWrite, WriteEnds
  <2>2. NoWrite'
    BY <1>1, ComesToRest DEF AtRest
  <2> QED BY <1>0, <2>1, <2>2, StoreMoves, PushedIs
<1>2. ASSUME NEW k \in Client, sel = k
      PROVE  /\ enable_active[k] /\ ~mem_ready_data[k] /\ sel # 0
             /\ \A j \in Client \ {k} : ~enable_active[j] /\ ~mem_ready_data[j]
  BY <1>0, <1>2 DEF ArbInv, Client
<1>3. CASE Idles
  <2>1. store' = store
    BY <1>1, <1>3 DEF Idles
  <2>2. \A k \in Client : ~mem_ready_data'[k] /\ ~enable_active[k] /\ ~enable_active'[k]
    BY <1>0, <1>3 DEF Idles, ArbInv
  <2>3. \A k \in Client : ~done[k] /\ ~done'[k]
    BY <2>2, DoneIs
  <2> QED BY <2>1, <2>2, <2>3, NothingHappens
<1>4. ASSUME NEW k \in Client, Grants(k)
      PROVE  Promise!Operate
  <2>1. store' = store /\ ~WritePushed'
    BY <1>1, <1>4 DEF Grants
  <2>2. \A j \in Client : ~mem_ready_data'[j] /\ ~enable_active[j]
    BY <1>0, <1>4 DEF Grants, ArbInv
  <2>3. \A j \in Client : ~done[j] /\ ~done'[j]
    BY <2>1, <2>2, DoneIs
  <2> QED BY <2>1, <2>2, <2>3, NothingHappens
<1>5. ASSUME NEW k \in Client, Continues(k)
      PROVE  Promise!Operate
  <2>1. /\ sel = k /\ sel # 0 /\ enable_active[k] /\ ~mem_ready_data[k]
        /\ \A j \in Client \ {k} : ~enable_active[j]
        /\ enable_active' = enable_active /\ mem_ready_data' = mem_ready_data
        /\ \A j \in Client : ~mem_ready_data'[j]
    BY <1>2, <1>5 DEF Continues
  <2>2. req'[k] = req[k] /\ req[k].valid
    BY <1>5, OwnerHeld
  <2>3. /\ \A j \in Client \ {k} : ~done[j] /\ ~done'[j]
        /\ done[k] <=> req[k].rw /\ WritePushed
        /\ done'[k] <=> req[k].rw /\ WritePushed'
    BY <2>1, <2>2, DoneIs
  <2>4. CASE req[k].rw /\ WriteEnds
    <3>1. ~WritePushed /\ WritePushed'
      <4>1. WriteWaits'
        BY <1>0, <1>5, <2>4, WriteContinues
           DEF NoWrite, WriteBegins, WriteEnds, WriteStuck, WriteWaits, WriteOver
      <4> QED BY <2>4, <4>1, PushedIs
    <3>2. store' = [store EXCEPT ![Promise!Place(k)] = mem_data_wr[k]]
      BY <1>0, <2>1, <2>4, StoreMoves, OwnersPlace
    <3>3. Promise!Perform(k)
      BY <2>2, <2>4, <3>2 DEF Promise!Perform, mem_valid_data, mem_rw_data
    <3>4. Promise!TakesEffect(k)
      BY <2>3, <2>4, <3>1 DEF Promise!TakesEffect
    <3>5. Promise!Answer(k)
      BY <2>1 DEF Promise!Answer
    <3> QED BY <2>1, <2>3, <3>3, <3>4, <3>5, OneTakesEffect
  <2>5. CASE req[k].rw /\ ~WriteEnds
    <3>1. WritePushed' <=> WritePushed
      <4>1. \/ NoWrite /\ (NoWrite' \/ WriteBegins')
            \/ WriteBegins /\ (WriteEnds' \/ WriteStuck')
            \/ WriteStuck /\ WriteStuck'
            \/ WriteWaits /\ (WriteWaits' \/ WriteOver')
            \/ WriteOver /\ WriteOver'
        BY <1>0, <1>5, <2>5, WriteContinues
      <4> QED BY <4>1, PushedIs
    <3>2. store' = store
      BY <1>0, <2>5, StoreMoves
    <3> QED BY <2>1, <2>3, <3>1, <3>2, NothingHappens
  <2>6. CASE ~req[k].rw
    <3>1. ~WriteEnds
      BY <1>0, <2>1, <2>6 DEF StageInv, NoWrite, WriteEnds
    <3>2. store' = store
      BY <1>0, <3>1, StoreMoves
    <3> QED BY <2>1, <2>3, <2>6, <3>2, NothingHappens
  <2> QED BY <2>4, <2>5, <2>6
<1>6. ASSUME NEW k \in Client, Answers(k)
      PROVE  Promise!Operate
  <2>1. /\ sel = k /\ sel # 0 /\ enable_active[k] /\ ~mem_ready_data[k]
        /\ \A j \in Client \ {k} : ~enable_active[j] /\ ~mem_ready_data[j]
        /\ enable_active' = enable_active
        /\ mem_ready_data' = [mem_ready_data EXCEPT ![k] = TRUE]
    BY <1>2, <1>6 DEF Answers
  <2>2. mem_ready_data'[k] /\ \A j \in Client \ {k} : ~mem_ready_data'[j]
    BY <1>0, <2>1 DEF ArbTypes
  <2>3. /\ \A j \in Client \ {k} : ~done[j] /\ ~done'[j]
        /\ done[k] <=> req[k].rw /\ WritePushed
        /\ done'[k]
    BY <2>1, <2>2, DoneIs
  <2>4. CASE req[k].rw
    <3>1. WriteOver
      BY <1>0, <1>6, <2>4, WriteLeaves
    <3>2. store' = store
      BY <1>0, <3>1, StoreMoves DEF WriteOver, WriteEnds
    <3>3. done[k]
      BY <2>3, <2>4, <3>1, PushedIs
    <3>4. \A j \in Client : Promise!Answer(j) /\ Promise!Retire(j) /\ ~Promise!TakesEffect(j)
      BY <2>2, <2>3, <2>4, <3>3
         DEF Promise!Answer, Promise!Retire, Promise!TakesEffect, mem_rw_data
    <3> QED
      BY <3>2, <3>4, RequestsHeld DEF Promise!Operate, Promise!Client, Client
  <2>5. CASE ~req[k].rw
    <3>1. af = << >> /\ NoWrite /\ data_rd = ddr[Place]
      BY <1>0, <1>6, <2>5, ReadLeaves
    <3>2. store' = store
      BY <1>0, <3>1, StoreMoves DEF NoWrite, WriteEnds
    <3>3. store[Place] = ddr[Place]
      <4>1. Place \in DOMAIN ddr /\ af \in Seq(Command)
        BY BusTypes DEF IInv, Types, MigTypes
      <4>2. Pending(af, wdf, Place) = {}
        BY <3>1 DEF Pending
      <4> QED BY <4>1, <4>2, StoredAt DEF store
    <3>4. mem_data_rd'[k] = store[Promise!Place(k)]
      <4>1. mem_data_rd' = [mem_data_rd EXCEPT ![k] = data_rd] /\ k \in DOMAIN mem_data_rd
        BY <1>0, <1>6, <2>5 DEF Answers, ArbTypes
      <4> QED BY <2>1, <3>1, <3>3, <4>1, OwnersPlace
    <3>5. Promise!Answer(k) /\ Promise!TakesEffect(k)
      BY <2>3, <2>5, <3>4 DEF Promise!Answer, Promise!TakesEffect
    <3>6. Promise!Perform(k)
      <4>1. req[k].valid
        BY <1>0, <2>1 DEF ArbInv
      <4> QED BY <2>5, <3>2, <4>1 DEF Promise!Perform, mem_valid_data, mem_rw_data
    <3> QED BY <2>2, <2>3, <3>5, <3>6, OneTakesEffect
  <2> QED BY <2>4, <2>5
<1>7. ASSUME NEW k \in Client, Releases(k)
      PROVE  Promise!Operate
  <2>1. /\ store' = store /\ ~WritePushed /\ ~WritePushed'
        /\ mem_ready_data[k] /\ enable_active[k]
    BY <1>1, <1>7 DEF Releases
  <2>2. \A j \in Client : ~mem_ready_data'[j] /\ ~enable_active'[j]
                          /\ (j # k => ~enable_active[j])
    BY <1>0, <1>7 DEF Releases, ArbInv, ArbTypes
  <2>3. \A j \in Client : ~done'[j] /\ (j # k => ~done[j])
    BY <2>2, DoneIs
  <2>4. \A j \in Client : Promise!Answer(j) /\ Promise!Retire(j) /\ ~Promise!TakesEffect(j)
    BY <2>1, <2>2, <2>3 DEF Promise!Answer, Promise!Retire, Promise!TakesEffect
  <2> QED BY <2>1, <2>4, RequestsHeld DEF Promise!Operate, Promise!Client, Client
<1> QED BY <1>0, <1>3, <1>4, <1>5, <1>6, <1>7, ArbiterMoves

(* With empty queues the store is the array. *)
LEMMA EmptyStore ==
  ASSUME NEW mem, NEW beats
  PROVE  Stored(mem, << >>, beats) = [a \in DOMAIN mem |-> mem[a]]
<1>1. \A a : Pending(<< >>, beats, a) = {}
  BY DEF Pending
<1> QED BY <1>1 DEF Stored

(* Nothing has been accessed at the start. *)
LEMMA InitStarts == Init => Promise!Init
<1> SUFFICES ASSUME Init
             PROVE  Promise!Init
  OBVIOUS
<1>1. ddr \in [DdrAddr -> Block] /\ af = << >>
  BY MemorySystemAssumption DEF MemorySystemAssumption, Init, MIG!Init, Block
<1>2. store \in [DdrAddr -> Block]
  BY <1>1, EmptyStore DEF store
<1>3. done = [k \in Client |-> FALSE]
  BY DEF Init, Arb!ResetState, Arb!Client, done, Client
<1> QED
  BY <1>2, <1>3 DEF Promise!Init, Promise!Client, Client, Init, Arb!ResetState, Arb!Client

(* A reset drops every access, and keeps what is in the array. *)
LEMMA ResetDrops == Inv /\ Reset => Promise!Reset
<1> SUFFICES ASSUME Inv, Reset
             PROVE  Promise!Reset
  OBVIOUS
<1>1. ddr' \in [DdrAddr -> Block] /\ af' = << >>
  BY DEF Inv, IInv, Types, MigTypes, Reset, MIG!Reset
<1>2. store' \in [DdrAddr -> Block]
  <2>1. store' = [a \in DOMAIN ddr' |-> ddr'[a]]
    BY <1>1, EmptyStore DEF store
  <2> QED BY <1>1, <2>1
<1>3. done' = [k \in Client |-> FALSE]
  BY DEF Reset, Arb!Reset, Arb!Client, done, Client
<1>4. mem_valid_data' = [k \in Client |-> FALSE]
  BY DEF Reset, NoRequest, mem_valid_data
<1> QED
  BY <1>2, <1>3, <1>4 DEF Promise!Reset, Promise!Client, Client, Reset, Arb!Reset, Arb!Client

(* A state change that shows nowhere is a stutter of the promise. *)
LEMMA StuttersToo == UNCHANGED vars => UNCHANGED Promise!svars
<1> SUFFICES ASSUME UNCHANGED vars
             PROVE  UNCHANGED Promise!svars
  OBVIOUS
<1>1. /\ req' = req /\ enable_active' = enable_active /\ mem_ready_data' = mem_ready_data
      /\ mem_data_rd' = mem_data_rd /\ in_reset' = in_reset
  BY DEF vars, arbVars
<1>2. /\ data_rdy' = data_rdy /\ app_wdf_wren' = app_wdf_wren
      /\ addr_change_wr' = addr_change_wr /\ new_data_wr' = new_data_wr
  BY DEF vars, ctlVars
<1>3. ddr' = ddr /\ af' = af /\ wdf' = wdf
  BY DEF vars, migVars
<1>4. done' = done
  BY <1>1, <1>2 DEF done, WritePushed
<1>5. store' = store
  BY <1>3 DEF store
<1>6. UNCHANGED << mem_valid_data, mem_rw_data, mem_data_addr, mem_data_wr >>
  BY <1>1 DEF mem_valid_data, mem_rw_data, mem_data_addr, mem_data_wr
<1> QED BY <1>1, <1>4, <1>5, <1>6 DEF Promise!svars

(* The memory path implements SharedMemory: the accesses of all clients    *)
(* take effect one at a time, a write stores its own block at its own      *)
(* address exactly once before it is answered, and a read is answered with *)
(* the latest block of its address and to the client that asked for it.    *)
THEOREM PromiseHolds == Spec => PromiseKept
<1>1. Inv /\ [Next]_vars => [Promise!Next]_Promise!svars
  <2> SUFFICES ASSUME Inv, [Next]_vars
               PROVE  [Promise!Next]_Promise!svars
    OBVIOUS
  <2>1. CASE Progress \/ Tick
    <3>1. ClientStep /\ PathStep
      BY <2>1 DEF Progress, Tick, Logic, PathStep, MIG!Step
    <3>2. Held
      BY <3>1, ClientsHold DEF Inv
    <3>3. in_reset' = FALSE
      BY <2>1 DEF Progress, Tick, Logic
    <3> QED BY <3>1, <3>2, <3>3, PathStepOperates DEF Inv, Promise!Next
  <2>2. CASE Reset
    BY <2>2, ResetDrops DEF Reset, Promise!Next
  <2>3. CASE UNCHANGED vars
    BY <2>3, StuttersToo
  <2> QED BY <2>1, <2>2, <2>3 DEF Next
<1> QED BY <1>1, InitStarts, Invariance, PTL DEF Spec, PromiseKept, Promise!Spec

=============================================================================
