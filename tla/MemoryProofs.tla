---------------------------- MODULE MemoryProofs -----------------------------
(***************************************************************************)
(* The invariants of the memory path for every number of clients, every    *)
(* wait, every depth of MIG's FIFOs and every use by the clients, with     *)
(* resets at any edge.                                                     *)
(*                                                                         *)
(* An access goes through arbiter, shim and MIG, and each of them has its  *)
(* own registers that say how far it has come.  The invariant says which   *)
(* of these registers' values may meet: CtlInv names the stages of a write *)
(* and of a read, and says that the shim is at rest without an owner.      *)
(***************************************************************************)
EXTENDS MemorySystem, FiniteSetTheorems, SequenceTheorems, TLAPS

Command == [cmd : {"write", "read"}, addr : DdrAddr]

(* What a client may have on its wires; the address means something only   *)
(* while it asks.                                                          *)
Request == {r \in [valid : BOOLEAN, rw : BOOLEAN, addr : Nat, data : Block] :
              r.valid => r.addr \in Addr}

(* Every register has the width the Verilog gives it, and so have MIG's    *)
(* queues.                                                                 *)
ArbTypes ==
  /\ sel \in 0 .. N
  /\ data_rden \in BOOLEAN /\ data_wren \in BOOLEAN
  /\ mem_wr_rdy_tmp \in BOOLEAN /\ mc_wr_rdy_accept \in BOOLEAN
  /\ enable_active \in [Client -> BOOLEAN]
  /\ mem_ready_data \in [Client -> BOOLEAN]
  /\ mem_data_rd \in [Client -> Block]

MigTypes ==
  /\ ddr \in [DdrAddr -> Block]
  /\ af \in Seq(Command) /\ wdf \in Seq(Beat) /\ rdf \in Seq(Beat)
  /\ phy_init_done \in BOOLEAN /\ rd_data_valid \in BOOLEAN
  /\ rd_data_fifo_out \in Beat

Types == req \in [Client -> Request] /\ ArbTypes /\ MC!TypeOK /\ MigTypes

(* The arbiter: whoever owns the bus is asking for the access, the         *)
(* controller is asked for its direction, and the two registers that tell  *)
(* whether an access may be granted agree with the owner.                  *)
ArbInv ==
  /\ \A i, j \in Client : enable_active[i] /\ enable_active[j] => i = j
  /\ \A k \in Client : sel = k <=> enable_active[k] /\ ~mem_ready_data[k]
  /\ \A k \in Client : mem_ready_data[k] => enable_active[k]
  /\ \A k \in Client : enable_active[k] => req[k].valid
  /\ mem_wr_rdy_tmp <=> sel = 0
  /\ sel = 0 => mc_wr_rdy_accept
  /\ DirectionMatches

Place == Bus!data_addr
OnlyWrites == \A i \in 1 .. Len(af) : af[i].cmd = "write"

(* The stages of a write: nothing of it is done; command and first beat    *)
(* are on their way to MIG; the second beat is; an almost-full flag has    *)
(* kept the second beat back for ever; all is in MIG, and the wait is on;  *)
(* the wait is over.                                                       *)
NoWrite ==
  ~addr_change_wr /\ ~app_wdf_wren /\ ~new_data_wr /\ ~data_rdy /\ ~data_sent
WriteBegins ==
  /\ app_af_wren /\ app_af_cmd = "write" /\ addr_change_wr /\ ~data_sent
  /\ app_wdf_wren /\ new_data_wr /\ ~data_rdy /\ app_wdf_data = Bus!data_wr[1]
WriteEnds ==
  /\ ~app_af_wren /\ addr_change_wr /\ ~data_sent
  /\ app_wdf_wren /\ new_data_wr /\ data_rdy /\ app_wdf_data = Bus!data_wr[2]
WriteStuck ==
  /\ ~app_af_wren /\ addr_change_wr /\ ~data_sent
  /\ ~app_wdf_wren /\ new_data_wr /\ ~data_rdy
WriteWaits ==
  /\ ~app_af_wren /\ addr_change_wr /\ ~data_sent
  /\ ~app_wdf_wren /\ new_data_wr /\ data_rdy
WriteOver ==
  /\ ~app_af_wren /\ addr_change_wr
  /\ ~app_wdf_wren /\ ~new_data_wr /\ ~data_rdy

WriteStage ==
  \/ NoWrite /\ ~app_af_wren
  \/ WriteBegins \/ WriteEnds \/ WriteStuck \/ WriteWaits \/ WriteOver

(* The wait: it starts when the second beat is in MIG. *)
CounterInv ==
  IF data_rdy
  THEN /\ counter_wait \in 0 .. WriteCycleDelay
       /\ app_wdf_wren <=> counter_wait = 0
  ELSE counter_wait = IF data_sent THEN WriteCycleDelay + 1 ELSE 0

(* The stages of a read: nothing of it is done; its command is on its way  *)
(* to MIG; it is MIG's last command; it has been executed, and the block   *)
(* goes by beats through MIG's FIFO and the shim's registers.              *)
NoBeats ==
  rdf = << >> /\ ~rd_data_valid /\ ~new_data_rd /\ ~read_data_end /\ ~mc_rd_valid
ReadBegins ==
  /\ app_af_wren /\ app_af_cmd = "read" /\ addr_change_rd /\ NoBeats /\ OnlyWrites
ReadQueued ==
  /\ ~app_af_wren /\ addr_change_rd /\ NoBeats
  /\ af # << >> /\ af[Len(af)] = [cmd |-> "read", addr |-> Place]
  /\ \A i \in 1 .. Len(af) - 1 : af[i].cmd = "write"
ReadExecuted ==
  LET b == ddr[Place] IN
  /\ ~app_af_wren /\ addr_change_rd /\ af = << >> /\ wdf = << >>
  /\ \/ /\ rdf = << b[1], b[2] >>
        /\ ~rd_data_valid /\ ~new_data_rd /\ ~read_data_end /\ ~mc_rd_valid
     \/ /\ rdf = << b[2] >> /\ rd_data_valid /\ rd_data_fifo_out = b[1]
        /\ ~new_data_rd /\ ~read_data_end /\ ~mc_rd_valid
     \/ /\ rdf = << b[2] >> /\ ~rd_data_valid
        /\ new_data_rd /\ mig_data_out[1] = b[1] /\ ~read_data_end /\ ~mc_rd_valid
     \/ /\ rdf = << >> /\ rd_data_valid /\ rd_data_fifo_out = b[2]
        /\ new_data_rd /\ mig_data_out[1] = b[1] /\ ~read_data_end /\ ~mc_rd_valid
     \/ /\ rdf = << >> /\ ~rd_data_valid
        /\ ~new_data_rd /\ read_data_end /\ mig_data_out = b /\ ~mc_rd_valid
     \/ /\ rdf = << >> /\ ~rd_data_valid
        /\ ~new_data_rd /\ ~read_data_end /\ mc_rd_valid /\ data_rd = b

NoRead == ~addr_change_rd /\ NoBeats /\ OnlyWrites
ReadStage ==
  \/ NoRead /\ ~app_af_wren
  \/ ReadBegins \/ ReadQueued \/ ReadExecuted

AtRest == NoWrite /\ NoRead /\ ~app_af_wren
StageInv ==
  \/ sel = 0 /\ AtRest
  \/ sel # 0 /\ req[sel].rw /\ NoRead /\ WriteStage
  \/ sel # 0 /\ ~req[sel].rw /\ NoWrite /\ ReadStage

(* MIG holds two beats for each of its writes, but one for the last while  *)
(* its second beat is missing.                                             *)
PairInv ==
  Len(wdf) = 2 * (IF ReadQueued THEN Len(af) - 1 ELSE Len(af))
             - (IF WriteEnds \/ WriteStuck THEN 1 ELSE 0)

(* The command and the first beat of a write are the last in MIG until the *)
(* second follows.                                                         *)
LastInv ==
  WriteEnds \/ WriteStuck =>
    /\ af # << >> /\ af[Len(af)] = [cmd |-> "write", addr |-> Place]
    /\ wdf[Len(wdf)] = Bus!data_wr[1]

(* Nothing has been asked of the shim in the cycle after the grant, when   *)
(* mc_wr_rdy_accept is still up, nor before the calibration is over.       *)
QuietInv ==
  /\ sel # 0 /\ mc_wr_rdy_accept => ~addr_change_wr /\ ~addr_change_rd
  /\ ~phy_init_done =>
       /\ ~addr_change_wr /\ ~addr_change_rd
       /\ af = << >> /\ wdf = << >> /\ rdf = << >>

CtlInv == StageInv /\ CounterInv /\ PairInv /\ LastInv /\ QuietInv

IInv == Types /\ ArbInv /\ CtlInv

-----------------------------------------------------------------------------
(* What clients do, all that is used of them: a request stands still until *)
(* its answer.                                                             *)
Held ==
  /\ req' \in [Client -> Request]
  /\ \A k \in Client : Waiting(k) => req'[k] = req[k]

(* A clock edge of arbiter, shim and MIG. *)
PathStep == Arb!Step /\ MC!Step /\ MIG!Step

-----------------------------------------------------------------------------
(* The arbiter's edge, by what becomes of the bus *)

Idles ==
  /\ sel = 0 /\ \A k \in Client : ~enable_active[k]
  /\ UNCHANGED << sel, data_rden, data_wren, enable_active, mem_data_rd,
                  mem_ready_data, mem_wr_rdy_tmp >>
  /\ mc_wr_rdy_accept' = TRUE

Grants(k) ==
  /\ sel = 0 /\ \A j \in Client : ~enable_active[j]
  /\ req[k].valid /\ sel' = k
  /\ enable_active' = [enable_active EXCEPT ![k] = TRUE]
  /\ data_wren' = req[k].rw /\ data_rden' = ~req[k].rw
  /\ UNCHANGED << mem_ready_data, mem_data_rd >>
  /\ mem_wr_rdy_tmp' = FALSE /\ mc_wr_rdy_accept' = TRUE

Finishes(k) == IF req[k].rw THEN MC!mc_wr_rdy ELSE mc_rd_valid

Continues(k) ==
  /\ sel = k /\ ~Finishes(k)
  /\ UNCHANGED << sel, data_rden, data_wren, enable_active, mem_data_rd,
                  mem_ready_data, mem_wr_rdy_tmp >>
  /\ mc_wr_rdy_accept' = FALSE

Answers(k) ==
  /\ sel = k /\ Finishes(k) /\ sel' = 0
  /\ data_wren' = FALSE /\ data_rden' = FALSE /\ UNCHANGED enable_active
  /\ mem_ready_data' = [mem_ready_data EXCEPT ![k] = TRUE]
  /\ mem_data_rd' = IF req[k].rw THEN mem_data_rd ELSE [mem_data_rd EXCEPT ![k] = data_rd]
  /\ mem_wr_rdy_tmp' = TRUE /\ mc_wr_rdy_accept' = TRUE

Releases(k) ==
  /\ sel = 0 /\ enable_active[k] /\ mem_ready_data[k]
  /\ enable_active' = [enable_active EXCEPT ![k] = FALSE]
  /\ mem_ready_data' = [mem_ready_data EXCEPT ![k] = FALSE]
  /\ mem_data_rd' \in [Client -> Block]
  /\ UNCHANGED << sel, data_rden, data_wren, mem_wr_rdy_tmp >>
  /\ mc_wr_rdy_accept' = TRUE

(* The shim answers only when it has been asked, and never in the cycle    *)
(* after the grant.                                                        *)
LEMMA AnswersAsked ==
  ASSUME IInv
  PROVE  /\ MC!mc_wr_rdy => sel # 0 /\ req[sel].rw /\ ~mc_wr_rdy_accept
         /\ mc_rd_valid => sel # 0 /\ ~req[sel].rw /\ ~mc_wr_rdy_accept
  BY DEF IInv, CtlInv, StageInv, QuietInv, AtRest, NoWrite, NoRead, NoBeats, WriteStage,
         WriteBegins, WriteEnds, WriteStuck, WriteWaits, WriteOver, ReadStage,
         ReadBegins, ReadQueued, ReadExecuted, MC!mc_wr_rdy

(* At an edge the arbiter rests, or grants a client's request, or waits    *)
(* for the shim, or answers the owner, or releases it: the five branches   *)
(* of Arbiter.v, of which the invariant leaves one client's at a time.     *)
LEMMA ArbiterMoves ==
  ASSUME IInv, Arb!Step
  PROVE  \/ Idles
         \/ \E k \in Client : Grants(k) \/ Continues(k) \/ Answers(k) \/ Releases(k)
<1>0. /\ ArbTypes /\ ArbInv /\ req \in [Client -> Request] /\ data_rd \in Block
      /\ Arb!Accept
  BY DEF IInv, Types, MC!TypeOK, Arb!Step, Block, MC!Block
<1>1. ASSUME NEW k \in Client, enable_active[k]
      PROVE  /\ Arb!Serving(k) /\ \A j \in Client : Arb!Serving(j) => j = k
             /\ \A j \in Client : enable_active[j] => j = k
  BY <1>0, <1>1 DEF ArbInv, ArbTypes, Client, Arb!Client, Arb!Serving, Arb!Selected,
                    Arb!Eligible, mem_valid_data
<1>2. CASE Arb!Quiet
  <2>1. \A k \in Client : ~enable_active[k]
    BY <1>1, <1>2 DEF Arb!Quiet, Arb!Client, Client
  <2>2. sel = 0
    BY <1>0, <2>1 DEF ArbInv, ArbTypes, Client
  <2> QED BY <1>0, <1>2, <2>1, <2>2 DEF Arb!Quiet, Arb!Accept, ArbInv, Idles
<1>3. ASSUME NEW k \in Client, Arb!Serve(k)
      PROVE  Grants(k) \/ Continues(k) \/ Answers(k) \/ Releases(k)
  <2>1. /\ Arb!WriteFinishes(k) <=> req[k].rw /\ MC!mc_wr_rdy /\ enable_active[k]
        /\ Arb!ReadFinishes(k) <=> ~req[k].rw /\ mc_rd_valid
        /\ mem_rw_data[k] = req[k].rw /\ req[k].rw \in BOOLEAN
    BY <1>0 DEF Arb!WriteFinishes, Arb!ReadFinishes, mem_rw_data, Request
  <2>2. Arb!Serving(k) /\ req[k].valid
    BY <1>3 DEF Arb!Serve, Arb!WriteDone, Arb!WriteRelease, Arb!ReadDone, Arb!ReadRelease,
                Arb!Grant, Arb!Serving, Arb!Selected, Arb!Eligible, mem_valid_data
  <2>3. \A j \in Client \ {k} : ~enable_active[j]
    BY <2>2 DEF Arb!Serving, Arb!Selected, Arb!Eligible, Arb!Client, Client
  <2>4. CASE sel # 0
    <3>1. sel = k /\ enable_active[k] /\ ~mem_ready_data[k] /\ ~mem_wr_rdy_tmp
      BY <1>0, <2>3, <2>4 DEF ArbInv, ArbTypes, Client
    <3>2. data_wren = req[k].rw /\ data_rden = ~req[k].rw
      BY <1>0, <2>1, <3>1 DEF ArbInv, ArbTypes, DirectionMatches
    <3>3. /\ MC!mc_wr_rdy => req[k].rw /\ ~mc_wr_rdy_accept
          /\ mc_rd_valid => ~req[k].rw /\ ~mc_wr_rdy_accept
      BY <3>1, AnswersAsked
    <3>4. CASE Finishes(k)
      <4>1. Arb!WriteDone(k) \/ Arb!ReadDone(k)
        BY <1>3, <2>1, <3>1, <3>4
           DEF Finishes, Arb!Serve, Arb!WriteRelease, Arb!ReadRelease, Arb!Grant
      <4>2. mc_wr_rdy_accept' = TRUE
        BY <1>0, <3>3, <3>4 DEF Finishes, Arb!Accept
      <4> QED
        BY <2>1, <3>1, <3>2, <3>4, <4>1, <4>2
           DEF Answers, Arb!WriteDone, Arb!ReadDone, Arb!Answer
    <3>5. CASE ~Finishes(k)
      <4>1. Arb!Grant(k)
        BY <1>3, <2>1, <3>1, <3>3, <3>5
           DEF Finishes, Arb!Serve, Arb!WriteDone, Arb!WriteRelease, Arb!ReadDone,
               Arb!ReadRelease, Arb!Release
      <4>2. mc_wr_rdy_accept' = FALSE
        BY <1>0, <3>1, <3>3, <3>5 DEF Finishes, Arb!Accept, ArbTypes
      <4> QED
        BY <1>0, <2>1, <3>1, <3>2, <3>5, <4>1, <4>2 DEF Continues, ArbTypes, Arb!Grant
    <3> QED BY <3>4, <3>5
  <2>5. CASE sel = 0
    <3>1. ~MC!mc_wr_rdy /\ ~mc_rd_valid /\ mem_wr_rdy_tmp /\ mc_wr_rdy_accept
      BY <1>0, <2>5, AnswersAsked DEF ArbInv
    <3>2. ~data_wren /\ ~data_rden
      BY <1>0, <2>5 DEF ArbInv, DirectionMatches, Client
    <3>3. CASE mem_ready_data[k]
      <4>1. Arb!WriteRelease(k) \/ Arb!ReadRelease(k)
        BY <1>3, <2>1, <3>1, <3>3
           DEF Arb!Serve, Arb!WriteDone, Arb!ReadDone, Arb!Grant, Arb!WriteFinishes
      <4>2. mem_data_rd' \in [Client -> Block]
        BY <1>0, <4>1, MemorySystemAssumption
           DEF MemorySystemAssumption, ArbTypes, Block, ZeroBlock, Arb!WriteRelease,
               Arb!ReadRelease
      <4>3. mc_wr_rdy_accept' = TRUE
        BY <1>0, <3>1 DEF Arb!Accept
      <4> QED
        BY <1>0, <2>5, <3>3, <4>1, <4>2, <4>3
           DEF Releases, ArbInv, Arb!WriteRelease, Arb!ReadRelease, Arb!Release
    <3>4. CASE ~mem_ready_data[k]
      <4>1. \A j \in Client : ~enable_active[j]
        BY <1>0, <2>3, <2>5, <3>4 DEF ArbInv, ArbTypes, Client
      <4> QED
        BY <1>0, <1>3, <2>1, <2>2, <2>5, <3>1, <3>2, <3>4, <4>1
           DEF Grants, ArbTypes, Arb!Serve, Arb!WriteDone,
               Arb!WriteRelease, Arb!ReadDone, Arb!ReadRelease, Arb!Release, Arb!Grant, Arb!Accept,
               mem_rw_data
    <3> QED BY <3>3, <3>4
  <2> QED BY <2>4, <2>5
<1> QED BY <1>2, <1>3 DEF Arb!Step, Arb!Client, Client

(* The owner's request stands still, from the edge of the grant on. *)
LEMMA OwnerHeld ==
  ASSUME IInv, Held, NEW k \in Client, Grants(k) \/ Continues(k)
  PROVE  req'[k] = req[k] /\ req[k].valid /\ ~mem_ready_data[k]
<1>1. req[k].valid /\ ~mem_ready_data[k]
  BY DEF IInv, Types, ArbTypes, ArbInv, Grants, Continues
<1> QED BY <1>1 DEF Held, Waiting

(* An edge keeps the arbiter's registers in agreement: one owner at most,  *)
(* which is still asking, and the shim asked for the owner's direction.    *)
LEMMA ArbiterInv ==
  ASSUME IInv, Held, Arb!Step
  PROVE  ArbTypes' /\ ArbInv'
<1>0. ArbTypes /\ ArbInv /\ req \in [Client -> Request] /\ data_rd \in Block
  BY DEF IInv, Types, MC!TypeOK, Block, MC!Block
<1>1. CASE Idles
  BY <1>0, <1>1 DEF Idles, ArbInv, ArbTypes, DirectionMatches, Client
<1>2. ASSUME NEW k \in Client, Grants(k)
      PROVE  ArbTypes' /\ ArbInv'
  <2>1. ArbTypes'
    <3>1. req[k].rw \in BOOLEAN /\ k \in 0 .. N
      BY <1>0 DEF Request, Client
    <3>2. data_wren' \in BOOLEAN /\ data_rden' \in BOOLEAN
      BY <1>2, <3>1, Zenon DEF Grants
    <3> QED BY <1>0, <1>2, <3>1, <3>2 DEF Grants, ArbTypes
  <2>2. req'[k] = req[k] /\ req[k].valid /\ ~mem_ready_data[k] /\ req[k].rw \in BOOLEAN
    BY <1>0, <1>2, OwnerHeld DEF Request
  <2>3. DirectionMatches'
    BY <1>2, <2>2 DEF Grants, DirectionMatches
  <2>4. \A j \in Client : enable_active'[j] => j = k /\ req'[j].valid
    BY <1>0, <1>2, <2>2 DEF Grants, ArbInv, ArbTypes
  <2>5. /\ \A j \in Client : sel' = j <=> enable_active'[j] /\ ~mem_ready_data'[j]
        /\ \A j \in Client : mem_ready_data'[j] => enable_active'[j]
    BY <1>0, <1>2, <2>2 DEF Grants, ArbInv, ArbTypes, Client
  <2>6. (mem_wr_rdy_tmp' <=> sel' = 0) /\ (sel' = 0 => mc_wr_rdy_accept')
    BY <1>0, <1>2 DEF Grants, ArbInv, ArbTypes, Client
  <2> QED BY <2>1, <2>3, <2>4, <2>5, <2>6 DEF ArbInv
<1>3. ASSUME NEW k \in Client, Continues(k)
      PROVE  ArbTypes' /\ ArbInv'
  <2>1. ArbTypes'
    BY <1>0, <1>3 DEF Continues, ArbTypes, Client, Request
  <2>2. req'[k] = req[k] /\ req[k].valid /\ ~mem_ready_data[k] /\ req[k].rw \in BOOLEAN
    BY <1>0, <1>3, OwnerHeld DEF Request
  <2>3. ArbInv'
    BY <1>0, <1>3, <2>2 DEF Continues, ArbInv, ArbTypes, DirectionMatches, Client
  <2> QED BY <2>1, <2>3
<1>4. ASSUME NEW k \in Client, Answers(k)
      PROVE  ArbTypes' /\ ArbInv'
  <2>1. ArbTypes'
    <3>1. mem_data_rd' \in [Client -> Block]
      <4>1. [mem_data_rd EXCEPT ![k] = data_rd] \in [Client -> Block]
        BY <1>0 DEF ArbTypes
      <4>2. mem_data_rd \in [Client -> Block]
        BY <1>0 DEF ArbTypes
      <4> QED BY <1>4, <4>1, <4>2 DEF Answers
    <3>2. sel' \in 0 .. N
      BY <1>4, MemorySystemAssumption DEF MemorySystemAssumption, Answers
    <3>3. mem_ready_data' \in [Client -> BOOLEAN] /\ enable_active' \in [Client -> BOOLEAN]
      BY <1>0, <1>4 DEF Answers, ArbTypes
    <3> QED BY <1>4, <3>1, <3>2, <3>3 DEF Answers, ArbTypes
  <2>2. req'[k] = req[k]
    BY <1>0, <1>4 DEF Held, Waiting, Answers, ArbInv
  <2>3. DirectionMatches'
    BY <1>0, <1>4, <2>2 DEF Answers, ArbInv, ArbTypes, DirectionMatches, Client
  <2>4. \A j \in Client : enable_active'[j] => j = k /\ req'[j].valid
    BY <1>0, <1>4, <2>2 DEF Answers, ArbInv, ArbTypes
  <2>5. /\ \A j \in Client : sel' = j <=> enable_active'[j] /\ ~mem_ready_data'[j]
        /\ \A j \in Client : mem_ready_data'[j] => enable_active'[j]
    BY <1>0, <1>4, <2>2 DEF Answers, ArbInv, ArbTypes, Client
  <2>6. (mem_wr_rdy_tmp' <=> sel' = 0) /\ (sel' = 0 => mc_wr_rdy_accept')
    BY <1>0, <1>4 DEF Answers, ArbInv, ArbTypes, Client
  <2> QED BY <2>1, <2>3, <2>4, <2>5, <2>6 DEF ArbInv
<1>5. ASSUME NEW k \in Client, Releases(k)
      PROVE  ArbTypes' /\ ArbInv'
  <2>1. ArbTypes'
    BY <1>0, <1>5 DEF Releases, ArbTypes, Client
  <2>2. \A j \in Client : enable_active[j] => j = k
    BY <1>0, <1>5 DEF Releases, ArbInv
  <2>3. DirectionMatches'
    BY <1>0, <1>5, <2>2 DEF Releases, ArbInv, ArbTypes, DirectionMatches, Client
  <2>4. \A j \in Client : enable_active'[j] = FALSE
    BY <1>0, <1>5, <2>2 DEF Releases, ArbInv, ArbTypes
  <2>5. /\ \A j \in Client : sel' = j <=> enable_active'[j] /\ ~mem_ready_data'[j]
        /\ \A j \in Client : mem_ready_data'[j] => enable_active'[j]
    BY <1>0, <1>5, <2>4 DEF Releases, ArbInv, ArbTypes, Client
  <2>6. (mem_wr_rdy_tmp' <=> sel' = 0) /\ (sel' = 0 => mc_wr_rdy_accept')
    BY <1>0, <1>5 DEF Releases, ArbInv, ArbTypes, Client
  <2> QED BY <2>1, <2>3, <2>4, <2>5, <2>6 DEF ArbInv
<1> QED BY <1>1, <1>2, <1>3, <1>4, <1>5, ArbiterMoves

-----------------------------------------------------------------------------
(* MIG's edge *)

(* What is on the bus is a place of the DDR2 and a block. *)
LEMMA BusTypes ==
  ASSUME IInv
  PROVE  Place \in DdrAddr /\ Bus!data_wr \in Block
<1>0. req \in [Client -> Request] /\ sel \in 0 .. N /\ ArbInv
  BY DEF IInv, Types, ArbTypes
<1>1. sel # 0 => sel \in Client
  BY <1>0, MemorySystemAssumption DEF Client, MemorySystemAssumption
<1>2. Bus!data_wr \in Block
  <2>1. ZeroBlock \in Block
    BY MemorySystemAssumption DEF MemorySystemAssumption, Block, ZeroBlock
  <2>2. sel # 0 => mem_data_wr[sel] \in Block
    BY <1>0, <1>1 DEF mem_data_wr, Request
  <2> QED BY <2>1, <2>2 DEF Bus!data_wr
<1>3. Bus!temp_addr \in Addr
  <2>1. sel # 0 => mem_data_addr[sel] \in Addr
    BY <1>0, <1>1 DEF mem_data_addr, Request, ArbInv
  <2> QED BY <2>1, MemorySystemAssumption DEF MemorySystemAssumption, Bus!temp_addr
<1>4. Place \in DdrAddr
  BY <1>3 DEF Place, DdrAddr, Bus!data_addr
<1> QED BY <1>2, <1>4

(* The queues with this cycle's pushes. *)
LEMMA Pushed ==
  ASSUME IInv
  PROVE  /\ MIG!afPushed \in Seq(Command)
         /\ Len(MIG!afPushed) = IF app_af_wren THEN Len(af) + 1 ELSE Len(af)
         /\ \A i \in 1 .. Len(af) : MIG!afPushed[i] = af[i]
         /\ app_af_wren =>
              MIG!afPushed[Len(af) + 1] = [cmd |-> app_af_cmd, addr |-> Place]
         /\ MIG!wdfPushed \in Seq(Beat)
         /\ Len(MIG!wdfPushed) = IF app_wdf_wren THEN Len(wdf) + 1 ELSE Len(wdf)
         /\ \A i \in 1 .. Len(wdf) : MIG!wdfPushed[i] = wdf[i]
         /\ app_wdf_wren => MIG!wdfPushed[Len(wdf) + 1] = app_wdf_data
<1>1. /\ af \in Seq(Command) /\ wdf \in Seq(Beat)
      /\ app_af_cmd \in {"write", "read"} /\ app_wdf_data \in Beat
  BY DEF IInv, Types, MigTypes, MC!TypeOK
<1>2. [cmd |-> app_af_cmd, addr |-> Place] \in Command
  BY <1>1, BusTypes DEF Command
<1>3. CASE app_af_wren
  BY <1>1, <1>2, <1>3, AppendProperties DEF MIG!afPushed, MIG!wdfPushed, Place
<1>4. CASE ~app_af_wren
  BY <1>1, <1>4, AppendProperties DEF MIG!afPushed, MIG!wdfPushed
<1> QED BY <1>3, <1>4

(* What an edge of MIG does to the queues: n commands, m beats leave them. *)
AfMoves(n) ==
  /\ af' \in Seq(Command) /\ Len(af') = Len(MIG!afPushed) - n
  /\ \A i \in 1 .. Len(af') : af'[i] = MIG!afPushed[i + n]
WdfMoves(m) ==
  /\ wdf' \in Seq(Beat) /\ Len(wdf') = Len(MIG!wdfPushed) - m
  /\ \A i \in 1 .. Len(wdf') : wdf'[i] = MIG!wdfPushed[i + m]

MigKeeps ==
  /\ AfMoves(0) /\ WdfMoves(0)
  /\ ddr' = ddr /\ rdf' = rdf /\ rd_data_valid' = FALSE
MigWrites ==
  /\ Len(af) > 0 /\ af[1].cmd = "write" /\ Len(wdf) >= 2
  /\ AfMoves(1) /\ WdfMoves(2)
  /\ ddr' = [ddr EXCEPT ![af[1].addr] = << wdf[1], wdf[2] >>]
  /\ rdf' = rdf /\ rd_data_valid' = FALSE
MigReads ==
  /\ Len(af) > 0 /\ af[1].cmd = "read" /\ rdf = << >>
  /\ AfMoves(1) /\ WdfMoves(0)
  /\ ddr' = ddr /\ rdf' = ddr[af[1].addr] /\ rd_data_valid' = FALSE
MigDelivers ==
  /\ AfMoves(0) /\ WdfMoves(0)
  /\ ddr' = ddr /\ rdf # << >> /\ rdf' = Tail(rdf)
  /\ rd_data_valid' = TRUE /\ rd_data_fifo_out' = Head(rdf)

(* At an edge MIG keeps what it has, or executes its oldest command, a     *)
(* write with its two beats or a read, or delivers a beat; what the shim   *)
(* sends is appended.                                                      *)
LEMMA MigMoves ==
  ASSUME IInv, MIG!Step
  PROVE  /\ MigKeeps \/ MigWrites \/ MigReads \/ MigDelivers
         /\ phy_init_done' \in BOOLEAN /\ (phy_init_done => phy_init_done')
         /\ rd_data_fifo_out' \in Beat
<1>0. /\ af \in Seq(Command) /\ wdf \in Seq(Beat) /\ rdf \in Seq(Beat)
      /\ phy_init_done \in BOOLEAN /\ rd_data_fifo_out \in Beat
  BY DEF IInv, Types, MigTypes
<1>1. ASSUME af' = MIG!afPushed
      PROVE  AfMoves(0)
  BY <1>1, Pushed DEF AfMoves
<1>2. ASSUME wdf' = MIG!wdfPushed
      PROVE  WdfMoves(0)
  BY <1>2, Pushed DEF WdfMoves
<1>3. ASSUME af # << >>, af' = Tail(MIG!afPushed)
      PROVE  AfMoves(1) /\ Len(af) > 0 /\ Head(af) = af[1]
  <2>1. Len(af) > 0 /\ MIG!afPushed # << >>
    BY <1>0, <1>3, Pushed, EmptySeq
  <2>2. /\ Tail(MIG!afPushed) \in Seq(Command)
        /\ Len(Tail(MIG!afPushed)) = Len(MIG!afPushed) - 1
        /\ \A i \in 1 .. Len(Tail(MIG!afPushed)) :
             Tail(MIG!afPushed)[i] = MIG!afPushed[i + 1]
    BY <2>1, Pushed, HeadTailProperties
  <2> QED BY <1>0, <1>3, <2>1, <2>2 DEF AfMoves
<1>4. ASSUME Len(wdf) >= 2, wdf' = SubSeq(MIG!wdfPushed, 3, Len(MIG!wdfPushed))
      PROVE  WdfMoves(2)
  <2> DEFINE n == Len(MIG!wdfPushed)
             r == SubSeq(MIG!wdfPushed, 3, n)
  <2>1. n \in Nat /\ n >= 2 /\ \A i \in 3 .. n : MIG!wdfPushed[i] \in Beat
    BY <1>0, <1>4, Pushed, ElementOfSeq
  <2>2. /\ r \in Seq(Beat) /\ Len(r) = IF 3 <= n THEN n - 3 + 1 ELSE 0
        /\ \A i \in 1 .. n - 3 + 1 : r[i] = MIG!wdfPushed[3 + i - 1]
    <3> HIDE DEF n
    <3> QED BY <2>1, SubSeqProperties
  <2>3. Len(r) = n - 2 /\ \A i \in 1 .. n - 2 : r[i] = MIG!wdfPushed[i + 2]
    <3> HIDE DEF n, r
    <3>1. Len(r) = n - 2
      BY <2>1, <2>2
    <3>2. ASSUME NEW i \in 1 .. n - 2
          PROVE  r[i] = MIG!wdfPushed[i + 2]
      <4>1. 3 + i - 1 = i + 2 /\ i \in 1 .. n - 3 + 1
        BY <2>1, <3>2
      <4> QED BY <2>2, <4>1
    <3> QED BY <3>1, <3>2
  <2> QED BY <1>4, <2>2, <2>3 DEF WdfMoves
<1>5. CASE MIG!Idle
  BY <1>0, <1>1, <1>2, <1>5 DEF MIG!Idle, MIG!Wait, MIG!NoDelivery, MigKeeps
<1>6. CASE MIG!Deliver
  BY <1>0, <1>1, <1>2, <1>6, HeadTailProperties DEF MIG!Deliver, MigDelivers
<1>7. CASE MIG!Calibrate /\ MIG!NoDelivery
  <2>1. ~app_af_wren /\ ~app_wdf_wren
    BY <1>7 DEF IInv, CtlInv, StageInv, QuietInv, AtRest, NoWrite, NoRead, WriteStage,
                WriteBegins, WriteEnds, WriteStuck, WriteWaits, WriteOver, ReadStage,
                ReadBegins, ReadQueued, ReadExecuted, MIG!Calibrate
  <2>2. af' = MIG!afPushed /\ wdf' = MIG!wdfPushed
    BY <1>7, <2>1 DEF MIG!Calibrate, MIG!queues, MIG!afPushed, MIG!wdfPushed
  <2> QED
    BY <1>0, <1>1, <1>2, <1>7, <2>2
       DEF MIG!Calibrate, MIG!NoDelivery, MIG!queues, MigKeeps
<1>8. CASE MIG!Write /\ MIG!NoDelivery
  BY <1>0, <1>3, <1>4, <1>8 DEF MIG!Write, MIG!NoDelivery, MigWrites
<1>9. CASE MIG!Read /\ MIG!NoDelivery
  BY <1>0, <1>2, <1>3, <1>9 DEF MIG!Read, MIG!NoDelivery, MigReads
<1> QED
  BY <1>5, <1>6, <1>7, <1>8, <1>9 DEF MIG!Step, MIG!Busy, MIG!Execute

(* A block is the sequence of its two beats. *)
LEMMA BlockBeats ==
  ASSUME NEW b \in Block
  PROVE  b = << b[1], b[2] >> /\ b[1] \in Beat /\ b[2] \in Beat /\ b \in Seq(Beat)
<1>1. b = << b[1], b[2] >> /\ b[1] \in Beat /\ b[2] \in Beat
  BY DEF Block
<1>2. << b[1], b[2] >> \in Seq(Beat)
  BY <1>1
<1> QED BY <1>1, <1>2

(* MIG's queues hold commands and beats, and its array holds blocks. *)
LEMMA MigTyped ==
  ASSUME IInv, MIG!Step
  PROVE  MigTypes'
<1>0. /\ ddr \in [DdrAddr -> Block] /\ wdf \in Seq(Beat) /\ rdf \in Seq(Beat)
      /\ af \in Seq(Command)
  BY DEF IInv, Types, MigTypes
<1>1. af' \in Seq(Command) /\ wdf' \in Seq(Beat)
  BY MigMoves DEF MigKeeps, MigWrites, MigReads, MigDelivers, AfMoves, WdfMoves
<1>2. rd_data_valid' \in BOOLEAN
  BY MigMoves DEF MigKeeps, MigWrites, MigReads, MigDelivers
<1>3. ddr' \in [DdrAddr -> Block]
  <2>1. ASSUME Len(wdf) >= 2
        PROVE  << wdf[1], wdf[2] >> \in Block
    <3>1. 1 \in 1 .. Len(wdf) /\ 2 \in 1 .. Len(wdf)
      BY <1>0, <2>1, LenProperties
    <3>2. wdf[1] \in Beat /\ wdf[2] \in Beat
      BY <1>0, <3>1, ElementOfSeq
    <3> QED BY <3>2 DEF Block
  <2> QED BY <1>0, <2>1, MigMoves DEF MigKeeps, MigWrites, MigReads, MigDelivers
<1>4. rdf' \in Seq(Beat)
  <2>1. CASE MigReads
    <3>1. af[1].addr \in DdrAddr
      <4>1. 1 \in 1 .. Len(af)
        BY <1>0, <2>1, LenProperties DEF MigReads
      <4>2. af[1] \in Command
        BY <1>0, <4>1, ElementOfSeq
      <4> QED BY <4>2 DEF Command
    <3>2. ddr[af[1].addr] \in Beat \X Beat
      BY <1>0, <3>1 DEF Block
    <3>3. ddr[af[1].addr] \in Seq(Beat)
      BY <3>2, BlockBeats DEF Block
    <3> QED BY <2>1, <3>3 DEF MigReads
  <2>2. CASE MigDelivers
    BY <1>0, <2>2, HeadTailProperties DEF MigDelivers
  <2> QED BY <1>0, <2>1, <2>2, MigMoves DEF MigKeeps, MigWrites
<1> QED BY <1>1, <1>2, <1>3, <1>4, MigMoves DEF MigTypes

(* The queues after the edge, in terms of those before it. *)
LEMMA AfAfter ==
  ASSUME IInv, MIG!Step, NEW n \in {0, 1}, AfMoves(n), n <= Len(af)
  PROVE  /\ Len(af) \in Nat /\ Len(af') \in Nat /\ af' \in Seq(Command)
         /\ app_af_wren => Len(af') = Len(af) + 1 - n
         /\ ~app_af_wren => Len(af') = Len(af) - n
         /\ \A i \in 1 .. Len(af) - n : af'[i] = af[i + n]
         /\ app_af_wren => af'[Len(af')] = [cmd |-> app_af_cmd, addr |-> Place]
<1>1. Len(af) \in Nat /\ Len(af') \in Nat /\ af' \in Seq(Command)
  BY MigTyped, LenProperties DEF IInv, Types, MigTypes
<1>2. /\ app_af_wren => Len(af') = Len(af) + 1 - n
      /\ ~app_af_wren => Len(af') = Len(af) - n
  BY <1>1, Pushed DEF AfMoves
<1>3. ASSUME NEW i \in 1 .. Len(af) - n
      PROVE  af'[i] = af[i + n]
  <2>1. i \in 1 .. Len(af') /\ i + n \in 1 .. Len(af)
    BY <1>1, <1>2
  <2> QED BY <2>1, Pushed DEF AfMoves
<1>4. ASSUME app_af_wren
      PROVE  af'[Len(af')] = [cmd |-> app_af_cmd, addr |-> Place]
  <2>1. Len(af') \in 1 .. Len(af') /\ Len(af') + n = Len(af) + 1
    BY <1>1, <1>2, <1>4
  <2> QED BY <1>4, <2>1, Pushed DEF AfMoves
<1> QED BY <1>1, <1>2, <1>3, <1>4

(* The queue of write beats after an edge that takes m of them: the rest   *)
(* moves up, and the shim's beat is the last.                              *)
LEMMA WdfAfter ==
  ASSUME IInv, MIG!Step, NEW m \in {0, 2}, WdfMoves(m), m <= Len(wdf)
  PROVE  /\ Len(wdf) \in Nat /\ Len(wdf') \in Nat /\ wdf' \in Seq(Beat)
         /\ app_wdf_wren => Len(wdf') = Len(wdf) + 1 - m
         /\ ~app_wdf_wren => Len(wdf') = Len(wdf) - m
         /\ \A i \in 1 .. Len(wdf) - m : wdf'[i] = wdf[i + m]
         /\ app_wdf_wren => wdf'[Len(wdf')] = app_wdf_data
<1>1. Len(wdf) \in Nat /\ Len(wdf') \in Nat /\ wdf' \in Seq(Beat)
  BY MigTyped, LenProperties DEF IInv, Types, MigTypes
<1>2. /\ app_wdf_wren => Len(wdf') = Len(wdf) + 1 - m
      /\ ~app_wdf_wren => Len(wdf') = Len(wdf) - m
  BY <1>1, Pushed DEF WdfMoves
<1>3. ASSUME NEW i \in 1 .. Len(wdf) - m
      PROVE  wdf'[i] = wdf[i + m]
  <2>1. i \in 1 .. Len(wdf') /\ i + m \in 1 .. Len(wdf)
    BY <1>1, <1>2
  <2> QED BY <2>1, Pushed DEF WdfMoves
<1>4. ASSUME app_wdf_wren
      PROVE  wdf'[Len(wdf')] = app_wdf_data
  <2>1. Len(wdf') \in 1 .. Len(wdf') /\ Len(wdf') + m = Len(wdf) + 1
    BY <1>1, <1>2, <1>4
  <2> QED BY <1>4, <2>1, Pushed DEF WdfMoves
<1> QED BY <1>1, <1>2, <1>3, <1>4

-----------------------------------------------------------------------------
(* The shim's edge *)

(* The registers of data_rd_wr.v keep their widths. *)
LEMMA ShimTyped ==
  ASSUME IInv, MC!Step
  PROVE  MC!TypeOK'
<1>0. MC!TypeOK /\ data_rd \in Block /\ rd_data_fifo_out \in Beat
  BY DEF IInv, Types, MC!TypeOK, MigTypes, Block, MC!Block
<1>1. app_af_cmd' \in {"write", "read"}
  BY <1>0 DEF MC!Step, MC!Command, MC!TypeOK
<1>2. app_wdf_data' \in Beat
  BY <1>0, BusTypes DEF MC!Step, MC!WriteBeats, MC!TypeOK, Block
<1>3. app_af_wren' \in BOOLEAN
  BY Zenon DEF MC!Step, MC!Issue
<1>4. addr_change_wr' \in BOOLEAN
  BY Zenon DEF MC!Step, MC!Issue
<1>5. addr_change_rd' \in BOOLEAN
  BY Zenon DEF MC!Step, MC!Issue
<1>6. app_wdf_wren' \in BOOLEAN /\ new_data_wr' \in BOOLEAN /\ data_rdy' \in BOOLEAN
  BY <1>0 DEF MC!Step, MC!WriteBeats, MC!TypeOK
<1>7. data_sent' \in BOOLEAN
  BY Zenon DEF MC!Step, MC!WriteAnswer, MC!WaitOver
<1>8. counter_wait' \in 0 .. 31
  BY <1>0 DEF MC!Step, MC!WriteAnswer, MC!TypeOK
<1>9. new_data_rd' \in BOOLEAN
  BY Zenon DEF MC!Step, MC!ReadBeats
<1>10. read_data_end' \in BOOLEAN
  BY Zenon DEF MC!Step, MC!ReadBeats
<1>11. mc_rd_valid' \in BOOLEAN
  BY <1>0, Zenon DEF MC!Step, MC!ReadAnswer, MC!TypeOK
<1>12. mig_data_out' \in Block
  BY <1>0 DEF MC!Step, MC!ReadBeats, MC!TypeOK, Block, MC!Block
<1>13. data_rd' \in Block
  BY <1>0 DEF MC!Step, MC!ReadAnswer, MC!TypeOK, Block, MC!Block
<1> QED
  BY <1>1, <1>2, <1>3, <1>4, <1>5, <1>6, <1>7, <1>8, <1>9, <1>10, <1>11, <1>12, <1>13
     DEF MC!TypeOK, Block, MC!Block

(* The halves of the shim that read and write, at rest. *)
ReaderRests == ~addr_change_rd /\ ~new_data_rd /\ ~read_data_end /\ ~mc_rd_valid
WriterRests == NoWrite /\ counter_wait = 0

(* Without a read on the bus the half of the shim that reads stays at      *)
(* rest, and a command it sends is a write.                                *)
LEMMA ReaderStaysAtRest ==
  ASSUME IInv, MC!Step, NoRead, sel # 0 => req[sel].rw
  PROVE  /\ ReaderRests' /\ (app_af_wren' <=> MC!IssueWrite)
         /\ app_af_wren' => app_af_cmd' = "write"
<1>1. ~data_rden
  BY DEF IInv, Types, ArbTypes, ArbInv, DirectionMatches, Client
<1>2. ~MC!IssueRead /\ ~MC!HoldRead
  BY <1>1 DEF MC!IssueRead, MC!HoldRead
<1>3. app_af_wren' <=> MC!IssueWrite
  BY <1>2 DEF MC!Step, MC!Issue
<1>4. ~addr_change_rd'
  BY <1>2 DEF MC!Step, MC!Issue, NoRead
<1>5. ~new_data_rd' /\ ~read_data_end'
  <2>1. new_data_rd = FALSE /\ rd_data_valid = FALSE
    BY DEF IInv, Types, MC!TypeOK, MigTypes, NoRead, NoBeats
  <2> QED BY <2>1 DEF MC!Step, MC!ReadBeats
<1>6. ~mc_rd_valid'
  BY DEF MC!Step, MC!ReadAnswer, NoRead, NoBeats
<1>7. MC!IssueWrite => app_af_cmd' = "write"
  BY DEF MC!Step, MC!Command, MC!IssueWrite
<1> QED BY <1>3, <1>4, <1>5, <1>6, <1>7 DEF ReaderRests

(* Without a write on the bus the half of the shim that writes stays at    *)
(* rest, and a command it sends is a read.                                 *)
LEMMA WriterStaysAtRest ==
  ASSUME IInv, MC!Step, NoWrite, sel # 0 => ~req[sel].rw
  PROVE  /\ WriterRests' /\ (app_af_wren' <=> MC!IssueRead)
         /\ app_af_wren' => app_af_cmd' = "read"
<1>1. ~data_wren
  BY DEF IInv, Types, ArbTypes, ArbInv, DirectionMatches, Client
<1>2. ~MC!IssueWrite /\ ~MC!HoldWrite /\ ~MC!mc_wr_rdy
  BY <1>1 DEF MC!IssueWrite, MC!HoldWrite, MC!mc_wr_rdy, NoWrite
<1>3. app_af_wren' <=> MC!IssueRead
  BY <1>2 DEF MC!Step, MC!Issue, MC!ReadTurn
<1>4. ~addr_change_wr'
  BY <1>2 DEF MC!Step, MC!Issue, NoWrite
<1>5. counter_wait = 0 /\ ~MC!WaitOver
  BY MemorySystemAssumption
     DEF MemorySystemAssumption, IInv, CtlInv, CounterInv, NoWrite, MC!WaitOver
<1>6. ~app_wdf_wren' /\ ~new_data_wr' /\ ~data_rdy'
  BY <1>1, <1>2, <1>5 DEF MC!Step, MC!WriteBeats, MC!FirstBeat, MC!SecondBeat, NoWrite
<1>7. ~data_sent' /\ counter_wait' = 0
  BY <1>5 DEF MC!Step, MC!WriteAnswer, NoWrite
<1>8. MC!IssueRead => app_af_cmd' = "read"
  BY <1>1 DEF MC!Step, MC!Command, MC!IssueRead
<1> QED BY <1>3, <1>4, <1>6, <1>7, <1>8 DEF WriterRests, NoWrite

(* Between accesses the shim rests. *)
LEMMA ShimStaysAtRest ==
  ASSUME IInv, MC!Step, sel = 0
  PROVE  ReaderRests' /\ WriterRests' /\ app_af_wren' = FALSE
<1>1. NoRead /\ NoWrite
  BY DEF IInv, CtlInv, StageInv, AtRest
<1>2. ~data_wren
  BY DEF IInv, ArbInv, DirectionMatches, Client
<1> QED
  BY <1>1, <1>2, ReaderStaysAtRest, WriterStaysAtRest, ShimTyped
     DEF MC!IssueWrite, MC!TypeOK

(* While an access continues, the bus carries the same address and block.  *)
LEMMA BusHeld ==
  ASSUME IInv, Held, NEW k \in Client, Continues(k)
  PROVE  /\ sel' = sel /\ sel # 0 /\ req'[sel] = req[sel]
         /\ Place' = Place /\ Bus!data_wr' = Bus!data_wr
<1>0. req'[k] = req[k]
  BY OwnerHeld
<1>1. sel' = k /\ sel = k /\ k # 0 /\ req'[k] = req[k]
  BY <1>0 DEF Continues, Client
<1>2. mem_data_wr'[k] = mem_data_wr[k] /\ mem_data_addr'[k] = mem_data_addr[k]
  BY <1>1 DEF mem_data_wr, mem_data_addr
<1> QED
  BY <1>1, <1>2 DEF Place, Bus!data_wr, Bus!data_addr, Bus!temp_addr, Bus!DdrAddrOf

(* The stages a write goes through. *)
LEMMA WriteContinues ==
  ASSUME IInv, Held, MC!Step, NEW k \in Client, Continues(k), req[k].rw
  PROVE  /\ ReaderRests' /\ CounterInv'
         /\ \/ NoWrite /\ NoWrite' /\ ~app_af_wren'
            \/ NoWrite /\ WriteBegins' /\ phy_init_done
            \/ WriteBegins /\ (WriteEnds' \/ WriteStuck')
            \/ WriteEnds /\ WriteWaits'
            \/ WriteStuck /\ WriteStuck'
            \/ WriteWaits /\ (WriteWaits' \/ WriteOver')
            \/ WriteOver /\ WriteOver'
<1>0. /\ NoRead /\ WriteStage /\ CounterInv /\ sel = k /\ MC!TypeOK /\ ~MC!mc_wr_rdy
      /\ Bus!data_wr' = Bus!data_wr
  BY BusHeld DEF IInv, Types, CtlInv, StageInv, Continues, Finishes, Client, AtRest
<1>1. /\ ReaderRests' /\ (app_af_wren' <=> MC!IssueWrite)
      /\ app_af_wren' => app_af_cmd' = "write"
  BY <1>0, ReaderStaysAtRest
<1>2. data_wren /\ ~data_rden
  BY <1>0 DEF IInv, ArbInv, DirectionMatches, Client
<1>3. WriteCycleDelay \in 1 .. 30
  BY MemorySystemAssumption DEF MemorySystemAssumption
<1>4. addr_change_wr' <=> MC!IssueWrite \/ addr_change_wr
  BY <1>0 DEF MC!Step, MC!Issue
<1>5. addr_change_wr => phy_init_done /\ ~MC!IssueWrite /\ ~MC!FirstBeat
  BY DEF IInv, CtlInv, QuietInv, MC!IssueWrite, MC!FirstBeat
<1>6. CASE NoWrite /\ ~app_af_wren
  <2>1. counter_wait = 0
    BY <1>0, <1>6 DEF CounterInv, NoWrite
  <2>0. ~MC!WaitOver
    BY <1>3, <2>1 DEF MC!WaitOver
  <2>2. counter_wait' = 0 /\ ~data_sent'
    BY <1>0, <1>3, <1>6, <2>1, <2>0 DEF MC!Step, MC!WriteAnswer, NoWrite
  <2>3. CASE MC!IssueWrite
    <3>1. MC!FirstBeat
      BY <1>6, <2>3 DEF MC!FirstBeat, NoWrite
    <3>2. /\ app_wdf_data' = Bus!data_wr[1] /\ app_wdf_wren' /\ new_data_wr' /\ ~data_rdy'
      BY <1>6, <3>1 DEF MC!Step, MC!WriteBeats, MC!SecondBeat, NoWrite
    <3> QED
      BY <1>0, <1>1, <1>4, <1>6, <2>2, <2>3, <3>2
         DEF WriteBegins, CounterInv, MC!IssueWrite
  <2>4. CASE ~MC!IssueWrite
    <3>1. ~app_wdf_wren' /\ ~new_data_wr' /\ ~data_rdy'
      BY <1>3, <1>6, <2>1, <2>4
         DEF MC!Step, MC!WriteBeats, MC!FirstBeat, MC!SecondBeat, MC!WaitOver, NoWrite
    <3> QED BY <1>1, <1>4, <1>6, <2>2, <2>4, <3>1 DEF NoWrite, CounterInv
  <2> QED BY <2>3, <2>4
<1>7. CASE WriteBegins
  <2>1. counter_wait = 0
    BY <1>0, <1>7 DEF CounterInv, WriteBegins
  <2>0. ~MC!WaitOver
    BY <1>3, <2>1 DEF MC!WaitOver
  <2>2. counter_wait' = 0 /\ ~data_sent'
    BY <1>0, <1>3, <1>7, <2>1, <2>0 DEF MC!Step, MC!WriteAnswer, WriteBegins
  <2>3. CASE MC!SecondBeat
    <3>1. app_wdf_wren' /\ new_data_wr' /\ data_rdy' /\ app_wdf_data' = Bus!data_wr[2]
      BY <1>5, <1>7, <2>3 DEF MC!Step, MC!WriteBeats, WriteBegins
    <3> QED
      BY <1>0, <1>1, <1>3, <1>4, <1>5, <1>7, <2>2, <3>1
         DEF WriteBegins, WriteEnds, CounterInv
  <2>4. CASE ~MC!SecondBeat
    <3>1. ~app_wdf_wren' /\ new_data_wr' /\ ~data_rdy'
      <4>1. ~MC!FirstBeat /\ new_data_wr /\ ~data_rdy
        BY <1>5, <1>7 DEF WriteBegins
      <4>2. UNCHANGED << new_data_wr, data_rdy >> /\ app_wdf_wren' = FALSE
        BY <2>0, <2>4, <4>1 DEF MC!Step, MC!WriteBeats
      <4> QED BY <4>1, <4>2
    <3> QED BY <1>1, <1>4, <1>5, <1>7, <2>2, <3>1 DEF WriteBegins, WriteStuck, CounterInv
  <2> QED BY <2>3, <2>4
<1>8. CASE WriteEnds
  <2>1. counter_wait = 0
    BY <1>0, <1>8 DEF CounterInv, WriteEnds
  <2>0. ~MC!WaitOver
    BY <1>3, <2>1 DEF MC!WaitOver
  <2>2. counter_wait' = 1 /\ ~data_sent'
    BY <1>0, <1>3, <1>8, <2>1, <2>0 DEF MC!Step, MC!WriteAnswer, WriteEnds
  <2>3. ~app_wdf_wren' /\ new_data_wr' /\ data_rdy'
    BY <1>5, <1>8 DEF MC!Step, MC!WriteBeats, MC!SecondBeat, MC!EndBeats, WriteEnds
  <2> QED
    BY <1>1, <1>3, <1>4, <1>5, <1>8, <2>2, <2>3 DEF WriteEnds, WriteWaits, CounterInv
<1>9. CASE WriteStuck
  <2>1. counter_wait = 0
    BY <1>0, <1>9 DEF CounterInv, WriteStuck
  <2>0. ~MC!WaitOver
    BY <1>3, <2>1 DEF MC!WaitOver
  <2>2. counter_wait' = 0 /\ ~data_sent'
    BY <1>0, <1>3, <1>9, <2>1, <2>0 DEF MC!Step, MC!WriteAnswer, WriteStuck
  <2>3. ~app_wdf_wren' /\ new_data_wr' /\ ~data_rdy'
    <3>1. ~MC!FirstBeat /\ ~MC!SecondBeat /\ new_data_wr /\ ~data_rdy
      BY <1>5, <1>9 DEF MC!SecondBeat, WriteStuck
    <3>2. UNCHANGED << new_data_wr, data_rdy >> /\ app_wdf_wren' = FALSE
      BY <2>0, <3>1 DEF MC!Step, MC!WriteBeats
    <3> QED BY <3>1, <3>2
  <2> QED
    BY <1>1, <1>4, <1>5, <1>9, <2>2, <2>3 DEF WriteStuck, CounterInv
<1>10. CASE WriteWaits
  <2>1. counter_wait \in 1 .. WriteCycleDelay
    BY <1>0, <1>3, <1>10 DEF CounterInv, WriteWaits
  <2>2. counter_wait' = counter_wait + 1 /\ (data_sent' <=> MC!WaitOver)
    BY <1>3, <1>10, <2>1 DEF MC!Step, MC!WriteAnswer, WriteWaits
  <2>3. /\ ~app_wdf_wren'
        /\ IF MC!WaitOver THEN ~new_data_wr' /\ ~data_rdy' ELSE new_data_wr' /\ data_rdy'
    <3>1. /\ ~MC!FirstBeat /\ ~MC!SecondBeat /\ ~MC!EndBeats
          /\ new_data_wr /\ data_rdy /\ ~app_wdf_wren
      BY <1>5, <1>10 DEF MC!SecondBeat, MC!EndBeats, WriteWaits
    <3>2. IF MC!WaitOver
          THEN app_wdf_wren' = app_wdf_wren /\ new_data_wr' = FALSE /\ data_rdy' = FALSE
          ELSE UNCHANGED << new_data_wr, data_rdy >> /\ app_wdf_wren' = FALSE
      BY <3>1 DEF MC!Step, MC!WriteBeats
    <3> QED BY <3>1, <3>2
  <2>4. CASE MC!WaitOver
    BY <1>1, <1>3, <1>4, <1>5, <1>10, <2>1, <2>2, <2>3, <2>4
       DEF WriteWaits, WriteOver, CounterInv, MC!WaitOver
  <2>5. CASE ~MC!WaitOver
    BY <1>1, <1>3, <1>4, <1>5, <1>10, <2>1, <2>2, <2>3, <2>5
       DEF WriteWaits, CounterInv, MC!WaitOver
  <2> QED BY <2>4, <2>5
<1>11. CASE WriteOver
  <2>1. ~MC!WaitOver
    BY <1>0, <1>3, <1>11 DEF CounterInv, WriteOver, MC!WaitOver
  <2>2. counter_wait' = 0 /\ ~data_sent'
    BY <1>11, <2>1 DEF MC!Step, MC!WriteAnswer, WriteOver
  <2>3. ~app_wdf_wren' /\ ~new_data_wr' /\ ~data_rdy'
    BY <1>5, <1>11, <2>1 DEF MC!Step, MC!WriteBeats, MC!SecondBeat, WriteOver
  <2> QED
    BY <1>1, <1>4, <1>5, <1>11, <2>2, <2>3 DEF WriteOver, CounterInv
<1> QED BY <1>0, <1>1, <1>6, <1>7, <1>8, <1>9, <1>10, <1>11 DEF WriteStage

(* ... and leaves when it is answered. *)
LEMMA WriteLeaves ==
  ASSUME IInv, MC!Step, NEW k \in Client, Answers(k), req[k].rw
  PROVE  WriteOver /\ NoRead /\ ReaderRests' /\ WriterRests' /\ app_af_wren' = FALSE
<1>0. /\ NoRead /\ WriteStage /\ CounterInv /\ sel = k /\ MC!TypeOK /\ MC!mc_wr_rdy
      /\ data_sent
  BY DEF IInv, Types, CtlInv, StageInv, Answers, Finishes, Client, AtRest, MC!mc_wr_rdy
<1>1. WriteOver
  BY <1>0 DEF WriteStage, NoWrite, WriteBegins, WriteEnds, WriteStuck, WriteWaits, CounterInv
<1>2. WriteCycleDelay \in 1 .. 30 /\ counter_wait = WriteCycleDelay + 1
  BY <1>0, <1>1, MemorySystemAssumption DEF MemorySystemAssumption, CounterInv, WriteOver
<1>3. /\ ReaderRests' /\ (app_af_wren' <=> MC!IssueWrite) /\ app_af_wren' \in BOOLEAN
  BY <1>0, ReaderStaysAtRest, ShimTyped DEF MC!TypeOK
<1>4. ~MC!IssueWrite /\ ~MC!HoldWrite
  BY <1>1 DEF MC!IssueWrite, MC!HoldWrite, WriteOver
<1>5. ~addr_change_wr'
  BY <1>0, <1>4 DEF MC!Step, MC!Issue
<1>6. ~MC!WaitOver
  BY <1>2 DEF MC!WaitOver
<1>7. ~data_sent' /\ counter_wait' = 0
  BY <1>1, <1>6 DEF MC!Step, MC!WriteAnswer, WriteOver
<1>8. ~app_wdf_wren' /\ ~new_data_wr' /\ ~data_rdy'
  BY <1>1, <1>4, <1>6 DEF MC!Step, MC!WriteBeats, MC!FirstBeat, MC!SecondBeat, WriteOver
<1> QED BY <1>0, <1>1, <1>3, <1>4, <1>5, <1>7, <1>8 DEF WriterRests, NoWrite

(* The shim while a read goes on: it keeps to the command, and collects    *)
(* the beats MIG delivers.                                                 *)
LEMMA ShimReads ==
  ASSUME IInv, MC!Step, NEW k \in Client, sel = k, ~req[k].rw
  PROVE  /\ WriterRests' /\ (app_af_wren' <=> MC!IssueRead)
         /\ app_af_wren' => app_af_cmd' = "read"
         /\ ReadStage /\ NoWrite
         /\ ~mc_rd_valid => (addr_change_rd' <=> MC!IssueRead \/ addr_change_rd)
         /\ mc_rd_valid => ~addr_change_rd'
         /\ (mc_rd_valid' <=> read_data_end)
         /\ read_data_end => data_rd' = mig_data_out
<1>0. /\ ReadStage /\ NoWrite /\ k # 0 /\ MC!TypeOK /\ data_wren = FALSE /\ data_rden
  BY DEF IInv, Types, ArbTypes, CtlInv, StageInv, AtRest, Client, ArbInv, DirectionMatches
<1>1. /\ WriterRests' /\ (app_af_wren' <=> MC!IssueRead)
      /\ app_af_wren' => app_af_cmd' = "read"
  BY <1>0, WriterStaysAtRest
<1>2. MC!ReadTurn
  BY <1>0 DEF MC!ReadTurn, MC!IssueWrite, MC!HoldWrite, MC!mc_wr_rdy, NoWrite
<1>3. addr_change_rd' <=> MC!IssueRead \/ (addr_change_rd /\ ~MC!RearmRead)
  BY <1>2 DEF MC!Step, MC!Issue
<1>4. ~mc_rd_valid => (addr_change_rd' <=> MC!IssueRead \/ addr_change_rd)
  BY <1>3 DEF MC!RearmRead
<1>5. mc_rd_valid => addr_change_rd /\ ~app_af_wren
  BY <1>0 DEF ReadStage, NoRead, NoBeats, ReadBegins, ReadQueued, ReadExecuted
<1>6. mc_rd_valid => ~addr_change_rd'
  BY <1>2, <1>3, <1>5 DEF MC!RearmRead, MC!IssueRead, MC!HoldRead
<1>7. read_data_end => phy_init_done
  <2>1. read_data_end => addr_change_rd
    BY <1>0 DEF ReadStage, NoRead, NoBeats, ReadBegins, ReadQueued, ReadExecuted
  <2> QED BY <2>1 DEF IInv, CtlInv, QuietInv
<1>8. (mc_rd_valid' <=> read_data_end) /\ (read_data_end => data_rd' = mig_data_out)
  BY <1>0, <1>7 DEF MC!Step, MC!ReadAnswer
<1> QED BY <1>0, <1>1, <1>4, <1>6, <1>8

(* The beats, as the shim collects them. *)
LEMMA ShimCollects ==
  ASSUME IInv, MC!Step
  PROVE  /\ ~rd_data_valid => (new_data_rd' <=> new_data_rd) /\ ~read_data_end'
                              /\ mig_data_out' = mig_data_out
         /\ rd_data_valid /\ af = << >> /\ ~new_data_rd =>
              new_data_rd' /\ ~read_data_end' /\ mig_data_out'[1] = rd_data_fifo_out
         /\ rd_data_valid /\ af = << >> /\ new_data_rd =>
              /\ ~new_data_rd' /\ read_data_end'
              /\ mig_data_out' = << mig_data_out[1], rd_data_fifo_out >>
<1>0. new_data_rd \in BOOLEAN /\ rd_data_valid \in BOOLEAN
  BY DEF IInv, Types, MC!TypeOK, MigTypes
<1>1. CASE rd_data_valid = FALSE
  BY <1>0, <1>1 DEF MC!Step, MC!ReadBeats
<1>2. CASE rd_data_valid = TRUE /\ af = << >>
  <2>1. MC!mig_data_rd = TRUE
    <3>1. Len(af) = 0 /\ AFull \in Nat \ {0}
      BY <1>2, MemorySystemAssumption DEF MemorySystemAssumption
    <3> QED BY <3>1 DEF MC!mig_data_rd, MIG!app_af_afull
  <2>2. CASE new_data_rd = FALSE
    BY <1>2, <2>1, <2>2 DEF MC!Step, MC!ReadBeats
  <2>3. CASE new_data_rd = TRUE
    BY <1>2, <2>1, <2>3 DEF MC!Step, MC!ReadBeats
  <2> QED BY <1>0, <1>2, <2>2, <2>3
<1> QED BY <1>0, <1>1, <1>2

-----------------------------------------------------------------------------
(* Shim and MIG together *)

(* While MIG's queue holds nothing but writes, it executes writes, and the *)
(* command that is pushed goes behind them.                                *)
WritesLeft ==
  /\ rdf' = << >> /\ ~rd_data_valid'
  /\ \A i \in 1 .. Len(af') : i < Len(af') \/ ~app_af_wren => af'[i].cmd = "write"
  /\ app_af_wren => Len(af') > 0 /\ af'[Len(af')] = [cmd |-> app_af_cmd, addr |-> Place]

(* While MIG has nothing but writes, an edge leaves only writes and no     *)
(* beat of a read; a write leaves the queues with both of its beats.       *)
LEMMA WritesOnly ==
  ASSUME IInv, MIG!Step, rdf = << >>, OnlyWrites
  PROVE  /\ WritesLeft
         /\ \/ AfMoves(0) /\ WdfMoves(0)
            \/ AfMoves(1) /\ WdfMoves(2) /\ Len(af) > 0 /\ Len(wdf) >= 2
<1>0. af \in Seq(Command) /\ Len(af) \in Nat
  BY LenProperties DEF IInv, Types, MigTypes
<1>1. ~MigReads
  BY <1>0 DEF OnlyWrites, MigReads
<1>2. ~MigDelivers
  BY DEF MigDelivers
<1>3. PICK n \in {0, 1} : AfMoves(n) /\ n <= Len(af)
  <2>1. AfMoves(0) \/ (AfMoves(1) /\ Len(af) > 0)
    BY <1>1, <1>2, MigMoves DEF MigKeeps, MigWrites
  <2> HIDE DEF AfMoves
  <2>2. CASE AfMoves(0)
    <3>1. 0 \in {0, 1} /\ 0 <= Len(af)
      BY <1>0
    <3> QED BY <2>2, <3>1
  <2>3. CASE AfMoves(1) /\ Len(af) > 0
    <3>1. 1 \in {0, 1} /\ 1 <= Len(af)
      BY <1>0, <2>3
    <3> QED BY <2>3, <3>1
  <2> QED BY <2>1, <2>2, <2>3
<1>4. ASSUME NEW i \in 1 .. Len(af'), i < Len(af') \/ ~app_af_wren
      PROVE  af'[i].cmd = "write"
  <2>1. i \in 1 .. Len(af) - n /\ i + n \in 1 .. Len(af)
    BY <1>3, <1>4, AfAfter
  <2>2. af'[i] = af[i + n]
    BY <1>3, <2>1, AfAfter
  <2> QED BY <2>1, <2>2 DEF OnlyWrites
<1>5. app_af_wren => Len(af') > 0 /\ af'[Len(af')] = [cmd |-> app_af_cmd, addr |-> Place]
  BY <1>3, AfAfter
<1> QED BY <1>1, <1>2, <1>4, <1>5, MigMoves DEF MigKeeps, MigWrites, WritesLeft

(* The beats keep pace with the commands. *)
LEMMA PairsMove ==
  ASSUME IInv, MIG!Step,
         \/ AfMoves(0) /\ WdfMoves(0)
         \/ AfMoves(1) /\ WdfMoves(2) /\ Len(af) > 0 /\ Len(wdf) >= 2
  PROVE  /\ Len(af) \in Nat /\ Len(af') \in Nat /\ Len(wdf) \in Nat /\ Len(wdf') \in Nat
         /\ \E d \in {0, 1} :
              /\ app_af_wren => Len(af') = Len(af) + 1 - d
              /\ ~app_af_wren => Len(af') = Len(af) - d
              /\ app_wdf_wren => Len(wdf') = Len(wdf) + 1 - 2 * d
              /\ ~app_wdf_wren => Len(wdf') = Len(wdf) - 2 * d
<1>1. /\ Len(af) \in Nat /\ Len(af') \in Nat /\ Len(wdf) \in Nat /\ Len(wdf') \in Nat
  BY MigTyped, LenProperties DEF IInv, Types, MigTypes
<1>2. CASE AfMoves(0) /\ WdfMoves(0)
  BY <1>1, <1>2, AfAfter, WdfAfter
<1>3. CASE AfMoves(1) /\ WdfMoves(2) /\ Len(af) > 0 /\ Len(wdf) >= 2
  BY <1>1, <1>3, AfAfter, WdfAfter
<1> QED BY <1>1, <1>2, <1>3

(* A read goes on through its stages. *)
LEMMA ReadContinues ==
  ASSUME IInv, Held, MC!Step, MIG!Step, NEW k \in Client, Continues(k), ~req[k].rw
  PROVE  WriterRests' /\ ReadStage' /\ PairInv'
<1>0. /\ ReadStage /\ NoWrite /\ sel = k /\ ~mc_rd_valid /\ Place' = Place
      /\ WriterRests' /\ (app_af_wren' <=> MC!IssueRead)
      /\ app_af_wren' => app_af_cmd' = "read"
      /\ addr_change_rd' <=> MC!IssueRead \/ addr_change_rd
      /\ mc_rd_valid' <=> read_data_end
      /\ read_data_end => data_rd' = mig_data_out
  BY ShimReads, BusHeld DEF Continues, Finishes
<1>1. /\ ~WriteEnds /\ ~WriteStuck /\ ~WriteEnds' /\ ~WriteStuck' /\ ~app_wdf_wren
  BY <1>0 DEF WriteEnds, WriteStuck, WriterRests, NoWrite
<1>2. /\ af \in Seq(Command) /\ Len(af) \in Nat /\ Len(wdf) \in Nat
      /\ af' \in Seq(Command) /\ Len(af') \in Nat /\ Len(wdf') \in Nat
      /\ ddr \in [DdrAddr -> Block] /\ Place \in DdrAddr /\ wdf' \in Seq(Beat)
  BY MigTyped, BusTypes, LenProperties DEF IInv, Types, MigTypes
<1>3. PairInv
  BY DEF IInv, CtlInv
<1>4. ASSUME ReadQueued', Len(wdf') = 2 * (Len(af') - 1)
      PROVE  PairInv'
  BY <1>1, <1>4 DEF PairInv
<1>5. ASSUME ~ReadQueued', Len(wdf') = 2 * Len(af')
      PROVE  PairInv'
  BY <1>1, <1>5 DEF PairInv
<1>6. ASSUME NoBeats, OnlyWrites, ~ReadQueued
      PROVE  /\ NoBeats' /\ WritesLeft
             /\ app_af_wren => Len(wdf') = 2 * (Len(af') - 1)
             /\ ~app_af_wren => Len(wdf') = 2 * Len(af')
  <2>1. rdf = << >> /\ ~new_data_rd' /\ ~read_data_end' /\ ~mc_rd_valid'
    BY <1>0, <1>6, ShimCollects DEF NoBeats
  <2>2. NoBeats' /\ WritesLeft
    BY <1>6, <2>1, WritesOnly DEF NoBeats, WritesLeft
  <2>3. Len(wdf) = 2 * Len(af)
    BY <1>1, <1>2, <1>3, <1>6 DEF PairInv
  <2>4. /\ app_af_wren => Len(wdf') = 2 * (Len(af') - 1)
        /\ ~app_af_wren => Len(wdf') = 2 * Len(af')
    BY <1>1, <1>6, <2>1, <2>3, WritesOnly, PairsMove
  <2> QED BY <2>2, <2>4
<1>7. CASE NoRead /\ ~app_af_wren
  <2>1. /\ NoBeats' /\ OnlyWrites' /\ Len(wdf') = 2 * Len(af')
    <3>1. NoBeats /\ OnlyWrites /\ ~ReadQueued
      BY <1>7 DEF NoRead, ReadQueued
    <3> QED BY <1>2, <1>6, <1>7, <3>1 DEF OnlyWrites, WritesLeft
  <2>2. CASE MC!IssueRead
    <3>1. ReadBegins' /\ ~ReadQueued'
      BY <1>0, <2>1, <2>2 DEF ReadBegins, ReadQueued
    <3> QED BY <1>0, <1>5, <2>1, <3>1 DEF ReadStage
  <2>3. CASE ~MC!IssueRead
    <3>1. NoRead' /\ ~app_af_wren' /\ ~ReadQueued'
      BY <1>0, <1>7, <2>1, <2>3 DEF NoRead, ReadQueued
    <3> QED BY <1>0, <1>5, <2>1, <3>1 DEF ReadStage
  <2> QED BY <2>2, <2>3
<1>8. CASE ReadBegins
  <2>1. ~app_af_wren' /\ addr_change_rd'
    BY <1>0, <1>8 DEF ReadBegins, MC!IssueRead
  <2>2. NoBeats /\ OnlyWrites /\ ~ReadQueued /\ app_af_wren /\ app_af_cmd = "read"
    BY <1>8 DEF ReadBegins, ReadQueued
  <2>3. NoBeats' /\ WritesLeft /\ Len(wdf') = 2 * (Len(af') - 1)
    BY <1>6, <2>2
  <2>4. ReadQueued'
    BY <1>0, <1>2, <2>1, <2>2, <2>3 DEF ReadQueued, WritesLeft
  <2> QED BY <1>0, <1>4, <2>3, <2>4 DEF ReadStage
<1>9. CASE ReadQueued
  <2>1. ~app_af_wren' /\ addr_change_rd'
    BY <1>0, <1>9 DEF ReadQueued, MC!IssueRead
  <2>2. ~new_data_rd' /\ ~read_data_end' /\ ~mc_rd_valid'
    BY <1>0, <1>9, ShimCollects DEF ReadQueued, NoBeats
  <2>3. /\ Len(af) > 0 /\ ~app_af_wren /\ rdf = << >>
        /\ af[Len(af)] = [cmd |-> "read", addr |-> Place]
        /\ \A i \in 1 .. Len(af) - 1 : af[i].cmd = "write"
    BY <1>2, <1>9, EmptySeq DEF ReadQueued, NoBeats
  <2>4. Len(wdf) = 2 * (Len(af) - 1)
    BY <1>1, <1>2, <1>3, <1>9 DEF PairInv
  <2>5. ASSUME NEW n \in {0, 1}, NEW m \in {0, 2}, m = 2 * n, n <= Len(af) - 1,
               AfMoves(n), WdfMoves(m), rdf' = << >>, ~rd_data_valid'
        PROVE  ReadStage' /\ PairInv'
    <3>1. /\ Len(af') = Len(af) - n
          /\ \A i \in 1 .. Len(af) - n : af'[i] = af[i + n]
      BY <1>2, <2>3, <2>5, AfAfter
    <3>2. Len(wdf') = Len(wdf) - m
      <4>1. m <= Len(wdf)
        BY <1>2, <2>4, <2>5
      <4> QED BY <1>1, <2>5, <4>1, WdfAfter
    <3>3. Len(wdf') = 2 * (Len(af') - 1)
      BY <1>2, <2>4, <2>5, <3>1, <3>2
    <3>4. Len(af') > 0 /\ af'[Len(af')] = [cmd |-> "read", addr |-> Place]
      BY <1>2, <2>3, <2>5, <3>1
    <3>5. ASSUME NEW i \in 1 .. Len(af') - 1
          PROVE  af'[i].cmd = "write"
      <4>1. i \in 1 .. Len(af) - n /\ i + n \in 1 .. Len(af) - 1
        BY <1>2, <2>5, <3>1
      <4> QED BY <2>3, <3>1, <4>1
    <3>6. ReadQueued'
      <4>1. NoBeats' /\ af' # << >>
        BY <1>2, <2>2, <2>5, <3>4, EmptySeq DEF NoBeats
      <4> QED BY <1>0, <2>1, <3>4, <3>5, <4>1 DEF ReadQueued
    <3> QED BY <1>4, <3>3, <3>6 DEF ReadStage
  <2>6. CASE MigKeeps
    <3>1. AfMoves(0) /\ WdfMoves(0) /\ rdf' = << >> /\ ~rd_data_valid'
      BY <2>3, <2>6 DEF MigKeeps
    <3>2. 0 \in {0, 1} /\ 0 \in {0, 2} /\ 0 = 2 * 0 /\ 0 <= Len(af) - 1
      BY <1>2, <2>3
    <3> QED BY <1>0, <2>5, <3>1, <3>2
  <2>7. CASE MigWrites
    <3>1. Len(af) > 1
      BY <1>2, <2>3, <2>7 DEF MigWrites
    <3>2. AfMoves(1) /\ WdfMoves(2) /\ rdf' = << >> /\ ~rd_data_valid'
      BY <2>3, <2>7 DEF MigWrites
    <3>3. 1 \in {0, 1} /\ 2 \in {0, 2} /\ 2 = 2 * 1 /\ 1 <= Len(af) - 1
      BY <1>2, <3>1
    <3> QED BY <1>0, <2>5, <3>2, <3>3
  <2>8. CASE MigReads
    <3>1. Len(af) = 1
      <4>1. ~(1 \in 1 .. Len(af) - 1)
        BY <2>3, <2>8 DEF MigReads
      <4>2. Len(af) \in Nat /\ Len(af) > 0
        BY <1>2, <2>3
      <4> DEFINE n == Len(af)
      <4> HIDE DEF n
      <4>3. n \in Nat /\ n > 0 /\ ~(1 \in 1 .. n - 1)
        BY <4>1, <4>2 DEF n
      <4>4. n = 1
        BY <4>3
      <4> QED BY <4>4 DEF n
    <3>2. af[1] = [cmd |-> "read", addr |-> Place]
      BY <2>3, <3>1
    <3>3. Len(af') = 0 /\ Len(wdf') = 0
      BY <1>1, <1>2, <2>3, <2>4, <2>8, <3>1, AfAfter, WdfAfter DEF MigReads
    <3>4. af' = << >> /\ wdf' = << >>
      BY <1>2, <3>3, EmptySeq
    <3>5. rdf' = << ddr[Place][1], ddr[Place][2] >> /\ ddr' = ddr /\ ~rd_data_valid'
      BY <1>2, <2>8, <3>2, BlockBeats DEF MigReads
    <3>6. ReadExecuted' /\ ~ReadQueued'
      BY <1>0, <2>1, <2>2, <3>4, <3>5 DEF ReadExecuted, ReadQueued
    <3>7. Len(wdf') = 2 * Len(af')
      BY <3>3
    <3> QED BY <1>0, <1>5, <3>6, <3>7 DEF ReadStage
  <2> QED BY <2>3, <2>6, <2>7, <2>8, MigMoves DEF MigDelivers
<1>10. CASE ReadExecuted
  <2>1. ~app_af_wren' /\ addr_change_rd' /\ ~app_af_wren
    BY <1>0, <1>10 DEF ReadExecuted, MC!IssueRead
  <2>2. Len(af) = 0 /\ Len(wdf) = 0 /\ af = << >>
    BY <1>10 DEF ReadExecuted
  <2>3. MigKeeps \/ MigDelivers
    BY <2>2, MigMoves DEF MigWrites, MigReads
  <2>4. AfMoves(0) /\ WdfMoves(0) /\ ddr' = ddr
    BY <2>3 DEF MigKeeps, MigDelivers
  <2>5. Len(af') = 0 /\ Len(wdf') = 0
    BY <1>1, <2>1, <2>2, <2>4, AfAfter, WdfAfter
  <2>6. af' = << >> /\ wdf' = << >> /\ ddr'[Place] = ddr[Place] /\ ~ReadQueued'
    BY <1>2, <2>4, <2>5, EmptySeq DEF ReadQueued
  <2> DEFINE b == ddr[Place]
  <2>7. /\ ~rd_data_valid => (new_data_rd' <=> new_data_rd) /\ ~read_data_end'
                             /\ mig_data_out' = mig_data_out
        /\ rd_data_valid /\ ~new_data_rd =>
             new_data_rd' /\ ~read_data_end' /\ mig_data_out'[1] = rd_data_fifo_out
        /\ rd_data_valid /\ new_data_rd =>
             /\ ~new_data_rd' /\ read_data_end'
             /\ mig_data_out' = << mig_data_out[1], rd_data_fifo_out >>
    BY <2>2, ShimCollects
  <2>8. b = << b[1], b[2] >> /\ ddr'[Place'] = b
    BY <1>0, <1>2, <2>6, BlockBeats
  <2>9. ReadExecuted'
    <3>1. CASE rdf = << b[1], b[2] >>
      <4>1. ~rd_data_valid /\ ~new_data_rd /\ ~read_data_end
        BY <1>10, <3>1 DEF ReadExecuted
      <4> QED
        BY <1>0, <2>1, <2>3, <2>6, <2>7, <2>8, <3>1, <4>1
           DEF ReadExecuted, MigKeeps, MigDelivers
    <3>2. CASE rdf = << b[2] >>
      <4>1. /\ ~read_data_end
            /\ \/ rd_data_valid /\ rd_data_fifo_out = b[1] /\ ~new_data_rd
               \/ ~rd_data_valid /\ new_data_rd /\ mig_data_out[1] = b[1]
        BY <1>10, <3>2 DEF ReadExecuted
      <4>2. ~mc_rd_valid' /\ ~read_data_end' /\ new_data_rd' /\ mig_data_out'[1] = b[1]
        BY <1>0, <2>7, <4>1
      <4>3. \/ rdf' = << b[2] >> /\ ~rd_data_valid'
            \/ rdf' = << >> /\ rd_data_valid' /\ rd_data_fifo_out' = b[2]
        BY <2>3, <3>2 DEF MigKeeps, MigDelivers
      <4> QED BY <1>0, <2>1, <2>6, <2>8, <4>2, <4>3 DEF ReadExecuted
    <3>3. CASE rdf = << >>
      <4>1. MigKeeps /\ rdf' = << >> /\ ~rd_data_valid'
        BY <2>3, <3>3 DEF MigKeeps, MigDelivers
      <4>2. CASE rd_data_valid
        <5>1. /\ rd_data_fifo_out = b[2] /\ new_data_rd /\ mig_data_out[1] = b[1]
              /\ ~read_data_end
          BY <1>10, <3>3, <4>2 DEF ReadExecuted
        <5>2. ~mc_rd_valid' /\ read_data_end' /\ ~new_data_rd' /\ mig_data_out' = b
          BY <1>0, <2>7, <2>8, <4>2, <5>1
        <5> QED BY <1>0, <2>1, <2>6, <2>8, <4>1, <5>2 DEF ReadExecuted
      <4>3. CASE ~rd_data_valid
        <5>1. ~new_data_rd /\ read_data_end /\ mig_data_out = b
          BY <1>0, <1>10, <3>3, <4>3 DEF ReadExecuted
        <5>2. mc_rd_valid' /\ ~read_data_end' /\ ~new_data_rd' /\ data_rd' = b
          BY <1>0, <2>7, <4>3, <5>1
        <5> QED BY <1>0, <2>1, <2>6, <2>8, <4>1, <5>2 DEF ReadExecuted
      <4> QED BY <4>2, <4>3
    <3> QED BY <1>10, <3>1, <3>2, <3>3 DEF ReadExecuted
  <2>10. Len(wdf') = 2 * Len(af')
    BY <2>5
  <2> QED BY <1>0, <1>5, <2>6, <2>9, <2>10 DEF ReadStage
<1> QED BY <1>0, <1>7, <1>8, <1>9, <1>10 DEF ReadStage

(* A write goes on through its stages. *)
LEMMA WriteGoesOn ==
  ASSUME IInv, Held, MC!Step, MIG!Step, NEW k \in Client, Continues(k), req[k].rw
  PROVE  NoRead' /\ WriteStage' /\ CounterInv' /\ PairInv' /\ LastInv'
<1>0. /\ NoRead /\ rdf = << >> /\ OnlyWrites /\ WriteStage /\ PairInv /\ LastInv
      /\ Place' = Place /\ Bus!data_wr' = Bus!data_wr
      /\ WriteCycleDelay \in 1 .. 30
  BY BusHeld, MemorySystemAssumption
     DEF IInv, CtlInv, StageInv, AtRest, NoRead, NoBeats, Continues, Client,
         MemorySystemAssumption
<1>1. /\ Len(af) \in Nat /\ Len(af') \in Nat /\ Len(wdf) \in Nat /\ Len(wdf') \in Nat
      /\ af' \in Seq(Command)
  BY MigTyped, LenProperties DEF IInv, Types, MigTypes
<1>2. ReaderRests' /\ CounterInv'
  BY WriteContinues
<1>3. app_af_wren => WriteBegins
  BY <1>0 DEF WriteStage, WriteBegins, WriteEnds, WriteStuck, WriteWaits, WriteOver
<1>4. WritesLeft
  BY <1>0, WritesOnly
<1>5. NoRead' /\ ~ReadQueued' /\ ~ReadQueued
  <2>1. ASSUME NEW i \in 1 .. Len(af')
        PROVE  af'[i].cmd = "write"
    <3>1. CASE i < Len(af') \/ ~app_af_wren
      BY <1>4, <3>1 DEF WritesLeft
    <3>2. CASE i = Len(af') /\ app_af_wren
      BY <1>3, <1>4, <3>2 DEF WritesLeft, WriteBegins
    <3> QED BY <1>1, <3>1, <3>2
  <2>2. NoBeats'
    BY <1>2, <1>4 DEF NoBeats, ReaderRests, WritesLeft
  <2> QED BY <1>0, <1>2, <2>1, <2>2 DEF NoRead, ReaderRests, OnlyWrites, ReadQueued
<1>6. \E d \in {0, 1} :
        /\ app_af_wren => Len(af') = Len(af) + 1 - d
        /\ ~app_af_wren => Len(af') = Len(af) - d
        /\ app_wdf_wren => Len(wdf') = Len(wdf) + 1 - 2 * d
        /\ ~app_wdf_wren => Len(wdf') = Len(wdf) - 2 * d
  BY <1>0, WritesOnly, PairsMove
<1>7. /\ WriteEnds \/ WriteStuck => Len(wdf) = 2 * Len(af) - 1
      /\ ~WriteEnds /\ ~WriteStuck => Len(wdf) = 2 * Len(af)
  BY <1>0, <1>1, <1>5 DEF PairInv
<1>8. /\ (WriteEnds \/ WriteStuck)' /\ Len(wdf') = 2 * Len(af') - 1 => PairInv'
      /\ ~(WriteEnds \/ WriteStuck)' /\ Len(wdf') = 2 * Len(af') => PairInv'
  BY <1>1, <1>5 DEF PairInv
<1>9. CASE NoWrite /\ ~app_af_wren
  <2>1. (NoWrite /\ ~app_af_wren)' \/ WriteBegins'
    BY <1>0, <1>9, WriteContinues
       DEF NoWrite, WriteBegins, WriteEnds, WriteStuck, WriteWaits, WriteOver
  <2>2. ~WriteEnds /\ ~WriteStuck /\ ~WriteEnds' /\ ~WriteStuck' /\ ~app_wdf_wren
    BY <1>9, <2>1 DEF NoWrite, WriteBegins, WriteEnds, WriteStuck
  <2>3. Len(wdf') = 2 * Len(af')
    BY <1>1, <1>6, <1>7, <1>9, <2>2
  <2> QED BY <1>2, <1>5, <1>8, <2>1, <2>2, <2>3 DEF WriteStage, LastInv
<1>10. CASE WriteBegins
  <2>1. WriteEnds' \/ WriteStuck'
    BY <1>0, <1>10, WriteContinues
       DEF NoWrite, WriteBegins, WriteEnds, WriteStuck, WriteWaits, WriteOver
  <2>2. ~WriteEnds /\ ~WriteStuck /\ app_wdf_wren /\ app_af_wren
    BY <1>10 DEF WriteBegins, WriteEnds, WriteStuck
  <2>3. Len(wdf') = 2 * Len(af') - 1
    BY <1>1, <1>6, <1>7, <2>2
  <2>4. af'[Len(af')] = [cmd |-> "write", addr |-> Place'] /\ af' # << >>
    BY <1>0, <1>1, <1>4, <1>10, <2>2, EmptySeq DEF WritesLeft, WriteBegins
  <2>5. wdf'[Len(wdf')] = Bus!data_wr'[1]
    <3>1. PICK m \in {0, 2} : WdfMoves(m) /\ m <= Len(wdf)
      BY <1>0, <1>1, WritesOnly
    <3>2. wdf'[Len(wdf')] = app_wdf_data
      BY <2>2, <3>1, WdfAfter
    <3> QED BY <1>0, <1>10, <3>2 DEF WriteBegins
  <2> QED BY <1>2, <1>5, <1>8, <2>1, <2>3, <2>4, <2>5 DEF WriteStage, LastInv
<1>11. CASE WriteEnds
  <2>1. WriteWaits' /\ app_wdf_wren /\ ~app_af_wren
    BY <1>0, <1>11, WriteContinues
       DEF NoWrite, WriteBegins, WriteEnds, WriteStuck, WriteWaits, WriteOver
  <2>2. ~WriteEnds' /\ ~WriteStuck'
    BY <2>1 DEF WriteWaits, WriteEnds, WriteStuck
  <2>3. Len(wdf') = 2 * Len(af')
    BY <1>1, <1>6, <1>7, <1>11, <2>1
  <2> QED BY <1>2, <1>5, <1>8, <2>1, <2>2, <2>3 DEF WriteStage, LastInv
<1>12. CASE WriteStuck
  <2>1. WriteStuck' /\ ~app_wdf_wren /\ ~app_af_wren
    BY <1>0, <1>12, WriteContinues
       DEF NoWrite, WriteBegins, WriteEnds, WriteStuck, WriteWaits, WriteOver
  <2>2. Len(wdf') = 2 * Len(af') - 1
    BY <1>1, <1>6, <1>7, <1>12, <2>1
  <2>3. /\ af # << >> /\ af[Len(af)] = [cmd |-> "write", addr |-> Place]
        /\ wdf[Len(wdf)] = Bus!data_wr[1] /\ Len(af) > 0
        /\ Len(wdf) = 2 * Len(af) - 1
    BY <1>0, <1>1, <1>7, <1>12 DEF LastInv
  <2>4. PICK n \in {0, 1}, m \in {0, 2} :
          AfMoves(n) /\ WdfMoves(m) /\ n < Len(af) /\ m < Len(wdf)
    <3>1. CASE AfMoves(0) /\ WdfMoves(0)
      BY <1>1, <2>3, <3>1
    <3>2. CASE AfMoves(1) /\ WdfMoves(2) /\ Len(wdf) >= 2
      BY <1>1, <2>3, <3>2
    <3> QED BY <1>0, <3>1, <3>2, WritesOnly
  <2>5. /\ Len(af') = Len(af) - n
        /\ \A i \in 1 .. Len(af) - n : af'[i] = af[i + n]
    BY <1>1, <2>1, <2>4, AfAfter
  <2>6. /\ Len(wdf') = Len(wdf) - m
        /\ \A i \in 1 .. Len(wdf) - m : wdf'[i] = wdf[i + m]
    BY <1>1, <2>1, <2>4, WdfAfter
  <2>7. af'[Len(af')] = af[Len(af)] /\ Len(af') > 0
    BY <1>1, <2>4, <2>5
  <2>8. wdf'[Len(wdf')] = wdf[Len(wdf)]
    BY <1>1, <2>4, <2>6
  <2>9. af' # << >>
    BY <1>1, <2>7, EmptySeq
  <2> QED
    BY <1>0, <1>2, <1>5, <1>8, <2>1, <2>2, <2>3, <2>7, <2>8, <2>9 DEF WriteStage, LastInv
<1>13. CASE WriteWaits \/ WriteOver
  <2>1. (WriteWaits' \/ WriteOver') /\ ~app_wdf_wren /\ ~app_af_wren
    BY <1>0, <1>13, WriteContinues
       DEF NoWrite, WriteBegins, WriteEnds, WriteStuck, WriteWaits, WriteOver
  <2>2. ~WriteEnds /\ ~WriteStuck /\ ~WriteEnds' /\ ~WriteStuck'
    BY <1>13, <2>1 DEF WriteWaits, WriteOver, WriteEnds, WriteStuck
  <2>3. Len(wdf') = 2 * Len(af')
    BY <1>1, <1>6, <1>7, <2>1, <2>2
  <2> QED BY <1>2, <1>5, <1>8, <2>1, <2>2, <2>3 DEF WriteStage, LastInv
<1> QED BY <1>0, <1>9, <1>10, <1>11, <1>12, <1>13 DEF WriteStage

(* A read leaves the shim when it is answered. *)
LEMMA ReadLeaves ==
  ASSUME IInv, MC!Step, NEW k \in Client, Answers(k), ~req[k].rw
  PROVE  /\ af = << >> /\ wdf = << >> /\ rdf = << >> /\ ~app_af_wren /\ NoWrite
         /\ data_rd = ddr[Place]
         /\ ReaderRests' /\ WriterRests' /\ app_af_wren' = FALSE
<1>0. /\ sel = k /\ mc_rd_valid /\ ReadStage /\ NoWrite /\ WriterRests'
      /\ app_af_wren' <=> MC!IssueRead
      /\ ~addr_change_rd' /\ (mc_rd_valid' <=> read_data_end)
  BY ShimReads DEF Answers, Finishes
<1>1. /\ af = << >> /\ wdf = << >> /\ rdf = << >> /\ ~app_af_wren /\ ~app_wdf_wren
      /\ data_rd = ddr[Place]
      /\ ~rd_data_valid /\ ~new_data_rd /\ ~read_data_end /\ addr_change_rd
  BY <1>0 DEF ReadStage, NoRead, NoBeats, ReadBegins, ReadQueued, ReadExecuted, NoWrite
<1>2. ~new_data_rd' /\ ~read_data_end'
  BY <1>1, ShimCollects
<1>3. app_af_wren' = FALSE
  BY <1>0, <1>1, ShimTyped DEF MC!IssueRead, MC!TypeOK
<1> QED BY <1>0, <1>1, <1>2, <1>3 DEF ReaderRests

(* Without an owner, and once an access is answered, everything comes to   *)
(* rest but the writes MIG has.                                            *)
LEMMA ComesToRest ==
  ASSUME IInv, Held, PathStep,
         sel = 0 \/ \E k \in Client : Answers(k)
  PROVE  AtRest' /\ CounterInv' /\ PairInv' /\ LastInv'
<1> DEFINE Settled ==
      /\ ReaderRests' /\ WriterRests' /\ app_af_wren' = FALSE
      /\ rdf = << >> /\ OnlyWrites /\ ~app_af_wren /\ ~app_wdf_wren
      /\ ~ReadQueued /\ ~WriteEnds /\ ~WriteStuck
<1>1. Settled
  <2>1. CASE sel = 0
    <3>1. AtRest
      BY <2>1 DEF IInv, CtlInv, StageInv
    <3> QED
      BY <2>1, <3>1, ShimStaysAtRest
         DEF PathStep, AtRest, NoRead, NoBeats, NoWrite, ReadQueued, WriteEnds, WriteStuck
  <2>2. ASSUME NEW k \in Client, Answers(k), req[k].rw
        PROVE  Settled
    BY <2>2, WriteLeaves
       DEF PathStep, NoRead, NoBeats, WriteOver, ReadQueued, WriteEnds, WriteStuck
  <2>3. ASSUME NEW k \in Client, Answers(k), ~req[k].rw
        PROVE  Settled
    <3>1. /\ af = << >> /\ rdf = << >> /\ ~app_af_wren /\ NoWrite
          /\ ReaderRests' /\ WriterRests' /\ app_af_wren' = FALSE
      BY <2>3, ReadLeaves DEF PathStep
    <3>2. Len(af) = 0
      BY <3>1
    <3> QED BY <3>1, <3>2 DEF OnlyWrites, NoWrite, ReadQueued, WriteEnds, WriteStuck
  <2> QED BY <2>1, <2>2, <2>3
<1>2. /\ Len(af) \in Nat /\ Len(af') \in Nat /\ Len(wdf) \in Nat /\ Len(wdf') \in Nat
  BY MigTyped, LenProperties DEF PathStep, IInv, Types, MigTypes
<1>3. /\ ~ReadQueued' /\ ~WriteEnds' /\ ~WriteStuck'
  BY <1>1 DEF ReaderRests, WriterRests, NoWrite, ReadQueued, WriteEnds, WriteStuck
<1>4. Len(wdf) = 2 * Len(af)
  BY <1>1, <1>2 DEF IInv, CtlInv, PairInv
<1>5. Len(wdf') = 2 * Len(af')
  BY <1>1, <1>2, <1>4, WritesOnly, PairsMove DEF PathStep
<1>6. PairInv'
  BY <1>2, <1>3, <1>5 DEF PairInv
<1>7. OnlyWrites' /\ NoBeats'
  BY <1>1, WritesOnly DEF PathStep, WritesLeft, OnlyWrites, NoBeats, ReaderRests
<1>8. AtRest'
  BY <1>1, <1>7 DEF AtRest, NoRead, ReaderRests, WriterRests
<1>9. CounterInv'
  BY <1>1 DEF CounterInv, WriterRests, NoWrite
<1> QED BY <1>3, <1>6, <1>8, <1>9 DEF LastInv

(* Every edge preserves the invariant. *)
LEMMA PathStepInv ==
  ASSUME IInv, Held, PathStep
  PROVE  IInv'
<1>0. /\ ArbTypes' /\ ArbInv' /\ MC!TypeOK' /\ MigTypes' /\ req' \in [Client -> Request]
  BY ArbiterInv, ShimTyped, MigTyped DEF PathStep, Held
<1>1. phy_init_done \in BOOLEAN /\ phy_init_done' \in BOOLEAN
  BY <1>0 DEF IInv, Types, MigTypes
<1>2. ASSUME ~phy_init_done'
      PROVE  /\ ~addr_change_wr' /\ ~addr_change_rd'
             /\ af' = << >> /\ wdf' = << >> /\ rdf' = << >>
  <2>1. /\ ~phy_init_done /\ ~addr_change_wr /\ ~addr_change_rd
        /\ af = << >> /\ wdf = << >> /\ rdf = << >>
    BY <1>1, <1>2, MigMoves DEF PathStep, IInv, CtlInv, QuietInv
  <2>2. ~app_af_wren /\ ~app_wdf_wren
    BY <2>1 DEF IInv, CtlInv, StageInv, AtRest, NoWrite, NoRead, WriteStage,
                WriteBegins, WriteEnds, WriteStuck, WriteWaits, WriteOver, ReadStage,
                ReadBegins, ReadQueued, ReadExecuted
  <2>3. ~addr_change_wr' /\ ~addr_change_rd'
    BY <2>1 DEF PathStep, MC!Step, MC!Issue, MC!IssueWrite, MC!IssueRead
  <2>4. af' = << >> /\ wdf' = << >> /\ rdf' = << >>
    <3>0. Len(af) = 0 /\ Len(wdf) = 0
      BY <2>1
    <3>1. MigKeeps
      BY <2>1, <3>0, MigMoves DEF PathStep, MigWrites, MigReads, MigDelivers
    <3>2. Len(af') = 0 /\ Len(wdf') = 0 /\ rdf' = << >>
      <4>1. AfMoves(0) /\ WdfMoves(0) /\ rdf' = rdf
        BY <3>1 DEF MigKeeps
      <4> QED BY <2>1, <2>2, <3>0, <4>1, AfAfter, WdfAfter DEF PathStep
    <3> QED BY <1>0, <3>2, EmptySeq DEF MigTypes
  <2> QED BY <2>3, <2>4
<1>3. CASE Idles \/ \E k \in Client : Answers(k) \/ Releases(k)
  <2>1. sel' = 0 /\ (sel = 0 \/ \E k \in Client : Answers(k))
    BY <1>3 DEF Idles, Answers, Releases
  <2>2. AtRest' /\ CounterInv' /\ PairInv' /\ LastInv'
    BY <2>1, ComesToRest
  <2> QED BY <1>0, <1>2, <2>1, <2>2 DEF IInv, Types, CtlInv, StageInv, QuietInv
<1>4. ASSUME NEW k \in Client, Grants(k)
      PROVE  IInv'
  <2>1. sel = 0 /\ sel' = k /\ k # 0 /\ req'[k].rw \in BOOLEAN
    BY <1>0, <1>4 DEF Grants, Client, Request
  <2>2. AtRest' /\ CounterInv' /\ PairInv' /\ LastInv'
    BY <2>1, ComesToRest
  <2>3. StageInv'
    BY <2>1, <2>2 DEF StageInv, AtRest, WriteStage, ReadStage
  <2>4. QuietInv'
    BY <1>2, <2>2 DEF QuietInv, AtRest, NoWrite, NoRead
  <2> QED BY <1>0, <2>2, <2>3, <2>4 DEF IInv, Types, CtlInv
<1>5. ASSUME NEW k \in Client, Continues(k)
      PROVE  IInv'
  <2>1. /\ sel' = k /\ k # 0 /\ req'[k] = req[k] /\ mc_wr_rdy_accept' = FALSE
        /\ req[k].rw \in BOOLEAN
    BY <1>5, BusHeld DEF Continues, IInv, Types, Request
  <2>2. QuietInv'
    BY <1>2, <2>1 DEF QuietInv
  <2>3. CASE req[k].rw
    <3>1. NoRead' /\ WriteStage' /\ CounterInv' /\ PairInv' /\ LastInv'
      BY <1>5, <2>3, WriteGoesOn DEF PathStep
    <3>2. StageInv'
      BY <2>1, <2>3, <3>1 DEF StageInv
    <3> QED BY <1>0, <2>2, <3>1, <3>2 DEF IInv, Types, CtlInv
  <2>4. CASE ~req[k].rw
    <3>1. WriterRests' /\ ReadStage' /\ PairInv'
      BY <1>5, <2>4, ReadContinues DEF PathStep
    <3>2. StageInv'
      BY <2>1, <2>4, <3>1 DEF StageInv, WriterRests
    <3>3. CounterInv' /\ LastInv'
      BY <3>1 DEF CounterInv, LastInv, WriterRests, NoWrite, WriteEnds, WriteStuck
    <3> QED BY <1>0, <2>2, <3>1, <3>2, <3>3 DEF IInv, Types, CtlInv
  <2> QED BY <2>3, <2>4
<1> QED BY <1>3, <1>4, <1>5, ArbiterMoves DEF PathStep

-----------------------------------------------------------------------------
(* The specification *)

(* Clients put on their wires what they may ask for, or nothing. *)
ReqOK == req \in [Client -> {NoRequest} \cup Reads \cup Writes]

Inv == IInv /\ ReqOK

(* Whatever a client of MemorySystem asks is a request. *)
LEMMA RequestSets ==
  {NoRequest} \cup Reads \cup Writes \subseteq Request
<1>1. 0 \in Addr /\ Addr \subseteq Nat /\ Data \subseteq Block /\ ZeroBlock \in Block
  BY MemorySystemAssumption DEF MemorySystemAssumption, Block, ZeroBlock
<1>2. NoRequest \in Request
  BY <1>1 DEF NoRequest, Request
<1>3. Reads \subseteq Request
  BY <1>1 DEF Reads, Request
<1>4. Writes \subseteq Request
  BY <1>1 DEF Writes, Request
<1> QED BY <1>2, <1>3, <1>4

(* With arbiter and shim reset and MIG's queues empty the invariant holds, *)
(* whatever the clients ask and the array holds.                           *)
LEMMA StartsRight ==
  ASSUME req \in [Client -> Request], Arb!ResetState, MC!Init, MigTypes,
         af = << >>, wdf = << >>, rdf = << >>, ~rd_data_valid
  PROVE  IInv
<1>1. ZeroBlock \in Block /\ ZeroBeat \in Beat /\ N \in Nat
  BY MemorySystemAssumption DEF MemorySystemAssumption, Block, ZeroBlock
<1>3. ArbTypes
  <2>1. 0 \in 0 .. N
    BY <1>1
  <2>2. mem_data_rd \in [Client -> Block]
    BY <1>1 DEF Arb!ResetState, Client, Arb!Client
  <2>3. enable_active \in [Client -> BOOLEAN] /\ mem_ready_data \in [Client -> BOOLEAN]
    BY DEF Arb!ResetState, Client, Arb!Client
  <2> QED BY <2>1, <2>2, <2>3 DEF ArbTypes, Arb!ResetState
<1>4. MC!TypeOK
  <2>1. MC!ZeroBlock \in MC!Block
    BY <1>1 DEF MC!Block, MC!ZeroBlock
  <2>2. /\ app_af_wren \in BOOLEAN /\ addr_change_wr \in BOOLEAN /\ addr_change_rd \in BOOLEAN
        /\ app_wdf_wren \in BOOLEAN /\ new_data_wr \in BOOLEAN /\ data_rdy \in BOOLEAN
        /\ data_sent \in BOOLEAN /\ new_data_rd \in BOOLEAN /\ read_data_end \in BOOLEAN
        /\ mc_rd_valid \in BOOLEAN
    BY DEF MC!Init
  <2>3. /\ app_af_cmd \in {"write", "read"} /\ app_wdf_data \in Beat
        /\ counter_wait \in 0 .. 31 /\ mig_data_out \in MC!Block /\ data_rd \in MC!Block
    BY <1>1, <2>1 DEF MC!Init
  <2> QED BY <2>2, <2>3 DEF MC!TypeOK
<1>5. ArbInv
  BY DEF ArbInv, Arb!ResetState, Client, Arb!Client, DirectionMatches
<1>6. AtRest
  <2>1. Len(af) = 0
    OBVIOUS
  <2> QED BY <2>1 DEF AtRest, NoWrite, NoRead, NoBeats, OnlyWrites, MC!Init
<1>7. StageInv /\ CounterInv /\ QuietInv
  BY <1>6 DEF StageInv, CounterInv, QuietInv, Arb!ResetState, MC!Init
<1>8. PairInv /\ LastInv
  <2>1. ~ReadQueued /\ ~WriteEnds /\ ~WriteStuck
    BY DEF ReadQueued, WriteEnds, WriteStuck, MC!Init
  <2>2. Len(af) = 0 /\ Len(wdf) = 0
    OBVIOUS
  <2> QED BY <2>1, <2>2 DEF PairInv, LastInv
<1> QED BY <1>3, <1>4, <1>5, <1>7, <1>8 DEF IInv, Types, CtlInv

(* The invariant holds at power-up. *)
LEMMA InitInv == Init => Inv
<1> SUFFICES ASSUME Init
             PROVE  Inv
  OBVIOUS
<1>1. MigTypes
  <2>1. << ZeroBeat, ZeroBeat >> \in Block /\ ZeroBeat \in Beat
    BY MemorySystemAssumption DEF MemorySystemAssumption, Block
  <2>2. ddr \in [DdrAddr -> Block]
    BY <2>1 DEF Init, MIG!Init
  <2>3. << >> \in Seq(Command) /\ << >> \in Seq(Beat)
    BY EmptySeq
  <2> QED BY <2>1, <2>2, <2>3 DEF Init, MIG!Init, MigTypes
<1>2. ReqOK /\ req \in [Client -> Request]
  BY RequestSets DEF Init, ReqOK
<1> QED BY <1>1, <1>2, StartsRight DEF Init, MIG!Init, Inv

(* The invariant holds after a reset, which also empties MIG's queues. *)
LEMMA ResetInv == IInv /\ Reset => Inv'
<1> SUFFICES ASSUME IInv, Reset
             PROVE  Inv'
  OBVIOUS
<1>1. MigTypes'
  BY EmptySeq DEF Reset, MIG!Reset, MigTypes, IInv, Types
<1>2. ZeroBlock \in Block /\ ZeroBeat \in Beat /\ N \in Nat
  BY MemorySystemAssumption DEF MemorySystemAssumption, Block, ZeroBlock
<1>3. ReqOK' /\ req' \in [Client -> Request]
  BY RequestSets DEF ReqOK, Reset
<1>4. ArbTypes'
  <2>1. 0 \in 0 .. N
    BY <1>2
  <2>2. mem_data_rd' \in [Client -> Block]
    BY <1>2 DEF Reset, Arb!Reset, Client, Arb!Client
  <2>3. enable_active' \in [Client -> BOOLEAN] /\ mem_ready_data' \in [Client -> BOOLEAN]
    BY DEF Reset, Arb!Reset, Client, Arb!Client
  <2> QED BY <2>1, <2>2, <2>3 DEF ArbTypes, Reset, Arb!Reset
<1>5. MC!TypeOK'
  <2>1. MC!ZeroBlock \in MC!Block /\ mig_data_out \in MC!Block
    BY <1>2 DEF MC!Block, MC!ZeroBlock, IInv, Types, MC!TypeOK
  <2>2. /\ app_af_wren' \in BOOLEAN /\ addr_change_wr' \in BOOLEAN
        /\ addr_change_rd' \in BOOLEAN
        /\ app_wdf_wren' \in BOOLEAN /\ new_data_wr' \in BOOLEAN /\ data_rdy' \in BOOLEAN
        /\ data_sent' \in BOOLEAN /\ new_data_rd' \in BOOLEAN /\ read_data_end' \in BOOLEAN
        /\ mc_rd_valid' \in BOOLEAN
    BY DEF Reset, MC!Reset
  <2>3. /\ app_af_cmd' \in {"write", "read"} /\ app_wdf_data' \in Beat
        /\ counter_wait' \in 0 .. 31 /\ mig_data_out' \in MC!Block /\ data_rd' \in MC!Block
    BY <1>2, <2>1 DEF Reset, MC!Reset
  <2> QED BY <2>2, <2>3 DEF MC!TypeOK
<1>6. ArbInv'
  BY DEF ArbInv, Reset, Arb!Reset, Client, Arb!Client, DirectionMatches
<1>7. AtRest'
  <2>1. af' = << >> /\ Len(af') = 0
    BY DEF Reset, MIG!Reset
  <2> QED BY <2>1 DEF AtRest, NoWrite, NoRead, NoBeats, OnlyWrites, Reset, MC!Reset, MIG!Reset
<1>8. StageInv' /\ CounterInv' /\ QuietInv'
  BY <1>7 DEF StageInv, CounterInv, QuietInv, Reset, Arb!Reset, MC!Reset, MIG!Reset
<1>9. PairInv' /\ LastInv'
  <2>1. ~ReadQueued' /\ ~WriteEnds' /\ ~WriteStuck'
    BY DEF ReadQueued, WriteEnds, WriteStuck, Reset, MC!Reset
  <2>2. Len(af') = 0 /\ Len(wdf') = 0
    BY DEF Reset, MIG!Reset
  <2> QED BY <2>1, <2>2 DEF PairInv, LastInv
<1> QED BY <1>1, <1>3, <1>4, <1>5, <1>6, <1>8, <1>9 DEF Inv, IInv, Types, CtlInv

(* The clients of MemorySystem let a request stand until it is answered. *)
LEMMA ClientsHold == ReqOK /\ ClientStep => Held /\ ReqOK'
<1> SUFFICES ASSUME ReqOK, ClientStep
             PROVE  Held /\ ReqOK'
  OBVIOUS
<1>1. \A k \in Client : NextRequests(k) \subseteq {NoRequest} \cup Reads \cup Writes
  BY DEF NextRequests, ReqOK
<1>2. \A k \in Client : req'[k] \in NextRequests(k)
  BY DEF ClientStep
<1>3. ReqOK'
  BY <1>1, <1>2 DEF ClientStep, ReqOK
<1>4. req' \in [Client -> Request]
  BY <1>3, RequestSets DEF ReqOK
<1>5. \A k \in Client : Waiting(k) => req'[k] = req[k]
  BY <1>2 DEF NextRequests
<1> QED BY <1>3, <1>4, <1>5 DEF Held

(* A step that changes nothing keeps the invariant. *)
LEMMA StutterInv == IInv /\ UNCHANGED vars => IInv'
<1> SUFFICES ASSUME IInv, UNCHANGED vars
             PROVE  IInv'
  OBVIOUS
<1> USE DEF vars, arbVars, ctlVars, migVars
<1>1. Types' /\ ArbInv'
  BY DEF IInv, Types, ArbTypes, MigTypes, MC!TypeOK, ArbInv, DirectionMatches
<1>2. Place' = Place /\ Bus!data_wr' = Bus!data_wr
  BY DEF Place, Bus!data_addr, Bus!temp_addr, Bus!data_wr, mem_data_addr, mem_data_wr
<1>3. /\ (WriteEnds \/ WriteStuck)' <=> WriteEnds \/ WriteStuck
      /\ ReadQueued' <=> ReadQueued
  BY <1>2 DEF WriteEnds, WriteStuck, ReadQueued, NoBeats
<1>4. WriteStage' <=> WriteStage
  BY <1>2 DEF WriteStage, NoWrite, WriteBegins, WriteEnds, WriteStuck, WriteWaits, WriteOver
<1>5. ReadStage' <=> ReadStage
  BY <1>2 DEF ReadStage, NoRead, NoBeats, OnlyWrites, ReadBegins, ReadQueued, ReadExecuted
<1>6. StageInv'
  BY <1>4, <1>5 DEF IInv, CtlInv, StageInv, AtRest, NoWrite, NoRead, NoBeats, OnlyWrites
<1>7. CounterInv' /\ QuietInv'
  BY DEF IInv, CtlInv, CounterInv, QuietInv
<1>8. PairInv' /\ LastInv'
  BY <1>2, <1>3 DEF IInv, CtlInv, PairInv, LastInv
<1> QED BY <1>1, <1>6, <1>7, <1>8 DEF IInv, CtlInv

(* Every step of the memory path keeps the invariant. *)
LEMMA NextInv == Inv /\ [Next]_vars => Inv'
<1> SUFFICES ASSUME Inv, [Next]_vars
             PROVE  Inv'
  OBVIOUS
<1>1. CASE Progress \/ Tick
  <2>1. ClientStep /\ PathStep
    BY <1>1 DEF Progress, Tick, Logic, PathStep, MIG!Step
  <2> QED BY <2>1, ClientsHold, PathStepInv DEF Inv
<1>2. CASE Reset
  BY <1>2, ResetInv DEF Inv
<1>3. CASE UNCHANGED vars
  <2>1. ReqOK'
    BY <1>3 DEF Inv, ReqOK, vars
  <2> QED BY <1>3, <2>1, StutterInv DEF Inv
<1> QED BY <1>1, <1>2, <1>3 DEF Next

(* The invariant of the memory path. *)
THEOREM Invariance == Spec => []Inv
<1> QED BY InitInv, NextInv, PTL DEF Spec

(* The registers, the clients' wires and the DDR2 keep their types, for    *)
(* every number of clients, every wait and every depth of MIG's FIFOs.     *)
THEOREM TypeCorrect == Spec => []TypeOK
<1>1. ASSUME Inv
      PROVE  TypeOK
  <2>1. /\ ArbTypes /\ MC!TypeOK /\ ReqOK /\ req \in [Client -> Request]
        /\ ddr \in [DdrAddr -> Block] /\ Block = MC!Block
    BY <1>1 DEF Inv, IInv, Types, MigTypes, Block, MC!Block
  <2>2. Arb!FlagsOK /\ Arb!PortsOK /\ sel \in 0 .. N
    BY <2>1 DEF ArbTypes, Arb!FlagsOK, Arb!PortsOK, Client, Arb!Client
  <2>3. Arb!InputsOK
    <3>1. MC!mc_wr_rdy \in BOOLEAN
      BY Zenon DEF MC!mc_wr_rdy
    <3>2. mc_rd_valid \in BOOLEAN /\ data_rd \in Block
      BY <2>1 DEF MC!TypeOK
    <3>3. /\ mem_valid_data \in [Client -> BOOLEAN] /\ mem_rw_data \in [Client -> BOOLEAN]
          /\ mem_data_addr \in [Client -> Addr] /\ mem_data_wr \in [Client -> Block]
      <4>1. \A k \in Client : req[k].addr \in Addr
        <5>1. 0 \in Addr
          BY MemorySystemAssumption DEF MemorySystemAssumption
        <5>2. \A r \in Reads \cup Writes : r.addr \in Addr
          BY DEF Reads, Writes
        <5>3. NoRequest.addr \in Addr
          BY <5>1 DEF NoRequest
        <5> QED BY <2>1, <5>2, <5>3 DEF ReqOK
      <4> QED
        BY <2>1, <4>1 DEF mem_valid_data, mem_rw_data, mem_data_addr, mem_data_wr, Request
    <3> QED BY <3>1, <3>2, <3>3 DEF Arb!InputsOK, Client, Arb!Client
  <2> QED BY <2>1, <2>2, <2>3 DEF TypeOK, ReqOK, Arb!TypeOK
<1> QED BY <1>1, Invariance, PTL

(* No answer of the controller is lost: when no access is in progress the  *)
(* next one may be granted.                                                *)
THEOREM AnswersKept == Spec => []AcceptsWhenIdle
<1>1. ASSUME Inv
      PROVE  AcceptsWhenIdle
  BY <1>1 DEF Inv, IInv, Types, ArbTypes, ArbInv, AcceptsWhenIdle, Client
<1> QED BY <1>1, Invariance, PTL

(* The controller is asked for the direction the owner of the bus wants,   *)
(* and for nothing when nobody owns the bus.                               *)
THEOREM DirectionKept == Spec => []DirectionMatches
<1>1. Inv => DirectionMatches
  BY DEF Inv, IInv, ArbInv
<1> QED BY <1>1, Invariance, PTL

(* A controller answer always finds the client it is for. *)
THEOREM AnswersFindOwner == Spec => []AnswerHasOwner
<1>1. ASSUME Inv
      PROVE  AnswerHasOwner
  <2>1. IInv /\ (sel # 0 => sel \in Client)
    BY <1>1, MemorySystemAssumption
       DEF MemorySystemAssumption, Inv, IInv, Types, ArbTypes, Client
  <2> QED BY <2>1, AnswersAsked DEF AnswerHasOwner
<1> QED BY <1>1, Invariance, PTL

(* Between the writer's accesses MIG holds two beats for each of its write *)
(* commands.                                                               *)
THEOREM BeatsStayPaired == Spec => []BeatsPaired
<1>1. ASSUME Inv, sel = 0
      PROVE  Len(wdf) = 2 * Cardinality({i \in DOMAIN af : af[i].cmd = "write"})
  <2>1. /\ AtRest /\ PairInv /\ af \in Seq(Command) /\ Len(af) \in Nat
        /\ DOMAIN af = 1 .. Len(af) /\ Len(wdf) \in Nat
    BY <1>1, LenProperties DEF Inv, IInv, Types, MigTypes, CtlInv, StageInv
  <2>2. {i \in DOMAIN af : af[i].cmd = "write"} = 1 .. Len(af)
    BY <2>1 DEF AtRest, NoRead, OnlyWrites
  <2>3. Cardinality(1 .. Len(af)) = Len(af)
    <3> DEFINE n == Len(af)
    <3>1. n \in Nat
      BY <2>1
    <3> HIDE DEF n
    <3>2. Cardinality(1 .. n) = IF 1 > n THEN 0 ELSE n - 1 + 1
      BY <3>1, FS_Interval
    <3>3. Cardinality(1 .. n) = n
      BY <3>1, <3>2
    <3> QED BY <3>3 DEF n
  <2>4. ~ReadQueued /\ ~WriteEnds /\ ~WriteStuck
    BY <2>1 DEF AtRest, NoRead, NoWrite, ReadQueued, WriteEnds, WriteStuck
  <2>5. Len(wdf) = 2 * Len(af)
    BY <2>1, <2>4 DEF PairInv
  <2> QED BY <2>2, <2>3, <2>5
<1>2. Inv => BeatsPaired
  BY <1>1 DEF BeatsPaired
<1> QED BY <1>2, Invariance, PTL

=============================================================================
