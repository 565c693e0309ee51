------------------------------ MODULE IoProofs ------------------------------
(***************************************************************************)
(* Every access to the IO block is answered in the second clock it stands  *)
(* there and not before, and with the contents of its own register; the    *)
(* bytes of the words stored to the serial port go out in order, each      *)
(* once; and the words of the host come in whole, in order, each once; for *)
(* every program, host, width of a word and speed of the line.             *)
(*                                                                         *)
(* For the answers the invariant IInv says what the one answer bit, which  *)
(* turns with every clock of every access and is never cleared, stands     *)
(* for: it is set in the second clock of an access and in no other, and    *)
(* the serial port's own counter agrees with it.                           *)
(*                                                                         *)
(* For the words sent the invariant SerialInv follows a byte through the   *)
(* stages between driver and transmitter (ByteInv), says how a store that  *)
(* the driver has taken may still stand at the port (TakingInv) and that   *)
(* the status shows every store before a program can poll again (PollInv), *)
(* and names the bytes that are owed to the line at each stage (OwedInv).  *)
(*                                                                         *)
(* For the words received ReceiveInv adds the stages of a byte that comes  *)
(* in (LineInv), whose bytes are in the driver's register (WordInv), and   *)
(* that whoever is told of a word finds it there (ToldInv).                *)
(***************************************************************************)
EXTENDS IoSystem, SequenceTheorems, TLAPS

(* What the access that stands there has done in its first clock. *)
Done ==
  /\ Reads("START") => mem_data_rd = mem_start
  /\ Reads("ON") => mem_data_rd = Small(display_on)
  /\ Reads("TICK") => tick_counter = mem_data_rd[0] + 1 \/ mem_data_rd[0] = TickValues - 1
  /\ Stores("START") => mem_start = bus.wr
  /\ Stores("ON") => display_on = bus.wr[0] % 2
  /\ Stores("TICK") => tick_counter = 0

IInv ==
  /\ mem_ready_data \in BOOLEAN /\ tick_counter \in 0 .. TickValues - 1
  /\ count = IF mem_ready_data /\ spart_addr THEN 1 ELSE 0
  /\ mem_ready_data => bus.valid /\ Done
  /\ mem_ready_data /\ spart_addr => data_rdy

(* A small number is all in its lowest byte. *)
LEMMA SmallIsLow == ASSUME NEW n PROVE Small(n)[0] = n
  BY SpartAssumption DEF Small, ZeroWord

(* An access is answered exactly while the answer bit is set. *)
LEMMA AnsweredByBit == ASSUME IInv PROVE Answered <=> mem_ready_data
  BY DEF IInv, Answered, io_ready, SpartReady, spart_q

(* The registers the clock drives, without the rest of it. *)
LEMMA ClockRegisters ==
  ASSUME Next
  PROVE /\ MapClock /\ ProgramClock
        /\ count' = IF spart_q.valid THEN 1 - count ELSE 0
        /\ data_rdy' = spart_q.valid
  BY DEF Next, HostSends, HostWaits, Clock, SpartClock, TopClock

(* The invariant holds at power-up. *)
LEMMA IInvInit == ASSUME Init PROVE IInv
<1>1. 0 \in 0 .. TickValues - 1 BY IoMapAssumption DEF IoMapAssumption
<1>2. tick_counter \in 0 .. TickValues - 1 BY <1>1 DEF Init, MapInit
<1>3. mem_ready_data = FALSE BY DEF Init, MapInit
<1>4. count = 0 BY DEF Init, SpartInit
<1>. QED BY <1>2, <1>3, <1>4 DEF IInv

(* The tick counter keeps its width, and counts but for its last value.    *)
LEMMA TickCounts ==
  ASSUME IInv, Next
  PROVE /\ tick_counter' \in 0 .. TickValues - 1
        /\ ~Stores("TICK") =>
             tick_counter' = tick_counter + 1 \/ tick_counter = TickValues - 1
<1>1. tick_counter' = NextTick BY ClockRegisters DEF MapClock
<1>2. tick_counter \in 0 .. TickValues - 1 /\ TickValues \in Nat \ {0}
  BY IoMapAssumption DEF IInv, IoMapAssumption
<1>3. /\ (tick_counter + 1) % TickValues \in 0 .. TickValues - 1
      /\ tick_counter + 1 < TickValues =>
           (tick_counter + 1) % TickValues = tick_counter + 1
  BY <1>2
<1>. QED BY <1>1, <1>2, <1>3 DEF NextTick

(* The first clock of an access: it stays and is carried out. *)
LEMMA FirstClock ==
  ASSUME IInv, Next, bus.valid, ~mem_ready_data
  PROVE IInv'
<1>1. MapClock /\ ProgramClock BY ClockRegisters
<1>2. ~Answered BY AnsweredByBit
<1>3. bus' = bus BY <1>1, <1>2 DEF ProgramClock, Answered
<1>4. mem_ready_data' = TRUE BY <1>1 DEF MapClock
<1>5. spart_addr' = spart_addr BY <1>3 DEF spart_addr
<1>6. count' = (IF spart_addr THEN 1 ELSE 0) /\ (spart_addr => data_rdy')
  <2>1. spart_addr => spart_q = bus BY DEF spart_q
  <2>2. ~spart_addr => ~spart_q.valid BY DEF spart_q, Idle
  <2>3. count = 0 BY DEF IInv
  <2>4. count' = IF spart_addr THEN 1 ELSE 0
    BY <2>1, <2>2, <2>3, ClockRegisters
  <2>5. spart_addr => data_rdy' BY <2>1, ClockRegisters, Zenon
  <2>. QED BY <2>4, <2>5
<1>7. Done'
  <2>1. Reads("START") => mem_data_rd' = mem_start /\ mem_start' = mem_start
    BY <1>1 DEF MapClock, Reads, Stores
  <2>2. Reads("ON") => mem_data_rd' = Small(display_on) /\ display_on' = display_on
    BY <1>1 DEF MapClock, Reads, Stores
  <2>3. Reads("TICK") => /\ mem_data_rd' = Small(tick_counter)
                         /\ \/ tick_counter' = tick_counter + 1
                            \/ tick_counter = TickValues - 1
    BY <1>1, TickCounts DEF MapClock, Reads, Stores
  <2>4. Reads("TICK") =>
          tick_counter' = mem_data_rd'[0] + 1 \/ mem_data_rd'[0] = TickValues - 1
    BY <2>3, SmallIsLow
  <2>5. /\ Stores("START") => mem_start' = bus.wr
        /\ Stores("ON") => display_on' = bus.wr[0] % 2
        /\ Stores("TICK") => tick_counter' = 0
    BY <1>1 DEF MapClock, NextTick
  <2>6. \A a : Reads(a)' = Reads(a) /\ Stores(a)' = Stores(a)
    BY <1>3 DEF Reads, Stores
  <2>. QED BY <1>3, <2>1, <2>2, <2>4, <2>5, <2>6 DEF Done, Small
<1>. QED BY <1>3, <1>4, <1>5, <1>6, <1>7, TickCounts DEF IInv

(* Any other clock ends with no access, or with one that has just begun. *)
LEMMA OtherClock ==
  ASSUME IInv, Next, ~(bus.valid /\ ~mem_ready_data)
  PROVE IInv'
<1>1. MapClock BY ClockRegisters
<1>2. mem_ready_data' = FALSE BY <1>1 DEF MapClock, IInv
<1>3. count' = 0 BY ClockRegisters DEF IInv, spart_q, Idle
<1>4. count' = IF mem_ready_data' /\ spart_addr' THEN 1 ELSE 0 BY <1>2, <1>3
<1>. QED BY <1>2, <1>4, TickCounts DEF IInv

(* The invariant depends on nothing but the state. *)
LEMMA IInvStutter == ASSUME IInv, UNCHANGED vars PROVE IInv'
<1>1. UNCHANGED << count, data_rdy, mapVars, bus >>
  BY DEF vars, spartVars, driverVars
<1>2. Done' = Done BY <1>1 DEF Done, Reads, Stores, Small, mapVars
<1>. QED BY <1>1, <1>2 DEF IInv, spart_addr, mapVars

(* Under the invariant an answer belongs to the access that stands. *)
LEMMA IInvGivesAnswersOwn == ASSUME IInv PROVE AnswersOwn
<1>1. SUFFICES ASSUME Answered
               PROVE AnswersOwn
  BY DEF AnswersOwn
<1>2. Done BY <1>1, AnsweredByBit DEF IInv
<1>3. ~spart_addr => io_rd = mem_data_rd BY DEF io_rd
<1>4. \A a \in {"START", "ON", "TICK"} : Reads(a) => ~spart_addr
  BY DEF Reads, spart_addr
<1>. QED BY <1>2, <1>3, <1>4 DEF AnswersOwn, Done

(* The registers of the IO block and the serial port share one answer bit; *)
(* yet each access is answered when it is done, with its own contents.     *)
THEOREM AnswersOwnHolds == Spec => []AnswersOwn
<1>1. Init => IInv BY IInvInit
<1>2. IInv /\ [Next]_vars => IInv' BY FirstClock, OtherClock, IInvStutter
<1>3. IInv => AnswersOwn BY IInvGivesAnswersOwn
<1>. QED BY <1>1, <1>2, <1>3, PTL DEF Spec

-----------------------------------------------------------------------------
(* Types, and the words that are sent                                      *)

(* Beyond TypeOK: the program, the access and what the host has heard, and *)
(* that a byte comes in only from a host that still has a word to send.    *)
Types ==
  /\ TypeOK
  /\ program \in Program
  /\ bus \in [valid : BOOLEAN, rw : BOOLEAN, addr : Address, wr : SerialWord]
  /\ {polled, data_rdy, data_received, start_receiver, read_ready, RDA, iocs, iorw,
      data_written, start_transmitter, write_ready, data_spart_rdy, tbr_changed,
      buffer_full} \subseteq BOOLEAN
  /\ heard \in 0 .. Bytes * Len(program.replies) - 1
  /\ receiving > 0 => credit > 0
  /\ owed \in Seq(Byte)

(* The first byte of the word being sent that is not in the transmitter. *)
From == IF ~Given THEN counter_wr
        ELSE IF data_written THEN Bytes - 1 ELSE counter_wr - 1

(* The stages of a byte: none on its way; chosen; on the bus; going out;   *)
(* gone, which the driver has not seen yet.                                *)
Resting ==
  state # "WRITE" /\ ~Given /\ ~buffer_full /\ ~data_spart_rdy /\ ~tbr_changed
Chosen ==
  /\ state = "WRITE" /\ ~Given /\ ~buffer_full /\ data_spart_rdy /\ ~tbr_changed
  /\ start_transmitter
OnBus ==
  /\ state = "IDLE" /\ Given /\ ~buffer_full /\ data_spart_rdy /\ ~tbr_changed
  /\ start_transmitter /\ databus_drive = data_to_be_transmitted[From]
  /\ data_written \/ counter_wr > 0
GoingOut ==
  /\ state # "WRITE" /\ ~Given /\ buffer_full /\ data_spart_rdy
  /\ tbr_changed \/ state = "IDLE"
  /\ sending \in Nat \ {0}
Gone == state # "WRITE" /\ ~Given /\ ~buffer_full /\ data_spart_rdy /\ tbr_changed

ByteInv ==
  /\ Resting \/ (ready_rw = 2 /\ (Chosen \/ OnBus \/ GoingOut \/ Gone))
  /\ data_written => Given /\ counter_wr = 0
  /\ ~start_transmitter => counter_wr = 0

(* The driver has taken the store that stands there, the pipeline has not; *)
(* the clocks it has stood there.                                          *)
Taking == Stores("DATA") /\ (mem_ready_data \/ repeats > 0)
Age == 2 * repeats + (IF mem_ready_data THEN 1 ELSE 0)

(* Until the pipeline takes it, at most the first byte of the word gets    *)
(* into the transmitter, and does not leave it.                            *)
TakingInv ==
  Taking =>
    /\ start_transmitter /\ data_to_be_transmitted = bus.wr
    /\ state = "WRITE" => Age >= 2
    /\ Given => Age >= 3
    /\ \/ From = 0
       \/ /\ From = 1 /\ buffer_full /\ piso = bus.wr[0]
          /\ \E clocks \in SendClocks : Age + sending >= clocks + 4

(* The access is the one the program is at; who has polled for a SEND      *)
(* finds the driver at rest, as each store shows in the status before it   *)
(* can be polled again.                                                    *)
PollInv ==
  /\ bus.valid => bus = Access(op, polled)
  /\ repeats > 0 => bus.valid
  /\ write_ready /\ start_transmitter => Taking /\ mem_ready_data
  /\ status.ready /\ start_transmitter => Taking \/ ~mem_ready_data
  /\ polled /\ program.ops[op].do = "SEND" /\ ~Taking => ~start_transmitter

(* What is owed is the byte in the transmitter and the bytes of the word   *)
(* that are not there yet, without a word that has not been taken.         *)
InBuffer == IF buffer_full /\ ~(Taking /\ From = 1) THEN 1 ELSE 0
OwedInv ==
  /\ Len(owed) = InBuffer + (IF start_transmitter /\ ~Taking THEN Bytes - From ELSE 0)
  /\ InBuffer = 1 => owed[1] = piso
  /\ start_transmitter /\ ~Taking =>
       \A i \in From .. Bytes - 1 :
         owed[InBuffer + i - From + 1] = data_to_be_transmitted[i]

SerialInv == Types /\ IInv /\ ByteInv /\ TakingInv /\ PollInv /\ OwedInv

-----------------------------------------------------------------------------
(* The types                                                               *)

Bus == [valid : BOOLEAN, rw : BOOLEAN, addr : Address, wr : SerialWord]

(* The answers of the host for a word it has heard are among its replies.  *)
LEMMA QuotientBounded ==
  ASSUME NEW b \in Nat \ {0}, NEW l \in Nat \ {0}, NEW h \in 0 .. b * l - 1
  PROVE  h \div b \in 0 .. l - 1
<1> DEFINE q == h \div b
<1>1. q \in Nat /\ b * q <= h
  OBVIOUS
<1>2. b * l \in Nat
  OBVIOUS
<1>3. ASSUME q >= l
      PROVE  FALSE
  <2>1. PICK d \in Nat : q = l + d
    <3>1. q - l \in Nat /\ q = l + (q - l)
      BY <1>1, <1>3
    <3> QED BY <3>1
  <2>2. b * q = b * l + b * d /\ b * d \in Nat
    BY <2>1
  <2> QED BY <1>1, <1>2, <2>2
<1> QED BY <1>1, <1>3

(* What the program accesses is an access.                                 *)
LEMMA AccessTyped ==
  ASSUME program \in Program, NEW n \in DOMAIN program.ops, NEW ready \in BOOLEAN
  PROVE  Access(n, ready) \in Bus
<1>1. program.ops[n] \in Operation
  BY DEF Program
<1>2. ZeroWord \in SerialWord
  BY SpartAssumption DEF SpartAssumption, ZeroWord, SerialWord
<1> DEFINE o == program.ops[n]
<1>3. \A a \in Address, w \in SerialWord : Store(a, w) \in Bus /\ Load(a) \in Bus
  BY <1>2 DEF Store, Load, Bus
<1>4. "DATA" \in Address /\ "STATUS" \in Address /\ Register \subseteq Address
  BY DEF Address
<1>5. CASE o \in [do : {"SEND"}, wr : SerialWord]
  <2>1. o.do = "SEND" /\ o.wr \in SerialWord
    BY <1>5
  <2> QED BY <1>3, <1>4, <2>1 DEF Access
<1>6. CASE o \in [do : {"RECEIVE"}]
  <2>1. o.do = "RECEIVE"
    BY <1>6
  <2> QED BY <1>2, <1>3, <1>4, <2>1 DEF Access
<1>7. CASE o \in [do : {"STORE"}, addr : Register, wr : SerialWord]
  <2>1. o.do = "STORE" /\ o.addr \in Address /\ o.wr \in SerialWord
    BY <1>4, <1>7
  <2> QED BY <1>3, <2>1 DEF Access
<1>8. CASE o \in [do : {"LOAD"}, addr : Register]
  <2>1. o.do = "LOAD" /\ o.addr \in Address
    BY <1>4, <1>8
  <2> QED BY <1>2, <1>3, <2>1 DEF Access
<1> QED BY <1>1, <1>5, <1>6, <1>7, <1>8 DEF Operation

(* A step is a clock edge, in which a byte may begin to come in only from  *)
(* a host that has one to send and a line that is free.                    *)
LEMMA NextIsClock ==
  Next => \E clocks \in SendClocks, starts \in BOOLEAN :
            Clock(clocks, starts) /\ (starts => MayStart)
<1>1. ASSUME HostSends
      PROVE  \E clocks \in SendClocks : MayStart /\ Clock(clocks, TRUE)
  BY <1>1 DEF HostSends
<1>2. ASSUME HostWaits
      PROVE  \E clocks \in SendClocks : Clock(clocks, FALSE)
  BY <1>2 DEF HostWaits
<1> QED BY <1>1, <1>2 DEF Next

(* The registers of the serial port keep their widths. *)
LEMMA SpartTyped ==
  ASSUME Types, NEW clocks \in SendClocks, NEW starts \in BOOLEAN, Clock(clocks, starts)
  PROVE  SpartTypeOK'
<1> DEFINE B == Bytes
<1>0. /\ SpartTypeOK /\ bus \in Bus /\ Bytes \in Nat \ {0} /\ 0 \in Byte
      /\ ByteClocks \in Nat \ {0} /\ GapClocks \in Nat \ {0}
      /\ TopClock(spart_q) /\ DriverClock(spart_q) /\ TransmitClock(clocks)
      /\ ReceiverClock(starts, HostWords[hostWord][hostByte])
  BY SpartAssumption DEF Types, TypeOK, Bus, SpartAssumption, Clock, SpartClock
<1>1. HostWords[hostWord][hostByte] \in Byte
  <2>1. HostWords \in Seq(SerialWord) /\ hostWord \in DOMAIN HostWords /\ hostByte \in 0 .. Bytes - 1
    BY IoSystemAssumption DEF IoSystemAssumption, Types, TypeOK
  <2>2. HostWords[hostWord] \in SerialWord
    BY <2>1
  <2> QED BY <2>1, <2>2 DEF SerialWord
<1>2. ZeroWord \in SerialWord
  BY SpartAssumption DEF SpartAssumption, ZeroWord, SerialWord
<1>3. spart_q.wr \in SerialWord
  BY <1>0, <1>2 DEF spart_q, Idle, Bus
<1>4. count' \in {0, 1}
  BY <1>0 DEF TopClock, SpartTypeOK
<1>5. state' \in {"IDLE", "READ", "WRITE"}
  BY <1>0 DEF DriverClock, NextState
<1>6. counter' \in 0 .. Bytes - 1 /\ data_rx' \in SerialWord
  BY <1>0 DEF DriverClock, ReceiveClock, SpartTypeOK, SerialWord
<1>7. data_to_be_transmitted' \in SerialWord
  BY <1>0, <1>3 DEF DriverClock, SendClock, SpartTypeOK
<1>8. /\ ready_rw' \in 0 .. 2 /\ ioaddr' \in {0, 2, 3}
      /\ counter_wr' \in 0 .. Bytes - 1 /\ databus_drive' \in Byte
  <2>1. (ready_rw < 2 /\ BusProgram) \/ BusIdle \/ BusWrite \/ BusRead
    BY <1>0 DEF DriverClock, BusClock, SpartTypeOK
  <2>2. CASE ready_rw < 2 /\ BusProgram
    BY <1>0, <2>2 DEF BusProgram, SpartTypeOK
  <2>3. CASE BusIdle
    BY <1>0, <2>3 DEF BusIdle, SpartTypeOK
  <2>4. CASE BusWrite
    BY <1>0, <2>4 DEF BusWrite, SpartTypeOK, SerialWord
  <2>5. CASE BusRead
    BY <1>0, <2>5 DEF BusRead, SpartTypeOK
  <2> QED BY <2>1, <2>2, <2>3, <2>4, <2>5
<1>9. piso' \in Byte \cup {Mixed}
  BY <1>0 DEF TransmitClock, SpartTypeOK
<1>10. receiving' \in 0 .. ByteClocks /\ gap' \in 0 .. GapClocks
  BY <1>0 DEF ReceiverClock, SpartTypeOK, Received
<1>11. ReceivedData' \in Byte
  BY <1>0, <1>1 DEF ReceiverClock, SpartTypeOK
<1>12. status' \in [ready : BOOLEAN, received : BOOLEAN]
  <2>1. status.received \in BOOLEAN
    BY <1>0 DEF SpartTypeOK
  <2> QED
  BY <1>0, <2>1 DEF DriverClock, StatusClock, Types
<1> QED
  BY <1>4, <1>5, <1>6, <1>7, <1>8, <1>9, <1>10, <1>11, <1>12 DEF SpartTypeOK


(* What the processor's edge may do: it waits for the answer, or the       *)
(* answered access stands once more, or the next one comes, or none stood  *)
(* there.                                                                  *)
Waits ==
  /\ bus.valid /\ ~mem_ready_data
  /\ UNCHANGED << bus, op, polled, idle, repeats >>
Repeats ==
  /\ bus.valid /\ mem_ready_data /\ repeats < MaxRepeats
  /\ repeats' = repeats + 1 /\ UNCHANGED << bus, op, polled, idle >>
MovesOn(n, ready) ==
  /\ bus.valid /\ mem_ready_data /\ repeats' = 0 /\ Continue(n, ready)
  /\ ready => /\ n = op /\ bus = Load("STATUS")
              /\ program.ops[op].do = "SEND" => status.ready
              /\ program.ops[op].do = "RECEIVE" => status.received
Rests == ~bus.valid /\ Continue(op, polled) /\ UNCHANGED repeats

(* The processor does one of these at every edge, and only the answer to a *)
(* poll, which is the status, lets a program access the data.              *)
LEMMA ProgramMoves ==
  ASSUME Types, IInv, PollInv, Next
  PROVE  \/ Waits \/ Repeats \/ Rests
         \/ \E n \in DOMAIN program.ops, ready \in BOOLEAN : MovesOn(n, ready)
<1>1. ProgramClock /\ (Answered <=> mem_ready_data)
  BY ClockRegisters, AnsweredByBit
<1>2. Answered <=> bus.valid /\ io_ready
  BY DEF Answered
<1>3. CASE Answered /\ repeats' = 0 /\
           IF Polls THEN Continue(op, Polled)
                    ELSE Continue((op % Len(program.ops)) + 1, FALSE)
  <2>1. (op % Len(program.ops)) + 1 \in DOMAIN program.ops
    <3>1. program.ops \in Seq(Operation) /\ program.ops # << >> /\ op \in DOMAIN program.ops
      BY DEF Program, Types, TypeOK
    <3> DEFINE l == Len(program.ops)
    <3>2. l \in Nat \ {0} /\ DOMAIN program.ops = 1 .. l
      BY <3>1
    <3>3. op \in Nat
      BY <3>1, <3>2
    <3>4. (op % l) + 1 \in 1 .. l
      <4> HIDE DEF l
      <4> QED BY <3>2, <3>3
    <3> QED BY <3>2, <3>4
  <2>2. ASSUME ~Polls
        PROVE  MovesOn((op % Len(program.ops)) + 1, FALSE)
    BY <1>1, <1>2, <1>3, <2>2 DEF MovesOn
  <2>3. ASSUME Polls
        PROVE  MovesOn(op, Polled) /\ Polled \in BOOLEAN
    <3>1. bus = Load("STATUS")
      BY <1>2, <1>3, <2>3 DEF PollInv, Access, Polls
    <3>2. io_rd = status
      BY <3>1 DEF io_rd, spart_addr, spart_q, SpartRead, Load
    <3>3. status \in [ready : BOOLEAN, received : BOOLEAN]
      BY DEF Types, TypeOK, SpartTypeOK
    <3>4. /\ Polled \in BOOLEAN
          /\ program.ops[op].do = "SEND" => Polled = status.ready
          /\ program.ops[op].do = "RECEIVE" => Polled = status.received
      BY <3>2, <3>3 DEF Polled
    <3> QED BY <1>1, <1>2, <1>3, <2>3, <3>1, <3>4 DEF MovesOn
  <2>4. op \in DOMAIN program.ops
    BY DEF Types, TypeOK
  <2> QED BY <2>1, <2>2, <2>3, <2>4
<1>4. CASE Answered /\ repeats < MaxRepeats /\ repeats' = repeats + 1
           /\ UNCHANGED << bus, op, polled, idle >>
  BY <1>1, <1>2, <1>4 DEF Repeats
<1>5. CASE bus.valid /\ ~io_ready /\ UNCHANGED << bus, op, polled, idle, repeats >>
  BY <1>1, <1>2, <1>5 DEF Waits
<1>6. CASE ~bus.valid /\ Continue(op, polled) /\ UNCHANGED repeats
  BY <1>6 DEF Rests
<1> QED BY <1>1, <1>3, <1>4, <1>5, <1>6 DEF ProgramClock

(* What the program does keeps its types. *)
LEMMA ProgramTyped ==
  ASSUME Types, IInv, PollInv, Next
  PROVE  /\ program' = program
         /\ bus' \in Bus /\ op' \in DOMAIN program.ops /\ polled' \in BOOLEAN
         /\ idle' \in 0 .. MaxIdle /\ repeats' \in 0 .. MaxRepeats
<1>0. /\ MaxIdle \in Nat /\ MaxRepeats \in Nat /\ polled \in BOOLEAN
      /\ idle \in 0 .. MaxIdle /\ repeats \in 0 .. MaxRepeats
      /\ bus \in Bus /\ op \in DOMAIN program.ops /\ program \in Program
  BY IoSystemAssumption DEF IoSystemAssumption, Types, TypeOK, Bus
<1>1. program' = program
  BY ClockRegisters DEF ProgramClock
<1>2. ASSUME NEW n \in DOMAIN program.ops, NEW ready \in BOOLEAN, Continue(n, ready)
      PROVE  bus' \in Bus /\ op' = n /\ polled' = ready /\ idle' \in 0 .. MaxIdle
  <2>1. \A a \in Results : Idle(a) \in Bus
    BY SpartAssumption DEF Results, Idle, Bus, SpartAssumption, ZeroWord, SerialWord
  <2>2. Access(n, ready) \in Bus
    BY <1>0, AccessTyped
  <2> QED BY <1>0, <1>2, <2>1, <2>2 DEF Continue
<1>3. CASE Waits
  BY <1>0, <1>1, <1>3 DEF Waits
<1>4. CASE Repeats
  BY <1>0, <1>1, <1>4 DEF Repeats
<1>5. ASSUME NEW n \in DOMAIN program.ops, NEW ready \in BOOLEAN, MovesOn(n, ready)
      PROVE  /\ bus' \in Bus /\ op' \in DOMAIN program.ops /\ polled' \in BOOLEAN
             /\ idle' \in 0 .. MaxIdle /\ repeats' \in 0 .. MaxRepeats
  BY <1>0, <1>2, <1>5 DEF MovesOn
<1>6. CASE Rests
  BY <1>0, <1>1, <1>2, <1>6 DEF Rests
<1> QED BY <1>1, <1>3, <1>4, <1>5, <1>6, ProgramMoves

(* The host sends no more words than it has answered with, and its place   *)
(* in them stays within bounds.                                            *)
LEMMA HostTyped ==
  ASSUME Types, Next, program' = program
  PROVE  /\ credit' \in Nat /\ hostByte' \in 0 .. Bytes - 1
         /\ hostWord' \in DOMAIN HostWords
         /\ heard' \in 0 .. Bytes * Len(program.replies) - 1
         /\ receiving' > 0 => credit' > 0
<1>0. PICK clocks \in SendClocks, starts \in BOOLEAN :
        Clock(clocks, starts) /\ (starts => MayStart)
  BY NextIsClock
<1>1. HostClock /\ ReceiverClock(starts, HostWords[hostWord][hostByte])
  BY <1>0 DEF Clock, SpartClock
<1> DEFINE l == Len(program.replies)
           m == Len(HostWords)
           span == Bytes * l
<1>2. /\ l \in Nat \ {0} /\ DOMAIN program.replies = 1 .. l
      /\ \A i \in 1 .. l : program.replies[i] \in Nat
      /\ m \in Nat \ {0} /\ DOMAIN HostWords = 1 .. m
  <2>1. program.replies \in Seq(Nat) /\ program.replies # << >>
    BY DEF Types, Program
  <2>2. HostWords \in Seq(SerialWord) /\ HostWords # << >>
    BY IoSystemAssumption DEF IoSystemAssumption
  <2> QED BY <2>1, <2>2
<1>3. /\ Bytes \in Nat \ {0} /\ hostByte \in 0 .. Bytes - 1 /\ hostWord \in 1 .. m
      /\ heard \in 0 .. span - 1 /\ credit \in Nat /\ receiving \in 0 .. ByteClocks
      /\ receiving > 0 => credit > 0
      /\ ByteClocks \in Nat \ {0}
  BY <1>2, SpartAssumption DEF Types, TypeOK, SpartTypeOK, SpartAssumption
<1>4. span \in Nat \ {0}
  <2>1. \A x, y \in Nat \ {0} : x * y \in Nat \ {0}
    OBVIOUS
  <2> QED BY <1>2, <1>3, <2>1
<1>5. heard' \in 0 .. span - 1
  <2> HIDE DEF span, l
  <2>1. (heard + 1) % span \in 0 .. span - 1
    BY <1>3, <1>4
  <2> QED BY <1>1, <1>3, <2>1 DEF HostClock, span, l
<1>6. hostByte' \in 0 .. Bytes - 1
  BY <1>1, <1>3 DEF HostClock
<1>7. hostWord' \in 1 .. m
  <2> HIDE DEF m
  <2>1. (hostWord % m) + 1 \in 1 .. m
    BY <1>2, <1>3
  <2> QED BY <1>1, <1>3, <2>1 DEF HostClock, m
<1>8. Replies \in Nat
  <2>1. heard \div Bytes \in 0 .. l - 1
    BY <1>2, <1>3, QuotientBounded
  <2> QED BY <1>2, <2>1 DEF Replies
<1>9. /\ credit' = credit + (IF HeardWord THEN Replies ELSE 0) - (IF SentWord THEN 1 ELSE 0)
      /\ SentWord => receiving = 1
  BY <1>1 DEF HostClock, SentWord, Received
<1>10. credit' \in Nat /\ (~SentWord => credit' >= credit)
  BY <1>3, <1>8, <1>9
<1>11. ASSUME receiving' > 0
       PROVE  credit' > 0
  <2>0. receiving' = CASE receiving > 0 -> receiving - 1
                       [] starts -> ByteClocks
                       [] OTHER -> 0
    BY <1>1 DEF ReceiverClock
  <2>1. receiving # 1
    BY <1>0, <1>3, <1>11, <2>0 DEF MayStart
  <2>2. ~SentWord
    BY <1>9, <2>1
  <2>3. credit > 0
    BY <1>0, <1>1, <1>3, <1>11 DEF ReceiverClock, MayStart
  <2> QED BY <1>3, <1>10, <2>2, <2>3
<1> QED BY <1>2, <1>5, <1>6, <1>7, <1>10, <1>11

-----------------------------------------------------------------------------
(* The way of a byte                                                       *)

(* Nothing moves; a byte is put on the bus; the transmitter takes it; its  *)
(* last bit goes out.                                                      *)
Stays ==
  /\ ~Given /\ ~Given' /\ state # "WRITE" /\ (buffer_full' <=> buffer_full)
  /\ piso' = piso /\ counter_wr' = counter_wr /\ ~data_written'
  /\ buffer_full => sending > 1 /\ sending' = sending - 1
  /\ state' = "WRITE" => start_transmitter /\ ~buffer_full
HandsOver ==
  /\ state = "WRITE" /\ state' = "IDLE" /\ ~Given /\ Given' /\ start_transmitter
  /\ ~buffer_full /\ ~buffer_full'
  /\ databus_drive' = data_to_be_transmitted[counter_wr]
  /\ data_written' <=> counter_wr = Bytes - 1
  /\ counter_wr' = (counter_wr + 1) % Bytes
Picks(clocks) ==
  /\ Given /\ ~Given' /\ state = "IDLE" /\ state' = "IDLE" /\ start_transmitter
  /\ ~buffer_full /\ buffer_full' /\ piso' = databus_drive /\ sending' = clocks
  /\ counter_wr' = counter_wr /\ ~data_written'
Carries ==
  /\ ~Given /\ ~Given' /\ state # "WRITE" /\ state' # "WRITE"
  /\ buffer_full /\ sending = 1 /\ ~buffer_full'
  /\ counter_wr' = counter_wr /\ ~data_written'

(* The registers of the sending half at an edge. *)
LEMMA SendingEdge ==
  ASSUME Types, NEW clocks \in SendClocks, NEW starts \in BOOLEAN, Clock(clocks, starts)
  PROVE  /\ state' = NextState /\ data_spart_rdy' = NextSpartRdy
         /\ SendClock(spart_q) /\ BusClock /\ TransmitClock(clocks)
         /\ write_ready' = ~start_transmitter /\ status'.ready = write_ready
  BY DEF Clock, SpartClock, DriverClock, StatusClock

(* A byte is on the bus only in the clock after WRITE, and the divider of  *)
(* the baud rate is never taken for one.                                   *)
LEMMA BusEdge ==
  ASSUME Types, ByteInv, BusClock
  PROVE  /\ state # "WRITE" => ~Given' /\ ~data_written' /\ counter_wr' = counter_wr
         /\ state = "WRITE" =>
              /\ Given' /\ databus_drive' = data_to_be_transmitted[counter_wr]
              /\ data_written' <=> counter_wr = Bytes - 1
              /\ counter_wr' = (counter_wr + 1) % Bytes
         /\ tbr_changed' \in BOOLEAN
         /\ tbr_changed' <=> IF state = "IDLE" /\ ready_rw = 2 THEN buffer_full ELSE tbr_changed
         /\ ready_rw = 2 => ready_rw' = 2
<1>0. /\ ready_rw \in 0 .. 2 /\ state \in {"IDLE", "READ", "WRITE"} /\ data_written \in BOOLEAN
      /\ tbr_changed \in BOOLEAN /\ buffer_full \in BOOLEAN
      /\ ready_rw < 2 => ~data_written /\ state # "WRITE"
  BY DEF Types, TypeOK, SpartTypeOK, ByteInv, Resting
<1>1. CASE ready_rw < 2 /\ BusProgram
  <2>1. ioaddr' # 0 /\ data_written' = data_written /\ counter_wr' = counter_wr
        /\ tbr_changed' = tbr_changed
    BY <1>0, <1>1 DEF BusProgram
  <2> QED BY <1>0, <1>1, <2>1 DEF Given
<1>2. CASE ready_rw = 2 /\ state = "IDLE" /\ BusIdle
  <2>1. iocs' = FALSE /\ data_written' = FALSE /\ counter_wr' = counter_wr
        /\ ready_rw' = ready_rw
    BY <1>2 DEF BusIdle
  <2>2. tbr_changed' = ~tbr
    BY <1>2 DEF BusIdle
  <2>3. tbr_changed' \in BOOLEAN /\ (tbr_changed' <=> buffer_full)
    BY <1>0, <2>2, Zenon DEF tbr
  <2> QED BY <1>2, <2>1, <2>3 DEF Given
<1>3. CASE ready_rw = 2 /\ state = "WRITE" /\ BusWrite
  <2>1. iocs' = TRUE /\ iorw' = FALSE /\ ioaddr' = 0 /\ ready_rw' = ready_rw
        /\ tbr_changed' = tbr_changed /\ counter_wr' = (counter_wr + 1) % Bytes
        /\ databus_drive' = data_to_be_transmitted[counter_wr]
    BY <1>3 DEF BusWrite
  <2>2. data_written' <=> counter_wr = Bytes - 1
    BY <1>3, Zenon DEF BusWrite
  <2> QED BY <1>0, <1>3, <2>1, <2>2 DEF Given
<1>4. CASE ready_rw = 2 /\ state = "READ" /\ BusRead
  <2>1. iorw' = TRUE /\ data_written' = FALSE /\ counter_wr' = counter_wr
        /\ ready_rw' = ready_rw /\ tbr_changed' = tbr_changed
    BY <1>4 DEF BusRead
  <2> QED BY <1>0, <1>4, <2>1 DEF Given
<1> QED BY <1>1, <1>2, <1>3, <1>4 DEF BusClock

(* What the driver sends next, and whether it knows the transmitter busy.  *)
LEMMA StateEdge ==
  ASSUME Types, ByteInv, state' = NextState, data_spart_rdy' = NextSpartRdy
  PROVE  /\ state' = "WRITE" => /\ state = "IDLE" /\ start_transmitter /\ ready_rw = 2
                                /\ ~buffer_full /\ ~data_spart_rdy
         /\ state # "IDLE" => state' = "IDLE"
         /\ start_transmitter /\ state' # "WRITE" => state' = "IDLE"
         /\ data_spart_rdy' \in BOOLEAN
         /\ data_spart_rdy' <=>
              IF state = "IDLE" /\ ~buffer_full /\ tbr_changed THEN FALSE
              ELSE state' = "WRITE" \/ data_spart_rdy
<1>0. /\ state \in {"IDLE", "READ", "WRITE"} /\ data_spart_rdy \in BOOLEAN
      /\ start_transmitter \in BOOLEAN /\ buffer_full \in BOOLEAN /\ tbr_changed \in BOOLEAN
  BY DEF Types, TypeOK, SpartTypeOK
<1>1. /\ StartsWrite => /\ ~StartsRead /\ start_transmitter /\ ready_rw = 2
                        /\ ~buffer_full /\ ~data_spart_rdy
      /\ StartsRead => ~start_transmitter
  BY DEF StartsWrite, StartsRead, tbr
<1>2. state' = IF state = "IDLE" /\ StartsRead THEN "READ"
               ELSE IF state = "IDLE" /\ StartsWrite THEN "WRITE" ELSE "IDLE"
  BY <1>1 DEF NextState
<1>3. state' = "WRITE" <=> state = "IDLE" /\ StartsWrite
  BY <1>1, <1>2
<1>4. CASE state # "IDLE"
  <2>1. data_spart_rdy' = data_spart_rdy
    BY <1>4 DEF NextSpartRdy
  <2> QED BY <1>0, <1>1, <1>2, <1>3, <1>4, <2>1
<1>5. CASE state = "IDLE" /\ ~buffer_full /\ tbr_changed
  <2>1. data_spart_rdy' = FALSE
    BY <1>5 DEF NextSpartRdy, tbr
  <2> QED BY <1>0, <1>1, <1>2, <1>3, <1>5, <2>1
<1>6. CASE state = "IDLE" /\ ~(~buffer_full /\ tbr_changed)
  <2>1. data_spart_rdy' = (StartsWrite \/ data_spart_rdy)
    BY <1>6 DEF NextSpartRdy, tbr
  <2>2. data_spart_rdy' \in BOOLEAN /\ (data_spart_rdy' <=> StartsWrite \/ data_spart_rdy)
    BY <1>0, <2>1, Zenon
  <2> QED BY <1>0, <1>1, <1>2, <1>3, <1>6, <2>2
<1> QED BY <1>4, <1>5, <1>6

(* The transmitter's edge. *)
LEMMA TransmitterEdge ==
  ASSUME Types, NEW clocks, TransmitClock(clocks)
  PROVE  /\ buffer_full' \in BOOLEAN
         /\ buffer_full' <=> ~(buffer_full /\ sending = 1) /\ (Given \/ buffer_full)
         /\ Given /\ ~buffer_full => piso' = databus_drive /\ sending' = clocks
         /\ ~Given => piso' = piso /\ (buffer_full => sending' = sending - 1)
<1>1. buffer_full' = (~Carried /\ (Given \/ buffer_full))
  BY DEF TransmitClock
<1>2. /\ buffer_full' \in BOOLEAN
      /\ buffer_full' <=> ~(buffer_full /\ sending = 1) /\ (Given \/ buffer_full)
  BY <1>1, Zenon DEF Carried
<1>3. /\ Given /\ ~buffer_full => piso' = databus_drive /\ sending' = clocks
      /\ ~Given => piso' = piso /\ (buffer_full => sending' = sending - 1)
  BY DEF TransmitClock
<1> QED BY <1>2, <1>3

Accepting == Stores("DATA") /\ ~start_transmitter

(* The driver takes a store when it is at rest, and only then. *)
LEMMA AcceptEdge ==
  ASSUME Types, ByteInv, PollInv, SendClock(spart_q)
  PROVE  /\ start_transmitter' \in BOOLEAN
         /\ start_transmitter' <=> Accepting \/ (start_transmitter /\ ~data_written)
         /\ data_to_be_transmitted' = IF Accepting THEN bus.wr ELSE data_to_be_transmitted
<1>0. start_transmitter \in BOOLEAN /\ data_written \in BOOLEAN /\ bus \in Bus
  BY DEF Types, Bus
<1>1. data_written => start_transmitter
  BY DEF ByteInv, Resting, Chosen, OnBus, GoingOut, Gone
<1>2. bus.valid /\ bus.rw /\ spart_addr => bus.addr = "DATA"
  <2>1. SUFFICES ASSUME bus.valid, bus.rw, spart_addr
                 PROVE  bus.addr = "DATA"
    OBVIOUS
  <2>2. bus = Access(op, polled) /\ program.ops[op] \in Operation /\ polled \in BOOLEAN
    BY <2>1 DEF PollInv, Types, TypeOK, Program
  <2> DEFINE o == program.ops[op]
  <2>3. o.do \in {"SEND", "RECEIVE", "STORE", "LOAD"} /\ (o.do = "STORE" => o.addr \in Register)
    BY <2>2 DEF Operation
  <2>4. o.do \in {"SEND", "RECEIVE"} => bus \in {Store("DATA", o.wr), Load("STATUS"), Load("DATA")}
    BY <2>2 DEF Access
  <2>5. o.do = "STORE" => bus = Store(o.addr, o.wr)
    BY <2>2 DEF Access
  <2>6. o.do = "LOAD" => bus = Load(o.addr)
    BY <2>2 DEF Access
  <2> QED
    BY <2>1, <2>3, <2>4, <2>5, <2>6 DEF Store, Load, spart_addr, Register
<1>3. Accepts(spart_q) <=> Accepting
  BY <1>0, <1>1, <1>2 DEF Accepts, Accepting, wren, spart_q, Idle, Stores, spart_addr
<1>4. Accepting => spart_q = bus
  BY DEF Accepting, Stores, spart_q, spart_addr
<1>5. data_to_be_transmitted' = IF Accepting THEN bus.wr ELSE data_to_be_transmitted
  BY <1>3, <1>4 DEF SendClock
<1>6. CASE Accepting
  <2>1. start_transmitter' = TRUE
    BY <1>3, <1>6, <1>1 DEF SendClock, Accepting
  <2> QED BY <1>5, <1>6, <2>1
<1>7. CASE ~Accepting /\ data_written
  <2>1. start_transmitter' = FALSE
    BY <1>1, <1>3, <1>7 DEF SendClock
  <2> QED BY <1>5, <1>7, <2>1
<1>8. CASE ~Accepting /\ ~data_written
  <2>1. start_transmitter' = start_transmitter
    BY <1>3, <1>8 DEF SendClock
  <2> QED BY <1>0, <1>5, <1>8, <2>1
<1> QED BY <1>6, <1>7, <1>8

(* At an edge one thing happens to a byte at most, and the registers that  *)
(* say where it is go on agreeing.                                         *)
LEMMA ByteMoves ==
  ASSUME Types, ByteInv, PollInv, NEW clocks \in SendClocks, NEW starts \in BOOLEAN,
         Clock(clocks, starts)
  PROVE  /\ Stays \/ HandsOver \/ Picks(clocks) \/ Carries
         /\ ByteInv'
<1>0. /\ state \in {"IDLE", "READ", "WRITE"} /\ ready_rw \in 0 .. 2
      /\ {data_written, start_transmitter, data_spart_rdy, tbr_changed, buffer_full}
           \subseteq BOOLEAN
      /\ counter_wr \in 0 .. Bytes - 1 /\ Bytes \in Nat \ {0, 1}
      /\ clocks \in Nat \ {0}
  BY SpartAssumption, ShortRepeats DEF Types, TypeOK, SpartTypeOK, SpartAssumption, ShortRepeats
<1> DEFINE Send == start_transmitter' <=> Accepting \/ (start_transmitter /\ ~data_written)
           Word == data_to_be_transmitted' =
                     IF Accepting THEN bus.wr ELSE data_to_be_transmitted
           Wire == /\ state # "WRITE" => ~Given' /\ ~data_written' /\ counter_wr' = counter_wr
                   /\ state = "WRITE" =>
                        /\ Given' /\ databus_drive' = data_to_be_transmitted[counter_wr]
                        /\ data_written' <=> counter_wr = Bytes - 1
                        /\ counter_wr' = (counter_wr + 1) % Bytes
                   /\ tbr_changed' <=> IF state = "IDLE" /\ ready_rw = 2 THEN buffer_full
                                                                      ELSE tbr_changed
                   /\ ready_rw = 2 => ready_rw' = 2
           Choice == /\ state' = "WRITE" => /\ state = "IDLE" /\ start_transmitter
                                            /\ ready_rw = 2 /\ ~buffer_full /\ ~data_spart_rdy
                     /\ state # "IDLE" => state' = "IDLE"
                     /\ start_transmitter /\ state' # "WRITE" => state' = "IDLE"
                     /\ data_spart_rdy' <=>
                          IF state = "IDLE" /\ ~buffer_full /\ tbr_changed THEN FALSE
                          ELSE state' = "WRITE" \/ data_spart_rdy
           Line == /\ buffer_full' <=> ~(buffer_full /\ sending = 1) /\ (Given \/ buffer_full)
                   /\ Given /\ ~buffer_full => piso' = databus_drive /\ sending' = clocks
                   /\ ~Given => piso' = piso /\ (buffer_full => sending' = sending - 1)
<1>1. Send /\ Word
  BY SendingEdge, AcceptEdge
<1>2. Wire
  BY SendingEdge, BusEdge
<1>3. Choice
  BY SendingEdge, StateEdge
<1>4. Line
  BY SendingEdge, TransmitterEdge
<1>5. state' \in {"IDLE", "READ", "WRITE"}
  BY SendingEdge DEF NextState
<1>6. /\ data_written => Given /\ counter_wr = 0
      /\ ~start_transmitter => counter_wr = 0
      /\ Given => start_transmitter
      /\ ready_rw < 2 => Resting
  BY DEF ByteInv, Resting, Chosen, OnBus, GoingOut, Gone
<1> HIDE DEF Send, Word, Wire, Choice, Line
<1>7. CASE Resting
  <2>1. ~Given /\ ~data_written
    BY <1>6, <1>7 DEF Resting
  <2>2. Stays
    BY <1>0, <1>2, <1>3, <1>4, <1>7 DEF Resting, Stays, Wire, Choice, Line
  <2>3. CASE state' = "WRITE"
    <3>1. Chosen'
      BY <1>0, <1>1, <1>2, <1>3, <1>4, <1>7, <2>1, <2>3 DEF Send, Wire, Choice, Line, Resting, Chosen
    <3>2. ready_rw' = 2
      BY <1>2, <1>3, <2>3 DEF Wire, Choice
    <3>3. start_transmitter'
      BY <1>1, <1>3, <2>1, <2>3 DEF Send, Choice
    <3> QED BY <2>2, <3>1, <3>2, <3>3 DEF ByteInv, Stays
  <2>4. CASE state' # "WRITE"
    <3>1. Resting'
      BY <1>0, <1>2, <1>3, <1>4, <1>7, <2>1, <2>4 DEF Wire, Choice, Line, Resting
    <3>2. ~start_transmitter' => counter_wr' = 0
      BY <1>1, <1>6, <2>1, <2>2 DEF Send, Stays
    <3> QED BY <2>2, <3>1, <3>2 DEF ByteInv, Stays
  <2> QED BY <2>3, <2>4
<1>8. CASE ready_rw = 2 /\ Chosen
  <2>1. HandsOver
    BY <1>0, <1>2, <1>3, <1>4, <1>8 DEF Chosen, HandsOver, Wire, Choice, Line
  <2>2. start_transmitter' /\ ~Accepting
    BY <1>1, <1>6, <1>8 DEF Send, Chosen, Accepting
  <2>3. counter_wr' = IF counter_wr = Bytes - 1 THEN 0 ELSE counter_wr + 1
    BY <1>0, <2>1 DEF HandsOver
  <2>4. From' = counter_wr
    BY <1>0, <2>1, <2>3 DEF HandsOver, From
  <2>5. databus_drive' = data_to_be_transmitted'[From']
    BY <1>1, <2>1, <2>2, <2>4 DEF HandsOver, Word
  <2>6. data_written' \/ counter_wr' > 0
    BY <1>0, <2>1, <2>3 DEF HandsOver
  <2>7. OnBus'
    BY <1>0, <1>2, <1>3, <1>8, <2>1, <2>2, <2>5, <2>6 DEF HandsOver, OnBus, Chosen, Wire, Choice
  <2>8. ready_rw' = 2
    BY <1>2, <1>8 DEF Wire
  <2> QED BY <2>1, <2>2, <2>3, <2>7, <2>8 DEF ByteInv, HandsOver
<1>9. CASE ready_rw = 2 /\ OnBus
  <2>1. Picks(clocks)
    BY <1>0, <1>2, <1>3, <1>4, <1>9 DEF OnBus, Picks, Wire, Choice, Line
  <2>2. GoingOut' /\ ready_rw' = 2
    BY <1>0, <1>2, <1>3, <1>9, <2>1 DEF OnBus, GoingOut, Picks, Wire, Choice
  <2>3. ~start_transmitter' => counter_wr' = 0
    BY <1>1, <1>6, <1>9, <2>1 DEF Send, OnBus, Picks
  <2> QED BY <2>1, <2>2, <2>3 DEF ByteInv, Picks
<1>10. CASE ready_rw = 2 /\ GoingOut
  <2>1. state' # "WRITE" /\ ~data_written
    BY <1>3, <1>6, <1>10 DEF GoingOut, Choice
  <2>2. ~start_transmitter' => counter_wr' = 0
    BY <1>1, <1>2, <1>6, <1>10, <2>1 DEF Send, Wire, GoingOut
  <2>3. CASE sending = 1
    <3>1. Carries
      BY <1>2, <1>4, <1>10, <2>1, <2>3 DEF GoingOut, Carries, Wire, Line
    <3>2. Gone' /\ ready_rw' = 2
      BY <1>0, <1>2, <1>3, <1>10, <2>1, <3>1 DEF GoingOut, Gone, Carries, Wire, Choice
    <3> QED BY <2>2, <3>1, <3>2 DEF ByteInv, Carries
  <2>4. CASE sending # 1
    <3>1. Stays
      BY <1>0, <1>2, <1>4, <1>10, <2>1, <2>4 DEF GoingOut, Stays, Wire, Line
    <3>2. GoingOut' /\ ready_rw' = 2
      BY <1>0, <1>2, <1>3, <1>10, <2>1, <2>4, <3>1 DEF GoingOut, Stays, Wire, Choice
    <3> QED BY <2>2, <3>1, <3>2 DEF ByteInv, Stays
  <2> QED BY <2>3, <2>4
<1>11. CASE ready_rw = 2 /\ Gone
  <2>1. state' # "WRITE" /\ ~data_written
    BY <1>3, <1>6, <1>11 DEF Gone, Choice
  <2>2. Stays
    BY <1>0, <1>2, <1>4, <1>11, <2>1 DEF Gone, Stays, Wire, Line
  <2>3. ~start_transmitter' => counter_wr' = 0
    BY <1>1, <1>6, <2>1, <2>2 DEF Send, Stays
  <2>4. Gone' \/ Resting'
    BY <1>0, <1>2, <1>3, <1>5, <1>11, <2>1, <2>2 DEF Gone, Resting, Stays, Wire, Choice
  <2>5. ready_rw' = 2
    BY <1>2, <1>11 DEF Wire
  <2> QED BY <2>2, <2>3, <2>4, <2>5 DEF ByteInv, Stays
<1> QED BY <1>7, <1>8, <1>9, <1>10, <1>11 DEF ByteInv

-----------------------------------------------------------------------------
(* The store the driver has taken and the pipeline has not                 *)

(* The edge as the bus of the processor sees it: an access waits, or its   *)
(* answer stands once more, or the next access comes, or there was none.   *)
LEMMA AccessEdge ==
  ASSUME Types, IInv, PollInv, Next
  PROVE  /\ program' = program
         /\ \/ /\ Waits \/ Repeats
               /\ bus' = bus /\ (Taking' <=> Stores("DATA")) /\ Age' = Age + 1
               /\ ~(Taken /\ Stores("DATA"))
               /\ mem_ready_data' <=> ~mem_ready_data
            \/ /\ \E n \in DOMAIN program.ops, ready \in BOOLEAN : MovesOn(n, ready)
               /\ ~Taking' /\ ~mem_ready_data' /\ Taken
            \/ Rests /\ ~Taking /\ ~Taking' /\ ~mem_ready_data /\ ~mem_ready_data' /\ ~Taken
<1>0. /\ program' = program /\ mem_ready_data \in BOOLEAN /\ repeats \in 0 .. MaxRepeats
      /\ MaxRepeats \in Nat /\ (mem_ready_data => bus.valid) /\ (repeats > 0 => bus.valid)
      /\ mem_ready_data' = IF bus.valid THEN ~mem_ready_data ELSE mem_ready_data
  BY ClockRegisters, IoSystemAssumption
     DEF IoSystemAssumption, Types, TypeOK, IInv, PollInv, MapClock, ProgramClock
<1>1. /\ bus.valid /\ mem_ready_data => mem_ready_data' = FALSE
      /\ bus.valid /\ ~mem_ready_data => mem_ready_data' = TRUE
      /\ ~bus.valid => mem_ready_data' = FALSE /\ ~mem_ready_data
  BY <1>0
<1>2. Taken <=> mem_ready_data /\ repeats' = 0
  BY AnsweredByBit DEF Taken
<1>3. CASE Waits
  <2>1. bus' = bus /\ repeats' = repeats /\ ~mem_ready_data /\ mem_ready_data' = TRUE
    BY <1>1, <1>3 DEF Waits
  <2> QED BY <1>0, <1>2, <1>3, <2>1 DEF Taking, Age, Stores
<1>4. CASE Repeats
  <2>1. bus' = bus /\ repeats' = repeats + 1 /\ mem_ready_data /\ mem_ready_data' = FALSE
    BY <1>1, <1>4 DEF Repeats
  <2> QED BY <1>0, <1>2, <1>4, <2>1 DEF Taking, Age, Stores
<1>5. ASSUME NEW n \in DOMAIN program.ops, NEW ready \in BOOLEAN, MovesOn(n, ready)
      PROVE  ~Taking' /\ ~mem_ready_data' /\ Taken
  BY <1>0, <1>1, <1>2, <1>5 DEF MovesOn, Taking
<1>6. CASE Rests
  BY <1>0, <1>1, <1>2, <1>6 DEF Rests, Taking, Stores
<1> QED BY <1>0, <1>3, <1>4, <1>5, <1>6, ProgramMoves

(* A store to the data register is one that has been polled for. *)
LEMMA StoreWasPolled ==
  ASSUME Types, PollInv, Stores("DATA")
  PROVE  polled /\ program.ops[op].do = "SEND"
<1> DEFINE o == program.ops[op]
<1>1. bus = Access(op, polled) /\ o \in Operation /\ polled \in BOOLEAN
  BY DEF PollInv, Types, TypeOK, Program, Stores
<1>2. o.do \in {"SEND", "RECEIVE", "STORE", "LOAD"} /\ (o.do = "STORE" => o.addr \in Register)
  BY <1>1 DEF Operation
<1>3. o.do # "STORE"
  <2>1. o.do = "STORE" => bus.addr = o.addr
    BY <1>1 DEF Access, Store
  <2> QED BY <1>2, <2>1 DEF Stores, Register
<1>4. o.do # "LOAD"
  BY <1>1 DEF Access, Load, Stores
<1>5. o.do # "RECEIVE"
  BY <1>1 DEF Access, Load, Stores
<1>6. polled
  BY <1>1, <1>2, <1>3, <1>4, <1>5 DEF Access, Load, Stores
<1> QED BY <1>2, <1>3, <1>4, <1>5, <1>6

(* A store that the driver has not taken yet finds it at rest. *)
LEMMA StoreFindsRest ==
  ASSUME Types, PollInv, Stores("DATA"), ~Taking
  PROVE  Accepting /\ ~mem_ready_data
BY StoreWasPolled DEF PollInv, Accepting, Taking

(* Every step keeps the program and its polls in step with the driver. *)
LEMMA PollStep ==
  ASSUME Types, IInv, PollInv, ByteInv, TakingInv, Next
  PROVE  PollInv'
<1>0. PICK clocks \in SendClocks, starts \in BOOLEAN : Clock(clocks, starts)
  BY NextIsClock
<1>1. /\ start_transmitter' <=> Accepting \/ (start_transmitter /\ ~data_written)
      /\ write_ready' = ~start_transmitter /\ status'.ready = write_ready
      /\ start_transmitter \in BOOLEAN /\ write_ready \in BOOLEAN
  BY <1>0, SendingEdge, AcceptEdge DEF Types
<1>2. Taking => start_transmitter /\ bus.valid
  BY DEF TakingInv, Taking, Stores
<1>3. Accepting => Waits /\ Taking' /\ mem_ready_data'
  <2>1. SUFFICES ASSUME Accepting
                 PROVE  Waits /\ Taking' /\ mem_ready_data'
    OBVIOUS
  <2>2. Stores("DATA") /\ ~Taking /\ ~mem_ready_data /\ bus.valid
    BY <1>2, <2>1, StoreFindsRest DEF Accepting, Stores
  <2> QED BY <2>2, AccessEdge DEF Repeats, MovesOn, Rests, Waits
<1>4. bus'.valid => bus' = Access(op, polled)'
  <2>1. CASE Waits \/ Repeats
    <3>1. bus' = bus /\ op' = op /\ polled' = polled /\ program' = program
      BY <2>1, AccessEdge DEF Waits, Repeats
    <3>2. Access(op, polled)' = Access(op, polled)
      BY <3>1 DEF Access
    <3> QED BY <3>1, <3>2 DEF PollInv
  <2>2. ASSUME NEW n, NEW ready, Continue(n, ready)
        PROVE  bus'.valid => bus' = Access(op, polled)'
    <3>1. op' = n /\ polled' = ready /\ program' = program
      BY <2>2, AccessEdge DEF Continue
    <3>2. Access(op, polled)' = Access(n, ready)
      BY <3>1 DEF Access
    <3>3. \A a : ~Idle(a).valid
      BY DEF Idle
    <3> QED BY <2>2, <3>2, <3>3 DEF Continue
  <2> QED BY <2>1, <2>2, AccessEdge DEF MovesOn, Rests
<1>5. repeats' > 0 => bus'.valid
  <2>1. CASE Waits \/ Repeats
    BY <2>1 DEF Waits, Repeats
  <2>2. CASE Rests
    BY <2>2 DEF Rests, PollInv
  <2> QED BY <2>1, <2>2, AccessEdge DEF MovesOn
<1>6. write_ready' /\ start_transmitter' => Taking' /\ mem_ready_data'
  BY <1>1, <1>3
<1>7. status'.ready /\ start_transmitter' => Taking' \/ ~mem_ready_data'
  <2>1. SUFFICES ASSUME write_ready, start_transmitter, mem_ready_data'
                 PROVE  FALSE
    BY <1>1, <1>3
  <2>2. Taking /\ mem_ready_data /\ bus.valid
    BY <1>2, <2>1 DEF PollInv
  <2> QED BY <2>1, <2>2, AccessEdge DEF Rests
<1>8. ASSUME polled', program'.ops[op'].do = "SEND", ~Taking', start_transmitter'
      PROVE  FALSE
  <2>1. program' = program /\ ~Accepting /\ start_transmitter
    BY <1>1, <1>3, <1>8, AccessEdge
  <2>2. CASE Waits \/ Repeats
    <3>0. repeats \in Nat /\ bus.valid /\ op' = op /\ polled' = polled
      BY <2>2 DEF Types, TypeOK, Waits, Repeats
    <3>1. bus.valid /\ polled /\ program.ops[op].do = "SEND" /\ ~Stores("DATA")
      <4>1. Taking' <=> Stores("DATA")
        BY <2>2, <3>0, AccessEdge DEF Waits, Repeats, MovesOn, Rests
      <4>2. program'.ops[op'] = program.ops[op]
        BY <2>1, <3>0
      <4> QED BY <1>8, <3>0, <4>1, <4>2
    <3>2. bus = Store("DATA", program.ops[op].wr)
      <4>1. bus = Access(op, polled)
        BY <3>1 DEF PollInv
      <4>2. polled = TRUE
        BY <3>1 DEF Types
      <4> QED BY <3>1, <4>1, <4>2 DEF Access
    <3> QED BY <3>1, <3>2 DEF Store, Stores
  <2>3. ASSUME NEW n \in DOMAIN program.ops, NEW ready \in BOOLEAN, MovesOn(n, ready)
        PROVE  FALSE
    <3>1. ready /\ op' = n
      BY <1>8, <2>3 DEF MovesOn, Continue
    <3>2. bus = Load("STATUS") /\ status.ready /\ mem_ready_data
      BY <1>8, <2>1, <2>3, <3>1 DEF MovesOn
    <3>3. ~Taking
      BY <3>2 DEF Taking, Stores, Load
    <3> QED BY <2>1, <3>2, <3>3 DEF PollInv
  <2>4. CASE Rests
    <3>1. polled /\ op' = op /\ ~Taking
      BY <1>8, <2>4, AccessEdge DEF Rests, Continue, Taking, Stores
    <3> QED BY <1>8, <2>1, <3>1 DEF PollInv
  <2> QED BY <2>2, <2>3, <2>4, AccessEdge
<1> QED BY <1>4, <1>5, <1>6, <1>7, <1>8 DEF PollInv

(* How the first byte on its way moves. *)
LEMMA FromMoves ==
  ASSUME Types, ByteInv, NEW clocks \in SendClocks
  PROVE  /\ From \in 0 .. Bytes - 1
         /\ Stays \/ HandsOver \/ Carries => From' = From
         /\ Picks(clocks) => From' = IF data_written THEN 0 ELSE From + 1
         /\ ~start_transmitter => From = 0 /\ ~Given /\ state # "WRITE"
         /\ data_written => From = Bytes - 1
         /\ Given => databus_drive = data_to_be_transmitted[From]
<1>0. counter_wr \in 0 .. Bytes - 1 /\ Bytes \in Nat \ {0, 1} /\ data_written \in BOOLEAN
  BY SpartAssumption, ShortRepeats DEF Types, TypeOK, SpartTypeOK, SpartAssumption, ShortRepeats
<1>1. /\ data_written => Given /\ counter_wr = 0
      /\ Given => (data_written \/ counter_wr > 0) /\ databus_drive = data_to_be_transmitted[From]
      /\ ~start_transmitter => counter_wr = 0 /\ ~Given /\ state # "WRITE"
  BY DEF ByteInv, Resting, Chosen, OnBus, GoingOut, Gone
<1>2. From \in 0 .. Bytes - 1
  BY <1>0, <1>1 DEF From
<1>3. HandsOver => From' = From
  <2>1. SUFFICES ASSUME HandsOver
                 PROVE  From' = From
    OBVIOUS
  <2>2. counter_wr' = IF counter_wr = Bytes - 1 THEN 0 ELSE counter_wr + 1
    BY <1>0, <2>1 DEF HandsOver
  <2> QED BY <1>0, <2>1, <2>2 DEF From, HandsOver
<1>4. Stays \/ Carries => From' = From
  BY DEF From, Stays, Carries
<1>5. Picks(clocks) => From' = IF data_written THEN 0 ELSE From + 1
  BY <1>0, <1>1 DEF From, Picks
<1> QED BY <1>0, <1>1, <1>2, <1>3, <1>4, <1>5 DEF From

(* While a store is being taken its first byte does not leave the          *)
(* transmitter.                                                            *)
LEMMA TakingHolds ==
  ASSUME Types, TakingInv, Taking, Carries
  PROVE  From = 0
<1>1. SUFFICES ASSUME From # 0
               PROVE  FALSE
  OBVIOUS
<1>2. PICK clocks \in SendClocks : Age + sending >= clocks + 4
  BY <1>1 DEF TakingInv
<1>3. /\ repeats \in 0 .. MaxRepeats /\ MaxRepeats \in Nat /\ clocks \in Nat
      /\ 2 * MaxRepeats < clocks + 2
  BY IoSystemAssumption, SpartAssumption, ShortRepeats
     DEF IoSystemAssumption, SpartAssumption, ShortRepeats, Types, TypeOK
<1>4. Age <= 2 * MaxRepeats + 1 /\ Age \in Nat
  BY <1>3 DEF Age
<1> QED BY <1>2, <1>3, <1>4 DEF Carries

(* Every step keeps at most the first byte of such a store in the          *)
(* transmitter, and it is not taken twice.                                 *)
LEMMA TakingStep ==
  ASSUME Types, IInv, PollInv, ByteInv, TakingInv, Next
  PROVE  TakingInv'
<1> SUFFICES ASSUME Taking'
             PROVE  TakingInv'
  BY DEF TakingInv
<1>0. PICK clocks \in SendClocks, starts \in BOOLEAN : Clock(clocks, starts)
  BY NextIsClock
<1>1. /\ start_transmitter' <=> Accepting \/ (start_transmitter /\ ~data_written)
      /\ data_to_be_transmitted' = IF Accepting THEN bus.wr ELSE data_to_be_transmitted
  BY <1>0, SendingEdge, AcceptEdge
<1>2. Stays \/ HandsOver \/ Picks(clocks) \/ Carries
  BY <1>0, ByteMoves
<1>3. Stores("DATA") /\ bus' = bus /\ Age' = Age + 1
  BY AccessEdge
<1>4. Age \in Nat
  <2>1. repeats \in Nat
    BY DEF Types, TypeOK
  <2> QED BY <2>1 DEF Age
<1>5. clocks \in Nat \ {0} /\ Bytes \in Nat \ {0, 1}
  BY SpartAssumption, ShortRepeats DEF SpartAssumption, ShortRepeats
<1>6. CASE ~Taking
  <2>1. Accepting /\ ~start_transmitter
    BY <1>3, <1>6, StoreFindsRest DEF Accepting
  <2>2. Stays \/ Carries
    BY <1>2, <2>1, FromMoves DEF HandsOver, Picks
  <2>3. ~Given' /\ state' # "WRITE" /\ From' = 0
    BY <2>1, <2>2, FromMoves DEF Stays, Carries
  <2> QED BY <1>1, <1>3, <2>1, <2>3 DEF TakingInv
<1>7. CASE Taking
  <2>1. start_transmitter /\ data_to_be_transmitted = bus.wr /\ ~Accepting
    BY <1>7 DEF TakingInv, Accepting
  <2>2. ~data_written
    <3>1. SUFFICES ASSUME data_written
                   PROVE  FALSE
      OBVIOUS
    <3>2. Given /\ From = Bytes - 1 /\ ~buffer_full
      BY <3>1, FromMoves DEF ByteInv, Resting, Chosen, OnBus, GoingOut, Gone
    <3> QED BY <1>5, <1>7, <3>2 DEF TakingInv
  <2>3. start_transmitter' /\ data_to_be_transmitted' = bus'.wr
    BY <1>1, <1>3, <2>1, <2>2
  <2>4. Age >= 1
    BY <1>7, <1>4 DEF Taking, Age, Types, TypeOK
  <2>5. state' = "WRITE" => Age' >= 2
    BY <1>3, <1>4, <2>4
  <2>6. Given' => Age' >= 3
    BY <1>2, <1>3, <1>4, <1>7 DEF Stays, HandsOver, Picks, Carries, TakingInv
  <2>7. CASE Stays \/ HandsOver \/ Carries
    <3>1. From' = From
      BY <2>7, FromMoves
    <3>2. CASE From = 0
      BY <2>3, <2>5, <2>6, <3>1, <3>2 DEF TakingInv
    <3>3. CASE From # 0
      <4>1. PICK c \in SendClocks :
              From = 1 /\ buffer_full /\ piso = bus.wr[0] /\ Age + sending >= c + 4
        BY <1>7, <3>3 DEF TakingInv
      <4>2. Stays /\ sending > 1 /\ sending' = sending - 1
        BY <1>7, <2>7, <3>3, <4>1, TakingHolds DEF HandsOver, Stays
      <4>3. sending \in Nat /\ c \in Nat
        BY <4>1, SpartAssumption DEF SpartAssumption, ByteInv, Resting, Chosen, OnBus, GoingOut, Gone
      <4>4. buffer_full' /\ piso' = bus'.wr[0] /\ Age' + sending' >= c + 4
        BY <1>3, <1>4, <4>1, <4>2, <4>3 DEF Stays
      <4> QED BY <2>3, <2>5, <2>6, <3>1, <4>1, <4>4 DEF TakingInv
    <3> QED BY <3>2, <3>3
  <2>8. CASE Picks(clocks)
    <3>1. From = 0
      BY <1>7, <2>8 DEF Picks, TakingInv
    <3>2. From' = 1
      BY <2>2, <2>8, <3>1, FromMoves
    <3>3. buffer_full' /\ piso' = bus'.wr[0]
      BY <1>3, <2>1, <2>8, <3>1, FromMoves DEF Picks
    <3>4. Age' + sending' >= clocks + 4
      BY <1>3, <1>4, <1>5, <1>7, <2>8 DEF Picks, TakingInv
    <3> QED BY <2>3, <2>5, <2>6, <3>2, <3>3, <3>4 DEF TakingInv
  <2> QED BY <1>2, <2>7, <2>8
<1> QED BY <1>6, <1>7

-----------------------------------------------------------------------------
(* The words that are owed                                                 *)

TakesWord == Taken /\ Stores("DATA")
Lost == IF Carried /\ owed # << >> THEN 1 ELSE 0

(* The bytes owed after an edge: the first one goes out with its last bit, *)
(* and a word comes behind them when the pipeline takes its store.         *)
LEMMA OwedAfter ==
  ASSUME Types, HistoryClock
  PROVE  /\ owed' \in Seq(Byte) /\ Len(owed) \in Nat /\ Lost \in 0 .. Len(owed)
         /\ Len(owed') = Len(owed) - Lost + (IF TakesWord THEN Bytes ELSE 0)
         /\ \A i \in 1 .. Len(owed) - Lost : owed'[i] = owed[i + Lost]
         /\ TakesWord => \A i \in 0 .. Bytes - 1 :
                           owed'[Len(owed) - Lost + i + 1] = bus.wr[i]
<1> DEFINE kept == IF Carried /\ owed # << >> THEN Tail(owed) ELSE owed
           word == [i \in 1 .. Bytes |-> bus.wr[i - 1]]
           more == IF TakesWord THEN word ELSE << >>
<1>0. owed \in Seq(Byte) /\ Bytes \in Nat \ {0} /\ bus.wr \in [0 .. Bytes - 1 -> Byte]
  BY SpartAssumption DEF Types, SpartAssumption, SerialWord
<1>1. owed' = kept \o more
  BY DEF HistoryClock, TakesWord
<1>2. /\ kept \in Seq(Byte) /\ Len(owed) \in Nat /\ Lost \in 0 .. Len(owed)
      /\ Len(kept) = Len(owed) - Lost
      /\ \A i \in 1 .. Len(owed) - Lost : kept[i] = owed[i + Lost]
  <2>1. CASE Carried /\ owed # << >>
    BY <1>0, <2>1, HeadTailProperties, LenProperties DEF Lost
  <2>2. CASE ~(Carried /\ owed # << >>)
    BY <1>0, <2>2, LenProperties DEF Lost
  <2> QED BY <2>1, <2>2
<1>3. word \in Seq(Byte) /\ Len(word) = Bytes /\ \A i \in 1 .. Bytes : word[i] = bus.wr[i - 1]
  BY <1>0
<1>4. more \in Seq(Byte) /\ Len(more) = (IF TakesWord THEN Bytes ELSE 0)
  BY <1>3, EmptySeq
<1> HIDE DEF kept, word
<1>5. owed' \in Seq(Byte) /\ Len(owed') = Len(kept) + Len(more)
  BY <1>1, <1>2, <1>4, ConcatProperties
<1>6. \A i \in 1 .. Len(kept) : owed'[i] = kept[i]
  BY <1>1, <1>2, <1>4, ConcatProperties
<1>7. ASSUME TakesWord, NEW i \in 0 .. Bytes - 1
      PROVE  owed'[Len(kept) + i + 1] = bus.wr[i]
  <2>1. Len(kept) \in Nat /\ more = word /\ i + 1 \in 1 .. Bytes
    BY <1>0, <1>2, <1>7, LenProperties
  <2>2. owed'[Len(kept) + i + 1] = word[Len(kept) + i + 1 - Len(kept)]
    <3>1. Len(kept) + i + 1 \in 1 .. Len(kept) + Len(word) /\ Len(kept) + i + 1 > Len(kept)
      BY <1>3, <2>1
    <3> QED BY <1>1, <1>2, <1>3, <2>1, <3>1, ConcatProperties
  <2>3. Len(kept) + i + 1 - Len(kept) = i + 1
    BY <2>1
  <2> QED BY <1>3, <2>1, <2>2, <2>3
<1> QED BY <1>2, <1>4, <1>5, <1>6, <1>7

(* The last bit that goes out is that of the first byte owed.              *)
LEMMA CarriedIsOwed ==
  ASSUME Types, ByteInv, TakingInv, OwedInv, Carries
  PROVE  owed # << >> /\ piso = Head(owed) /\ Lost = 1 /\ InBuffer = 1
<1>1. InBuffer = 1
  BY TakingHolds DEF InBuffer, Carries
<1>2. piso = owed[1] /\ Len(owed) > 0
  <2>1. From \in 0 .. Bytes - 1 /\ Bytes \in Nat
    BY SpartAssumption, FromMoves DEF SpartAssumption
  <2> QED BY <1>1, <2>1 DEF OwedInv
<1>3. owed \in Seq(Byte) /\ owed # << >>
  BY <1>2 DEF Types
<1> QED BY <1>1, <1>2, <1>3 DEF Carries, Carried, Lost

(* What is owed, by whether the store of the word is being taken.          *)
LEMMA OwedStep ==
  ASSUME Types, IInv, PollInv, ByteInv, TakingInv, OwedInv, Next
  PROVE  OwedInv'
<1>0. PICK clocks \in SendClocks, starts \in BOOLEAN : Clock(clocks, starts)
  BY NextIsClock
<1>1. /\ start_transmitter' <=> Accepting \/ (start_transmitter /\ ~data_written)
      /\ data_to_be_transmitted' = IF Accepting THEN bus.wr ELSE data_to_be_transmitted
  BY <1>0, SendingEdge, AcceptEdge
<1>2. Stays \/ HandsOver \/ Picks(clocks) \/ Carries
  BY <1>0, ByteMoves
<1>3. HistoryClock
  BY <1>0 DEF Clock
<1>4. /\ From \in 0 .. Bytes - 1 /\ Bytes \in Nat \ {0, 1}
      /\ Stays \/ HandsOver \/ Carries => From' = From
      /\ Picks(clocks) => From' = IF data_written THEN 0 ELSE From + 1
      /\ ~start_transmitter => From = 0 /\ ~Given /\ state # "WRITE"
      /\ data_written => From = Bytes - 1
      /\ Given => databus_drive = data_to_be_transmitted[From]
  BY FromMoves, SpartAssumption, ShortRepeats DEF SpartAssumption, ShortRepeats
<1>5. /\ Len(owed) \in Nat /\ Lost \in 0 .. Len(owed)
      /\ Len(owed') = Len(owed) - Lost + (IF TakesWord THEN Bytes ELSE 0)
      /\ \A i \in 1 .. Len(owed) - Lost : owed'[i] = owed[i + Lost]
      /\ TakesWord => \A i \in 0 .. Bytes - 1 :
                        owed'[Len(owed) - Lost + i + 1] = bus.wr[i]
  BY <1>3, OwedAfter
<1>6. /\ Carries => Lost = 1 /\ InBuffer = 1
      /\ ~Carries => Lost = 0
      /\ Carries /\ Taking => From = 0
  <2>1. ~Carries => Lost = 0
    BY <1>2 DEF Lost, Carried, Stays, HandsOver, Picks
  <2> QED BY <2>1, CarriedIsOwed, TakingHolds
<1>7. /\ Len(owed) = InBuffer + (IF start_transmitter /\ ~Taking THEN Bytes - From ELSE 0)
      /\ InBuffer = 1 => owed[1] = piso
      /\ start_transmitter /\ ~Taking =>
           \A i \in From .. Bytes - 1 :
             owed[InBuffer + i - From + 1] = data_to_be_transmitted[i]
  BY DEF OwedInv
<1>8. /\ Taking => /\ start_transmitter /\ data_to_be_transmitted = bus.wr /\ ~data_written
                   /\ From = 0 \/ (From = 1 /\ buffer_full /\ piso = bus.wr[0])
      /\ Accepting => ~Taking /\ Taking'
      /\ TakesWord <=> Taking /\ ~Taking'
  <2>1. Taking => start_transmitter /\ data_to_be_transmitted = bus.wr
                  /\ (From = 0 \/ (From = 1 /\ buffer_full /\ piso = bus.wr[0]))
    BY DEF TakingInv
  <2>2. Taking => ~data_written
    <3>1. SUFFICES ASSUME Taking, data_written
                   PROVE  FALSE
      OBVIOUS
    <3>2. Given /\ From = Bytes - 1 /\ ~buffer_full
      BY <1>4, <3>1 DEF ByteInv, Resting, Chosen, OnBus, GoingOut, Gone
    <3> QED BY <1>4, <2>1, <3>1, <3>2
  <2>3. Accepting => ~Taking /\ Taking'
    <3>1. SUFFICES ASSUME Accepting
                   PROVE  ~Taking /\ Taking'
      OBVIOUS
    <3>2. Stores("DATA") /\ ~Taking /\ ~mem_ready_data /\ bus.valid
      BY <2>1, <3>1, StoreFindsRest DEF Accepting, Stores
    <3> QED BY <3>2, AccessEdge DEF Repeats, MovesOn, Rests
  <2>4. TakesWord <=> Taking /\ ~Taking'
    <3>1. TakesWord => mem_ready_data /\ Stores("DATA")
      BY AnsweredByBit DEF TakesWord, Taken
    <3>2. Taking => Stores("DATA") /\ bus.valid
      BY DEF Taking, Stores
    <3>3. TakesWord => Taking
      BY <3>1 DEF Taking
    <3> QED BY <3>2, <3>3, AccessEdge DEF TakesWord, Rests
  <2> QED BY <2>1, <2>2, <2>3, <2>4
<1> DEFINE b == InBuffer
           w == data_to_be_transmitted
<1>9. /\ b \in {0, 1} /\ (b = 1 <=> buffer_full /\ ~(Taking /\ From = 1))
      /\ b' \in {0, 1} /\ (b' = 1 <=> buffer_full' /\ ~(Taking' /\ From' = 1))
  BY DEF InBuffer
<1> DEFINE Goal == /\ Len(owed') = b' + (IF start_transmitter' /\ ~Taking' THEN Bytes - From' ELSE 0)
                   /\ b' = 1 => owed'[1] = piso'
                   /\ start_transmitter' /\ ~Taking' =>
                        \A i \in From' .. Bytes - 1 : owed'[b' + i - From' + 1] = w'[i]
<1>10. SUFFICES Goal
  BY DEF OwedInv
<1> HIDE DEF b
<1>11. CASE TakesWord
  <2>1. /\ Taking /\ ~Taking' /\ start_transmitter /\ ~data_written /\ ~Accepting
        /\ w = bus.wr /\ w' = w /\ start_transmitter'
    BY <1>1, <1>8, <1>11
  <2>2. Len(owed) = b /\ Len(owed') = b - Lost + Bytes
        /\ \A i \in 0 .. Bytes - 1 : owed'[b - Lost + i + 1] = w[i]
    <3>1. Len(owed) = b
      BY <1>7, <1>9, <2>1 DEF b
    <3>2. Len(owed') = Len(owed) - Lost + Bytes
      BY <1>5, <1>11
    <3>3. \A i \in 0 .. Bytes - 1 : owed'[Len(owed) - Lost + i + 1] = bus.wr[i]
      BY <1>5, <1>11
    <3> QED BY <2>1, <3>1, <3>2, <3>3
  <2>3. CASE Stays
    <3>1. From' = From /\ (buffer_full' <=> buffer_full) /\ piso' = piso /\ Lost = 0
      BY <1>4, <1>6, <2>3 DEF Stays, Carries
    <3>2. CASE From = 0
      <4>1. b' = b
        BY <1>9, <2>1, <3>1, <3>2
      <4>2. b' = 1 => owed'[1] = piso'
        BY <1>5, <1>7, <2>2, <3>1, <4>1 DEF b
      <4> QED BY <1>4, <1>9, <2>1, <2>2, <3>1, <3>2, <4>1, <4>2
    <3>3. CASE From = 1
      <4>1. b' = 1 /\ b = 0 /\ piso' = w[0]
        BY <1>8, <1>9, <2>1, <3>1, <3>3
      <4> QED BY <1>4, <2>1, <2>2, <3>1, <3>3, <4>1
    <3> QED BY <1>8, <2>1, <3>2, <3>3
  <2>4. CASE HandsOver
    <3>1. From = 0 /\ From' = 0 /\ b = 0 /\ b' = 0 /\ Lost = 0
      BY <1>4, <1>6, <1>8, <1>9, <2>1, <2>4 DEF HandsOver, Carries
    <3> QED BY <1>4, <2>1, <2>2, <3>1
  <2>5. CASE Picks(clocks)
    <3>1. From = 0 /\ From' = 1 /\ b = 0 /\ b' = 1 /\ Lost = 0 /\ piso' = w[0]
      BY <1>4, <1>6, <1>8, <1>9, <2>1, <2>5 DEF Picks, Carries
    <3> QED BY <1>4, <2>1, <2>2, <3>1
  <2>6. CASE Carries
    <3>1. From = 0 /\ From' = 0 /\ b = 1 /\ b' = 0 /\ Lost = 1
      BY <1>4, <1>6, <1>9, <2>1, <2>6 DEF Carries, b
    <3> QED BY <1>4, <2>1, <2>2, <3>1
  <2> QED BY <1>2, <2>3, <2>4, <2>5, <2>6
<1>12. CASE Taking'
  <2>1. ~TakesWord /\ Len(owed') = Len(owed) - Lost
    BY <1>5, <1>8, <1>12
  <2>2. Taking \/ (~Taking /\ ~start_transmitter /\ From = 0)
    <3>1. Stores("DATA")
      BY <1>12, AccessEdge
    <3> QED BY <1>4, <3>1, StoreFindsRest DEF Accepting
  <2>3. Len(owed) = b
    BY <1>7, <1>9, <2>2 DEF b
  <2>4. CASE Stays
    <3>1. From' = From /\ (buffer_full' <=> buffer_full) /\ piso' = piso /\ Lost = 0
      BY <1>4, <1>6, <2>4 DEF Stays, Carries
    <3>2. b' = b
      BY <1>4, <1>9, <1>12, <2>2, <3>1
    <3>3. b' = 1 => owed'[1] = piso'
      BY <1>5, <1>7, <2>3, <3>1, <3>2 DEF b
    <3> QED BY <1>9, <1>12, <2>1, <2>3, <3>1, <3>2, <3>3
  <2>5. CASE HandsOver
    <3>1. b = 0 /\ b' = 0 /\ Lost = 0
      BY <1>6, <1>9, <2>5 DEF HandsOver, Carries
    <3> QED BY <1>12, <2>1, <2>3, <3>1
  <2>6. CASE Picks(clocks)
    <3>1. Taking /\ ~data_written /\ From = 0
      BY <1>8, <2>2, <2>6 DEF Picks
    <3>2. From' = 1 /\ b = 0 /\ b' = 0 /\ Lost = 0
      BY <1>4, <1>6, <1>9, <1>12, <2>6, <3>1 DEF Picks, Carries
    <3> QED BY <1>12, <2>1, <2>3, <3>2
  <2>7. CASE Carries
    <3>1. b = 1 /\ b' = 0 /\ Lost = 1
      BY <1>6, <1>9, <2>7 DEF Carries, b
    <3> QED BY <1>12, <2>1, <2>3, <3>1
  <2> QED BY <1>2, <2>4, <2>5, <2>6, <2>7
<1>13. CASE ~Taking /\ ~Taking'
  <2>1. /\ ~TakesWord /\ ~Accepting /\ w' = w /\ Len(owed') = Len(owed) - Lost
        /\ start_transmitter' <=> start_transmitter /\ ~data_written
        /\ b = 1 <=> buffer_full
        /\ b' = 1 <=> buffer_full'
    BY <1>1, <1>5, <1>8, <1>9, <1>13
  <2>2. CASE Stays
    <3>1. From' = From /\ b' = b /\ piso' = piso /\ Lost = 0 /\ ~data_written
      BY <1>4, <1>6, <1>9, <2>1, <2>2 DEF Stays, Carries, ByteInv
    <3>2. Len(owed') = b' + (IF start_transmitter' /\ ~Taking' THEN Bytes - From' ELSE 0)
      BY <1>7, <1>13, <2>1, <3>1 DEF b
    <3>3. \A i \in 1 .. Len(owed) : owed'[i] = owed[i]
      BY <1>5, <3>1
    <3>4. b' = 1 => owed'[1] = piso'
      BY <1>4, <1>5, <1>7, <1>13, <3>1, <3>3 DEF b
    <3>5. ASSUME start_transmitter', NEW i \in From' .. Bytes - 1
          PROVE  owed'[b' + i - From' + 1] = w'[i]
      <4>1. start_transmitter /\ i \in From .. Bytes - 1
        BY <2>1, <3>1, <3>5
      <4>2. b + i - From + 1 \in 1 .. Len(owed)
        BY <1>4, <1>7, <1>9, <1>13, <4>1 DEF b
      <4>3. owed[b + i - From + 1] = w[i]
        BY <1>7, <1>13, <4>1 DEF b
      <4> QED BY <2>1, <3>1, <3>3, <4>2, <4>3
    <3> QED BY <3>2, <3>4, <3>5
  <2>3. CASE HandsOver
    <3>1. /\ From' = From /\ b = 0 /\ b' = 0 /\ Lost = 0 /\ ~data_written
          /\ start_transmitter
      BY <1>4, <1>6, <1>9, <2>1, <2>3 DEF HandsOver, Carries, ByteInv
    <3>2. \A i \in 1 .. Len(owed) : owed'[i] = owed[i]
      BY <1>5, <3>1
    <3>3. ASSUME NEW i \in From' .. Bytes - 1
          PROVE  owed'[b' + i - From' + 1] = w'[i]
      <4>1. i \in From .. Bytes - 1 /\ Len(owed) = Bytes - From
        BY <1>4, <1>7, <1>13, <3>1, <3>3 DEF b
      <4>2. owed[0 + i - From + 1] = w[i]
        BY <1>7, <1>13, <3>1, <4>1 DEF b
      <4>3. i - From + 1 \in 1 .. Len(owed) /\ 0 + i - From + 1 = i - From + 1
        BY <1>4, <4>1
      <4> QED BY <1>4, <2>1, <3>1, <3>2, <4>1, <4>2, <4>3
    <3> QED BY <1>7, <1>13, <2>1, <3>1, <3>3 DEF b
  <2>4. CASE Picks(clocks)
    <3>1. /\ b = 0 /\ b' = 1 /\ Lost = 0 /\ start_transmitter /\ piso' = w[From]
          /\ From' = IF data_written THEN 0 ELSE From + 1
      BY <1>4, <1>6, <1>9, <2>1, <2>4 DEF Picks, Carries
    <3>2. \A i \in 1 .. Len(owed) : owed'[i] = owed[i]
      BY <1>5, <3>1
    <3>3. Len(owed) = Bytes - From /\ \A i \in From .. Bytes - 1 : owed[i - From + 1] = w[i]
      BY <1>4, <1>7, <1>13, <3>1 DEF b
    <3>4. owed'[1] = piso'
      <4>1. From \in From .. Bytes - 1 /\ From - From + 1 = 1 /\ 1 \in 1 .. Len(owed)
        BY <1>4, <3>3
      <4> QED BY <3>1, <3>2, <3>3, <4>1
    <3>5. CASE data_written
      BY <1>4, <1>13, <2>1, <3>1, <3>3, <3>4, <3>5
    <3>6. CASE ~data_written
      <4>1. ASSUME NEW i \in From' .. Bytes - 1
            PROVE  owed'[b' + i - From' + 1] = w'[i]
        <5>1. i \in From .. Bytes - 1 /\ b' + i - From' + 1 = i - From + 1
          BY <1>4, <3>1, <3>6
        <5>2. i - From + 1 \in 1 .. Len(owed)
          BY <1>4, <3>3, <5>1
        <5> QED BY <2>1, <3>2, <3>3, <5>1, <5>2
      <4> QED BY <1>4, <1>13, <2>1, <3>1, <3>3, <3>4, <3>6, <4>1
    <3> QED BY <3>5, <3>6
  <2>5. CASE Carries
    <3>1. From' = From /\ b = 1 /\ b' = 0 /\ Lost = 1 /\ ~data_written
      BY <1>4, <1>6, <1>9, <2>1, <2>5 DEF Carries, ByteInv, b
    <3>2. Len(owed') = b' + (IF start_transmitter' /\ ~Taking' THEN Bytes - From' ELSE 0)
      BY <1>4, <1>7, <1>13, <2>1, <3>1 DEF b
    <3>3. ASSUME start_transmitter', NEW i \in From' .. Bytes - 1
          PROVE  owed'[b' + i - From' + 1] = w'[i]
      <4>1. start_transmitter /\ i \in From .. Bytes - 1
        BY <2>1, <3>1, <3>3
      <4>2. i - From + 1 \in 1 .. Len(owed) - 1 /\ owed[i - From + 1 + 1] = w[i]
        <5>1. Len(owed) = 1 + Bytes - From
          BY <1>4, <1>7, <1>13, <3>1, <4>1 DEF b
        <5>2. owed[1 + i - From + 1] = w[i]
          BY <1>7, <1>13, <3>1, <4>1 DEF b
        <5>3. 1 + i - From + 1 = i - From + 1 + 1
          BY <1>4, <4>1
        <5> QED BY <1>4, <4>1, <5>1, <5>2, <5>3
      <4>3. owed'[i - From + 1] = owed[i - From + 1 + 1]
        BY <1>5, <3>1, <4>2
      <4>4. b' + i - From' + 1 = i - From + 1
        BY <1>4, <3>1, <4>1
      <4> QED BY <2>1, <4>2, <4>3, <4>4
    <3> QED BY <3>1, <3>2, <3>3
  <2> QED BY <1>2, <2>2, <2>3, <2>4, <2>5
<1> QED BY <1>8, <1>11, <1>12, <1>13

-----------------------------------------------------------------------------
(* The invariant                                                           *)

(* The flags of the serial port stay flags. *)
LEMMA FlagsTyped ==
  ASSUME Types, IInv, PollInv, ByteInv,
         NEW clocks \in SendClocks, NEW starts \in BOOLEAN, Clock(clocks, starts)
  PROVE  {data_rdy, data_received, start_receiver, read_ready, RDA, iocs, iorw,
          data_written, start_transmitter, write_ready, data_spart_rdy, tbr_changed,
          buffer_full}' \subseteq BOOLEAN
<1>1. /\ TopClock(spart_q) /\ ReceiveClock /\ StatusClock(spart_q) /\ BusClock
      /\ ReceiverClock(starts, HostWords[hostWord][hostByte])
  BY DEF Clock, SpartClock, DriverClock
<1>2. {start_transmitter, data_spart_rdy, tbr_changed, buffer_full}' \subseteq BOOLEAN
  BY SendingEdge, AcceptEdge, BusEdge, StateEdge, TransmitterEdge
<1>3. data_rdy' \in BOOLEAN
  <2>1. spart_q.valid \in BOOLEAN
    BY DEF spart_q, Idle, Types
  <2> QED BY <1>1, <2>1 DEF TopClock
<1>4. data_received' \in BOOLEAN
  BY <1>1, Zenon DEF ReceiveClock
<1>5. start_receiver' \in BOOLEAN
  BY <1>1 DEF ReceiveClock, Types
<1>6. read_ready' \in BOOLEAN
  BY <1>1, Zenon DEF StatusClock, NextReadReady
<1>7. write_ready' \in BOOLEAN
  BY <1>1, Zenon DEF StatusClock
<1>8. RDA' \in BOOLEAN
  <2>1. RDA' = CASE receiving > 0 -> Received [] OTHER -> RDA /\ ~clr_rda
    BY <1>1, Zenon DEF ReceiverClock
  <2>2. Received \in BOOLEAN /\ (RDA /\ ~clr_rda) \in BOOLEAN
    BY Zenon DEF Received
  <2> HIDE DEF Received, clr_rda
  <2> QED BY <2>1, <2>2, Zenon
<1>9. iocs' \in BOOLEAN /\ iorw' \in BOOLEAN
  BY <1>1 DEF BusClock, BusProgram, BusIdle, BusWrite, BusRead
<1>10. data_written' \in BOOLEAN
  <2>1. data_written \in BOOLEAN
    BY DEF Types
  <2> QED BY <1>1, <2>1, Zenon DEF BusClock, BusProgram, BusIdle, BusWrite, BusRead
<1> QED BY <1>2, <1>3, <1>4, <1>5, <1>6, <1>7, <1>8, <1>9, <1>10

(* Every step keeps the types. *)
LEMMA TypesStep ==
  ASSUME Types, IInv, PollInv, ByteInv, Next
  PROVE  Types'
<1>1. PICK clocks \in SendClocks, starts \in BOOLEAN : Clock(clocks, starts)
  BY NextIsClock
<1>2. MapClock /\ HistoryClock
  BY <1>1 DEF Clock
<1>3. SpartTypeOK'
  BY <1>1, SpartTyped
<1>4. bus \in Bus /\ bus.wr \in SerialWord /\ bus.wr[0] \in Nat
  <2>1. bus \in Bus /\ bus.wr \in SerialWord
    BY DEF Types, Bus
  <2>2. 0 \in 0 .. Bytes - 1 /\ Byte \subseteq Nat
    BY SpartAssumption DEF SpartAssumption
  <2> QED BY <2>1, <2>2 DEF SerialWord
<1>5. /\ tick_counter' \in 0 .. TickValues - 1 /\ display_on' \in {0, 1}
      /\ mem_start' \in SerialWord /\ mem_ready_data' \in BOOLEAN
  <2>1. tick_counter' \in 0 .. TickValues - 1
    BY <1>2, IoMapAssumption DEF IoMapAssumption, MapClock, NextTick, Types, TypeOK
  <2>2. display_on' \in {0, 1}
    BY <1>2, <1>4 DEF MapClock, Types, TypeOK
  <2>3. mem_start' \in SerialWord
    BY <1>2, <1>4 DEF MapClock, Types, TypeOK
  <2>4. mem_ready_data' \in BOOLEAN
    BY <1>2 DEF MapClock, Types, TypeOK
  <2> QED BY <2>1, <2>2, <2>3, <2>4
<1>6. /\ program' = program /\ program \in Program
      /\ bus' \in Bus /\ op' \in DOMAIN program'.ops /\ polled' \in BOOLEAN
      /\ idle' \in 0 .. MaxIdle /\ repeats' \in 0 .. MaxRepeats
  BY ProgramTyped DEF Types
<1>7. /\ credit' \in Nat /\ hostByte' \in 0 .. Bytes - 1
      /\ hostWord' \in DOMAIN HostWords
      /\ heard' \in 0 .. Bytes * Len(program.replies) - 1
      /\ receiving' > 0 => credit' > 0
  BY <1>6, HostTyped
<1>8. bus'.wr \in SerialWord /\ bus'.addr \in Address
  BY <1>6 DEF Bus
<1>9. TypeOK'
  BY <1>3, <1>5, <1>6, <1>7, <1>8 DEF TypeOK
<1>10. owed' \in Seq(Byte)
  BY <1>2, OwedAfter
<1> QED
  BY <1>1, <1>6, <1>7, <1>9, <1>10, FlagsTyped DEF Types, Bus

(* The invariant holds at power-up, with the driver at rest. *)
LEMMA SerialInit ==
  ASSUME Init
  PROVE  SerialInv
<1>0. /\ 0 \in Byte /\ Bytes \in Nat \ {0, 1} /\ ByteClocks \in Nat \ {0} /\ GapClocks \in Nat \ {0}
      /\ MaxIdle \in Nat /\ MaxRepeats \in Nat /\ TickValues \in Nat \ {0}
  BY SpartAssumption, IoSystemAssumption, IoMapAssumption, ShortRepeats
     DEF SpartAssumption, IoSystemAssumption, IoMapAssumption, ShortRepeats
<1>1. ZeroWord \in SerialWord
  BY <1>0 DEF ZeroWord, SerialWord
<1>2. program \in Program
  BY IoSystemAssumption DEF IoSystemAssumption, Init
<1>3. SpartTypeOK
  BY <1>0, <1>1 DEF Init, SpartInit, SpartTypeOK
<1>4. 1 \in DOMAIN program.ops /\ 1 \in DOMAIN HostWords
  <2>1. \A S : \A s \in Seq(S) \ {<< >>} : 1 \in DOMAIN s
    OBVIOUS
  <2>2. program.ops \in Seq(Operation) \ {<< >>} /\ HostWords \in Seq(SerialWord) \ {<< >>}
    BY <1>2, IoSystemAssumption DEF IoSystemAssumption, Program
  <2> QED BY <2>1, <2>2
<1>5. program.first \in Nat /\ Len(program.replies) \in Nat \ {0}
  <2>1. \A S : \A s \in Seq(S) \ {<< >>} : Len(s) \in Nat \ {0}
    OBVIOUS
  <2> QED BY <1>2, <2>1 DEF Program
<1>6. bus \in Bus /\ ~bus.valid
  BY <1>1 DEF Init, Idle, Bus, Address
<1>7. TypeOK
  <2>1. /\ tick_counter = 0 /\ display_on = 0 /\ mem_start = ZeroWord
        /\ mem_ready_data = FALSE
    BY DEF Init, MapInit
  <2>2. /\ op = 1 /\ idle = 0 /\ repeats = 0 /\ hostByte = 0 /\ hostWord = 1
        /\ credit = program.first
    BY DEF Init
  <2>3. /\ tick_counter \in 0 .. TickValues - 1 /\ display_on \in {0, 1}
        /\ mem_start \in SerialWord /\ mem_ready_data \in BOOLEAN
    <3>1. \A n \in Nat \ {0} : 0 \in 0 .. n - 1
      OBVIOUS
    <3>2. tick_counter \in 0 .. TickValues - 1
      BY <1>0, <2>1, <3>1, Zenon
    <3>3. display_on \in {0, 1} /\ mem_ready_data \in BOOLEAN
      BY <2>1
    <3>4. mem_start \in SerialWord
      BY <1>1, <2>1, Zenon
    <3> QED BY <3>2, <3>3, <3>4, Zenon
  <2>4. /\ op \in DOMAIN program.ops /\ idle \in 0 .. MaxIdle /\ repeats \in 0 .. MaxRepeats
        /\ credit \in Nat /\ hostByte \in 0 .. Bytes - 1 /\ hostWord \in DOMAIN HostWords
    BY <1>0, <1>4, <1>5, <2>2
  <2>5. bus.wr \in SerialWord /\ bus.addr \in Address
    BY <1>6 DEF Bus
  <2> QED BY <1>3, <2>3, <2>4, <2>5 DEF TypeOK
<1>8. heard \in 0 .. Bytes * Len(program.replies) - 1
  <2>1. \A x, y \in Nat \ {0} : 0 \in 0 .. x * y - 1
    OBVIOUS
  <2> QED BY <1>0, <1>5, <2>1 DEF Init
<1>9. owed = << >> /\ owed \in Seq(Byte) /\ Len(owed) = 0
  BY EmptySeq DEF Init
<1>10. Types
  <2>1. {polled, data_rdy, data_received, start_receiver, read_ready, RDA, iocs, iorw,
         data_written, start_transmitter, write_ready, data_spart_rdy, tbr_changed,
         buffer_full} \subseteq BOOLEAN
    BY DEF Init, SpartInit
  <2>2. ~(receiving > 0)
    BY DEF Init, SpartInit
  <2> QED BY <1>2, <1>6, <1>7, <1>8, <1>9, <2>1, <2>2 DEF Types, Bus
<1>11. ByteInv /\ ~Taking /\ InBuffer = 0 /\ ~start_transmitter
  BY <1>6 DEF Init, SpartInit, ByteInv, Resting, Given, Taking, Stores, InBuffer
<1>12. PollInv
  BY <1>6, <1>11 DEF Init, SpartInit, PollInv
<1> QED BY <1>9, <1>10, <1>11, <1>12, IInvInit DEF SerialInv, TakingInv, OwedInv

(* The invariant depends on nothing but the state. *)
LEMMA SerialStutter ==
  ASSUME SerialInv, UNCHANGED vars
  PROVE  SerialInv'
<1>1. UNCHANGED spartVars /\ UNCHANGED mapVars /\ bus' = bus /\ UNCHANGED programVars
      /\ UNCHANGED hostVars /\ owed' = owed
  BY DEF vars
<1>2. SpartTypeOK'
  BY <1>1 DEF SerialInv, Types, TypeOK, SpartTypeOK, spartVars, driverVars
<1>3. TypeOK'
  BY <1>1, <1>2 DEF SerialInv, Types, TypeOK, mapVars, programVars, hostVars
<1>4. Types'
  BY <1>1, <1>3 DEF SerialInv, Types, spartVars, driverVars, programVars, hostVars
<1>5. /\ From' = From /\ (Given' <=> Given) /\ (Taking' <=> Taking) /\ Age' = Age
      /\ InBuffer' = InBuffer /\ (Stores("DATA")' <=> Stores("DATA"))
  BY <1>1 DEF From, Given, Taking, Age, Stores, InBuffer, spartVars, driverVars,
              mapVars, programVars
<1>6. ByteInv'
  BY <1>1, <1>5 DEF SerialInv, ByteInv, Resting, Chosen, OnBus, GoingOut, Gone,
                    spartVars, driverVars
<1>7. TakingInv'
  BY <1>1, <1>5 DEF SerialInv, TakingInv, spartVars, driverVars
<1>8. PollInv'
  BY <1>1, <1>5 DEF SerialInv, PollInv, Access, spartVars, driverVars, mapVars, programVars
<1>9. OwedInv'
  BY <1>1, <1>5 DEF SerialInv, OwedInv, spartVars, driverVars
<1> QED BY <1>4, <1>6, <1>7, <1>8, <1>9, IInvStutter DEF SerialInv

(* Every step keeps the invariant. *)
LEMMA SerialStep == SerialInv /\ [Next]_vars => SerialInv'
<1>1. SerialInv /\ Next => SerialInv'
  <2>1. SUFFICES ASSUME SerialInv, Next
                 PROVE  SerialInv'
    OBVIOUS
  <2>2. ByteInv'
    BY <2>1, NextIsClock, ByteMoves DEF SerialInv
  <2>3. IInv'
    BY <2>1, FirstClock, OtherClock DEF SerialInv
  <2> QED BY <2>1, <2>2, <2>3, TypesStep, PollStep, TakingStep, OwedStep DEF SerialInv
<1> QED BY <1>1, SerialStutter

(* Where every register of IO block, serial port and programs may be: its  *)
(* width, and for the host that it never sends a word more than it owes.   *)
THEOREM TypeCorrect == Spec => []TypeOK
<1>1. Init => SerialInv
  BY SerialInit
<1>2. SerialInv => TypeOK
  BY DEF SerialInv, Types
<1> QED BY <1>1, <1>2, SerialStep, PTL DEF Spec

(* The bytes of the words stored go out in order, each once, whatever the  *)
(* program does between its polls and however long a byte takes: a store   *)
(* that followed a poll is neither dropped nor taken twice while it stands *)
(* in the memory stage, and no byte is handed over before the last one is  *)
(* out.                                                                    *)
THEOREM WordsGoOut == Spec => StoresCarried
<1>1. Init => SerialInv
  BY SerialInit
<1>2. SerialInv /\ [Next]_vars => [Carried => owed # << >> /\ piso = Head(owed)]_vars
  <2>1. SUFFICES ASSUME SerialInv, Next, Carried
                 PROVE  owed # << >> /\ piso = Head(owed)
    OBVIOUS
  <2>2. PICK clocks \in SendClocks, starts \in BOOLEAN : Clock(clocks, starts)
    BY <2>1, NextIsClock
  <2>3. Stays \/ HandsOver \/ Picks(clocks) \/ Carries
    BY <2>1, <2>2, ByteMoves DEF SerialInv
  <2>4. Carries
    BY <2>1, <2>3 DEF Stays, HandsOver, Picks, Carried
  <2> QED BY <2>1, <2>4, CarriedIsOwed DEF SerialInv
<1> QED BY <1>1, <1>2, SerialStep, PTL DEF Spec, StoresCarried

-----------------------------------------------------------------------------
(* The words that are received                                             *)

(* The driver reads the receiver.                                          *)
Reading == iocs /\ iorw

(* The stages of a byte that has come in: it waits, the driver goes to     *)
(* READ, its register takes the byte.  All is over before the next byte    *)
(* can begin, and so is the read that follows, which finds nothing.        *)
LineInv ==
  /\ RDA \/ Reading \/ state = "READ" => receiving = 0
  /\ Reading => ioaddr = 0
  /\ receiving > 0 => ready_rw > 0
  /\ RDA =>
       /\ ready_rw = 2 /\ ~data_received
       /\ \/ state # "READ" /\ ~Reading /\ gap >= GapClocks - 1 /\ (start_receiver \/ gap = GapClocks)
          \/ state = "READ" /\ ~Reading /\ gap >= GapClocks - 2 /\ start_receiver
          \/ state # "READ" /\ Reading /\ gap >= GapClocks - 3
  /\ state = "READ" => gap > 0

(* A word of the host is in data_rx, whole and alone.                      *)
InPlace == unread # << >> /\ counter = 0

(* The bytes that have come in: those in data_rx and the one that waits    *)
(* are of the same word, which counts as unread from its last byte on.     *)
LastWaits == RDA /\ hostByte = 0
Incoming == IF LastWaits THEN unread[1] ELSE HostWords[hostWord]
WordInv ==
  /\ unread \in Seq(SerialWord) /\ Len(unread) <= 1
  /\ hostByte = IF RDA THEN (counter + 1) % Bytes ELSE counter
  /\ LastWaits => unread # << >>
  /\ counter > 0 /\ ~LastWaits => unread = << >>
  /\ InPlace => data_rx = unread[1]
  /\ \A i \in 0 .. counter - 1 : data_rx[i] = Incoming[i]
  /\ RDA => ReceivedData = Incoming[counter]

(* Who is told of a word finds it, and is told of it once: data_received,  *)
(* read_ready and the status bit follow one another, and the load that     *)
(* answers leaves none of them.                                            *)
ToldInv ==
  /\ data_received \/ read_ready \/ status.received => InPlace
  /\ data_received => ~read_ready /\ ~status.received
  /\ Reads("STATUS") /\ mem_ready_data /\ status.received => ~read_ready
  /\ polled /\ program.ops[op].do = "RECEIVE" => InPlace /\ ~data_received /\ ~read_ready
  /\ Reads("DATA") /\ mem_ready_data => ~status.received

ReceiveInv == LineInv /\ WordInv /\ ToldInv

(* The registers of the receiving half at an edge. *)
LEMMA ReceivingEdge ==
  ASSUME Types, NEW clocks \in SendClocks, NEW starts \in BOOLEAN, Clock(clocks, starts)
  PROVE  /\ state' = NextState /\ BusClock /\ ReceiveClock
         /\ ReceiverClock(starts, HostWords[hostWord][hostByte])
         /\ HostClock /\ HistoryClock /\ MapClock
         /\ read_ready' <=> NextReadReady(spart_q)
         /\ status'.received <=> read_ready \/ (status.received /\ ~clear_status_rd(spart_q))
<1>1. read_ready' = NextReadReady(spart_q)
  BY DEF Clock, SpartClock, DriverClock, StatusClock
<1>2. status'.received = (read_ready \/ (status.received /\ ~clear_status_rd(spart_q)))
  BY DEF Clock, SpartClock, DriverClock, StatusClock
<1>3. /\ read_ready' <=> NextReadReady(spart_q)
      /\ status'.received <=> read_ready \/ (status.received /\ ~clear_status_rd(spart_q))
  BY <1>1, <1>2, Zenon
<1> QED BY <1>3 DEF Clock, SpartClock, DriverClock

(* The driver reads in the clock after READ and in no other. *)
LEMMA ReadingEdge ==
  ASSUME Types, ByteInv, BusClock
  PROVE  /\ Reading' <=> ready_rw = 2 /\ state = "READ"
         /\ Reading' => ioaddr' = 0
         /\ ready_rw' > 0 /\ (ready_rw > 0 => ready_rw' = 2)
<1>0. ready_rw \in 0 .. 2 /\ state \in {"IDLE", "READ", "WRITE"}
  BY DEF Types, TypeOK, SpartTypeOK
<1>1. CASE ready_rw < 2 /\ BusProgram
  BY <1>0, <1>1 DEF BusProgram, Reading
<1>2. CASE ready_rw = 2 /\ state = "IDLE" /\ BusIdle
  BY <1>2 DEF BusIdle, Reading
<1>3. CASE ready_rw = 2 /\ state = "WRITE" /\ BusWrite
  BY <1>3 DEF BusWrite, Reading
<1>4. CASE ready_rw = 2 /\ state = "READ" /\ BusRead
  BY <1>4 DEF BusRead, Reading
<1> QED BY <1>1, <1>2, <1>3, <1>4 DEF BusClock

(* A byte that waits is read before another can come; the receiver's flag, *)
(* its data and the line at an edge.                                       *)
LEMMA LineEdge ==
  ASSUME Types, LineInv,
         NEW starts \in BOOLEAN, starts => MayStart, NEW byte, ReceiverClock(starts, byte)
  PROVE  /\ Received => ~RDA /\ RDA' /\ ReceivedData' = byte /\ gap' = GapClocks /\ receiving' = 0
         /\ ~RDA /\ ~Received => ~RDA'
         /\ RDA => /\ ReceivedData' = ReceivedData /\ receiving' = 0 /\ gap' = gap - 1
                   /\ RDA' <=> ~Reading
         /\ gap > 0 /\ receiving = 0 => receiving' = 0 /\ gap' = gap - 1
<1>0. /\ gap \in 0 .. GapClocks /\ GapClocks \in Nat /\ GapClocks > 4 /\ RDA \in BOOLEAN
      /\ receiving \in 0 .. ByteClocks /\ ByteClocks \in Nat
  BY LongGaps, SpartAssumption DEF LongGaps, SpartAssumption, Types, TypeOK, SpartTypeOK
<1>1. receiving = 0 => (RDA' <=> RDA /\ ~clr_rda)
  <2>1. receiving = 0 => RDA' = (RDA /\ ~clr_rda)
    BY <1>0 DEF ReceiverClock
  <2> QED BY <2>1, Zenon
<1>2. receiving > 0 => (RDA' <=> Received)
  <2>1. receiving > 0 => RDA' = Received
    BY DEF ReceiverClock
  <2> QED BY <2>1, Zenon
<1>3. Received <=> receiving = 1
  BY DEF Received
<1>4. RDA => receiving = 0 /\ gap > 0 /\ (clr_rda <=> Reading)
  BY <1>0 DEF LineInv, clr_rda, Reading
<1>5. gap > 0 => ~starts
  BY <1>0 DEF MayStart
<1>6. /\ Received => ReceivedData' = byte /\ gap' = GapClocks /\ receiving' = 0
      /\ gap > 0 /\ receiving = 0 =>
           receiving' = 0 /\ gap' = gap - 1 /\ ReceivedData' = ReceivedData
  <2>1. /\ receiving' = CASE receiving > 0 -> receiving - 1
                         [] starts -> ByteClocks
                         [] OTHER -> 0
        /\ ReceivedData' = CASE Received -> byte [] starts -> 0 [] OTHER -> ReceivedData
        /\ gap' = IF Received THEN GapClocks ELSE IF gap > 0 THEN gap - 1 ELSE 0
    BY DEF ReceiverClock
  <2>2. CASE Received
    <3>1. receiving > 0 /\ receiving - 1 = 0 /\ ~starts
      BY <1>3, <2>2 DEF MayStart
    <3> QED BY <1>3, <2>1, <2>2, <3>1
  <2>3. CASE ~Received
    BY <1>0, <1>5, <2>1, <2>3
  <2> QED BY <1>3, <2>2, <2>3
<1>7. Received => ~RDA /\ RDA'
  BY <1>0, <1>2, <1>3, <1>4
<1>8. ~RDA /\ ~Received => ~RDA'
  BY <1>0, <1>1, <1>2
<1>9. RDA => (RDA' <=> ~Reading)
  BY <1>1, <1>4
<1> QED BY <1>4, <1>6, <1>7, <1>8, <1>9

(* The registers of the driver at an edge: a byte is taken or not. *)
LEMMA TakingByte ==
  ASSUME Types, LineInv, ReceiveClock
  PROVE  /\ TakesByte <=> RDA /\ Reading
         /\ TakesByte => /\ data_rx' = [data_rx EXCEPT ![counter] = ReceivedData]
                         /\ counter' = (counter + 1) % Bytes
         /\ ~TakesByte => data_rx' = data_rx /\ counter' = counter
         /\ data_received' <=> TakesByte /\ counter = Bytes - 1
<1>1. data_received' = (TakesByte /\ counter = Bytes - 1)
  BY DEF ReceiveClock
<1>2. data_received' <=> TakesByte /\ counter = Bytes - 1
  BY <1>1, Zenon
<1> QED BY <1>2 DEF ReceiveClock, TakesByte, Reading

(* Every step keeps the stages of a byte that comes in. *)
LEMMA LineStep ==
  ASSUME SerialInv, LineInv, KeepsTime,
         NEW clocks \in SendClocks, NEW starts \in BOOLEAN, starts => MayStart,
         Clock(clocks, starts)
  PROVE  LineInv'
<1>0. /\ gap \in 0 .. GapClocks /\ GapClocks \in Nat /\ GapClocks > 4
      /\ {RDA, Reading, start_receiver, data_received, start_transmitter} \subseteq BOOLEAN
      /\ state \in {"IDLE", "READ", "WRITE"} /\ ready_rw \in 0 .. 2 /\ receiving \in Nat
  BY LongGaps, SpartAssumption
     DEF LongGaps, SpartAssumption, SerialInv, Types, TypeOK, SpartTypeOK, Reading
<1>1. /\ state' = NextState /\ BusClock /\ ReceiveClock
      /\ ReceiverClock(starts, HostWords[hostWord][hostByte])
  BY ReceivingEdge DEF SerialInv
<1>2. /\ Reading' <=> ready_rw = 2 /\ state = "READ"
      /\ Reading' => ioaddr' = 0
      /\ ready_rw' > 0 /\ (ready_rw > 0 => ready_rw' = 2)
  BY <1>1, ReadingEdge DEF SerialInv
<1>3. /\ Received => ~RDA /\ RDA' /\ gap' = GapClocks /\ receiving' = 0
      /\ ~RDA /\ ~Received => ~RDA'
      /\ RDA => receiving' = 0 /\ gap' = gap - 1 /\ (RDA' <=> ~Reading)
      /\ gap > 0 /\ receiving = 0 => receiving' = 0 /\ gap' = gap - 1
  BY <1>1, LineEdge DEF SerialInv
<1>4. state = "WRITE" => start_transmitter
  BY DEF SerialInv, ByteInv, Resting, Chosen, OnBus, GoingOut, Gone
<1>5. state' = "READ" <=>
        /\ state = "IDLE" /\ RDA /\ ready_rw = 2 /\ start_receiver /\ ~start_transmitter
  <2>1. /\ state = "IDLE" /\ StartsRead => state' = "READ"
        /\ ~(state = "IDLE" /\ StartsRead) => state' # "READ"
    <3>1. StartsWrite => ~StartsRead
      BY Zenon DEF StartsWrite
    <3> QED BY <1>1, <3>1 DEF NextState
  <2>2. StartsRead <=> RDA /\ ready_rw = 2 /\ start_receiver /\ ~start_transmitter
    BY Zenon DEF StartsRead
  <2> QED BY <2>1, <2>2
<1>6. data_received' => RDA /\ Reading
  BY <1>1, TakingByte DEF SerialInv
<1>7. state = "READ" => receiving = 0 /\ gap > 0
  BY DEF LineInv
<1>8. CASE ~RDA
  <2>1. state' # "READ" /\ ~data_received'
    BY <1>5, <1>6, <1>8
  <2>2. Reading' => receiving' = 0 /\ ~Received
    BY <1>0, <1>2, <1>3, <1>7 DEF Received
  <2>3. RDA' => Received /\ receiving' = 0 /\ ~Reading' /\ ready_rw' = 2 /\ gap' = GapClocks
    BY <1>0, <1>2, <1>3, <1>8, <2>2 DEF LineInv, Received
  <2> QED BY <1>2, <2>1, <2>2, <2>3, <1>0 DEF LineInv
<1>9. CASE RDA
  <2>1. /\ ready_rw = 2 /\ ~data_received /\ ~start_transmitter /\ state # "WRITE"
        /\ receiving' = 0 /\ gap' = gap - 1
    BY <1>0, <1>3, <1>4, <1>9 DEF LineInv, KeepsTime
  <2>2. start_receiver'
    BY <1>0, <1>1, <1>9, <2>1 DEF ReceiveClock
  <2>3. CASE /\ state # "READ" /\ ~Reading /\ gap >= GapClocks - 1
             /\ start_receiver \/ gap = GapClocks
    <3>1. RDA' /\ ~Reading' /\ ~data_received' /\ ready_rw' = 2 /\ gap' > 0
      BY <1>0, <1>2, <1>3, <1>6, <1>9, <2>1, <2>3
    <3>2. start_receiver => state' = "READ" /\ gap' >= GapClocks - 2
      BY <1>0, <1>5, <1>9, <2>1, <2>3
    <3>3. ~start_receiver => state' # "READ" /\ gap' >= GapClocks - 1
      BY <1>0, <1>5, <1>9, <2>1, <2>3
    <3> QED BY <1>2, <2>1, <2>2, <3>1, <3>2, <3>3 DEF LineInv
  <2>4. CASE state = "READ" /\ ~Reading /\ gap >= GapClocks - 2 /\ start_receiver
    <3>1. RDA' /\ Reading' /\ ~data_received' /\ ready_rw' = 2 /\ state' # "READ"
      BY <1>2, <1>3, <1>5, <1>6, <1>9, <2>1, <2>4
    <3>2. gap' >= GapClocks - 3
      BY <1>0, <2>1, <2>4
    <3> QED BY <1>2, <2>1, <3>1, <3>2 DEF LineInv
  <2>5. CASE state # "READ" /\ Reading /\ gap >= GapClocks - 3
    <3>1. ~RDA' /\ ~Reading' /\ gap' > 0
      BY <1>0, <1>2, <1>3, <1>9, <2>1, <2>5
    <3> QED BY <1>2, <2>1, <3>1 DEF LineInv
  <2> QED BY <1>9, <2>3, <2>4, <2>5 DEF LineInv
<1> QED BY <1>0, <1>8, <1>9

(* A load of the data register is one that has been polled for. *)
LEMMA LoadWasPolled ==
  ASSUME Types, PollInv, Reads("DATA")
  PROVE  polled /\ program.ops[op].do = "RECEIVE"
<1> DEFINE o == program.ops[op]
<1>1. bus = Access(op, polled) /\ o \in Operation /\ polled \in BOOLEAN
  BY DEF PollInv, Types, TypeOK, Program, Reads
<1>2. /\ o.do \in {"SEND", "RECEIVE", "STORE", "LOAD"}
      /\ o.do = "LOAD" => o.addr \in Register
  BY <1>1 DEF Operation
<1>3. o.do # "LOAD"
  <2>1. o.do = "LOAD" => bus.addr = o.addr
    BY <1>1 DEF Access, Load
  <2> QED BY <1>2, <2>1 DEF Reads, Register
<1>4. o.do # "STORE"
  BY <1>1 DEF Access, Store, Reads
<1>5. o.do # "SEND"
  BY <1>1 DEF Access, Store, Load, Reads
<1>6. polled
  BY <1>1, <1>2, <1>3, <1>4, <1>5 DEF Access, Load, Reads
<1> QED BY <1>2, <1>3, <1>4, <1>5, <1>6

(* A load that the pipeline takes finds the word, and nobody to tell of it *)
(* any more.                                                               *)
LEMMA LoadFindsWord ==
  ASSUME SerialInv, ToldInv, Loads("DATA")
  PROVE  InPlace /\ ~data_received /\ ~read_ready /\ ~status.received
<1>1. Reads("DATA") /\ mem_ready_data
  BY AnsweredByBit DEF Loads, Taken, SerialInv
<1> QED BY <1>1, LoadWasPolled DEF SerialInv, ToldInv

(* What is unread after an edge. *)
LEMMA UnreadEdge ==
  ASSUME Types, WordInv, HistoryClock
  PROVE  /\ unread' \in Seq(SerialWord)
         /\ ~Loads("DATA") /\ ~SentWord => unread' = unread
         /\ Loads("DATA") /\ ~SentWord => unread' = << >>
         /\ SentWord /\ unread = << >> => unread' = << HostWords[hostWord] >>
         /\ SentWord => unread' # << >>
<1>1. HostWords[hostWord] \in SerialWord
  BY IoSystemAssumption DEF IoSystemAssumption, Types, TypeOK
<1> DEFINE w == HostWords[hostWord]
           kept == IF Loads("DATA") /\ unread # << >> THEN Tail(unread) ELSE unread
           new == IF SentWord THEN << w >> ELSE << >>
<1>2. unread' = kept \o new
  BY DEF HistoryClock
<1>3. unread \in Seq(SerialWord) /\ Len(unread) <= 1
  BY DEF WordInv
<1>4. unread # << >> => Tail(unread) \in Seq(SerialWord) /\ Tail(unread) = << >>
  <2>1. \A s \in Seq(SerialWord) : s # << >> =>
          /\ Len(s) \in Nat \ {0}
          /\ Tail(s) \in Seq(SerialWord) /\ Len(Tail(s)) = Len(s) - 1
    BY EmptySeq, HeadTailProperties, Zenon
  <2>2. unread # << >> =>
          /\ Len(unread) \in Nat \ {0}
          /\ Tail(unread) \in Seq(SerialWord) /\ Len(Tail(unread)) = Len(unread) - 1
    BY <1>3, <2>1, Zenon
  <2>3. \A s \in Seq(SerialWord) : Len(s) = 0 => s = << >>
    BY <2>1
  <2>4. unread # << >> => Len(Tail(unread)) = 0
    BY <1>3, <2>2
  <2> QED BY <2>2, <2>3, <2>4
<1>5. kept \in Seq(SerialWord) /\ (Loads("DATA") => kept = << >>)
      /\ (~Loads("DATA") => kept = unread) /\ (unread = << >> => kept = << >>)
  BY <1>3, <1>4
<1>6. << w >> \in Seq(SerialWord) /\ << >> \in Seq(SerialWord) /\ Len(<< w >>) = 1
  BY <1>1
<1> HIDE DEF kept, w
<1>7. /\ kept \o << >> = kept /\ kept \o << w >> \in Seq(SerialWord)
      /\ Len(kept \o << w >>) = Len(kept) + 1
      /\ << >> \o << w >> = << w >>
  BY <1>5, <1>6
<1>8. kept \o << w >> # << >>
  <2>1. Len(kept) \in Nat /\ Len(<< >>) = 0
    BY <1>5
  <2> QED BY <1>7, <2>1
<1> QED BY <1>2, <1>5, <1>6, <1>7, <1>8 DEF w

(* A byte and a word more than one byte long: what follows from the types. *)
LEMMA WordTypes ==
  ASSUME Types
  PROVE  /\ Bytes \in Nat /\ Bytes > 1 /\ counter \in 0 .. Bytes - 1 /\ hostByte \in 0 .. Bytes - 1
         /\ data_rx \in [0 .. Bytes - 1 -> Byte] /\ RDA \in BOOLEAN
         /\ HostWords[hostWord] \in [0 .. Bytes - 1 -> Byte]
         /\ (counter + 1) % Bytes = IF counter = Bytes - 1 THEN 0 ELSE counter + 1
         /\ (hostByte + 1) % Bytes = IF hostByte = Bytes - 1 THEN 0 ELSE hostByte + 1
<1>1. Bytes \in Nat /\ Bytes > 1
  BY SpartAssumption, ShortRepeats DEF SpartAssumption, ShortRepeats
<1>2. /\ counter \in 0 .. Bytes - 1 /\ hostByte \in 0 .. Bytes - 1
      /\ data_rx \in [0 .. Bytes - 1 -> Byte] /\ RDA \in BOOLEAN
      /\ HostWords[hostWord] \in [0 .. Bytes - 1 -> Byte]
  BY IoSystemAssumption
     DEF IoSystemAssumption, Types, TypeOK, SpartTypeOK, SerialWord
<1>3. \A n \in 0 .. Bytes - 1 : (n + 1) % Bytes = IF n = Bytes - 1 THEN 0 ELSE n + 1
  BY <1>1
<1> QED BY <1>1, <1>2, <1>3

(* Every step keeps the bytes of a word together: one is taken, one comes  *)
(* in, or neither.                                                         *)
LEMMA WordStep ==
  ASSUME SerialInv, ReceiveInv, KeepsTime,
         NEW clocks \in SendClocks, NEW starts \in BOOLEAN, starts => MayStart,
         Clock(clocks, starts)
  PROVE  WordInv'
<1> DEFINE w == HostWords[hostWord]
<1>0. Types /\ LineInv /\ WordInv /\ ToldInv
  BY DEF SerialInv, ReceiveInv
<1>1. /\ Bytes \in Nat /\ Bytes > 1 /\ counter \in 0 .. Bytes - 1 /\ hostByte \in 0 .. Bytes - 1
      /\ data_rx \in [0 .. Bytes - 1 -> Byte] /\ RDA \in BOOLEAN
      /\ w \in [0 .. Bytes - 1 -> Byte]
      /\ (counter + 1) % Bytes = IF counter = Bytes - 1 THEN 0 ELSE counter + 1
      /\ (hostByte + 1) % Bytes = IF hostByte = Bytes - 1 THEN 0 ELSE hostByte + 1
  BY <1>0, WordTypes
<1>2. HostClock /\ ReceiveClock /\ ReceiverClock(starts, w[hostByte]) /\ HistoryClock
  BY <1>0, ReceivingEdge
<1>3. /\ Received => ~RDA /\ RDA' /\ ReceivedData' = w[hostByte]
      /\ ~RDA /\ ~Received => ~RDA'
      /\ RDA => ReceivedData' = ReceivedData /\ (RDA' <=> ~Reading)
  BY <1>0, <1>2, LineEdge
<1>4. /\ TakesByte <=> RDA /\ Reading
      /\ TakesByte => /\ data_rx' = [data_rx EXCEPT ![counter] = ReceivedData]
                      /\ counter' = (counter + 1) % Bytes
      /\ ~TakesByte => data_rx' = data_rx /\ counter' = counter
  BY <1>0, <1>2, TakingByte
<1>5. /\ SentWord <=> Received /\ hostByte = Bytes - 1
      /\ hostByte' = IF Received THEN (hostByte + 1) % Bytes ELSE hostByte
      /\ ~SentWord => hostWord' = hostWord
  BY <1>2 DEF HostClock, SentWord
<1>6. /\ unread' \in Seq(SerialWord)
      /\ ~Loads("DATA") /\ ~SentWord => unread' = unread
      /\ Loads("DATA") /\ ~SentWord => unread' = << >>
      /\ SentWord /\ unread = << >> => unread' = << w >>
  BY <1>0, <1>2, UnreadEdge
<1>7. Loads("DATA") => InPlace
  BY <1>0, LoadFindsWord
<1>8. /\ hostByte = IF RDA THEN (counter + 1) % Bytes ELSE counter
      /\ unread \in Seq(SerialWord) /\ Len(unread) <= 1
      /\ LastWaits => unread # << >>
      /\ counter > 0 /\ ~LastWaits => unread = << >>
      /\ InPlace => data_rx = unread[1]
      /\ \A i \in 0 .. counter - 1 : data_rx[i] = Incoming[i]
      /\ RDA => ReceivedData = Incoming[counter]
  BY <1>0 DEF WordInv
<1>9. LastWaits <=> RDA /\ counter = Bytes - 1
  BY <1>1, <1>8 DEF LastWaits
<1>10. CASE TakesByte
  <2>1. /\ RDA /\ ~RDA' /\ ~Received /\ ~SentWord /\ ~LastWaits'
        /\ hostByte' = hostByte /\ hostWord' = hostWord
    BY <1>3, <1>4, <1>5, <1>10 DEF LastWaits
  <2>2. counter = 0 => unread = << >>
    BY <1>10 DEF KeepsTime
  <2>3. unread' = unread
    BY <1>6, <1>7, <2>1, <2>2 DEF InPlace
  <2>4. counter' = hostByte' /\ counter' \in Nat
    BY <1>1, <1>4, <1>8, <1>10, <2>1
  <2>5. \A i \in 0 .. counter : data_rx'[i] = Incoming[i]
    <3>1. \A i \in 0 .. counter - 1 : data_rx'[i] = data_rx[i]
      BY <1>1, <1>4, <1>10
    <3>2. data_rx'[counter] = ReceivedData
      BY <1>1, <1>4, <1>10
    <3>3. \A i \in 0 .. counter : i = counter \/ i \in 0 .. counter - 1
      BY <1>1
    <3> QED BY <1>8, <2>1, <3>1, <3>2, <3>3
  <2>6. CASE counter = Bytes - 1
    <3>1. LastWaits /\ counter' = 0 /\ unread # << >> /\ Incoming = unread[1]
      BY <1>1, <1>4, <1>8, <1>9, <1>10, <2>1, <2>6 DEF Incoming
    <3>2. unread[1] \in [0 .. Bytes - 1 -> Byte]
      BY <1>8, <3>1 DEF SerialWord
    <3>3. data_rx' \in [0 .. Bytes - 1 -> Byte]
      <4>1. DOMAIN data_rx' = 0 .. Bytes - 1
        BY <1>1, <1>4, <1>10
      <4>2. \A i \in 0 .. Bytes - 1 : data_rx'[i] \in Byte
        BY <2>5, <2>6, <3>1, <3>2
      <4>3. data_rx' = [i \in 0 .. Bytes - 1 |-> data_rx'[i]]
        BY <1>1, <1>4, <1>10
      <4> QED BY <4>2, <4>3
    <3>4. data_rx' = unread[1]
      BY <2>5, <2>6, <3>1, <3>2, <3>3
    <3>5. \A i \in 0 .. counter' - 1 : FALSE
      BY <3>1
    <3> QED BY <1>8, <2>1, <2>3, <2>4, <3>1, <3>4, <3>5 DEF WordInv, InPlace
  <2>7. CASE counter # Bytes - 1
    <3>1. ~LastWaits /\ counter' = counter + 1 /\ Incoming = w /\ Incoming' = w
      BY <1>1, <1>4, <1>9, <1>10, <2>1, <2>7 DEF Incoming
    <3>2. unread' = << >>
      BY <1>1, <1>8, <2>2, <2>3, <3>1
    <3>3. \A i \in 0 .. counter' - 1 : data_rx'[i] = Incoming'[i]
      <4>1. 0 .. counter' - 1 = 0 .. counter
        BY <1>1, <3>1
      <4> QED BY <2>5, <3>1, <4>1
    <3> QED BY <1>8, <2>1, <2>3, <2>4, <3>2, <3>3 DEF WordInv, InPlace
  <2> QED BY <2>6, <2>7
<1>11. CASE Received
  <2>1. /\ ~RDA /\ RDA' /\ ~TakesByte /\ hostByte = counter
        /\ data_rx' = data_rx /\ counter' = counter
        /\ hostByte' = (counter + 1) % Bytes /\ ReceivedData' = w[counter]
        /\ ~LastWaits /\ Incoming = w
    BY <1>3, <1>4, <1>5, <1>8, <1>11 DEF LastWaits, Incoming
  <2>2. LastWaits' <=> counter = Bytes - 1
    BY <1>1, <2>1 DEF LastWaits
  <2>3. CASE counter = Bytes - 1
    <3>1. SentWord /\ unread = << >>
      BY <1>1, <1>5, <1>8, <1>11, <2>1, <2>3
    <3>2. unread' = << w >> /\ unread' # << >> /\ unread'[1] = w /\ Len(unread') = 1
      <4>1. unread' = << w >>
        BY <1>6, <3>1
      <4>2. \A x : << x >> # << >> /\ << x >>[1] = x /\ Len(<< x >>) = 1
        OBVIOUS
      <4> QED BY <4>1, <4>2, Zenon
    <3>3. Incoming' = w
      BY <2>2, <2>3, <3>2 DEF Incoming
    <3>4. ~InPlace'
      BY <1>1, <2>1, <2>3 DEF InPlace
    <3> QED BY <1>1, <1>6, <1>8, <2>1, <2>2, <2>3, <3>2, <3>3, <3>4 DEF WordInv
  <2>4. CASE counter # Bytes - 1
    <3>1. ~SentWord /\ ~LastWaits' /\ Incoming' = w
      BY <1>5, <2>1, <2>2, <2>4 DEF Incoming
    <3>2. unread' = unread \/ unread' = << >>
      BY <1>6, <3>1
    <3>3. Len(unread') <= 1
      BY <1>8, <3>2
    <3>4. counter > 0 => unread' = << >>
      BY <1>8, <2>1, <3>2
    <3>5. InPlace' => data_rx' = unread'[1]
      BY <1>8, <2>1, <3>2 DEF InPlace
    <3> QED BY <1>6, <1>8, <2>1, <3>1, <3>3, <3>4, <3>5 DEF WordInv
  <2> QED BY <2>3, <2>4
<1>12. CASE ~TakesByte /\ ~Received
  <2>1. /\ data_rx' = data_rx /\ counter' = counter /\ hostByte' = hostByte
        /\ hostWord' = hostWord /\ ~SentWord /\ (RDA' <=> RDA)
        /\ RDA => ReceivedData' = ReceivedData
    BY <1>3, <1>4, <1>5, <1>12
  <2>2. LastWaits' <=> LastWaits
    BY <2>1 DEF LastWaits
  <2>3. unread' = unread \/ (unread' = << >> /\ ~LastWaits)
    BY <1>1, <1>6, <1>7, <1>9, <2>1 DEF InPlace
  <2>4. Incoming' = Incoming
    BY <2>1, <2>2, <2>3 DEF Incoming
  <2>5. Len(unread') <= 1
    BY <1>8, <2>3
  <2>6. InPlace' => data_rx' = unread'[1]
    BY <1>8, <2>1, <2>3 DEF InPlace
  <2>7. hostByte' = IF RDA' THEN (counter' + 1) % Bytes ELSE counter'
    BY <1>8, <2>1
  <2>8. /\ LastWaits' => unread' # << >>
        /\ counter' > 0 /\ ~LastWaits' => unread' = << >>
    BY <1>8, <2>1, <2>2, <2>3
  <2>9. /\ \A i \in 0 .. counter' - 1 : data_rx'[i] = Incoming'[i]
        /\ RDA' => ReceivedData' = Incoming'[counter']
    BY <1>8, <2>1, <2>4
  <2> QED BY <1>6, <2>5, <2>6, <2>7, <2>8, <2>9 DEF WordInv
<1> QED BY <1>10, <1>11, <1>12

(* What the driver tells the program, at an edge. *)
LEMMA ToldEdge ==
  ASSUME SerialInv, ReceiveInv, Next
  PROVE  /\ data_received' <=> TakesByte /\ counter = Bytes - 1
         /\ read_ready' <=>
              data_received \/ (read_ready /\ ~(Reads("DATA") \/ Reads("STATUS")))
         /\ status'.received <=> read_ready \/ (status.received /\ bus.addr # "DATA")
<1>1. PICK clocks \in SendClocks, starts \in BOOLEAN :
        Clock(clocks, starts) /\ (starts => MayStart)
  BY NextIsClock
<1>2. Types /\ LineInv
  BY DEF SerialInv, ReceiveInv
<1>3. data_received' <=> TakesByte /\ counter = Bytes - 1
  BY <1>1, <1>2, ReceivingEdge, TakingByte
<1>4. rden(spart_q) <=> Reads("DATA") \/ Reads("STATUS")
  BY DEF rden, spart_q, spart_addr, Idle, Reads
<1>5. clear_status_rd(spart_q) <=> bus.addr = "DATA"
  BY DEF clear_status_rd, spart_q, spart_addr, Idle
<1> QED BY <1>1, <1>2, <1>3, <1>4, <1>5, ReceivingEdge DEF NextReadReady

(* A word in place stays there until a load takes it. *)
LEMMA InPlaceStays ==
  ASSUME SerialInv, ReceiveInv, KeepsTime, Next, InPlace, ~Loads("DATA")
  PROVE  InPlace' /\ ~data_received'
<1>1. PICK clocks \in SendClocks, starts \in BOOLEAN :
        Clock(clocks, starts) /\ (starts => MayStart)
  BY NextIsClock
<1>2. Types /\ LineInv /\ WordInv
  BY DEF SerialInv, ReceiveInv
<1>3. ~TakesByte
  BY DEF InPlace, KeepsTime
<1>4. counter' = counter /\ ~data_received'
  BY <1>1, <1>2, <1>3, ReceivingEdge, TakingByte
<1>5. unread' # << >>
  BY <1>1, <1>2, ReceivingEdge, UnreadEdge DEF InPlace
<1> QED BY <1>4, <1>5 DEF InPlace

(* Every step keeps the program told of the words that are there. *)
LEMMA ToldStep ==
  ASSUME SerialInv, ReceiveInv, KeepsTime, Next
  PROVE  ToldInv'
<1>0. /\ Types /\ IInv /\ PollInv /\ LineInv /\ WordInv /\ ToldInv
      /\ Bytes > 1 /\ Bytes \in Nat /\ counter \in 0 .. Bytes - 1
  BY WordTypes DEF SerialInv, ReceiveInv
<1>1. /\ data_received' <=> TakesByte /\ counter = Bytes - 1
      /\ read_ready' <=>
           data_received \/ (read_ready /\ ~(Reads("DATA") \/ Reads("STATUS")))
      /\ status'.received <=> read_ready \/ (status.received /\ bus.addr # "DATA")
  BY ToldEdge
<1>2. /\ data_received \/ read_ready \/ status.received => InPlace
      /\ data_received => ~read_ready /\ ~status.received
      /\ Reads("STATUS") /\ mem_ready_data /\ status.received => ~read_ready
      /\ polled /\ program.ops[op].do = "RECEIVE" => InPlace /\ ~data_received /\ ~read_ready
      /\ Reads("DATA") /\ mem_ready_data => ~status.received
  BY <1>0 DEF ToldInv
<1>3. data_received' => InPlace' /\ ~read_ready' /\ ~status'.received
  <2>1. SUFFICES ASSUME TakesByte, counter = Bytes - 1
                 PROVE  InPlace' /\ ~read_ready' /\ ~status'.received
    BY <1>1
  <2>2. ~InPlace
    BY <1>0, <2>1 DEF InPlace
  <2>3. PICK clocks \in SendClocks, starts \in BOOLEAN :
          Clock(clocks, starts) /\ (starts => MayStart)
    BY NextIsClock
  <2>4. counter' = 0
    <3>1. counter' = (counter + 1) % Bytes
      BY <1>0, <2>1, <2>3, ReceivingEdge, TakingByte
    <3> QED BY <1>0, <2>1, <3>1, WordTypes
  <2>5. ~Loads("DATA")
    BY <1>0, <2>2, LoadFindsWord
  <2>6. unread # << >>
    BY <1>0, <2>1, WordTypes DEF WordInv, LastWaits, TakesByte
  <2>7. unread' # << >>
    BY <1>0, <2>3, <2>5, <2>6, ReceivingEdge, UnreadEdge
  <2> QED BY <1>1, <1>2, <2>2, <2>4, <2>7 DEF InPlace
<1>4. CASE Loads("DATA")
  <2>1. InPlace /\ ~data_received /\ ~read_ready /\ ~status.received
    BY <1>0, <1>4, LoadFindsWord
  <2>2. ~data_received' /\ ~read_ready' /\ ~status'.received
    BY <1>0, <1>1, <2>1 DEF InPlace
  <2>3. Taken /\ Reads("DATA")
    BY <1>4 DEF Loads
  <2>4. ~mem_ready_data' /\ ~polled'
    <3>1. PICK n \in DOMAIN program.ops, ready \in BOOLEAN : MovesOn(n, ready)
      <4>1. Taken => mem_ready_data /\ repeats' = 0
        BY <1>0, AnsweredByBit DEF Taken
      <4>2. ~Waits /\ ~Repeats /\ ~Rests
        <5>1. repeats \in Nat
          BY <1>0 DEF Types, TypeOK
        <5> QED BY <2>3, <4>1, <5>1 DEF Waits, Repeats, Rests, Reads
      <4> QED BY <1>0, <4>2, ProgramMoves
    <3>2. ~ready
      BY <2>3, <3>1 DEF MovesOn, Load, Reads
    <3>3. polled' = ready
      BY <3>1 DEF MovesOn, Continue
    <3>4. ~mem_ready_data'
      BY <1>0, <2>3, AnsweredByBit, AccessEdge DEF Taken
    <3> QED BY <3>2, <3>3, <3>4
  <2> QED BY <2>2, <2>4 DEF ToldInv
<1>5. CASE ~Loads("DATA")
  <2>1. InPlace => InPlace' /\ ~data_received'
    BY <1>5, InPlaceStays
  <2>2. data_received' \/ read_ready' \/ status'.received => InPlace'
    BY <1>1, <1>2, <1>3, <2>1
  <2>3. mem_ready_data' => bus' = bus
    BY <1>0, AccessEdge
  <2>4. ASSUME Reads("STATUS")', mem_ready_data', status'.received
        PROVE  ~read_ready'
    <3>1. Reads("STATUS")
      BY <2>3, <2>4 DEF Reads
    <3> QED BY <1>1, <1>2, <2>4, <3>1
  <2>5. ASSUME polled', program'.ops[op'].do = "RECEIVE"
        PROVE  InPlace' /\ ~data_received' /\ ~read_ready'
    <3>1. program' = program
      BY <1>0, AccessEdge
    <3>2. CASE Waits \/ Repeats \/ Rests
      <4>1. polled /\ op' = op
        BY <2>5, <3>2 DEF Waits, Repeats, Rests, Continue
      <4> QED BY <1>1, <1>2, <2>1, <2>5, <3>1, <4>1
    <3>3. ASSUME NEW n \in DOMAIN program.ops, NEW ready \in BOOLEAN, MovesOn(n, ready)
          PROVE  InPlace' /\ ~data_received' /\ ~read_ready'
      <4>1. ready /\ op' = n
        BY <2>5, <3>3 DEF MovesOn, Continue
      <4>2. bus = Load("STATUS") /\ mem_ready_data /\ status.received
        BY <2>5, <3>1, <3>3, <4>1 DEF MovesOn
      <4>3. Reads("STATUS")
        BY <4>2 DEF Reads, Load
      <4> QED BY <1>1, <1>2, <2>1, <4>2, <4>3
    <3> QED BY <1>0, <3>2, <3>3, ProgramMoves
  <2>6. ASSUME Reads("DATA")', mem_ready_data'
        PROVE  ~status'.received
    <3>1. Reads("DATA")
      BY <2>3, <2>6 DEF Reads
    <3>2. ~read_ready /\ bus.addr = "DATA"
      BY <1>0, <1>2, <3>1, LoadWasPolled DEF Reads
    <3> QED BY <1>1, <3>2
  <2> QED BY <1>3, <2>2, <2>4, <2>5, <2>6 DEF ToldInv
<1> QED BY <1>4, <1>5

(* At power-up nothing has come in. *)
LEMMA ReceiveInit ==
  ASSUME Init
  PROVE  ReceiveInv
<1>1. LineInv
  BY DEF Init, SpartInit, LineInv, Reading
<1>2. /\ unread = << >> /\ unread \in Seq(SerialWord) /\ Len(unread) = 0
      /\ counter = 0 /\ hostByte = 0 /\ RDA = FALSE
  BY EmptySeq DEF Init, SpartInit
<1>3. \A i \in 0 .. counter - 1 : FALSE
  BY <1>2
<1>4. WordInv
  BY <1>2, <1>3 DEF WordInv, InPlace, LastWaits
<1>5. ToldInv
  BY DEF Init, SpartInit, MapInit, ToldInv, Reads, Idle
<1> QED BY <1>1, <1>4, <1>5 DEF ReceiveInv

(* The invariant depends on nothing but the state. *)
LEMMA ReceiveStutter ==
  ASSUME ReceiveInv, UNCHANGED vars
  PROVE  ReceiveInv'
<1>1. UNCHANGED spartVars /\ UNCHANGED mapVars /\ bus' = bus /\ UNCHANGED programVars
      /\ UNCHANGED hostVars /\ unread' = unread
  BY DEF vars
<1>2. LineInv'
  BY <1>1 DEF ReceiveInv, LineInv, Reading, spartVars, driverVars
<1>3. InPlace' = InPlace /\ LastWaits' = LastWaits /\ Incoming' = Incoming
  BY <1>1 DEF InPlace, LastWaits, Incoming, spartVars, driverVars, hostVars
<1>4. WordInv'
  BY <1>1, <1>3 DEF ReceiveInv, WordInv, spartVars, driverVars, hostVars
<1>5. ToldInv'
  BY <1>1, <1>3 DEF ReceiveInv, ToldInv, Reads, spartVars, driverVars, mapVars, programVars
<1> QED BY <1>2, <1>4, <1>5 DEF ReceiveInv

(* Every step of programs that keep the time keeps the invariant. *)
LEMMA ReceiveStep == SerialInv /\ ReceiveInv /\ KeepsTime /\ [Next]_vars => ReceiveInv'
<1>1. ASSUME SerialInv, ReceiveInv, KeepsTime, Next
      PROVE  ReceiveInv'
  <2>1. PICK clocks \in SendClocks, starts \in BOOLEAN :
          Clock(clocks, starts) /\ (starts => MayStart)
    BY <1>1, NextIsClock
  <2> QED BY <1>1, <2>1, LineStep, WordStep, ToldStep DEF ReceiveInv
<1> QED BY <1>1, ReceiveStutter

(* The words of the host arrive whole, in order, each once, whatever the   *)
(* speed of the line and however the program's polls, repeated accesses    *)
(* and pauses fall between the clocks of driver and receiver: if no word   *)
(* goes out while a byte waits, and each word is loaded before the first   *)
(* byte of the next is read.                                               *)
THEOREM WordsComeIn == Spec /\ []KeepsTime => LoadsDelivered
<1>1. Init => SerialInv /\ ReceiveInv
  BY SerialInit, ReceiveInit
<1>2. SerialInv /\ ReceiveInv /\ [Next]_vars
        => [Loads("DATA") => unread # << >> /\ data_rx = Head(unread)]_vars
  <2>1. SUFFICES ASSUME SerialInv, ReceiveInv, Loads("DATA")
                 PROVE  unread # << >> /\ data_rx = Head(unread)
    OBVIOUS
  <2>2. InPlace
    BY <2>1, LoadFindsWord DEF ReceiveInv
  <2>3. unread # << >> /\ data_rx = unread[1]
    BY <2>1, <2>2 DEF ReceiveInv, WordInv, InPlace
  <2> QED BY <2>3
<1> QED BY <1>1, <1>2, SerialStep, ReceiveStep, PTL DEF Spec, LoadsDelivered
=============================================================================
