----------------------------- MODULE IoSystem -------------------------------
(***************************************************************************)
(* The IO block and the serial port with the two programs that use them:   *)
(* the processor's, which polls the status register before it stores or    *)
(* loads a word, and the host's at the other end of the line, which        *)
(* answers a word with words.                                              *)
(*                                                                         *)
(* Two rules of the repository's programs are built in.  The host sends    *)
(* only after it has heard a whole word (fread of a uint32), and stops     *)
(* before the processor sends again: while a word goes out the driver does *)
(* not read.  And from the host's first byte to the load of its last word  *)
(* no store to DATA and no result of the ALU with that value is made: each *)
(* would clear the status bit.                                             *)
(***************************************************************************)
EXTENDS IoMap, Sequences

CONSTANTS
  Programs,     \* [ops, first, replies]: see Access, and how many words the
                \* host sends unasked and after each word it has heard
  HostWords,    \* the words it sends, one after the other
  MaxIdle,      \* clocks between two accesses of the program
  MaxRepeats    \* an answered access stands in the memory stage again while
                \* the execution stage waits for the NPU: at most so often

(* SEND and RECEIVE are accesses to the data register after a poll, and    *)
(* programs have no others; the host answers each of the words it hears.   *)
Operation ==
  [do : {"SEND"}, wr : SerialWord] \cup [do : {"RECEIVE"}] \cup
  [do : {"STORE"}, addr : Register, wr : SerialWord] \cup
  [do : {"LOAD"}, addr : Register]
Program ==
  [ops : Seq(Operation) \ {<< >>}, first : Nat, replies : Seq(Nat) \ {<< >>}]

ASSUME IoSystemAssumption ==
  /\ {MaxIdle, MaxRepeats} \subseteq Nat
  /\ HostWords \in Seq(SerialWord) \ {<< >>}
  /\ \A i \in DOMAIN Programs : Programs[i] \in Program

(* No access stands there for as long as a byte takes to send, the two     *)
(* clocks of each repeat counted.                                          *)
ASSUME ShortRepeats ==
  Bytes > 1 /\ \A clocks \in SendClocks : 2 * MaxRepeats < clocks + 2

(* The driver reads a byte long before the start bit of the next is over,  *)
(* which takes 16 periods of the baud rate generator.                      *)
ASSUME LongGaps == GapClocks > 4

VARIABLES
  program, op, polled, idle, repeats,    \* of the processor
  credit, hostWord, hostByte, heard,     \* of the host
  \* history
  owed,      \* bytes of the words stored that have not gone out
  unread     \* words that have come in and have not been loaded

programVars == << program, op, polled, idle, repeats >>
hostVars == << credit, hostWord, hostByte, heard >>
vars == << spartVars, mapVars, bus, programVars, hostVars, owed, unread >>

Init ==
  /\ SpartInit /\ MapInit /\ bus = Idle("NONE")
  /\ program \in {Programs[i] : i \in DOMAIN Programs}
  /\ op = 1 /\ polled = FALSE /\ idle = 0 /\ repeats = 0
  /\ credit = program.first /\ hostWord = 1 /\ hostByte = 0 /\ heard = 0
  /\ owed = << >> /\ unread = << >>

-----------------------------------------------------------------------------
(* The processor's program: an operation SEND or RECEIVE loads the status  *)
(* until it allows the access to the data register.                        *)
Access(n, ready) ==
  LET o == program.ops[n] IN
  CASE o.do = "SEND" -> IF ready THEN Store("DATA", o.wr) ELSE Load("STATUS")
    [] o.do = "RECEIVE" -> IF ready THEN Load("DATA") ELSE Load("STATUS")
    [] o.do = "STORE" -> Store(o.addr, o.wr)
    [] o.do = "LOAD" -> Load(o.addr)

Polls == program.ops[op].do \in {"SEND", "RECEIVE"} /\ ~polled
Answered == bus.valid /\ io_ready

(* The pipeline moves on: the answer is taken. *)
Taken == Answered /\ repeats' = 0
Loads(a) == Taken /\ Reads(a)

(* Results that may stand on the address while no access is made. *)
Results ==
  IF credit = 0 /\ unread = << >> THEN Address \ {"OTHER"} ELSE Address \ {"DATA", "OTHER"}

(* After n and ready, what is in the memory stage next. *)
Continue(n, ready) ==
  /\ op' = n /\ polled' = ready
  /\ \/ bus' = Access(n, ready) /\ idle' = 0
     \/ idle < MaxIdle /\ idle' = idle + 1 /\ bus' \in {Idle(a) : a \in Results}

Polled == IF program.ops[op].do = "SEND" THEN io_rd.ready ELSE io_rd.received
ProgramClock ==
  /\ UNCHANGED program
  /\ \/ /\ bus.valid /\ ~io_ready
        /\ UNCHANGED << bus, op, polled, idle, repeats >>
     \/ /\ Answered /\ repeats < MaxRepeats
        /\ repeats' = repeats + 1 /\ UNCHANGED << bus, op, polled, idle >>
     \/ /\ Answered /\ repeats' = 0
        /\ IF Polls THEN Continue(op, Polled)
                    ELSE Continue((op % Len(program.ops)) + 1, FALSE)
     \/ ~bus.valid /\ Continue(op, polled) /\ UNCHANGED repeats

-----------------------------------------------------------------------------
(* The host and the line. *)
MayStart == credit > 0 /\ receiving = 0 /\ gap = 0
HeardWord == Carried /\ heard % Bytes = Bytes - 1
Replies == program.replies[1 + (heard \div Bytes)]
SentWord == Received /\ hostByte = Bytes - 1

HostClock ==
  /\ heard' = IF Carried THEN (heard + 1) % (Bytes * Len(program.replies)) ELSE heard
  /\ hostByte' = IF Received THEN (hostByte + 1) % Bytes ELSE hostByte
  /\ hostWord' = IF SentWord THEN (hostWord % Len(HostWords)) + 1 ELSE hostWord
  /\ credit' = credit + (IF HeardWord THEN Replies ELSE 0) - (IF SentWord THEN 1 ELSE 0)

HistoryClock ==
  /\ owed' = (IF Carried /\ owed # << >> THEN Tail(owed) ELSE owed)
             \o (IF Taken /\ Stores("DATA") THEN [i \in 1 .. Bytes |-> bus.wr[i - 1]] ELSE << >>)
  /\ unread' = (IF Loads("DATA") /\ unread # << >> THEN Tail(unread) ELSE unread)
               \o (IF SentWord THEN << HostWords[hostWord] >> ELSE << >>)

Clock(clocks, starts) ==
  /\ SpartClock(spart_q, clocks, starts, HostWords[hostWord][hostByte])
  /\ MapClock /\ ProgramClock /\ HostClock /\ HistoryClock

HostSends == MayStart /\ \E clocks \in SendClocks : Clock(clocks, TRUE)
HostWaits == \E clocks \in SendClocks : Clock(clocks, FALSE)
Next == HostSends \/ HostWaits

(* The clock runs, and a host that has something to send sends it. *)
Spec == Init /\ [][Next]_vars /\ WF_vars(Next) /\ WF_vars(HostSends)

-----------------------------------------------------------------------------
TypeOK ==
  /\ SpartTypeOK
  /\ tick_counter \in 0 .. TickValues - 1 /\ display_on \in {0, 1}
  /\ {mem_start, bus.wr} \subseteq SerialWord /\ mem_ready_data \in BOOLEAN /\ bus.addr \in Address
  /\ op \in DOMAIN program.ops /\ idle \in 0 .. MaxIdle /\ repeats \in 0 .. MaxRepeats
  /\ credit \in Nat /\ hostByte \in 0 .. Bytes - 1 /\ hostWord \in DOMAIN HostWords

(* What the transmitter carries are the bytes of the words stored, in      *)
(* order, each once: no store that followed a poll is dropped or doubled,  *)
(* and no byte is handed over before the last one is out.                  *)
StoresCarried == [][Carried => owed # << >> /\ piso = Head(owed)]_vars

(* Each load of the data register returns the next word the host has sent, *)
(* whole; none is lost, mixed with the next one or returned twice.         *)
LoadsDelivered ==
  [][Loads("DATA") => unread # << >> /\ data_rx = Head(unread)]_vars

(* What the programs owe the serial port: a word goes out only while none  *)
(* comes in, since the driver does not read before it is out ("rda == 1 && *)
(* ... && !start_transmitter", driver.v); and a word that has come in is   *)
(* loaded before the first byte of the next is read, since the driver has  *)
(* one register for both.                                                  *)
KeepsTime ==
  /\ RDA => ~start_transmitter
  /\ TakesByte /\ counter = 0 => unread = << >>

(* A register of the IO block is answered when the access is done, and     *)
(* with its own contents, although all accesses share one answer bit: the  *)
(* tick counter's are those of the clock before.                           *)
AnswersOwn ==
  Answered =>
    CASE Reads("START") -> io_rd = mem_start
      [] Reads("ON") -> io_rd = Small(display_on)
      [] Reads("TICK") -> tick_counter = io_rd[0] + 1 \/ io_rd[0] = TickValues - 1
      [] Stores("START") -> mem_start = bus.wr
      [] Stores("ON") -> display_on = bus.wr[0] % 2
      [] Stores("TICK") -> tick_counter = 0
      [] OTHER -> TRUE

(* "If value reaches maximum value (2^32 - 1) then it just keeps it same,  *)
(* doesn't make it zero" (Memory_Mapping.txt): only a store takes the tick *)
(* counter back, so that of two times that a program reads the later is    *)
(* not the smaller.  The counter of IO_map_block.v does not keep this.     *)
TicksHold == [][tick_counter' < tick_counter => Stores("TICK")]_vars

(* The program never waits for ever: each of its sends and receives ends.  *)
ExchangesGoOn == []<>(op = 1) /\ []<>(op # 1)
=============================================================================
