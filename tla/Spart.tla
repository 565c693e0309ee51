------------------------------- MODULE Spart --------------------------------
(***************************************************************************)
(* The serial port: SPART/spart_top_level.v (the answer to the processor), *)
(* SPART/driver.v (words to bytes and back, the status register), and what *)
(* SPART/transmit.v and SPART/receiver.v do for a byte.                    *)
(*                                                                         *)
(* The bits of a byte and the baud rate are abstracted to a number of      *)
(* clocks for which the transmitter or the receiver is busy.               *)
(***************************************************************************)
EXTENDS Integers

CONSTANTS
  Byte,         \* the values of a byte
  Bytes,        \* bytes of a word, 4 in the design
  ByteClocks,   \* for which the data bits of a byte come in
  GapClocks,    \* from the last data bit to the next byte's first, at least
  SendClocks    \* the numbers of clocks that sending a byte may take

ASSUME SpartAssumption ==
  /\ Byte \subseteq Nat /\ 0 \in Byte
  /\ {Bytes, ByteClocks, GapClocks} \subseteq Nat \ {0}
  /\ SendClocks \subseteq Nat \ {0} /\ SendClocks # {}

SerialWord == [0 .. Bytes - 1 -> Byte]
Mixed == -1      \* two bytes shifted into each other
ZeroWord == [i \in 0 .. Bytes - 1 |-> 0]

VARIABLES
  \* spart_top_level.v
  count,
  \* driver.v
  state, ready_rw, data_rdy, status,
  counter, data_rx, data_received, start_receiver, read_ready,
  counter_wr, data_to_be_transmitted, data_written, start_transmitter, write_ready,
  data_spart_rdy,  \* also what the latch data_spart_rdy_next holds
  tbr_changed, iocs, iorw, ioaddr, databus_drive,
  \* transmit.v
  buffer_full, piso, sending,
  \* receiver.v
  RDA, ReceivedData, receiving, gap

driverVars ==
  << state, ready_rw, data_rdy, status, counter, data_rx, data_received, start_receiver,
     read_ready, counter_wr, data_to_be_transmitted, data_written, start_transmitter,
     write_ready, data_spart_rdy, tbr_changed, iocs, iorw, ioaddr, databus_drive >>
spartVars == << count, driverVars, buffer_full, piso, sending, RDA, ReceivedData, receiving, gap >>

SpartInit ==
  /\ count = 0 /\ state = "IDLE" /\ ready_rw = 0 /\ data_rdy = FALSE
  /\ status = [ready |-> TRUE, received |-> FALSE]
  /\ counter = 0 /\ data_rx = ZeroWord /\ data_received = FALSE
  /\ start_receiver = FALSE /\ read_ready = FALSE
  /\ counter_wr = 0 /\ data_to_be_transmitted = ZeroWord /\ data_written = FALSE
  /\ start_transmitter = FALSE /\ write_ready = TRUE /\ data_spart_rdy = FALSE
  /\ tbr_changed = FALSE /\ iocs = FALSE /\ iorw = TRUE /\ ioaddr = 0 /\ databus_drive = 0
  /\ buffer_full = FALSE /\ piso = 0 /\ sending = 0
  /\ RDA = FALSE /\ ReceivedData = 0 /\ receiving = 0 /\ gap = 0

SpartTypeOK ==
  /\ count \in {0, 1} /\ state \in {"IDLE", "READ", "WRITE"} /\ ready_rw \in 0..2
  /\ {counter, counter_wr} \subseteq 0 .. Bytes - 1
  /\ {data_rx, data_to_be_transmitted} \subseteq SerialWord
  /\ {databus_drive, ReceivedData} \subseteq Byte /\ piso \in Byte \cup {Mixed}
  /\ status \in [ready : BOOLEAN, received : BOOLEAN] /\ ioaddr \in {0, 2, 3}
  /\ receiving \in 0 .. ByteClocks /\ gap \in 0 .. GapClocks

-----------------------------------------------------------------------------
(* spart_top_level.v.  A request `q` of the IO map has fields valid, rw,   *)
(* addr and wr; only the addresses DATA and STATUS come here, others       *)
(* arrive as NONE.                                                         *)
rden(q) == ~q.rw /\ q.valid
wren(q) == q.rw /\ q.valid

(* Seeded fault: an access is answered whenever the last clock saw one. *)
SpartReadyUncounted(q) == q.valid /\ data_rdy
SpartReady(q) == q.valid /\ count = 1 /\ data_rdy

SpartRead(q) ==
  CASE q.addr = "DATA" -> data_rx
    [] q.addr = "STATUS" -> status
    [] OTHER -> ZeroWord

(* The address alone clears the status bit: a store to it does, and so     *)
(* does any result of the ALU with that value.                             *)
(* Seeded fault: the status bit is cleared by reading it. *)
ClearsStatusRead(q) == q.addr = "STATUS"
clear_status_rd(q) == q.addr = "DATA"

TopClock(q) ==
  /\ count' = IF q.valid THEN 1 - count ELSE 0
  /\ data_rdy' = q.valid

-----------------------------------------------------------------------------
(* driver.v *)
tbr == ~buffer_full

StartsRead == RDA /\ ready_rw = 2 /\ start_receiver /\ ~start_transmitter

(* Seeded fault: a byte is handed over without waiting for the transmitter *)
(* to have taken and sent the last one.                                    *)
StartsWriteAnyTime == ~StartsRead /\ tbr /\ ready_rw = 2 /\ start_transmitter
StartsWrite ==
  ~StartsRead /\ tbr /\ ready_rw = 2 /\ start_transmitter /\ ~data_spart_rdy

NextState ==
  CASE state = "IDLE" /\ StartsRead -> "READ"
    [] state = "IDLE" /\ StartsWrite -> "WRITE"
    [] OTHER -> "IDLE"

(* The latch: set by the hand-over of a byte, cleared when the transmitter *)
(* is ready after it was seen busy.                                        *)
NextSpartRdy ==
  CASE state # "IDLE" -> data_spart_rdy
    [] state = "IDLE" /\ tbr /\ tbr_changed -> FALSE
    [] OTHER -> StartsWrite \/ data_spart_rdy

(* The receiving half: a word is complete with its last byte. *)
TakesByte == iorw /\ iocs /\ RDA
ReceiveClock ==
  /\ IF TakesByte
     THEN /\ data_rx' = [data_rx EXCEPT ![counter] = ReceivedData]
          /\ counter' = (counter + 1) % Bytes
     ELSE UNCHANGED << data_rx, counter >>
  /\ data_received' = (TakesByte /\ counter = Bytes - 1)
  /\ start_receiver' =
       CASE RDA /\ ~data_received /\ ~start_receiver -> TRUE
         [] data_received /\ start_receiver -> FALSE
         [] OTHER -> start_receiver

(* The sending half: a store is taken only at rest. *)
Accepts(q) == wren(q) /\ ~start_transmitter /\ ~data_written
SendClock(q) ==
  /\ start_transmitter' =
       CASE Accepts(q) -> TRUE
         [] data_written /\ start_transmitter -> FALSE
         [] OTHER -> start_transmitter
  /\ data_to_be_transmitted' = IF Accepts(q) THEN q.wr ELSE data_to_be_transmitted

(* Seeded fault: a load does not take the word off the list. *)
NextReadReadyKept(q) == data_received \/ read_ready
NextReadReady(q) == data_received \/ (read_ready /\ ~rden(q))

StatusClock(q) ==
  /\ read_ready' = NextReadReady(q)
  /\ write_ready' = ~start_transmitter
  /\ status' = [ready |-> write_ready,
                received |-> read_ready \/ (status.received /\ ~clear_status_rd(q))]

(* The registers on the bus to the transmitter, the receiver and the baud  *)
(* rate generator, which is programmed in the first two clocks (with a     *)
(* constant, left out here).                                               *)
BusIdle ==
  /\ iocs' = FALSE /\ iorw' = TRUE /\ ioaddr' = 0 /\ data_written' = FALSE
  /\ tbr_changed' = ~tbr
  /\ UNCHANGED << ready_rw, counter_wr, databus_drive >>
BusWrite ==
  /\ iocs' = TRUE /\ iorw' = FALSE /\ ioaddr' = 0
  /\ databus_drive' = data_to_be_transmitted[counter_wr]
  /\ data_written' = (counter_wr = Bytes - 1)
  /\ counter_wr' = (counter_wr + 1) % Bytes
  /\ UNCHANGED << ready_rw, tbr_changed >>
BusRead ==
  /\ iocs' = TRUE /\ iorw' = TRUE /\ ioaddr' = 0 /\ data_written' = FALSE
  /\ UNCHANGED << ready_rw, counter_wr, databus_drive, tbr_changed >>
BusProgram ==
  /\ iocs' = TRUE /\ iorw' = FALSE /\ ioaddr' = 2 + ready_rw /\ ready_rw' = ready_rw + 1
  /\ UNCHANGED << databus_drive, data_written, counter_wr, tbr_changed >>
BusClock ==
  \/ ready_rw < 2 /\ BusProgram
  \/ ready_rw = 2 /\ state = "IDLE" /\ BusIdle
  \/ ready_rw = 2 /\ state = "WRITE" /\ BusWrite
  \/ ready_rw = 2 /\ state = "READ" /\ BusRead

DriverClock(q) ==
  /\ state' = NextState /\ data_spart_rdy' = NextSpartRdy
  /\ ReceiveClock /\ SendClock(q) /\ StatusClock(q) /\ BusClock

-----------------------------------------------------------------------------
(* transmit.v.  The bytes written to ioaddr 0 go out; one written while    *)
(* another is going out is shifted into it.                                *)
Given == iocs /\ ~iorw /\ ioaddr = 0
Carried == buffer_full /\ sending = 1   \* the last bit of a byte goes out
TransmitClock(clocks) ==
  /\ buffer_full' = (~Carried /\ (Given \/ buffer_full))
  /\ piso' = IF ~Given THEN piso ELSE IF buffer_full THEN Mixed ELSE databus_drive
  /\ sending' = CASE Given /\ ~buffer_full -> clocks
                  [] buffer_full -> sending - 1
                  [] OTHER -> 0

(* receiver.v.  A byte is held from its last data bit to the next byte's   *)
(* first, or until the driver has read it.                                 *)
clr_rda == iocs /\ iorw /\ ioaddr = 0
Received == receiving = 1
ReceiverClock(starts, byte) ==
  /\ receiving' = CASE receiving > 0 -> receiving - 1
                    [] starts -> ByteClocks
                    [] OTHER -> 0
  /\ RDA' = CASE receiving > 0 -> Received
              [] OTHER -> RDA /\ ~clr_rda
  /\ ReceivedData' = CASE Received -> byte
                       [] starts -> 0
                       [] OTHER -> ReceivedData
  /\ gap' = IF Received THEN GapClocks ELSE IF gap > 0 THEN gap - 1 ELSE 0

(* One clock edge. *)
SpartClock(q, clocks, starts, byte) ==
  /\ TopClock(q) /\ DriverClock(q) /\ TransmitClock(clocks) /\ ReceiverClock(starts, byte)
=============================================================================
