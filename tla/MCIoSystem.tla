---------------------------- MODULE MCIoSystem ------------------------------
(***************************************************************************)
(* Instances of IoSystem: the exchanges of the repository's programs, with *)
(* fewer words.                                                            *)
(***************************************************************************)
EXTENDS IoSystem

MCWord(n) == [i \in 0 .. Bytes - 1 |-> n + i]
Send(n) == [do |-> "SEND", wr |-> MCWord(n)]
Receive == [do |-> "RECEIVE"]
StoreTo(a, v) == [do |-> "STORE", addr |-> a, wr |-> MCWord(v)]
LoadFrom(a) == [do |-> "LOAD", addr |-> a]

(* Application/Bootloader.txt, and Sobel_project/Sobeltadumdumdum.txt: a   *)
(* request, the data, then the display is pointed at them.                 *)
Picture ==
  [ops |-> << Send(1), Receive, Receive, StoreTo("START", 5), StoreTo("ON", 1) >>,
   first |-> 0, replies |-> << 2 >>]

(* Application/Image_SPART_Rohit.txt: data come in unasked and are sent    *)
(* back, here two words for one.                                           *)
Echo == [ops |-> << Receive, Send(1), Send(5) >>,
   first |-> 1, replies |-> << 0, 1 >>]

(* Application/InverseKinematics.txt: the tick counter, with the registers *)
(* read back, and an address that nobody decodes.                          *)
Ticks ==
  [ops |-> << StoreTo("TICK", 1), LoadFrom("TICK"), Send(1), LoadFrom("START"),
              LoadFrom("OTHER"), LoadFrom("ON"), StoreTo("ON", 3), StoreTo("START", 6) >>,
   first |-> 0, replies |-> << 0 >>]

MCPrograms == << Picture, Echo, Ticks >>
MCHostWords == << MCWord(2), MCWord(6) >>
=============================================================================
