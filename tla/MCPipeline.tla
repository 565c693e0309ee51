------------------------------ MODULE MCPipeline ------------------------------
(***************************************************************************)
(* Instances of Pipeline: every program of a few shapes that keeps the     *)
(* rules of software, and one program of the repository that does not.     *)
(***************************************************************************)
EXTENDS Pipeline

MCToken == [n \in 0 .. 3 |-> 3 + 2 * n]
MCRegs == [r \in Reg |-> <<0, 9, 2, 5>>[r + 1]]
MCMem == [a \in Word |-> (7 * a + 3) % Size]

DataAlphabet ==
  {Add(2, 2, 3), Sub(3, 2, 3), Lhw(2, 1), Llw(3, -2), Load(2, 3, 0), Load(3, 2, 1),
   Store(3, 2, 0), Enqd(2), Enqd(3), Deqd(2), Enqc(1)}
DataPrograms == {<<a, b, c, Halt>> : a, b, c \in DataAlphabet}

(* Branches forwards and back, predicted and not, alone, in pairs and in   *)
(* loops.                                                                  *)
ControlAlphabet ==
  {Sub(2, 2, 3), Load(3, 2, 1), Store(2, 3, 0), Enqd(3), Branch("EQ", 1), Branch("LT", -2),
   Branch("UNCON", 1), Branch("UNCON", -3)}
ControlPrograms == {<<a, b, c, d, e, Halt>> : a, b, c, d, e \in ControlAlphabet}

(* The same behind two branches not taken, which turn the prediction.      *)
NotTaken == <<Sub(3, 3, 0), Branch("EQ", 0), Sub(3, 3, 0), Branch("EQ", 0)>>
TurnedPrograms == {NotTaken \o <<a, b, c, d, Halt>> : a, b, c, d \in ControlAlphabet}

(* Calls and returns, nested, before and behind a load or a branch.        *)
Body == {Add(2, 2, 3), Load(3, 2, 1), Store(3, 2, 0), Enqd(2), Deqd(3), Flush}
CallPrograms ==
  {<<a, Call(t), b, Halt, c, d, Ret, Nop, Nop, Nop>> : a, b, c, d \in Body, t \in 4 .. 6}
  \cup {<<Call(2), Halt, a, b, Call(9), Ret, Nop, Nop, Nop, c, d, Ret, Nop, Nop, Nop>> :
     a, b \in Body, c, d \in Body \cup {Sub(3, 3, 2), Branch("LT", -2), Branch("GTE", 1)}}

MCPrograms == {p \in DataPrograms : Disciplined(p)}
              \cup {p \in ControlPrograms : Disciplined(p)}
              \cup {p \in TurnedPrograms : Disciplined(p)}
              \cup {p \in CallPrograms : SoftwareRules(p)}

(* Application/InverseKinematics.txt calls ASIN, whose RET stands directly  *)
(* in front of ACOS, which begins with a CALL of ASIN.  Register 2 is R29,  *)
(* where ASIN returns its value, register 3 its argument.                   *)
MCReturnPrograms ==
  {<<Call(3), Store(2, 3, 0), Halt,
     Add(0, 3, 3), Add(2, 0, 3), Add(2, 2, 3), Ret,     \* ASIN
     Call(3), Add(3, 3, 3), Sub(2, 3, 2), Ret>>}         \* ACOS
=============================================================================
