--------------------------------- MODULE Isa ---------------------------------
(***************************************************************************)
(* The processor's instructions as a programmer reads them: one after the  *)
(* other, each complete before the next.  This is the reference Pipeline   *)
(* is held to.                                                             *)
(*                                                                         *)
(* The arithmetic is that of the 32 bit machine on words of two halves;    *)
(* the logic, shift, multiply and floating point instructions take the     *)
(* same path as ADD and are left out.  Branches on overflow are left out   *)
(* too.                                                                    *)
(***************************************************************************)
EXTENDS Integers, Sequences

CONSTANTS Half,         \* values of an immediate (2^16); a register holds two halves
          LastReg,      \* the highest register; register 0 reads as zero
          TokenCount,   \* the NPU's results repeat after this many
          Token         \* Token[n]: the n-th result of the NPU

ASSUME IsaAssumption ==
  /\ Half \in Nat \ {0, 1} /\ LastReg \in Nat \ {0} /\ TokenCount \in Nat \ {0}
  /\ Token \in [0 .. TokenCount - 1 -> 0 .. Half * Half - 1]

Size == Half * Half
Word == 0 .. Size - 1
Offset == -Size .. Size - 1     \* immediates, and the wider offsets of branches and calls
Reg == 0 .. LastReg

(***************************************************************************)
(* An instruction by its fields.  The fields overlap in the code: bits     *)
(* 25:21 are rd, 20:16 rs, 15:11 rt, 15:0 the immediate, and the branch    *)
(* and call offsets cover all of them.  A small negative offset or         *)
(* immediate therefore names the highest register in the fields it covers. *)
(***************************************************************************)
Over(i) == IF i < 0 THEN LastReg ELSE 0

Instr(op, d, s, t, i) == [op |-> op, rd |-> d, rs |-> s, rt |-> t, imm |-> i, cond |-> "-"]
Add(d, s, t) == Instr("ADD", d, s, t, 0)
Sub(d, s, t) == Instr("SUB", d, s, t, 0)
Llw(d, i) == Instr("LLW", d, 0, Over(i), i)
Lhw(d, i) == Instr("LHW", d, 0, Over(i), i)
Load(d, s, i) == Instr("LOAD", d, s, Over(i), i)
Store(d, s, i) == Instr("STORE", d, s, Over(i), i)
Branch(c, i) == [Instr("BRANCH", 0, Over(i), Over(i), i) EXCEPT !.cond = c]
Call(a) == Instr("CALL", 0, 0, 0, a)
Ret == Instr("RET", 0, 0, 0, 0)
Flush == Instr("FLUSH", 0, 0, 0, 0)
Halt == Instr("HALT", 0, 0, 0, 0)
Enqc(i) == Instr("ENQC", 0, 0, 0, i)
Enqd(d) == Instr("ENQD", d, 0, 0, 0)
Deqd(d) == Instr("DEQD", d, 0, 0, 0)
Nop == Add(0, 0, 0)

Conditions == {"NEQ", "EQ", "GT", "LT", "GTE", "LTE", "UNCON"}
Ops == {"ADD", "SUB", "LLW", "LHW", "LOAD", "STORE", "BRANCH", "CALL", "RET", "FLUSH",
        "HALT", "ENQC", "ENQD", "DEQD"}
Instruction ==
  [op : Ops, rd : Reg, rs : Reg, rt : Reg, imm : Offset, cond : Conditions \cup {"-"}]

(* Beyond the program the memory holds zero, the code of ADD R0 R0 R0. *)
At(program, a) == IF a < Len(program) THEN program[a + 1] ELSE Nop

-----------------------------------------------------------------------------
(* Alu.v on words. *)
Signed(w) == IF 2 * w >= Size THEN w - Size ELSE w
Saturate(i) == IF 2 * i >= Size THEN Size \div 2 - 1
               ELSE IF 2 * i < -Size THEN Size \div 2 ELSE i % Size
AddWords(a, b) == Saturate(Signed(a) + Signed(b))
SubWords(a, b) == Saturate(Signed(a) - Signed(b))
HighWord(a, i) == (i % Half) * Half + (a % Half)

(* BranchControl, without the overflow condition. *)
Holds(c, zero, negative) ==
  CASE c = "NEQ" -> ~zero
    [] c = "EQ" -> zero
    [] c = "GT" -> ~zero /\ ~negative
    [] c = "LT" -> negative
    [] c = "GTE" -> ~negative
    [] c = "LTE" -> negative \/ zero
    [] c = "UNCON" -> TRUE

-----------------------------------------------------------------------------
(* The machine's state between two instructions. *)
MachineInit(regs, mem) ==
  [pc |-> 0, regs |-> regs, mem |-> mem, zero |-> FALSE, negative |-> FALSE,
   taken |-> 0, halted |-> FALSE]

Get(s, r) == IF r = 0 THEN 0 ELSE s.regs[r]
Put(s, r, w) == [s EXCEPT !.regs[r] = w, !.pc = (s.pc + 1) % Size]
PutFlagged(s, r, w) == [Put(s, r, w) EXCEPT !.zero = (w = 0), !.negative = (Signed(w) < 0)]
Skip(s) == [s EXCEPT !.pc = (s.pc + 1) % Size]

(* What the instruction sends to the NPU: a word, or nothing. *)
Sends(s, i) ==
  CASE i.op = "ENQC" -> << <<"config", i.imm>> >>
    [] i.op = "ENQD" -> << <<"data", Get(s, i.rd)>> >>
    [] OTHER -> << >>

(* One instruction. *)
Execute(s, i) ==
  LET a == Get(s, i.rs)
      b == Get(s, i.rt)
      at == AddWords(a, i.imm % Size)
      down == AddWords(Get(s, 1), Size - 1)
  IN CASE i.op = "ADD" -> PutFlagged(s, i.rd, AddWords(a, b))
       [] i.op = "SUB" -> PutFlagged(s, i.rd, SubWords(a, b))
       [] i.op = "LLW" -> Put(s, i.rd, i.imm % Size)
       [] i.op = "LHW" -> Put(s, i.rd, HighWord(Get(s, i.rd), i.imm))
       [] i.op = "LOAD" -> Put(s, i.rd, s.mem[at])
       [] i.op = "STORE" -> Skip([s EXCEPT !.mem[at] = Get(s, i.rd)])
       [] i.op = "BRANCH" ->
            [s EXCEPT !.pc = (s.pc + 1 + IF Holds(i.cond, s.zero, s.negative)
                                         THEN i.imm ELSE 0) % Size]
       [] i.op = "CALL" ->
            [s EXCEPT !.mem[down] = (s.pc + 1) % Size, !.regs[1] = down, !.pc = i.imm]
       [] i.op = "RET" ->
            [s EXCEPT !.regs[1] = (Get(s, 1) + 1) % Size, !.pc = s.mem[Get(s, 1)]]
       [] i.op = "DEQD" ->
            [Put(s, i.rd, Token[s.taken]) EXCEPT !.taken = (s.taken + 1) % TokenCount]
       [] i.op = "HALT" -> [s EXCEPT !.halted = TRUE]
       [] OTHER -> Skip(s)
=============================================================================
