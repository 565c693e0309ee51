---------------------------- MODULE PipelineProofs ----------------------------
(***************************************************************************)
(* Proof that the pipeline does what the reference machine Isa does: for   *)
(* every program without calls that keeps the rules of software, every     *)
(* word size and register count, and memory and NPU that make the pipeline *)
(* wait at any clock.                                                      *)
(***************************************************************************)
EXTENDS Pipeline, TLAPS

-----------------------------------------------------------------------------
(* Words. *)

(* A word has at least four values. *)
LEMMA SizeFact == Size \in Nat /\ Size >= 4 /\ 0 \in Word /\ Size - 1 \in Word
<1>1. \A x \in Nat \ {0, 1} : x * x \in Nat /\ x * x >= 4
  <2>1. SUFFICES ASSUME NEW x \in Nat, x >= 2 PROVE x * x >= 4
    OBVIOUS
  <2>2. x * x >= 2 * x
    BY <2>1
  <2>3. QED
    BY <2>1, <2>2
<1>2. Half \in Nat \ {0, 1}
  BY IsaAssumption
<1>3. Size \in Nat /\ Size >= 4
  BY <1>1, <1>2 DEF Size
<1>4. QED
  BY <1>3 DEF Word

(* What is taken modulo Size is a word, and a word is its own remainder. *)
LEMMA Remainder == /\ \A x \in Int : x % Size \in Word
                   /\ \A x \in Word : x % Size = x
<1> DEFINE n == Size
<1>1. n \in Nat \ {0}
  BY SizeFact
<1> HIDE DEF n
<1>2. \A x \in Int : x % n \in 0 .. n - 1
  BY <1>1
<1>3. \A x \in 0 .. n - 1 : x % n = x
  BY <1>1
<1>4. QED
  BY <1>2, <1>3 DEF Word, n

(* Sums and differences are words. *)
LEMMA SumTyped == /\ \A a, b \in Word : AddWords(a, b) \in Word
                  /\ \A a, b \in Word : SubWords(a, b) \in Word
<1>1. \A i \in Int : Saturate(i) \in Word
  <2> SUFFICES ASSUME NEW i \in Int PROVE Saturate(i) \in Word
    OBVIOUS
  <2>1. Size \div 2 \in Word /\ Size \div 2 - 1 \in Word
    BY SizeFact DEF Word
  <2>2. i % Size \in Word
    BY Remainder
  <2> QED
    BY <2>1, <2>2 DEF Saturate
<1>2. \A a \in Word : Signed(a) \in Int
  BY SizeFact DEF Signed, Word
<1>3. QED
  BY <1>1, <1>2 DEF AddWords, SubWords

(* LHW's result is a word. *)
LEMMA HighTyped == \A a \in Word, i \in Int : HighWord(a, i) \in Word
<1>1. SUFFICES ASSUME NEW h \in Nat, h >= 2, NEW x \in 0 .. h - 1, NEW y \in 0 .. h - 1
               PROVE x * h + y \in 0 .. h * h - 1
  <2>1. Half \in Nat /\ Half >= 2
    BY IsaAssumption
  <2>2. \A i \in Int : i % Half \in 0 .. Half - 1
    BY <2>1
  <2>3. \A a \in Word : a \in Int
    BY DEF Word
  <2>4. QED
    BY <1>1, <2>1, <2>2, <2>3 DEF HighWord, Word, Size
<1>2. x * h <= (h - 1) * h
  BY <1>1
<1>3. (h - 1) * h = h * h - h
  BY <1>1
<1>4. QED
  BY <1>1, <1>2, <1>3

(* The decoder gives LHW an immediate taken modulo Size; its low half is   *)
(* the immediate's.                                                        *)
LEMMA HighImmediate == \A a \in Word, i \in Int : HighWord(a, i % Size) = HighWord(a, i)
<1>1. ASSUME NEW h \in Nat, h >= 1, NEW x \in Int, NEW k \in Int, NEW m \in 0 .. h - 1, x = h * k + m
      PROVE x % h = m
  <2>1. ASSUME NEW q, q = x \div h, NEW r, r = x % h PROVE r = m
    <3>1. q \in Int /\ r \in 0 .. h - 1
      BY <1>1, <2>1
    <3>2. x = h * q + r
      BY <1>1, <2>1
    <3>3. h * (k - q) = r - m
      BY <1>1, <3>1, <3>2
    <3>4. k - q < 1
      <4>1. SUFFICES ASSUME k - q >= 1 PROVE FALSE
        BY <1>1, <3>1
      <4>2. h * (k - q) >= h
        BY <4>1, <1>1, <3>1
      <4>3. QED
        BY <4>2, <3>1, <3>3, <1>1
    <3>5. k - q > -1
      <4>1. SUFFICES ASSUME q - k >= 1 PROVE FALSE
        BY <1>1, <3>1
      <4>2. h * (q - k) >= h
        BY <4>1, <1>1, <3>1
      <4>3. h * (q - k) = m - r
        BY <3>3, <1>1, <3>1
      <4>4. QED
        BY <4>2, <4>3, <3>1, <1>1
    <3>6. k = q
      BY <3>4, <3>5, <3>1, <1>1
    <3>7. QED
      BY <3>6, <3>3, <3>1, <1>1
  <2>2. QED
    BY <2>1
<1>2. Half \in Nat /\ Half >= 1
  BY IsaAssumption
<1>3. ASSUME NEW i \in Int PROVE (i % Size) % Half = i % Half
  <2> DEFINE q == i \div Size
             w == i % Size
             p == w \div Half
             r == w % Half
  <2>1. i = Size * q + w /\ q \in Int /\ w \in Int
    BY SizeFact
  <2>2. w = Half * p + r /\ p \in Int /\ r \in 0 .. Half - 1
    BY <1>2, <2>1
  <2> HIDE DEF q, w, p, r
  <2>3. i = Half * (Half * q + p) + r /\ Half * q + p \in Int
    BY <2>1, <2>2, <1>2 DEF Size
  <2>4. i % Half = r
    BY <2>2, <2>3, <1>1, <1>2
  <2>5. QED
    BY <2>4 DEF r, w
<1>4. QED
  BY <1>3 DEF HighWord

(* ADD of zeros, the code of the empty memory, gives zero. *)
LEMMA NopSum == AddWords(0, 0) = 0
<1>1. Signed(0) = 0
  BY SizeFact DEF Signed
<1>2. Saturate(0) = 0
  BY SizeFact, Remainder DEF Saturate
<1>3. QED
  BY <1>1, <1>2 DEF AddWords

-----------------------------------------------------------------------------
(* The reference machine. *)

Machine == [pc : Word, regs : [Reg -> Word], mem : [Word -> Word], zero : BOOLEAN,
            negative : BOOLEAN, taken : 0 .. TokenCount - 1, halted : BOOLEAN]

(* What the arithmetic of an instruction gives, and what its register is   *)
(* given.                                                                  *)
ResultOps == {"ADD", "SUB", "LLW", "LHW", "LOAD", "STORE", "DEQD"}
Value(s, i) ==
  CASE i.op = "ADD" -> AddWords(Get(s, i.rs), Get(s, i.rt))
    [] i.op = "SUB" -> SubWords(Get(s, i.rs), Get(s, i.rt))
    [] i.op = "LLW" -> i.imm % Size
    [] i.op = "LHW" -> HighWord(Get(s, i.rd), i.imm)
    [] i.op \in {"LOAD", "STORE"} -> AddWords(Get(s, i.rs), i.imm % Size)
    [] i.op = "DEQD" -> Token[s.taken]
Outcome(s, i) == IF i.op = "LOAD" THEN s.mem[Value(s, i)] ELSE Value(s, i)

(* Instructions without calls and returns. *)
Direct(i) == i.op \notin {"CALL", "RET"}
Plain == {i \in Instruction : Direct(i) /\ (i.op = "BRANCH" => i.cond \in Conditions)}

(* A register read is a word, register 0 reads as zero. *)
LEMMA GetTyped == ASSUME NEW s \in Machine, NEW r \in Reg PROVE Get(s, r) \in Word
BY SizeFact DEF Get, Machine

(* What an instruction computes is a word. *)
LEMMA ValueTyped == ASSUME NEW s \in Machine, NEW i \in Instruction, i.op \in ResultOps
                    PROVE Value(s, i) \in Word
<1>1. /\ Get(s, i.rs) \in Word /\ Get(s, i.rt) \in Word /\ Get(s, i.rd) \in Word
      /\ i.imm \in Int
  BY GetTyped, SizeFact DEF Instruction, Offset
<1>2. i.imm % Size \in Word
  BY <1>1, Remainder
<1>3. Token[s.taken] \in Word
  BY IsaAssumption DEF Machine, Word, Size
<1>4. /\ AddWords(Get(s, i.rs), Get(s, i.rt)) \in Word
      /\ SubWords(Get(s, i.rs), Get(s, i.rt)) \in Word
      /\ AddWords(Get(s, i.rs), i.imm % Size) \in Word
  BY <1>1, <1>2, SumTyped
<1>5. HighWord(Get(s, i.rd), i.imm) \in Word
  BY <1>1, HighTyped
<1>6. QED
  BY <1>2, <1>3, <1>4, <1>5 DEF Value, ResultOps

(* A result put into a register moves the program on by one.               *)
LEMMA PutEffect ==
  ASSUME NEW s \in Machine, NEW r \in Reg, NEW w \in Word, (s.pc + 1) % Size \in Word,
         NEW t, t = Put(s, r, w)
  PROVE /\ t \in Machine /\ t.pc = (s.pc + 1) % Size /\ t.regs = [s.regs EXCEPT ![r] = w]
        /\ t.mem = s.mem /\ t.zero = s.zero /\ t.negative = s.negative
        /\ t.taken = s.taken /\ t.halted = s.halted
<1>1. t \in Machine
  BY DEF Put, Machine
<1>2. QED
  BY <1>1 DEF Put, Machine

(* A result with flags sets them too.                                      *)
LEMMA PutFlaggedEffect ==
  ASSUME NEW s \in Machine, NEW r \in Reg, NEW w \in Word, (s.pc + 1) % Size \in Word,
         NEW t, t = PutFlagged(s, r, w)
  PROVE /\ t \in Machine /\ t.pc = (s.pc + 1) % Size /\ t.regs = [s.regs EXCEPT ![r] = w]
        /\ t.mem = s.mem /\ (t.zero <=> w = 0) /\ (t.negative <=> Signed(w) < 0)
        /\ t.taken = s.taken /\ t.halted = s.halted
<1> DEFINE p == Put(s, r, w)
<1>1. t = [p EXCEPT !.zero = (w = 0), !.negative = (Signed(w) < 0)]
  BY DEF PutFlagged
<1>2. /\ p \in Machine /\ p.pc = (s.pc + 1) % Size /\ p.regs = [s.regs EXCEPT ![r] = w]
      /\ p.mem = s.mem /\ p.taken = s.taken /\ p.halted = s.halted
  BY PutEffect
<1> HIDE DEF p
<1>3. /\ t.pc = p.pc /\ t.regs = p.regs /\ t.mem = p.mem /\ t.taken = p.taken
      /\ t.halted = p.halted
  BY <1>1, <1>2 DEF Machine
<1>4. t.zero \in BOOLEAN /\ t.negative \in BOOLEAN
  BY <1>1, <1>2 DEF Machine
<1>5. (t.zero <=> w = 0) /\ (t.negative <=> Signed(w) < 0)
  BY <1>1, <1>2 DEF Machine
<1>6. t = [pc |-> t.pc, regs |-> t.regs, mem |-> t.mem, zero |-> t.zero,
           negative |-> t.negative, taken |-> t.taken, halted |-> t.halted]
  BY <1>1, <1>2 DEF Machine
<1>7. t \in Machine
  BY <1>2, <1>3, <1>4, <1>6 DEF Machine
<1>8. QED
  BY <1>2, <1>3, <1>5, <1>7

(* A store changes one word.                                               *)
LEMMA StoreEffect ==
  ASSUME NEW s \in Machine, NEW a \in Word, NEW w \in Word, (s.pc + 1) % Size \in Word,
         NEW t, t = Skip([s EXCEPT !.mem[a] = w])
  PROVE /\ t \in Machine /\ t.pc = (s.pc + 1) % Size /\ t.mem = [s.mem EXCEPT ![a] = w]
        /\ t.regs = s.regs /\ t.zero = s.zero /\ t.negative = s.negative
        /\ t.taken = s.taken /\ t.halted = s.halted
BY DEF Skip, Machine

(* What executing one instruction changes, register by register. *)
LEMMA ExecuteEffect ==
  ASSUME NEW s \in Machine, NEW i \in Plain
  PROVE /\ Execute(s, i) \in Machine
        /\ i.op # "BRANCH" => Execute(s, i).pc = IF i.op = "HALT" THEN s.pc ELSE (s.pc + 1) % Size
        /\ i.op = "BRANCH" =>
             Execute(s, i).pc = IF Holds(i.cond, s.zero, s.negative)
                                THEN (s.pc + 1 + i.imm) % Size ELSE (s.pc + 1) % Size
        /\ Execute(s, i).regs = IF Writes(i) THEN [s.regs EXCEPT ![i.rd] = Outcome(s, i)]
                                ELSE s.regs
        /\ Execute(s, i).mem = IF i.op = "STORE"
                               THEN [s.mem EXCEPT ![Value(s, i)] = Get(s, i.rd)] ELSE s.mem
        /\ Execute(s, i).zero <=> IF SetsFlags(i) THEN Value(s, i) = 0 ELSE s.zero
        /\ Execute(s, i).negative <=> IF SetsFlags(i) THEN Signed(Value(s, i)) < 0 ELSE s.negative
        /\ Execute(s, i).taken = IF i.op = "DEQD" THEN (s.taken + 1) % TokenCount ELSE s.taken
        /\ Execute(s, i).halted = IF i.op = "HALT" THEN TRUE ELSE s.halted
<1>1. /\ i \in Instruction /\ i.op \in Ops /\ i.rd \in Reg /\ i.imm \in Int
      /\ i.op \notin {"CALL", "RET"}
  BY SizeFact DEF Plain, Direct, Instruction, Offset
<1>2. i.op \in ResultOps => Value(s, i) \in Word
  BY <1>1, ValueTyped
<1>3. /\ s.pc \in Word /\ s.regs \in [Reg -> Word] /\ s.mem \in [Word -> Word]
      /\ s.zero \in BOOLEAN /\ s.negative \in BOOLEAN /\ s.taken \in 0 .. TokenCount - 1
      /\ s.halted \in BOOLEAN /\ s.pc \in Int
  BY SizeFact DEF Machine, Word
<1>4. (s.pc + 1) % Size \in Word /\ (s.pc + 1 + i.imm) % Size \in Word
  BY <1>1, <1>3, Remainder
<1>5. (s.taken + 1) % TokenCount \in 0 .. TokenCount - 1
  BY <1>3, IsaAssumption
<1>6. Get(s, i.rd) \in Word
  BY <1>1, GetTyped
<1>9. CASE i.op \in {"ADD", "SUB"}
  <2>1. Execute(s, i) = PutFlagged(s, i.rd, Value(s, i))
    BY <1>9 DEF Execute, Value
  <2>2. Value(s, i) \in Word
    BY <1>2, <1>9 DEF ResultOps
  <2>3. Outcome(s, i) = Value(s, i) /\ Writes(i) /\ SetsFlags(i)
    BY <1>9 DEF Outcome, Writes, SetsFlags
  <2> DEFINE u == Execute(s, i)
             w == Value(s, i)
  <2>4. /\ u \in Machine /\ u.pc = (s.pc + 1) % Size /\ u.regs = [s.regs EXCEPT ![i.rd] = w]
        /\ u.mem = s.mem /\ (u.zero <=> w = 0) /\ (u.negative <=> Signed(w) < 0)
        /\ u.taken = s.taken /\ u.halted = s.halted
    BY <1>1, <1>4, <2>1, <2>2, PutFlaggedEffect
  <2>5. QED
    BY <1>9, <2>3, <2>4
<1>10. CASE i.op \in {"LLW", "LHW", "LOAD"}
  <2>1. Execute(s, i) = Put(s, i.rd, Outcome(s, i))
    BY <1>10 DEF Execute, Value, Outcome
  <2>2. Outcome(s, i) \in Word
    BY <1>2, <1>3, <1>10 DEF ResultOps, Outcome
  <2>3. Writes(i) /\ ~SetsFlags(i)
    BY <1>10 DEF Writes, SetsFlags
  <2> DEFINE u == Execute(s, i)
             w == Outcome(s, i)
  <2>4. /\ u \in Machine /\ u.pc = (s.pc + 1) % Size /\ u.regs = [s.regs EXCEPT ![i.rd] = w]
        /\ u.mem = s.mem /\ u.zero = s.zero /\ u.negative = s.negative
        /\ u.taken = s.taken /\ u.halted = s.halted
    BY <1>1, <1>4, <2>1, <2>2, PutEffect
  <2>5. QED
    BY <1>10, <2>3, <2>4
<1>11. CASE i.op = "DEQD"
  <2>1. Execute(s, i) = [Put(s, i.rd, Value(s, i)) EXCEPT !.taken = (s.taken + 1) % TokenCount]
    BY <1>11 DEF Execute, Value
  <2>2. Value(s, i) \in Word
    BY <1>2, <1>11 DEF ResultOps
  <2>3. Outcome(s, i) = Value(s, i) /\ Writes(i) /\ ~SetsFlags(i)
    BY <1>11 DEF Outcome, Writes, SetsFlags
  <2> DEFINE t == Put(s, i.rd, Value(s, i))
             u == Execute(s, i)
             n == (s.taken + 1) % TokenCount
  <2>4. t \in Machine /\ u = [t EXCEPT !.taken = n] /\ n \in 0 .. TokenCount - 1
    BY <1>1, <1>4, <1>5, <2>1, <2>2, PutEffect
  <2> HIDE DEF t, u, n
  <2>5. /\ u \in Machine /\ u.pc = t.pc /\ u.regs = t.regs /\ u.mem = t.mem /\ u.zero = t.zero
        /\ u.negative = t.negative /\ u.taken = n /\ u.halted = t.halted
    BY <2>4 DEF Machine
  <2>6. QED
    BY <1>1, <1>4, <1>11, <2>2, <2>3, <2>5, PutEffect DEF t, u, n
<1>12. CASE i.op = "STORE"
  <2>1. Execute(s, i) = Skip([s EXCEPT !.mem[Value(s, i)] = Get(s, i.rd)])
    BY <1>12 DEF Execute, Value
  <2>2. Value(s, i) \in Word
    BY <1>2, <1>12 DEF ResultOps
  <2>3. ~Writes(i) /\ ~SetsFlags(i)
    BY <1>12 DEF Writes, SetsFlags
  <2>4. QED
    BY <1>3, <1>4, <1>6, <1>12, <2>1, <2>2, <2>3, StoreEffect
<1>13. CASE i.op = "BRANCH"
  <2>1. ~Writes(i) /\ ~SetsFlags(i)
    BY <1>13 DEF Writes, SetsFlags
  <2>2. Execute(s, i) = [s EXCEPT !.pc = (s.pc + 1 + IF Holds(i.cond, s.zero, s.negative)
                                                     THEN i.imm ELSE 0) % Size]
    BY <1>13 DEF Execute
  <2>3. s.pc + 1 + 0 = s.pc + 1
    BY <1>3
  <2>4. QED
    BY <1>3, <1>4, <1>13, <2>1, <2>2, <2>3 DEF Machine
<1>14. CASE i.op = "HALT"
  <2>1. Execute(s, i) = [s EXCEPT !.halted = TRUE]
    BY <1>14 DEF Execute
  <2>2. ~Writes(i) /\ ~SetsFlags(i)
    BY <1>14 DEF Writes, SetsFlags
  <2>3. QED
    BY <1>3, <1>14, <2>1, <2>2 DEF Machine
<1>15. CASE i.op \in {"FLUSH", "ENQC", "ENQD"}
  <2>1. Execute(s, i) = Skip(s)
    BY <1>15 DEF Execute
  <2>2. ~Writes(i) /\ ~SetsFlags(i)
    BY <1>15 DEF Writes, SetsFlags
  <2>3. QED
    BY <1>3, <1>4, <1>15, <2>1, <2>2 DEF Machine, Skip
<1>16. QED
  BY <1>1, <1>9, <1>10, <1>11, <1>12, <1>13, <1>14, <1>15 DEF Ops

-----------------------------------------------------------------------------
(* What the rules of software say of neighbours on a program's path. *)

After(a) == (a + 1) % Size              \* the address after a
To(a, i) == (After(a) + i.imm) % Size   \* where branch i at address a leads

(* Addresses stay addresses. *)
LEMMA AfterTyped == ASSUME NEW a \in Word
                    PROVE /\ After(a) \in Word
                          /\ \A i \in Plain : To(a, i) \in Word
<1>1. \A x \in Word : x \in Int
  BY SizeFact DEF Word
<1>2. After(a) \in Word
  BY <1>1, Remainder DEF After
<1>3. ASSUME NEW i \in Plain PROVE To(a, i) \in Word
  <2>1. i.imm \in Int
    BY SizeFact DEF Plain, Instruction, Offset
  <2>2. QED
    BY <1>1, <1>2, <2>1, Remainder DEF To
<1>4. QED
  BY <1>2, <1>3

(* NOP is an instruction. *)
LEMMA NopTyped == /\ Nop \in Plain /\ Nop.op = "ADD" /\ Nop.rd = 0 /\ Nop.rs = 0 /\ Nop.rt = 0
                  /\ Nop.imm = 0
<1>1. 0 \in Reg /\ 0 \in Offset
  BY IsaAssumption, SizeFact DEF Reg, Offset
<1>2. QED
  BY <1>1 DEF Nop, Add, Instr, Plain, Direct, Instruction, Ops

(* What stands at an address: an instruction of the program within it, NOP *)
(* behind it.                                                              *)
LEMMA AtTyped ==
  ASSUME NEW p, Disciplined(p), NEW a \in Word
  PROVE /\ At(p, a) \in Plain
        /\ IF a < Len(p) THEN a + 1 \in DOMAIN p /\ At(p, a) = p[a + 1] ELSE At(p, a) = Nop
        /\ Len(p) \in Nat /\ Len(p) < Size /\ DOMAIN p = 1 .. Len(p)
<1>1. /\ p \in Seq(Instruction) /\ Len(p) < Size
      /\ \A i \in DOMAIN p : p[i].op = "BRANCH" => p[i].cond \in Conditions
      /\ \A i \in DOMAIN p : p[i].op \notin {"CALL", "RET"}
  BY DEF Disciplined, WellFormed, CallFree
<1>2. Len(p) \in Nat /\ DOMAIN p = 1 .. Len(p)
  BY <1>1
<1>3. a \in Nat
  BY SizeFact DEF Word
<1>4. CASE a < Len(p)
  <2>1. a + 1 \in DOMAIN p /\ At(p, a) = p[a + 1]
    BY <1>2, <1>3, <1>4 DEF At
  <2>2. p[a + 1] \in Instruction
    BY <1>1, <2>1
  <2>3. p[a + 1] \in Plain
    BY <1>1, <2>1, <2>2 DEF Plain, Direct
  <2>4. QED
    BY <1>1, <1>2, <1>4, <2>1, <2>3
<1>5. CASE ~(a < Len(p))
  BY <1>1, <1>2, <1>5, NopTyped DEF At
<1>6. QED
  BY <1>4, <1>5

(* The instruction behind an address that holds more than NOP: the next of *)
(* the program, or NOP.                                                    *)
LEMMA NextPlace ==
  ASSUME NEW p, Disciplined(p), NEW a \in Word, At(p, a) # Nop
  PROVE /\ a + 1 \in DOMAIN p /\ At(p, a) = p[a + 1] /\ a \in Nat
        /\ After(a) = a + 1
        /\ IF a + 1 = Len(p) THEN At(p, After(a)) = Nop ELSE At(p, After(a)) = p[a + 2]
<1>1. a \in Nat /\ Size \in Nat
  BY SizeFact DEF Word
<1>2. /\ a < Len(p) /\ a + 1 \in DOMAIN p /\ At(p, a) = p[a + 1]
      /\ Len(p) \in Nat /\ Len(p) < Size
  BY AtTyped
<1>3. a + 1 \in Word
  BY <1>1, <1>2 DEF Word
<1>4. After(a) = a + 1
  BY <1>3, Remainder DEF After
<1>5. a + 1 + 1 = a + 2
  BY <1>1
<1>6. QED
  BY <1>1, <1>2, <1>4, <1>5 DEF At

(* NOP is none of the instructions the rules are about. *)
LEMMA NopHarmless == ~Conditional(Nop) /\ ~UsesNpu(Nop) /\ Nop.op \notin {"LHW", "ENQD", "BRANCH"}
BY NopTyped DEF Conditional, UsesNpu

(* Rules 1 and 2 for a branch: neither where it leads nor behind it stands *)
(* a conditional branch or an NPU instruction.                             *)
LEMMA BranchNeighbours ==
  ASSUME NEW p, Disciplined(p), NEW a \in Word, NEW i, i = At(p, a), i.op = "BRANCH"
  PROVE /\ ~Conditional(At(p, After(a))) /\ ~UsesNpu(At(p, After(a)))
        /\ ~Conditional(At(p, To(a, i))) /\ ~UsesNpu(At(p, To(a, i)))
<1>1. i # Nop
  BY NopTyped
<1>2. /\ a + 1 \in DOMAIN p /\ i = p[a + 1] /\ a \in Nat /\ After(a) = a + 1
      /\ IF a + 1 = Len(p) THEN At(p, After(a)) = Nop ELSE At(p, After(a)) = p[a + 2]
  BY <1>1, NextPlace
<1>3. Len(p) \in Nat /\ Len(p) < Size /\ DOMAIN p = 1 .. Len(p)
  BY AtTyped
<1>4. \A j \in DOMAIN p : Conditional(p[j]) => j > 1 /\ SetsFlags(p[j - 1])
  BY DEF Disciplined, SoftwareRules
<1>5. /\ Target(p, a + 1) \in DOMAIN p
      /\ ~Conditional(p[Target(p, a + 1)]) /\ ~UsesNpu(p[Target(p, a + 1)])
      /\ a + 1 # Len(p) => ~UsesNpu(p[a + 1 + 1])
  BY <1>2 DEF Disciplined, SoftwareRules
<1>6. ~UsesNpu(At(p, After(a)))
  <2>1. a + 1 + 1 = a + 2
    BY <1>2
  <2>2. QED
    BY <1>2, <1>5, <2>1, NopHarmless
<1>7. ~Conditional(At(p, After(a)))
  <2>1. CASE a + 1 = Len(p)
    BY <1>2, <2>1, NopHarmless
  <2>2. CASE a + 1 # Len(p)
    <3>1. a + 2 \in DOMAIN p /\ (a + 2) - 1 = a + 1
      <4>1. a \in Nat /\ a + 1 \in DOMAIN p
        BY <1>2
      <4>2. QED
        BY <2>2, <4>1, AtTyped
    <3>2. ~SetsFlags(p[(a + 2) - 1])
      BY <1>2, <3>1 DEF SetsFlags
    <3>3. QED
      BY <1>2, <1>4, <2>2, <3>1, <3>2
  <2>3. QED
    BY <2>1, <2>2
<1>8. At(p, To(a, i)) = p[Target(p, a + 1)]
  <2>1. i.imm \in Int
    BY AtTyped, SizeFact DEF Plain, Instruction, Offset
  <2> DEFINE t == a + 1 + i.imm
  <2>2. Target(p, a + 1) = t + 1 /\ t \in Int
    BY <1>2, <2>1 DEF Target
  <2>3. t \in Nat /\ t < Len(p)
    BY <1>3, <1>5, <2>2
  <2>4. t \in Word
    BY <1>3, <2>3, SizeFact DEF Word
  <2>5. To(a, i) = t
    BY <1>2, <2>4, Remainder DEF To
  <2>6. QED
    BY <2>2, <2>3, <2>5 DEF At
<1>9. QED
  BY <1>5, <1>6, <1>7, <1>8

(* Rule 2 for HALT. *)
LEMMA HaltNeighbour ==
  ASSUME NEW p, Disciplined(p), NEW a \in Word, At(p, a).op = "HALT"
  PROVE ~UsesNpu(At(p, After(a)))
<1>1. At(p, a) # Nop
  BY NopTyped
<1>2. /\ a + 1 \in DOMAIN p /\ At(p, a) = p[a + 1] /\ a \in Nat
      /\ IF a + 1 = Len(p) THEN At(p, After(a)) = Nop ELSE At(p, After(a)) = p[a + 2]
  BY <1>1, NextPlace
<1>3. a + 1 # Len(p) => ~UsesNpu(p[a + 1 + 1])
  BY <1>2 DEF Disciplined, SoftwareRules
<1>4. a + 1 + 1 = a + 2
  BY <1>2
<1>5. QED
  BY <1>2, <1>3, <1>4, NopHarmless

(* Rule 3: what may stand behind a load. *)
LEMMA LoadNeighbour ==
  ASSUME NEW p, Disciplined(p), NEW a \in Word, NEW i, i = At(p, a), i.op = "LOAD",
         NEW n, n = At(p, After(a))
  PROVE /\ n.op \in {"LHW", "ENQD"} => n.rd # i.rd
        /\ n.op = "BRANCH" => i.rd \notin {n.rs, n.rt}
        /\ ~Conditional(n)
<1>1. i # Nop
  BY NopTyped
<1>2. /\ a + 1 \in DOMAIN p /\ i = p[a + 1] /\ a \in Nat
      /\ IF a + 1 = Len(p) THEN n = Nop ELSE n = p[a + 2]
  BY <1>1, NextPlace
<1>3. a + 1 # Len(p) =>
        /\ p[a + 1 + 1].op \in {"LHW", "ENQD"} => p[a + 1 + 1].rd # i.rd
        /\ p[a + 1 + 1].op = "BRANCH" => i.rd \notin {p[a + 1 + 1].rs, p[a + 1 + 1].rt}
  BY <1>2 DEF Disciplined, SoftwareRules
<1>4. a + 1 + 1 = a + 2
  BY <1>2
<1>5. ~Conditional(n)
  <2>1. CASE a + 1 = Len(p)
    BY <1>2, <2>1, NopHarmless
  <2>2. CASE a + 1 # Len(p)
    <3>1. a + 2 \in DOMAIN p /\ (a + 2) - 1 = a + 1
      BY <1>2, <2>2, AtTyped
    <3>2. ~SetsFlags(p[(a + 2) - 1])
      BY <1>2, <3>1 DEF SetsFlags
    <3>3. QED
      BY <1>2, <2>2, <3>1, <3>2 DEF Disciplined, SoftwareRules
  <2>3. QED
    BY <2>1, <2>2
<1>6. QED
  BY <1>2, <1>3, <1>4, <1>5, NopHarmless

(* Rule 1: a conditional branch stands behind the instruction that sets    *)
(* its flags, and not at the start.                                        *)
LEMMA ConditionalNeighbour ==
  ASSUME NEW p, Disciplined(p)
  PROVE /\ ~Conditional(At(p, 0))
        /\ \A a \in Word : Conditional(At(p, After(a))) => SetsFlags(At(p, a))
<1>1. \A j \in DOMAIN p : Conditional(p[j]) => j > 1 /\ SetsFlags(p[j - 1])
  BY DEF Disciplined, SoftwareRules
<1>2. ~Conditional(At(p, 0))
  <2>1. At(p, 0) = Nop \/ (1 \in DOMAIN p /\ At(p, 0) = p[1])
    BY AtTyped, SizeFact
  <2>2. QED
    BY <1>1, <2>1, NopHarmless
<1>3. ASSUME NEW a \in Word, Conditional(At(p, After(a))) PROVE SetsFlags(At(p, a))
  <2>1. After(a) \in Word /\ After(a) # 0 /\ a \in Nat
    BY <1>2, <1>3, AfterTyped, SizeFact DEF Word
  <2>2. After(a) = a + 1
    <3>1. CASE a + 1 \in Word
      BY <3>1, Remainder DEF After
    <3>2. CASE a + 1 \notin Word
      <4>1. a + 1 = Size
        BY <3>2, SizeFact DEF Word
      <4>2. Size % Size = 0
        BY SizeFact
      <4>3. QED
        BY <2>1, <4>1, <4>2 DEF After
    <3>3. QED
      BY <3>1, <3>2
  <2>3. At(p, a + 1) # Nop
    BY <1>3, <2>2, NopHarmless
  <2>4. a + 1 < Len(p) /\ At(p, a + 1) = p[(a + 1) + 1] /\ (a + 1) + 1 \in DOMAIN p
    BY <2>1, <2>2, <2>3, AtTyped
  <2> DEFINE j == (a + 1) + 1
  <2>5. SetsFlags(p[j - 1])
    <3>1. j \in DOMAIN p /\ Conditional(p[j])
      BY <1>3, <2>2, <2>4
    <3> HIDE DEF j
    <3>2. QED
      BY <1>1, <3>1
  <2>6. (a + 1) + 1 - 1 = a + 1 /\ a < Len(p)
    BY <2>1, <2>4, AtTyped
  <2>7. QED
    BY <2>5, <2>6, AtTyped
<1>4. QED
  BY <1>2, <1>3

-----------------------------------------------------------------------------
(* The inductive invariant: types. *)

Carried == Plain \cup {Nothing}         \* what a stage may hold
Stage == [instr : Carried, next : Word, predict : BOOLEAN, target : Word]
MemStage == [instr : Carried, next : Word, predict : BOOLEAN, target : Word, data : Word]
WbStage == [instr : Carried, exu : Word, data : Word]
HeldType == [src0 : Word, src1 : Word, called : {FALSE}, exu : Word,
             zero : BOOLEAN, negative : BOOLEAN]
SavedType == [branch : Word, miss : Word, ret : Word]

FetchTypes ==
  /\ Disciplined(program)
  /\ nextPC \in Word /\ lastNextPC \in Word /\ lastPC \in Word /\ instr \in Plain
  /\ wasFull \in BOOLEAN /\ wasSemi \in BOOLEAN /\ saved \in SavedType
  /\ predictor \in {"TAKEN1", "TAKEN2", "NOT_TAKEN1", "NOT_TAKEN2"}
StageTypes ==
  /\ ex \in Stage /\ mem \in MemStage /\ wb \in WbStage
  /\ src0 \in Word /\ src1 \in Word /\ called = FALSE /\ held \in HeldType
  /\ dst \in Word /\ flagsEn \in BOOLEAN /\ zero \in BOOLEAN /\ negative \in BOOLEAN
  /\ dequeued \in BOOLEAN
OutsideTypes ==
  /\ regs \in [Reg -> Word] /\ dmem \in [Word -> Word]
  /\ npuDout \in Word /\ taken \in 0 .. TokenCount - 1
  /\ isa \in Machine
Types == FetchTypes /\ StageTypes /\ OutsideTypes

-----------------------------------------------------------------------------
(* Every step keeps the types. *)

(* An empty stage carries nothing the pipeline acts on. *)
LEMMA NothingFacts == /\ Nothing.op = "NONE" /\ Nothing.rd = 0
                      /\ ~Writes(Nothing) /\ ~UsesNpu(Nothing) /\ ~UsesMemory(Nothing)
                      /\ ~Conditional(Nothing) /\ ~SetsFlags(Nothing) /\ ~WritesMemory(Nothing)
BY DEF Nothing, Instr, Writes, UsesNpu, UsesMemory, Conditional, SetsFlags, WritesMemory

(* HALT is an instruction. *)
LEMMA HaltTyped == Halt \in Plain /\ Halt.op = "HALT" /\ Halt # Nothing /\ Halt \in Carried
<1>1. 0 \in Reg /\ 0 \in Offset
  BY IsaAssumption, SizeFact DEF Reg, Offset
<1>2. Halt \in Plain /\ Halt.op = "HALT"
  BY <1>1 DEF Halt, Instr, Plain, Direct, Instruction, Ops
<1>3. QED
  BY <1>2, NothingFacts DEF Carried

(* What a stage holds is an instruction unless it is empty. *)
LEMMA CarriedTyped == ASSUME NEW i \in Carried
                      PROVE /\ i.op \notin {"CALL", "RET"}
                            /\ i.op # "NONE" <=> i \in Plain
                            /\ i.op = "NONE" <=> i = Nothing
                            /\ i.rd \in Reg /\ i.op \in Ops \cup {"NONE"}
                            /\ Writes(i) => WriteReg(i) = i.rd
<1>1. ASSUME NEW j \in Plain PROVE j.op \in Ops /\ j.op # "NONE" /\ j.op \notin {"CALL", "RET"} /\ j.rd \in Reg
  BY DEF Plain, Direct, Instruction, Ops
<1>2. 0 \in Reg
  BY IsaAssumption DEF Reg
<1>3. QED
  BY <1>1, <1>2, NothingFacts DEF Carried, WriteReg

(* The fields of the stages. *)
LEMMA StageFields ==
  ASSUME Types
  PROVE /\ ex.instr \in Carried /\ ex.next \in Word /\ ex.predict \in BOOLEAN /\ ex.target \in Word
        /\ mem.instr \in Carried /\ mem.next \in Word /\ mem.predict \in BOOLEAN
        /\ mem.target \in Word /\ mem.data \in Word
        /\ wb.instr \in Carried /\ wb.exu \in Word /\ wb.data \in Word
        /\ held.src0 \in Word /\ held.src1 \in Word /\ held.called = FALSE /\ held.exu \in Word
        /\ held.zero \in BOOLEAN /\ held.negative \in BOOLEAN
        /\ saved.branch \in Word /\ saved.miss \in Word /\ saved.ret \in Word
        /\ isa.pc \in Word /\ isa.regs \in [Reg -> Word] /\ isa.mem \in [Word -> Word]
        /\ isa.zero \in BOOLEAN /\ isa.negative \in BOOLEAN /\ isa.halted \in BOOLEAN
        /\ isa.taken \in 0 .. TokenCount - 1
BY DEF Types, FetchTypes, StageTypes, OutsideTypes, Stage, MemStage, WbStage, HeldType,
       SavedType, Machine

(* The results and operands on the forwarding paths are words. *)
LEMMA PathsTyped ==
  ASSUME Types
  PROVE /\ ExuResult \in Word /\ WbValue \in Word
        /\ \A r \in Reg : ReadPort(r) \in Word
        /\ Operand0 \in Word /\ Operand1 \in Word /\ IsCall = FALSE /\ StoreData = Operand1
<1>1. ExuResult \in Word
  BY StageFields DEF Types, StageTypes, OutsideTypes, ExuResult
<1>2. WbValue \in Word
  BY StageFields, CarriedTyped DEF WbValue
<1>3. \A r \in Reg : ReadPort(r) \in Word
  BY <1>2, SizeFact DEF Types, OutsideTypes, ReadPort
<1>4. Operand0 \in Word /\ Operand1 \in Word
  BY <1>1, <1>2, StageFields DEF Types, StageTypes, Operand0, Operand1, Forwarded
<1>5. IsCall = FALSE
  BY StageFields DEF Types, StageTypes, IsCall
<1>6. QED
  BY <1>1, <1>2, <1>3, <1>4, <1>5 DEF StoreData

(* So is what the ALU makes of them. *)
LEMMA ResultTyped == ASSUME Types PROVE Result \in Word
<1> DEFINE b == IF UsesImmediate(ex.instr) THEN ex.instr.imm % Size
                ELSE IF IsCall THEN Size - 1 ELSE Operand1
<1>1. ex.instr.imm \in Int
  <2>1. ex.instr \in Plain => ex.instr.imm \in Int
    BY SizeFact DEF Plain, Instruction, Offset
  <2>2. Nothing.imm = 0
    BY DEF Nothing, Instr
  <2>3. QED
    BY <2>1, <2>2, StageFields DEF Carried
<1>2. b \in Word
  BY <1>1, Remainder, PathsTyped
<1>3. AddWords(Operand0, b) \in Word /\ SubWords(Operand0, b) \in Word
  BY <1>2, SumTyped, PathsTyped
<1>4. HighWord(Operand0, b) \in Word
  <2>1. b \in Int
    BY <1>2, SizeFact DEF Word
  <2>2. QED
    BY <2>1, HighTyped, PathsTyped
<1>5. 0 \in Word
  BY SizeFact
<1>6. Result = CASE ex.instr.op \in {"ADD", "LOAD", "STORE", "CALL", "RET"} -> AddWords(Operand0, b)
       [] ex.instr.op = "SUB" -> SubWords(Operand0, b)
       [] ex.instr.op = "LLW" -> b
       [] ex.instr.op = "LHW" -> HighWord(Operand0, b)
       [] OTHER -> 0
  BY DEF Result
<1> HIDE DEF b
<1>7. QED
  BY <1>2, <1>3, <1>4, <1>5, <1>6

(* The registers read are registers of the file. *)
LEMMA ReadsTyped == ASSUME NEW i \in Plain
                    PROVE /\ ReadReg0(i) \in Reg /\ ReadReg1(i) \in Reg
                          /\ ForwardReg0(i) \in Reg /\ ForwardReg1(i) \in Reg
<1>1. i.rd \in Reg /\ i.rs \in Reg /\ i.rt \in Reg /\ 0 \in Reg /\ 1 \in Reg
  BY IsaAssumption DEF Plain, Instruction, Reg
<1>2. QED
  BY <1>1 DEF ReadReg0, ReadReg1, ForwardReg0, ForwardReg1

(* The fetch unit's types. *)
LEMMA FetchKeepsTypes ==
  ASSUME Types, NEW full \in BOOLEAN, NEW semi \in BOOLEAN, NEW drain \in BOOLEAN,
         Fetch(full, semi, drain), program' = program
  PROVE FetchTypes'
<1>1. \A x \in Word : x \in Int
  BY SizeFact DEF Word
<1>2. instr.imm \in Int /\ instr \in Plain
  BY SizeFact DEF Types, FetchTypes, Plain, Instruction, Offset
<1>3. NextPC(semi) \in Word
  BY DEF Types, FetchTypes, NextPC
<1>4. BranchAddress(semi) \in Word
  BY <1>1, <1>2, <1>3, Remainder DEF BranchAddress
<1>5. MissAddress \in Word
  BY StageFields DEF MissAddress
<1>6. instr.op \notin {"CALL", "RET"} /\ wb.instr.op \notin {"CALL", "RET"}
  BY <1>2, CarriedTyped, StageFields DEF Carried
<1>7. NewPC(semi) \in Word
  BY <1>3, <1>4, <1>5, <1>6, StageFields DEF NewPC
<1>8. lastPC' \in Word /\ nextPC' \in Word /\ lastNextPC' \in Word
  <2>1. \A x \in Word : (x + 1) % Size \in Word
    BY <1>1, Remainder
  <2>2. QED
    BY <1>7, <2>1, SizeFact DEF Fetch, Types, FetchTypes
<1>9. instr' \in Plain
  <2>1. instr' = At(program, lastPC')
    BY DEF Fetch
  <2>2. QED
    BY <1>8, <2>1, AtTyped DEF Types, FetchTypes
<1>10. saved' \in SavedType
  <2>1. wb.data \in Word /\ 0 \in Word
    BY StageFields, SizeFact
  <2>2. QED
    BY <1>4, <1>5, <2>1 DEF Fetch, SavedType, NotSaved
<1>11. predictor' \in {"TAKEN1", "TAKEN2", "NOT_TAKEN1", "NOT_TAKEN2"}
  BY DEF Fetch, PredictorNext, Types, FetchTypes
<1>12. wasFull' \in BOOLEAN /\ wasSemi' \in BOOLEAN
  BY DEF Fetch
<1>13. Disciplined(program)'
  BY DEF Types, FetchTypes
<1>14. QED
  BY <1>8, <1>9, <1>10, <1>11, <1>12, <1>13 DEF FetchTypes

(* The pipeline registers' types. *)
LEMMA AdvanceKeepsTypes ==
  ASSUME Types, NEW full \in BOOLEAN, NEW semi \in BOOLEAN, NEW drain \in BOOLEAN,
         NEW ready \in BOOLEAN, Advance(full, semi, drain, ready)
  PROVE StageTypes'
<1>1. instr \in Plain /\ instr.imm \in Int /\ nextPC \in Word
  BY SizeFact DEF Types, FetchTypes, Plain, Instruction, Offset
<1>2. /\ src0 \in Word /\ src1 \in Word /\ called = FALSE /\ dst \in Word /\ flagsEn \in BOOLEAN
      /\ zero \in BOOLEAN /\ negative \in BOOLEAN /\ dequeued \in BOOLEAN
      /\ ex \in Stage /\ mem \in MemStage /\ wb \in WbStage /\ held \in HeldType
  BY DEF Types, StageTypes
<1>3. src0' \in Word /\ src1' \in Word
  BY <1>1, ReadsTyped, PathsTyped DEF Advance
<1>4. called' = FALSE
  BY <1>1 DEF Advance, Plain, Direct
<1>5. held' \in HeldType
  <2>1. NotHeld \in HeldType
    BY SizeFact DEF NotHeld, HeldType
  <2>2. [src0 |-> src0, src1 |-> src1, called |-> called, exu |-> ExuResult,
         zero |-> zero, negative |-> negative] \in HeldType
    BY <1>2, PathsTyped DEF HeldType
  <2>3. QED
    BY <1>2, <2>1, <2>2 DEF Advance
<1>6. ex' \in Stage
  <2>1. ASSUME NEW i \in Carried PROVE [Bubble EXCEPT !.instr = i] \in Stage
    BY SizeFact DEF Bubble, Stage
  <2>2. Halt \in Carried /\ Nothing \in Carried /\ instr \in Carried
    BY <1>1, HaltTyped DEF Carried
  <2>3. NextPC(semi) \in Word
    BY DEF Types, FetchTypes, NextPC
  <2>4. BranchAddress(semi) \in Word
    <3>1. NextPC(semi) \in Int
      BY <2>3, SizeFact DEF Word
    <3>2. QED
      BY <1>1, <3>1, Remainder DEF BranchAddress
  <2>5. Predicted \in BOOLEAN
    BY DEF Predicted
  <2>6. [instr |-> instr, next |-> NextPC(semi), predict |-> Predicted,
         target |-> IF wasSemi THEN saved.branch ELSE BranchAddress(semi)] \in Stage
    BY <2>2, <2>3, <2>4, <2>5, StageFields DEF Stage
  <2>7. QED
    BY <1>2, <2>1, <2>2, <2>6 DEF Advance
<1>7. mem' \in MemStage
  <2>1. ASSUME NEW i \in Carried PROVE [MemBubble EXCEPT !.instr = i] \in MemStage
    BY SizeFact DEF MemBubble, MemStage
  <2>2. Halt \in Carried /\ Nothing \in Carried
    BY HaltTyped DEF Carried
  <2>3. [instr |-> ex.instr, next |-> ex.next, predict |-> ex.predict,
         target |-> ex.target, data |-> StoreData] \in MemStage
    BY StageFields, PathsTyped DEF MemStage
  <2>4. QED
    BY <1>2, <2>1, <2>2, <2>3 DEF Advance
<1>8. wb' \in WbStage
  <2>1. ExuResult \in Word /\ dmem[ExuResult] \in Word /\ 0 \in Word
    BY PathsTyped, SizeFact DEF Types, OutsideTypes
  <2>2. [instr |-> mem.instr, exu |-> ExuResult,
         data |-> IF mem.instr.op \in {"LOAD", "RET"} THEN dmem[ExuResult] ELSE 0] \in WbStage
    BY <2>1, StageFields DEF WbStage
  <2>3. QED
    BY <1>2, <2>2 DEF Advance
<1>9. dst' \in Word
  BY ResultTyped DEF Advance
<1>10. flagsEn' \in BOOLEAN /\ dequeued' \in BOOLEAN
  BY DEF Advance, SetsFlags
<1>11. zero' \in BOOLEAN /\ negative' \in BOOLEAN
  <2>1. /\ zero' = IF flagsEn THEN dst = 0 ELSE zero
        /\ negative' = IF flagsEn THEN Signed(dst) < 0 ELSE negative
    BY DEF Advance
  <2>2. (dst = 0) \in BOOLEAN /\ (Signed(dst) < 0) \in BOOLEAN
    OBVIOUS
  <2>3. CASE flagsEn
    BY <2>1, <2>2, <2>3, Zenon
  <2>4. CASE ~flagsEn
    BY <1>2, <2>1, <2>4, Zenon
  <2>5. QED
    BY <2>3, <2>4
<1>12. QED
  BY <1>3, <1>4, <1>5, <1>6, <1>7, <1>8, <1>9, <1>10, <1>11 DEF StageTypes

(* The types of register file, memory, NPU side and reference machine. *)
LEMMA EffectsKeepTypes ==
  ASSUME Types, NEW stall \in BOOLEAN, NEW ready \in BOOLEAN, Effects(stall, ready),
         isa' = isa \/ (OnPath /\ isa' = Execute(isa, mem.instr))
  PROVE OutsideTypes'
<1>1. /\ regs \in [Reg -> Word] /\ dmem \in [Word -> Word] /\ npuDout \in Word
      /\ taken \in 0 .. TokenCount - 1 /\ isa \in Machine
  BY DEF Types, OutsideTypes
<1>2. regs' \in [Reg -> Word]
  BY <1>1, PathsTyped DEF Effects
<1>3. dmem' \in [Word -> Word]
  BY <1>1, PathsTyped, StageFields DEF Effects
<1>4. npuDout' \in Word /\ taken' \in 0 .. TokenCount - 1
  <2>1. Token[taken] \in Word
    BY <1>1, IsaAssumption DEF Word, Size
  <2>2. (taken + 1) % TokenCount \in 0 .. TokenCount - 1
    BY <1>1, IsaAssumption
  <2>3. QED
    BY <1>1, <2>1, <2>2 DEF Effects
<1>5. isa' \in Machine
  <2>1. CASE isa' = isa
    BY <1>1, <2>1
  <2>2. CASE OnPath /\ isa' = Execute(isa, mem.instr)
    <3>1. mem.instr \in Plain
      BY <2>2, CarriedTyped, StageFields DEF OnPath
    <3>2. QED
      BY <1>1, <2>2, <3>1, ExecuteEffect
  <2>3. QED
    BY <2>1, <2>2
<1>6. QED
  BY <1>2, <1>3, <1>4, <1>5 DEF OutsideTypes

(* The parts of a clock edge, by the stalls that hold at it. *)
Account(full, word) ==
  IF OnPath /\ ~full
  THEN /\ isa' = Execute(isa, mem.instr)
       /\ sent' = SubSeq(sent, 1 + Len(Accounted), Len(sent)) \o word
  ELSE isa' = isa /\ sent' = sent \o word
Edge(full, semi, drain, ready) ==
  /\ Fetch(full, semi, drain) /\ Advance(full, semi, drain, ready) /\ Effects(full \/ semi, ready)
  /\ Account(full, NpuWord(full \/ semi))
  /\ program' = program
Drains == mem.instr.op \in {"RET", "HALT"}

(* A clock edge is the edge of its stalls. *)
LEMMA ClockEdge ==
  ASSUME NEW ready \in BOOLEAN, NEW npuWait \in BOOLEAN, Clock(ready, npuWait)
  PROVE Edge(FullStall(ready, npuWait), SemiStall(ready, npuWait), Drains, ready)
BY DEF Clock, Edge, Account, Drains

(* The stalls are Booleans. *)
LEMMA StallTyped ==
  ASSUME NEW ready \in BOOLEAN, NEW npuWait \in BOOLEAN
  PROVE FullStall(ready, npuWait) \in BOOLEAN /\ SemiStall(ready, npuWait) \in BOOLEAN
        /\ Drains \in BOOLEAN
BY DEF FullStall, SemiStall, Drains

(* A clock edge keeps the types. *)
LEMMA ClockKeepsTypes ==
  ASSUME Types, NEW ready \in BOOLEAN, NEW npuWait \in BOOLEAN, Clock(ready, npuWait)
  PROVE Types'
<1> DEFINE full == FullStall(ready, npuWait)
           semi == SemiStall(ready, npuWait)
           stall == full \/ semi
<1>0. full \in BOOLEAN /\ semi \in BOOLEAN /\ stall \in BOOLEAN /\ Drains \in BOOLEAN
  BY StallTyped
<1>1. Edge(full, semi, Drains, ready)
  BY ClockEdge
<1> HIDE DEF full, semi
<1>2. /\ Fetch(full, semi, Drains) /\ Advance(full, semi, Drains, ready)
      /\ Effects(stall, ready) /\ program' = program
      /\ isa' = isa \/ (OnPath /\ isa' = Execute(isa, mem.instr))
  BY <1>1 DEF Edge, Account
<1>3. FetchTypes'
  BY <1>0, <1>2, FetchKeepsTypes
<1>4. StageTypes'
  BY <1>0, <1>2, AdvanceKeepsTypes
<1> HIDE DEF stall
<1>5. OutsideTypes'
  BY <1>0, <1>2, EffectsKeepTypes
<1>6. QED
  BY <1>3, <1>4, <1>5 DEF Types

-----------------------------------------------------------------------------
(* The inductive invariant: control.                                       *)
(*                                                                         *)
(* The pipeline follows the program's path if the instruction in memory is *)
(* the reference machine's next one, or the stage is empty, and likewise   *)
(* for execute and decode from where the stage ahead leads: to the         *)
(* predicted target of a branch, else to the next address.  The first      *)
(* instruction a reset leaves in decode is a NOP of no address; while it   *)
(* passes, it too counts as empty.                                         *)

MemOn == mem.instr.op # "NONE" /\ mem.next = After(isa.pc)
AfterMem == IF ~MemOn THEN isa.pc ELSE IF mem.predict THEN mem.target ELSE mem.next
ExOn == ex.instr.op # "NONE" /\ ex.next = After(AfterMem)
AfterEx == IF ~ExOn THEN AfterMem ELSE IF ex.predict THEN ex.target ELSE ex.next

MemPath ==
  IF MemOn
  THEN /\ mem.instr = At(program, isa.pc)
       /\ mem.instr.op = "BRANCH" => mem.target = To(isa.pc, mem.instr)
  ELSE /\ mem.instr \in {Nothing, Nop}
       /\ mem.instr = Nop => isa.regs[0] = 0
ExPath ==
  IF ExOn
  THEN /\ ex.instr = At(program, AfterMem)
       /\ ex.instr.op = "BRANCH" => ex.target = To(AfterMem, ex.instr)
  ELSE /\ ex.instr \in {Nothing, Nop}
       /\ ex.instr = Nop => isa.regs[0] = 0 /\ mem.instr = Nothing
       /\ ~Conditional(instr)
Booting == /\ instr = Nop /\ nextPC = 0 /\ lastPC = 0
           /\ ex.instr = Nothing /\ mem.instr = Nothing
           /\ isa.regs[0] = 0
Fetched == nextPC = After(lastPC) /\ instr = At(program, lastPC)
PathInv == MemPath /\ ExPath /\ lastPC = AfterEx /\ (Booting \/ Fetched)

PredictInv == /\ ex.predict => ex.instr.op = "BRANCH"
              /\ mem.predict => mem.instr.op = "BRANCH"
HaltInv == isa.halted => mem.instr = Halt /\ ex.instr = Halt

(* What a stall finds in the cycle after. *)
ReplayInv ==
  /\ ex.instr.op = "LOAD" => lastNextPC = lastPC
  /\ wasSemi => ex.instr.op = "NONE" /\ mem.instr.op = "LOAD" /\ instr.op # "BRANCH"
  /\ wasFull => mem.instr.op # "BRANCH"

(* A conditional branch follows its flags stage by stage. *)
FlagInv ==
  /\ Conditional(ex.instr) => SetsFlags(mem.instr) /\ MemOn /\ ~wasFull
  /\ Conditional(mem.instr) => (zero <=> isa.zero) /\ (negative <=> isa.negative)
  /\ SetsFlags(mem.instr) /\ ~wasFull => flagsEn /\ ~dequeued

RunInv == ~isa.halted => PathInv /\ ReplayInv /\ FlagInv
ControlInv == PredictInv /\ HaltInv /\ RunInv

-----------------------------------------------------------------------------
(* The inductive invariant: data.                                          *)
(*                                                                         *)
(* An operand of the instruction in execute is the reference machine's, or *)
(* the instruction in write-back is about to bring it, in which case it is *)
(* forwarded; and the instruction in memory is no load that would bring it *)
(* a stage too late.                                                       *)

Base0 == IF wasFull THEN held.src0 ELSE src0
Base1 == IF wasFull THEN held.src1 ELSE src1
Reads0 == {"ADD", "SUB", "LHW", "LOAD", "STORE", "ENQD"}
Reads1 == {"ADD", "SUB", "STORE"}
Current(r, base) ==
  IF r = 0 THEN base = 0
  ELSE base = isa.regs[r] \/ (Writes(wb.instr) /\ wb.instr.rd = r)
NoLoadOf(r) == mem.instr.op = "LOAD" /\ r # 0 => mem.instr.rd # r
OperandInv ==
  /\ ex.instr.op \in Reads0 => /\ Current(ForwardReg0(ex.instr), Base0)
                               /\ NoLoadOf(ForwardReg0(ex.instr))
  /\ ex.instr.op \in Reads1 => /\ Current(ForwardReg1(ex.instr), Base1)
                               /\ NoLoadOf(ForwardReg1(ex.instr))

(* The result of the instruction in memory is the reference machine's. *)
ResultInv ==
  /\ mem.instr.op \in ResultOps => ExuResult = Value(isa, mem.instr)
  /\ mem.instr.op = "STORE" => mem.data = Get(isa, mem.instr.rd)

-----------------------------------------------------------------------------
(* What the control invariant says of one state. *)

(* The addresses the path leads to. *)
LEMMA PathTyped == ASSUME Types
                   PROVE /\ AfterMem \in Word /\ AfterEx \in Word /\ lastPC \in Word
                         /\ isa.pc \in Word /\ After(isa.pc) \in Word /\ After(AfterMem) \in Word
                         /\ Disciplined(program)
                         /\ (MemOn <=> (mem.instr.op # "NONE" /\ (isa.pc + 1) % Size = mem.next))
                         /\ (MemOn => mem.instr \in Plain)
                         /\ (ExOn => ex.instr \in Plain)
<1>1. /\ isa.pc \in Word /\ mem.next \in Word /\ mem.target \in Word /\ ex.next \in Word
      /\ ex.target \in Word /\ mem.instr \in Carried /\ ex.instr \in Carried
  BY StageFields
<1>2. AfterMem \in Word
  BY <1>1 DEF AfterMem
<1>3. AfterEx \in Word
  BY <1>1, <1>2 DEF AfterEx
<1>4. After(isa.pc) \in Word /\ After(AfterMem) \in Word
  BY <1>1, <1>2, AfterTyped
<1>5. MemOn => mem.instr \in Plain
  BY <1>1, CarriedTyped DEF MemOn
<1>6. ExOn => ex.instr \in Plain
  BY <1>1, CarriedTyped DEF ExOn
<1>7. QED
  BY <1>1, <1>2, <1>3, <1>4, <1>5, <1>6 DEF Types, FetchTypes, MemOn, After

(* Rule 2 at work: behind a branch or HALT in memory there is no NPU       *)
(* instruction in execute, and behind a branch no conditional one.         *)
LEMMA BehindBranch ==
  ASSUME Types, PathInv, PredictInv, mem.instr.op \in {"BRANCH", "HALT"}
  PROVE /\ MemOn /\ ~UsesNpu(ex.instr)
        /\ mem.instr.op = "BRANCH" => ~Conditional(ex.instr)
<1>1. MemOn /\ mem.instr = At(program, isa.pc)
      /\ (mem.instr.op = "BRANCH" => mem.target = To(isa.pc, mem.instr))
  BY NothingFacts, NopTyped DEF PathInv, MemPath
<1>2. mem.next = After(isa.pc)
  BY <1>1 DEF MemOn
<1>3. CASE ~ExOn
  BY <1>1, <1>3, NothingFacts, NopHarmless DEF PathInv, ExPath
<1>4. CASE ExOn
  <2>1. ex.instr = At(program, AfterMem) /\ isa.pc \in Word /\ Disciplined(program)
    BY <1>4, PathTyped DEF PathInv, ExPath
  <2>2. CASE mem.instr.op = "BRANCH"
    <3>1. AfterMem \in {After(isa.pc), To(isa.pc, mem.instr)}
      BY <1>1, <1>2, <2>2 DEF AfterMem
    <3>2. /\ ~Conditional(At(program, After(isa.pc))) /\ ~UsesNpu(At(program, After(isa.pc)))
          /\ ~Conditional(At(program, To(isa.pc, mem.instr)))
          /\ ~UsesNpu(At(program, To(isa.pc, mem.instr)))
      BY <1>1, <2>1, <2>2, BranchNeighbours
    <3>3. QED
      BY <1>1, <2>1, <3>1, <3>2
  <2>3. CASE mem.instr.op = "HALT"
    <3>1. AfterMem = After(isa.pc)
      BY <1>1, <1>2, <2>3 DEF AfterMem, PredictInv
    <3>2. ~UsesNpu(At(program, After(isa.pc)))
      BY <1>1, <2>1, <2>3, HaltNeighbour
    <3>3. QED
      BY <1>1, <2>1, <2>3, <3>1, <3>2
  <2>4. QED
    BY <2>2, <2>3
<1>5. QED
  BY <1>3, <1>4

(* A branch or HALT in memory is never held, nor is a halted pipeline, nor *)
(* one that has just been reset.                                           *)
LEMMA NoFullStall ==
  ASSUME Types, ControlInv, NEW ready, NEW npuWait,
         \/ isa.halted
         \/ mem.instr.op \in {"BRANCH", "HALT"}
         \/ Booting
         \/ Conditional(ex.instr)
  PROVE ~FullStall(ready, npuWait)
<1>1. CASE isa.halted
  BY <1>1, HaltTyped DEF ControlInv, HaltInv, FullStall, UsesNpu, UsesMemory
<1>2. CASE ~isa.halted /\ mem.instr.op \in {"BRANCH", "HALT"}
  BY <1>2, BehindBranch DEF ControlInv, RunInv, FullStall, UsesMemory
<1>3. CASE Booting
  BY <1>3, NothingFacts DEF Booting, FullStall
<1>4. CASE ~isa.halted /\ Conditional(ex.instr)
  BY <1>4 DEF ControlInv, RunInv, FlagInv, SetsFlags, FullStall, UsesMemory, UsesNpu, Conditional
<1>5. QED
  BY <1>1, <1>2, <1>3, <1>4

(* Only a branch can miss, and its flags are the reference machine's. *)
LEMMA BranchSettled ==
  ASSUME Types, ControlInv
  PROVE /\ BranchTaken \in BOOLEAN
        /\ mem.instr.op # "BRANCH" => ~BranchMiss /\ ~BranchTaken
        /\ ~isa.halted /\ mem.instr.op = "BRANCH" =>
             (BranchTaken <=> Holds(mem.instr.cond, isa.zero, isa.negative))
<1>1. mem.instr.op # "BRANCH" => ~BranchTaken /\ ~mem.predict
  BY DEF BranchTaken, ControlInv, PredictInv
<1>2. mem.predict \in BOOLEAN /\ BranchTaken \in BOOLEAN
  BY StageFields DEF BranchTaken
<1>3. ASSUME ~isa.halted, mem.instr.op = "BRANCH"
      PROVE BranchTaken <=> Holds(mem.instr.cond, isa.zero, isa.negative)
  <2>1. ~wasFull
    BY <1>3 DEF ControlInv, RunInv, ReplayInv
  <2>2. BranchTaken <=> Holds(mem.instr.cond, zero, negative)
    BY <1>3, <2>1 DEF BranchTaken
  <2>3. CASE mem.instr.cond = "UNCON"
    BY <2>2, <2>3 DEF Holds
  <2>4. CASE mem.instr.cond # "UNCON"
    <3>1. (zero <=> isa.zero) /\ (negative <=> isa.negative)
      BY <1>3, <2>4 DEF ControlInv, RunInv, FlagInv, Conditional
    <3>2. /\ zero \in BOOLEAN /\ negative \in BOOLEAN
          /\ isa.zero \in BOOLEAN /\ isa.negative \in BOOLEAN
      BY StageFields DEF Types, StageTypes
    <3>3. zero = isa.zero /\ negative = isa.negative
      BY <3>1, <3>2
    <3>4. QED
      BY <2>2, <3>3
  <2>5. QED
    BY <2>3, <2>4
<1>4. QED
  BY <1>1, <1>2, <1>3 DEF BranchMiss

(* Where the reference machine is when the instruction in memory has left: *)
(* where the fetch unit turns to after a miss, else where execute is.      *)
LEMMA MachineMoves ==
  ASSUME Types, ControlInv, ~isa.halted, mem.instr.op # "HALT",
         IF OnPath THEN isa' = Execute(isa, mem.instr) ELSE isa' = isa
  PROVE /\ isa'.pc = IF BranchMiss THEN MissAddress ELSE AfterMem
        /\ isa'.halted = FALSE
<1>1. isa \in Machine /\ isa.halted = FALSE /\ isa.pc \in Word
  BY StageFields DEF Types, OutsideTypes
<1>2. OnPath <=> MemOn
  BY PathTyped DEF OnPath
<1>3. CASE ~MemOn
  <2>1. isa' = isa /\ AfterMem = isa.pc
    BY <1>2, <1>3 DEF AfterMem
  <2>2. mem.instr.op # "BRANCH"
    BY <1>3, NothingFacts, NopTyped DEF ControlInv, RunInv, PathInv, MemPath
  <2>3. QED
    BY <1>1, <2>1, <2>2, BranchSettled
<1>4. CASE MemOn
  <2>1. /\ isa' = Execute(isa, mem.instr) /\ mem.instr \in Plain
        /\ mem.instr = At(program, isa.pc) /\ mem.next = After(isa.pc)
        /\ mem.instr.op = "BRANCH" => mem.target = To(isa.pc, mem.instr)
    BY <1>2, <1>4, PathTyped DEF ControlInv, RunInv, PathInv, MemPath, MemOn
  <2>2. isa'.halted = FALSE
    BY <1>1, <2>1, ExecuteEffect
  <2>3. CASE mem.instr.op # "BRANCH"
    <3>1. isa'.pc = After(isa.pc)
      BY <1>1, <2>1, <2>3, ExecuteEffect DEF After
    <3>2. ~mem.predict
      BY <2>3 DEF ControlInv, PredictInv
    <3>3. QED
      BY <1>4, <2>1, <2>2, <2>3, <3>1, <3>2, BranchSettled DEF AfterMem
  <2>4. CASE mem.instr.op = "BRANCH"
    <3>1. isa'.pc = IF Holds(mem.instr.cond, isa.zero, isa.negative)
                    THEN (isa.pc + 1 + mem.instr.imm) % Size ELSE (isa.pc + 1) % Size
      BY <1>1, <2>1, <2>4, ExecuteEffect
    <3>2. After(isa.pc) = isa.pc + 1
      BY <1>1, <2>1, <2>4, NopTyped, NextPlace, PathTyped
    <3>3. isa'.pc = IF BranchTaken THEN mem.target ELSE mem.next
      <4>1. To(isa.pc, mem.instr) = (isa.pc + 1 + mem.instr.imm) % Size
        BY <3>2 DEF To
      <4>2. After(isa.pc) = (isa.pc + 1) % Size
        BY DEF After
      <4>3. BranchTaken <=> Holds(mem.instr.cond, isa.zero, isa.negative)
        BY <2>4, BranchSettled
      <4>4. QED
        BY <2>1, <2>4, <3>1, <4>1, <4>2, <4>3
    <3>4. mem.predict \in BOOLEAN /\ BranchTaken \in BOOLEAN
      BY StageFields, BranchSettled
    <3>5. QED
      BY <1>4, <2>2, <3>3, <3>4 DEF AfterMem, BranchMiss, MissAddress
  <2>5. QED
    BY <2>3, <2>4
<1>5. QED
  BY <1>3, <1>4

-----------------------------------------------------------------------------
(* The edges, by what stalls: the control half of each.                    *)

(* A full stall: everything stands, decode is fetched again. *)
LEMMA FullEdge ==
  ASSUME NEW full \in BOOLEAN, NEW semi \in BOOLEAN, NEW drain \in BOOLEAN, NEW ready \in BOOLEAN,
         Edge(full, semi, drain, ready), full
  PROVE /\ wasFull' = TRUE /\ wasSemi' = semi /\ lastPC' = lastPC /\ nextPC' = nextPC
        /\ lastNextPC' = lastNextPC /\ instr' = At(program, lastPC)
        /\ ex' = ex /\ mem' = mem /\ wb' = wb /\ isa' = isa
        /\ held' = IF wasFull THEN held
                   ELSE [src0 |-> src0, src1 |-> src1, called |-> called,
                         exu |-> ExuResult, zero |-> zero, negative |-> negative]
        /\ sent' = sent \o NpuWord(full \/ semi)
        /\ program' = program
BY DEF Edge, Fetch, Advance, Account

(* A miss, and a HALT in memory: the two stages behind are emptied. *)
LEMMA SquashEdge ==
  ASSUME NEW full \in BOOLEAN, NEW semi \in BOOLEAN, NEW drain \in BOOLEAN, NEW ready \in BOOLEAN,
         Edge(full, semi, drain, ready), ~full, BranchMiss \/ drain
  PROVE /\ wasFull' = FALSE /\ wasSemi' = semi
        /\ ex'.instr = IF mem.instr.op = "HALT" THEN Halt ELSE Nothing
        /\ mem'.instr = IF mem.instr.op = "HALT" THEN Halt ELSE Nothing
        /\ ex'.predict = FALSE /\ mem'.predict = FALSE
        /\ wb'.instr = mem.instr /\ wb'.exu = ExuResult
        /\ wb'.data = IF mem.instr.op \in {"LOAD", "RET"} THEN dmem[ExuResult] ELSE 0
        /\ IF OnPath THEN isa' = Execute(isa, mem.instr) ELSE isa' = isa
        /\ sent' = (IF OnPath THEN SubSeq(sent, 1 + Len(Accounted), Len(sent)) ELSE sent)
                   \o NpuWord(full \/ semi)
        /\ program' = program
BY DEF Edge, Fetch, Advance, Account, Bubble, MemBubble

(* Otherwise execute moves on to memory, and decode to execute unless it   *)
(* has to wait for a load.                                                 *)
LEMMA MoveEdge ==
  ASSUME NEW full \in BOOLEAN, NEW semi \in BOOLEAN, NEW drain \in BOOLEAN, NEW ready \in BOOLEAN,
         Edge(full, semi, drain, ready), ~full, ~BranchMiss, ~drain, mem.instr.op # "HALT"
  PROVE /\ wasFull' = FALSE /\ wasSemi' = semi /\ lastNextPC' = nextPC
        /\ mem'.instr = ex.instr /\ mem'.next = ex.next /\ mem'.predict = ex.predict
        /\ mem'.target = ex.target /\ mem'.data = StoreData
        /\ wb'.instr = mem.instr /\ wb'.exu = ExuResult
        /\ wb'.data = IF mem.instr.op \in {"LOAD", "RET"} THEN dmem[ExuResult] ELSE 0
        /\ IF OnPath THEN isa' = Execute(isa, mem.instr) ELSE isa' = isa
        /\ sent' = (IF OnPath THEN SubSeq(sent, 1 + Len(Accounted), Len(sent)) ELSE sent)
                   \o NpuWord(full \/ semi)
        /\ program' = program
        /\ IF semi
           THEN ex'.instr = Nothing /\ ex'.predict = FALSE
           ELSE /\ ex'.instr = instr /\ ex'.next = nextPC /\ (ex'.predict <=> Predicted)
                /\ ~wasSemi => ex'.target = (nextPC + instr.imm) % Size
BY DEF Edge, Fetch, Advance, Account, Bubble, NextPC, BranchAddress

(* Where the fetch unit turns. *)
LEMMA FetchEdge ==
  ASSUME Types, NEW full \in BOOLEAN, NEW semi \in BOOLEAN, NEW drain \in BOOLEAN,
         Fetch(full, semi, drain), ~full
  PROVE /\ instr' = At(program, lastPC')
        /\ semi => /\ nextPC' = nextPC
                   /\ ~wasSemi => lastPC' = lastNextPC
        /\ ~semi /\ ~drain => nextPC' = After(lastPC')
        /\ ~semi /\ BranchMiss /\ ~wasSemi => lastPC' = MissAddress
        /\ ~semi /\ ~BranchMiss /\ ~Predicted => lastPC' = nextPC
        /\ ~semi /\ ~BranchMiss /\ Predicted /\ ~wasSemi => lastPC' = (nextPC + instr.imm) % Size
<1>1. instr.op \notin {"CALL", "RET"} /\ wb.instr.op \notin {"CALL", "RET"}
  BY CarriedTyped, StageFields DEF Types, FetchTypes, Carried
<1>2. instr' = At(program, lastPC') /\ lastPC' = NewPC(semi)
  BY DEF Fetch
<1>3. semi => nextPC' = nextPC
  BY DEF Fetch
<1>4. ~semi /\ ~drain => nextPC' = After(lastPC')
  BY DEF Fetch, After
<1>5. semi => NewPC(semi) = NextPC(semi)
  BY DEF NewPC
<1>6. NextPC(semi) = IF semi /\ ~wasSemi THEN lastNextPC ELSE nextPC
  BY DEF NextPC
<1>7. ~semi /\ BranchMiss /\ ~wasSemi => NewPC(semi) = MissAddress
  BY DEF NewPC
<1>8. ~semi /\ ~BranchMiss /\ ~Predicted => NewPC(semi) = NextPC(semi)
  BY <1>1 DEF NewPC
<1>9. ~semi /\ ~BranchMiss /\ Predicted /\ ~wasSemi => NewPC(semi) = BranchAddress(semi)
  BY <1>1 DEF NewPC
<1>10. BranchAddress(semi) = (NextPC(semi) + instr.imm) % Size
  BY DEF BranchAddress
<1>11. QED
  BY <1>2, <1>3, <1>4, <1>5, <1>6, <1>7, <1>8, <1>9, <1>10

-----------------------------------------------------------------------------
(* Every edge keeps the control invariant. *)

(* A halted pipeline stays as it is, and a HALT in memory halts it. *)
LEMMA HaltKeepsControl ==
  ASSUME Types, ControlInv, NEW semi \in BOOLEAN, NEW ready \in BOOLEAN,
         Edge(FALSE, semi, Drains, ready), mem.instr.op = "HALT"
  PROVE ControlInv' /\ isa'.halted
<1>1. Drains = TRUE
  BY DEF Drains
<1>2. /\ ex'.instr = Halt /\ mem'.instr = Halt /\ ex'.predict = FALSE /\ mem'.predict = FALSE
      /\ IF OnPath THEN isa' = Execute(isa, mem.instr) ELSE isa' = isa
  BY <1>1, SquashEdge
<1>3. isa'.halted
  <2>1. CASE isa.halted
    BY <1>2, <2>1 DEF OnPath
  <2>2. CASE ~isa.halted
    <3>1. MemOn
      BY <2>2, BehindBranch DEF ControlInv, RunInv
    <3>2. isa' = Execute(isa, mem.instr) /\ mem.instr \in Plain /\ isa \in Machine
      BY <1>2, <2>2, <3>1, PathTyped DEF OnPath, Types, OutsideTypes
    <3>3. QED
      BY <3>2, ExecuteEffect
  <2>3. QED
    BY <2>1, <2>2
<1>4. QED
  BY <1>2, <1>3 DEF ControlInv, PredictInv, HaltInv, RunInv

(* A full stall keeps it: nothing moves. *)
LEMMA FullKeepsControl ==
  ASSUME Types, ControlInv, ~isa.halted, NEW ready \in BOOLEAN, NEW npuWait \in BOOLEAN,
         FullStall(ready, npuWait), Edge(TRUE, FALSE, Drains, ready)
  PROVE ControlInv'
<1>1. /\ mem.instr.op \notin {"BRANCH", "HALT"} /\ ~Booting /\ ~Conditional(ex.instr)
  BY NoFullStall
<1>2. /\ wasFull' = TRUE /\ wasSemi' = FALSE /\ lastPC' = lastPC /\ nextPC' = nextPC
      /\ lastNextPC' = lastNextPC /\ instr' = At(program, lastPC)
      /\ ex' = ex /\ mem' = mem /\ isa' = isa /\ program' = program
  BY FullEdge, StallTyped
<1>3. Fetched
  BY <1>1 DEF ControlInv, RunInv, PathInv
<1>4. instr' = instr /\ Fetched'
  BY <1>2, <1>3 DEF Fetched
<1>5. /\ MemOn' <=> MemOn
      /\ AfterMem' = AfterMem
      /\ ExOn' <=> ExOn
      /\ AfterEx' = AfterEx
  BY <1>2 DEF MemOn, AfterMem, ExOn, AfterEx
<1>6. PathInv'
  <2>1. MemPath'
    BY <1>2, <1>5 DEF ControlInv, RunInv, PathInv, MemPath
  <2>2. ExPath'
    BY <1>2, <1>4, <1>5 DEF ControlInv, RunInv, PathInv, ExPath
  <2>3. QED
    BY <1>2, <1>4, <1>5, <2>1, <2>2 DEF ControlInv, RunInv, PathInv
<1>7. ReplayInv'
  BY <1>1, <1>2 DEF ControlInv, RunInv, ReplayInv
<1>8. FlagInv'
  <2>1. ~Conditional(mem.instr)
    BY <1>1 DEF Conditional
  <2>2. QED
    BY <1>1, <1>2, <2>1 DEF FlagInv
<1>9. PredictInv' /\ HaltInv'
  BY <1>2 DEF ControlInv, PredictInv, HaltInv
<1>10. QED
  BY <1>6, <1>7, <1>8, <1>9 DEF ControlInv, RunInv

(* A mispredicted branch leaves the two stages behind it empty and turns   *)
(* to the other address.                                                   *)
LEMMA MissKeepsControl ==
  ASSUME Types, ControlInv, ~isa.halted, NEW ready \in BOOLEAN, BranchMiss,
         Edge(FALSE, FALSE, Drains, ready)
  PROVE ControlInv'
<1>1. mem.instr.op = "BRANCH"
  BY BranchSettled
<1>2. Drains = FALSE /\ ~wasSemi
  BY <1>1 DEF Drains, ControlInv, RunInv, ReplayInv
<1>3. /\ wasFull' = FALSE /\ wasSemi' = FALSE /\ ex'.instr = Nothing /\ mem'.instr = Nothing
      /\ ex'.predict = FALSE /\ mem'.predict = FALSE /\ program' = program
      /\ IF OnPath THEN isa' = Execute(isa, mem.instr) ELSE isa' = isa
  BY <1>1, <1>2, SquashEdge
<1>4. isa'.pc = MissAddress /\ isa'.halted = FALSE
  BY <1>1, <1>3, MachineMoves
<1>5. lastPC' = MissAddress /\ instr' = At(program, lastPC') /\ nextPC' = After(lastPC')
  BY <1>2, FetchEdge DEF Edge
<1>6. AfterMem' = isa'.pc /\ AfterEx' = isa'.pc /\ ~MemOn' /\ ~ExOn'
  BY <1>3, NothingFacts DEF MemOn, AfterMem, ExOn, AfterEx
<1>7. ~Conditional(instr')
  <2>1. /\ mem.instr = At(program, isa.pc) /\ mem.next = After(isa.pc)
        /\ mem.target = To(isa.pc, mem.instr) /\ isa.pc \in Word /\ Disciplined(program)
    BY <1>1, BehindBranch, PathTyped DEF ControlInv, RunInv, PathInv, MemPath, MemOn
  <2>2. MissAddress \in {After(isa.pc), To(isa.pc, mem.instr)}
    BY <2>1 DEF MissAddress
  <2>3. /\ ~Conditional(At(program, After(isa.pc)))
        /\ ~Conditional(At(program, To(isa.pc, mem.instr)))
    BY <1>1, <2>1, BranchNeighbours
  <2>4. QED
    BY <1>5, <2>2, <2>3
<1>8. PathInv'
  <2>1. MemPath'
    BY <1>3, <1>6, NothingFacts, NopTyped DEF MemPath
  <2>2. ExPath'
    BY <1>3, <1>6, <1>7, NothingFacts, NopTyped DEF ExPath
  <2>3. Fetched'
    BY <1>3, <1>5 DEF Fetched
  <2>4. QED
    BY <1>4, <1>5, <1>6, <2>1, <2>2, <2>3 DEF PathInv
<1>9. ReplayInv' /\ FlagInv'
  BY <1>3, NothingFacts DEF ReplayInv, FlagInv
<1>10. PredictInv' /\ HaltInv'
  BY <1>3, <1>4 DEF PredictInv, HaltInv
<1>11. QED
  BY <1>8, <1>9, <1>10 DEF ControlInv, RunInv

(* An instruction that needs the word a load in execute is about to bring  *)
(* stays in decode; the stage before it is empty for a cycle.              *)
LEMMA SemiKeepsControl ==
  ASSUME Types, ControlInv, ~isa.halted, NEW ready \in BOOLEAN, DataHazard, ~BranchMiss,
         mem.instr.op # "HALT", Edge(FALSE, TRUE, Drains, ready)
  PROVE ControlInv'
<1>1. ex.instr.op = "LOAD" /\ ex.instr.rd \in {instr.rs, IF instr.op = "STORE" THEN instr.rd ELSE instr.rt}
  BY DEF DataHazard
<1>2. Drains = FALSE /\ ~wasSemi
  BY <1>1, StageFields, CarriedTyped DEF Drains, ControlInv, RunInv, ReplayInv
<1>3. /\ wasFull' = FALSE /\ wasSemi' = TRUE
      /\ mem'.instr = ex.instr /\ mem'.next = ex.next /\ mem'.predict = ex.predict
      /\ ex'.instr = Nothing /\ ex'.predict = FALSE /\ program' = program
      /\ IF OnPath THEN isa' = Execute(isa, mem.instr) ELSE isa' = isa
  BY <1>2, MoveEdge
<1>4. isa'.pc = AfterMem /\ isa'.halted = FALSE
  BY <1>3, MachineMoves
<1>5. /\ ExOn /\ ex.instr = At(program, AfterMem) /\ ~ex.predict /\ ~Booting
  BY <1>1, NothingFacts, NopTyped
     DEF ControlInv, RunInv, PredictInv, PathInv, ExPath, Booting
<1>6. lastPC = ex.next /\ ex.next = After(AfterMem) /\ AfterMem \in Word /\ Disciplined(program)
  BY <1>5, PathTyped DEF ControlInv, RunInv, PathInv, AfterEx, ExOn
<1>7. Fetched /\ lastNextPC = lastPC
  BY <1>1, <1>5 DEF ControlInv, RunInv, PathInv, ReplayInv
<1>8. /\ lastPC' = lastPC /\ nextPC' = nextPC /\ instr' = At(program, lastPC')
  BY <1>2, <1>7, FetchEdge DEF Edge
<1>9. instr' = instr /\ Fetched'
  BY <1>3, <1>7, <1>8 DEF Fetched
<1>10. ~Conditional(instr) /\ instr.op # "BRANCH"
  <2>1. instr = At(program, After(AfterMem))
    BY <1>6, <1>7 DEF Fetched
  <2>2. /\ instr.op = "BRANCH" => ex.instr.rd \notin {instr.rs, instr.rt}
        /\ ~Conditional(instr)
    BY <1>1, <1>5, <1>6, <2>1, LoadNeighbour
  <2>3. QED
    BY <1>1, <2>2
<1>11. MemOn' /\ AfterMem' = ex.next /\ ~ExOn' /\ AfterEx' = ex.next
  BY <1>1, <1>3, <1>4, <1>5, <1>6, NothingFacts DEF MemOn, AfterMem, ExOn, AfterEx
<1>12. PathInv'
  <2>1. MemPath'
    BY <1>1, <1>3, <1>4, <1>5, <1>11 DEF MemPath
  <2>2. ExPath'
    BY <1>3, <1>9, <1>10, <1>11, NothingFacts, NopTyped DEF ExPath
  <2>3. QED
    BY <1>6, <1>8, <1>9, <1>11, <2>1, <2>2 DEF PathInv
<1>13. ReplayInv'
  BY <1>1, <1>3, <1>9, <1>10, NothingFacts DEF ReplayInv
<1>14. FlagInv'
  <2>1. ~Conditional(ex.instr) /\ ~SetsFlags(ex.instr)
    BY <1>1 DEF Conditional, SetsFlags
  <2>2. QED
    BY <1>3, <2>1, NothingFacts DEF FlagInv
<1>15. PredictInv' /\ HaltInv'
  BY <1>3, <1>4, <1>5 DEF PredictInv, HaltInv
<1>16. QED
  BY <1>12, <1>13, <1>14, <1>15 DEF ControlInv, RunInv

(* Without stall, miss or HALT every instruction moves on by a stage. *)
LEMMA AdvanceKeepsControl ==
  ASSUME Types, ControlInv, ResultInv, ~isa.halted, NEW ready \in BOOLEAN, ~BranchMiss,
         mem.instr.op # "HALT", Edge(FALSE, FALSE, Drains, ready)
  PROVE ControlInv'
<1>1. Drains = FALSE
  BY StageFields, CarriedTyped DEF Drains
<1>2. /\ wasFull' = FALSE /\ wasSemi' = FALSE /\ lastNextPC' = nextPC
      /\ mem'.instr = ex.instr /\ mem'.next = ex.next /\ mem'.predict = ex.predict
      /\ mem'.target = ex.target /\ program' = program
      /\ ex'.instr = instr /\ ex'.next = nextPC /\ (ex'.predict <=> Predicted)
      /\ ~wasSemi => ex'.target = (nextPC + instr.imm) % Size
      /\ IF OnPath THEN isa' = Execute(isa, mem.instr) ELSE isa' = isa
  BY <1>1, MoveEdge
<1>3. isa'.pc = AfterMem /\ isa'.halted = FALSE
  BY <1>2, MachineMoves
<1>4. /\ instr' = At(program, lastPC') /\ nextPC' = After(lastPC')
      /\ ~Predicted => lastPC' = nextPC
      /\ Predicted /\ ~wasSemi => lastPC' = (nextPC + instr.imm) % Size
  BY <1>1, FetchEdge DEF Edge
<1>5. /\ wasSemi => instr.op # "BRANCH"
      /\ Predicted => instr.op = "BRANCH" /\ ~wasSemi
  BY DEF ControlInv, RunInv, ReplayInv, Predicted
<1>6. MemOn' <=> ExOn
  BY <1>2, <1>3 DEF MemOn, ExOn
<1>7. AfterMem' = AfterEx
  BY <1>2, <1>3, <1>6 DEF AfterMem, AfterEx
<1>8. lastPC = AfterEx /\ (Booting \/ Fetched) /\ AfterEx \in Word /\ lastPC \in Word
      /\ AfterMem \in Word /\ Disciplined(program) /\ instr \in Plain
  BY PathTyped DEF ControlInv, RunInv, PathInv, Types, FetchTypes
<1>9. MemPath'
  <2>1. CASE ExOn
    BY <1>2, <1>3, <1>6, <2>1 DEF ControlInv, RunInv, PathInv, ExPath, MemPath
  <2>2. CASE ~ExOn
    <3>1. ex.instr \in {Nothing, Nop}
          /\ (ex.instr = Nop => isa.regs[0] = 0 /\ mem.instr = Nothing)
      BY <2>2 DEF ControlInv, RunInv, PathInv, ExPath
    <3>2. mem.instr = Nothing => isa' = isa
      BY <1>2, NothingFacts DEF OnPath
    <3>3. QED
      BY <1>2, <1>6, <2>2, <3>1, <3>2 DEF MemPath
  <2>3. QED
    BY <2>1, <2>2
<1>10. Fetched'
  BY <1>2, <1>4 DEF Fetched
<1>11. ExPath' /\ lastPC' = AfterEx'
  <2>1. CASE Fetched
    <3>1. nextPC = After(lastPC) /\ instr = At(program, lastPC)
      BY <2>1 DEF Fetched
    <3>2. ExOn'
      <4>1. instr.op # "NONE"
        BY <1>8, CarriedTyped DEF Carried
      <4>2. QED
        BY <1>2, <1>7, <1>8, <3>1, <4>1 DEF ExOn
    <3>3. instr.op = "BRANCH" => ex'.target = To(lastPC, instr)
      BY <1>2, <1>5, <3>1 DEF To
    <3>4. ExPath'
      BY <1>2, <1>7, <1>8, <3>1, <3>2, <3>3 DEF ExPath
    <3>5. lastPC' = IF ex'.predict THEN ex'.target ELSE ex'.next
      BY <1>2, <1>4, <1>5
    <3>6. QED
      BY <3>2, <3>4, <3>5 DEF AfterEx
  <2>2. CASE Booting
    <3>1. /\ instr = Nop /\ nextPC = 0 /\ lastPC = 0 /\ ex.instr = Nothing /\ mem.instr = Nothing
          /\ isa.regs[0] = 0
      BY <2>2 DEF Booting
    <3>2. AfterMem' = 0
      BY <1>7, <1>8, <3>1
    <3>3. After(0) # 0
      <4>1. 1 \in Word
        BY SizeFact DEF Word
      <4>2. QED
        BY <4>1, Remainder DEF After
    <3>4. ~ExOn'
      BY <1>2, <3>1, <3>2, <3>3 DEF ExOn
    <3>5. ~Predicted
      BY <3>1, NopHarmless DEF Predicted
    <3>6. lastPC' = 0
      BY <1>4, <3>1, <3>5
    <3>7. ~Conditional(instr')
      BY <1>4, <1>8, <3>6, ConditionalNeighbour
    <3>8. isa' = isa /\ mem'.instr = Nothing
      BY <1>2, <3>1, NothingFacts DEF OnPath
    <3>9. ExPath'
      BY <1>2, <3>1, <3>4, <3>7, <3>8 DEF ExPath
    <3>10. QED
      BY <3>2, <3>4, <3>6, <3>9 DEF AfterEx
  <2>3. QED
    BY <1>8, <2>1, <2>2
<1>12. PathInv'
  BY <1>9, <1>10, <1>11 DEF PathInv
<1>13. ReplayInv'
  <2>1. instr.op = "LOAD" => lastPC' = nextPC
    BY <1>4 DEF Predicted
  <2>2. QED
    BY <1>2, <2>1 DEF ReplayInv
<1>14. Conditional(ex.instr) => (zero' <=> isa'.zero) /\ (negative' <=> isa'.negative)
  <2>1. SUFFICES ASSUME Conditional(ex.instr)
                 PROVE (zero' <=> isa'.zero) /\ (negative' <=> isa'.negative)
    OBVIOUS
  <2>2. /\ SetsFlags(mem.instr) /\ MemOn /\ ~wasFull /\ flagsEn /\ ~dequeued
    BY <2>1 DEF ControlInv, RunInv, FlagInv
  <2>3. isa' = Execute(isa, mem.instr) /\ mem.instr \in Plain /\ isa \in Machine
    BY <1>2, <2>2, PathTyped DEF OnPath, Types, OutsideTypes
  <2>4. dst = Value(isa, mem.instr)
    BY <2>2 DEF ResultInv, ResultOps, SetsFlags, ExuResult
  <2>5. (isa'.zero <=> dst = 0) /\ (isa'.negative <=> Signed(dst) < 0)
    BY <2>2, <2>3, <2>4, ExecuteEffect
  <2>6. (zero' <=> dst = 0) /\ (negative' <=> Signed(dst) < 0)
    BY <2>2 DEF Edge, Advance
  <2>7. QED
    BY <2>5, <2>6
<1>15. Conditional(instr) => SetsFlags(ex.instr) /\ ExOn
  <2>1. SUFFICES ASSUME Conditional(instr) PROVE SetsFlags(ex.instr) /\ ExOn
    OBVIOUS
  <2>2. ExOn /\ ex.instr = At(program, AfterMem) /\ Fetched
        /\ (ex.instr.op = "BRANCH" => ex.target = To(AfterMem, ex.instr))
        /\ ex.next = After(AfterMem)
    BY <2>1, NopHarmless DEF ControlInv, RunInv, PathInv, ExPath, Booting, ExOn
  <2>3. CASE ex.predict
    <3>1. ex.instr.op = "BRANCH" /\ lastPC = To(AfterMem, ex.instr)
      BY <1>8, <2>2, <2>3 DEF ControlInv, PredictInv, AfterEx
    <3>2. ~Conditional(At(program, lastPC))
      BY <1>8, <2>2, <3>1, BranchNeighbours
    <3>3. QED
      BY <2>1, <2>2, <3>2 DEF Fetched
  <2>4. CASE ~ex.predict
    <3>1. lastPC = After(AfterMem)
      BY <1>8, <2>2, <2>4 DEF AfterEx
    <3>2. Conditional(At(program, After(AfterMem)))
      BY <2>1, <2>2, <3>1 DEF Fetched
    <3>3. QED
      BY <1>8, <2>2, <3>2, ConditionalNeighbour
  <2>5. QED
    BY <2>3, <2>4
<1>16. FlagInv'
  <2>1. (flagsEn' <=> SetsFlags(ex.instr)) /\ (dequeued' <=> ex.instr.op = "DEQD")
    BY DEF Edge, Advance
  <2>2. SetsFlags(ex.instr) => flagsEn' /\ ~dequeued'
    BY <2>1 DEF SetsFlags
  <2>3. QED
    BY <1>2, <1>6, <1>14, <1>15, <2>2 DEF FlagInv
<1>17. PredictInv' /\ HaltInv'
  BY <1>2, <1>3, <1>5 DEF ControlInv, PredictInv, HaltInv
<1>18. QED
  BY <1>12, <1>13, <1>16, <1>17 DEF ControlInv, RunInv

(* Every clock edge keeps the control invariant. *)
LEMMA ClockKeepsControl ==
  ASSUME Types, ControlInv, ResultInv,
         NEW ready \in BOOLEAN, NEW npuWait \in BOOLEAN, Clock(ready, npuWait)
  PROVE ControlInv'
<1> DEFINE full == FullStall(ready, npuWait)
           semi == SemiStall(ready, npuWait)
<1>1. full \in BOOLEAN /\ semi \in BOOLEAN /\ Edge(full, semi, Drains, ready)
  BY StallTyped, ClockEdge
<1>2. /\ full <=> FullStall(ready, npuWait)
      /\ semi <=> (DataHazard /\ ~BranchMiss /\ ~full)
  BY DEF SemiStall
<1>3. isa.halted => mem.instr.op = "HALT"
  BY HaltTyped DEF ControlInv, HaltInv
<1> HIDE DEF full, semi
<1>4. CASE mem.instr.op = "HALT"
  <2>1. full = FALSE
    BY <1>1, <1>2, <1>4, NoFullStall
  <2>2. QED
    BY <1>1, <1>4, <2>1, HaltKeepsControl
<1>5. CASE mem.instr.op # "HALT" /\ full
  <2>1. full = TRUE /\ semi = FALSE
    BY <1>1, <1>2, <1>5
  <2>2. QED
    BY <1>1, <1>2, <1>3, <1>5, <2>1, FullKeepsControl
<1>6. CASE mem.instr.op # "HALT" /\ ~full /\ BranchMiss
  <2>1. full = FALSE /\ semi = FALSE
    BY <1>1, <1>2, <1>6
  <2>2. QED
    BY <1>1, <1>3, <1>6, <2>1, MissKeepsControl
<1>7. CASE mem.instr.op # "HALT" /\ ~full /\ ~BranchMiss /\ semi
  <2>1. full = FALSE /\ semi = TRUE /\ DataHazard
    BY <1>1, <1>2, <1>7
  <2>2. QED
    BY <1>1, <1>3, <1>7, <2>1, SemiKeepsControl
<1>8. CASE mem.instr.op # "HALT" /\ ~full /\ ~BranchMiss /\ ~semi
  <2>1. full = FALSE /\ semi = FALSE
    BY <1>1, <1>8
  <2>2. QED
    BY <1>1, <1>3, <1>8, <2>1, AdvanceKeepsControl
<1>9. QED
  BY <1>4, <1>5, <1>6, <1>7, <1>8

-----------------------------------------------------------------------------
(* What the data invariant says of one state. *)

(* The instruction in memory is on the path, or does nothing. *)
LEMMA MemHolds ==
  ASSUME Types, ControlInv
  PROVE /\ OnPath => mem.instr \in Plain /\ ~isa.halted
        /\ ~OnPath => /\ mem.instr \in {Nothing, Nop, Halt}
                      /\ mem.instr = Nop => isa.regs[0] = 0
        /\ isa \in Machine
        /\ ~isa.halted => (OnPath <=> MemOn)
<1>1. isa \in Machine /\ isa.halted \in BOOLEAN
  BY StageFields DEF Types, OutsideTypes
<1>2. ~isa.halted => (OnPath <=> MemOn)
  BY PathTyped DEF OnPath
<1>3. OnPath => mem.instr \in Plain /\ ~isa.halted
  BY <1>2, PathTyped DEF OnPath
<1>4. ASSUME ~OnPath PROVE /\ mem.instr \in {Nothing, Nop, Halt}
                           /\ mem.instr = Nop => isa.regs[0] = 0
  <2>1. CASE isa.halted
    <3>1. Halt # Nop
      BY HaltTyped, NopTyped
    <3>2. QED
      BY <2>1, <3>1 DEF ControlInv, HaltInv
  <2>2. CASE ~isa.halted
    BY <1>2, <1>4, <2>2 DEF ControlInv, RunInv, PathInv, MemPath
  <2>3. QED
    BY <2>1, <2>2
<1>5. QED
  BY <1>1, <1>2, <1>3, <1>4

(* The kinds of instructions, as the operators divide them. *)
LEMMA Kinds == ASSUME NEW i \in Plain
               PROVE /\ Writes(i) <=> i.op \in {"ADD", "SUB", "LLW", "LHW", "LOAD", "DEQD"}
                     /\ Writes(i) => i.op \in ResultOps /\ WriteReg(i) = i.rd
                     /\ WritesMemory(i) <=> i.op = "STORE"
                     /\ i.rd \in Reg /\ i.op \in Ops
<1>1. i.op \in Ops /\ i.op \notin {"CALL", "RET"} /\ i.rd \in Reg
  BY DEF Plain, Direct, Instruction
<1>2. QED
  BY <1>1 DEF Ops, Writes, ResultOps, WriteReg, WritesMemory

(* HALT and empty stages write nothing; NOP writes zero to register 0. *)
LEMMA IdleKinds == /\ ~Writes(Halt) /\ ~WritesMemory(Halt) /\ Halt.op \notin ResultOps
                   /\ ~Writes(Nothing) /\ ~WritesMemory(Nothing) /\ Nothing.op \notin ResultOps
                   /\ WriteReg(Nop) = 0 /\ ~WritesMemory(Nop) /\ Nop.op \in ResultOps
                   /\ \A s : Value(s, Nop) = 0
<1>1. \A s : Value(s, Nop) = 0
  BY NopTyped, NopSum DEF Value, Get
<1>2. QED
  BY <1>1, HaltTyped, NothingFacts, NopTyped
     DEF Writes, WritesMemory, ResultOps, WriteReg

(* Forwarding: an operand that is current now is, with the results of the  *)
(* two stages ahead put over it, what the reference machine reads when the *)
(* instruction in memory has left.                                         *)
LEMMA ForwardRight ==
  ASSUME Types, ControlInv, ResultInv, RegistersInStep,
         NEW r \in Reg, NEW base \in Word, Current(r, base), NoLoadOf(r),
         NEW m, IF OnPath THEN m = Execute(isa, mem.instr) ELSE m = isa
  PROVE Forwarded(r, base) = Get(m, r)
<1>1. CASE r = 0
  BY <1>1 DEF Forwarded, Get, Current
<1>2. CASE r # 0 /\ Writes(mem.instr) /\ mem.instr.rd = r
  <2>1. OnPath
    BY <1>2, MemHolds, IdleKinds, NopTyped
  <2>2. m.regs = [isa.regs EXCEPT ![mem.instr.rd] = Outcome(isa, mem.instr)]
    BY <1>2, <2>1, MemHolds, ExecuteEffect
  <2>3. Outcome(isa, mem.instr) = ExuResult
    BY <1>2, <2>1, MemHolds, Kinds DEF Outcome, NoLoadOf, ResultInv
  <2>4. m.regs[r] = ExuResult
    BY <1>2, <2>2, <2>3, StageFields
  <2>5. QED
    BY <1>2, <2>4 DEF Forwarded, Get
<1>3. CASE r # 0 /\ ~(Writes(mem.instr) /\ mem.instr.rd = r)
  <2>1. m.regs[r] = isa.regs[r]
    <3>1. CASE ~OnPath
      BY <3>1
    <3>2. CASE OnPath
      <4>1. m.regs = IF Writes(mem.instr)
                     THEN [isa.regs EXCEPT ![mem.instr.rd] = Outcome(isa, mem.instr)]
                     ELSE isa.regs
        BY <3>2, MemHolds, ExecuteEffect
      <4>2. QED
        BY <1>3, <4>1, StageFields
    <3>3. QED
      BY <3>1, <3>2
  <2>2. CASE Writes(wb.instr) /\ wb.instr.rd = r
    <3>1. WriteReg(wb.instr) = r
      BY <2>2, StageFields, CarriedTyped
    <3>2. isa.regs[r] = WbValue
      BY <2>2, <3>1 DEF RegistersInStep
    <3>3. QED
      BY <1>3, <2>1, <2>2, <3>2 DEF Forwarded, Get
  <2>3. CASE ~(Writes(wb.instr) /\ wb.instr.rd = r)
    BY <1>3, <2>1, <2>3 DEF Forwarded, Get, Current
  <2>4. QED
    BY <2>2, <2>3
<1>4. QED
  BY <1>1, <1>2, <1>3

(* So the operands of the instruction in execute are the reference         *)
(* machine's, and so is what the ALU makes of them.                        *)
LEMMA OperandsRight ==
  ASSUME Types, ControlInv, ResultInv, OperandInv, RegistersInStep,
         NEW m \in Machine, IF OnPath THEN m = Execute(isa, mem.instr) ELSE m = isa
  PROVE /\ ex.instr.op \in Reads0 => Operand0 = Get(m, ForwardReg0(ex.instr))
        /\ ex.instr.op \in Reads1 => Operand1 = Get(m, ForwardReg1(ex.instr))
        /\ ex.instr.op \in ResultOps \ {"DEQD"} => Result = Value(m, ex.instr)
<1>1. Base0 \in Word /\ Base1 \in Word
  BY StageFields DEF Types, StageTypes, Base0, Base1
<1>2. Operand0 = Forwarded(ForwardReg0(ex.instr), Base0)
      /\ Operand1 = Forwarded(ForwardReg1(ex.instr), Base1)
  BY DEF Operand0, Operand1, Base0, Base1
<1>3. ASSUME ex.instr.op \in Reads0 PROVE Operand0 = Get(m, ForwardReg0(ex.instr))
  <2>1. ex.instr \in Plain
    BY <1>3, StageFields, CarriedTyped DEF Reads0
  <2>2. ForwardReg0(ex.instr) \in Reg
    BY <2>1, ReadsTyped
  <2>3. Current(ForwardReg0(ex.instr), Base0) /\ NoLoadOf(ForwardReg0(ex.instr))
    BY <1>3 DEF OperandInv
  <2>4. QED
    BY <1>1, <1>2, <2>2, <2>3, ForwardRight
<1>4. ASSUME ex.instr.op \in Reads1 PROVE Operand1 = Get(m, ForwardReg1(ex.instr))
  <2>1. ex.instr \in Plain
    BY <1>4, StageFields, CarriedTyped DEF Reads1
  <2>2. ForwardReg1(ex.instr) \in Reg
    BY <2>1, ReadsTyped
  <2>3. Current(ForwardReg1(ex.instr), Base1) /\ NoLoadOf(ForwardReg1(ex.instr))
    BY <1>4 DEF OperandInv
  <2>4. QED
    BY <1>1, <1>2, <2>2, <2>3, ForwardRight
<1>5. ASSUME ex.instr.op \in ResultOps \ {"DEQD"} PROVE Result = Value(m, ex.instr)
  <2>1. ex.instr \in Plain
    BY <1>5, StageFields, CarriedTyped DEF ResultOps
  <2>2. ex.instr.imm \in Int /\ ex.instr.rd \in Reg /\ ex.instr.rs \in Reg
    BY <2>1, SizeFact DEF Plain, Instruction, Offset
  <2>3. IsCall = FALSE
    BY PathsTyped
  <2>4. CASE ex.instr.op \in {"ADD", "SUB"}
    <3>1. Operand0 = Get(m, ex.instr.rs) /\ Operand1 = Get(m, ex.instr.rt)
      BY <1>3, <1>4, <2>4 DEF Reads0, Reads1, ForwardReg0, ForwardReg1
    <3>2. QED
      BY <2>3, <2>4, <3>1 DEF Result, Value, UsesImmediate
  <2>5. CASE ex.instr.op \in {"LOAD", "STORE"}
    <3>1. Operand0 = Get(m, ex.instr.rs)
      BY <1>3, <2>5 DEF Reads0, ForwardReg0
    <3>2. QED
      BY <2>5, <3>1 DEF Result, Value, UsesImmediate
  <2>6. CASE ex.instr.op = "LLW"
    BY <2>6 DEF Result, Value, UsesImmediate
  <2>7. CASE ex.instr.op = "LHW"
    <3>1. Operand0 = Get(m, ex.instr.rd) /\ Get(m, ex.instr.rd) \in Word
      BY <1>3, <2>2, <2>7, GetTyped DEF Reads0, ForwardReg0
    <3>2. Result = HighWord(Operand0, ex.instr.imm % Size)
      BY <2>7 DEF Result, UsesImmediate
    <3>3. Value(m, ex.instr) = HighWord(Get(m, ex.instr.rd), ex.instr.imm)
      BY <2>7 DEF Value
    <3>4. QED
      BY <2>2, <3>1, <3>2, <3>3, HighImmediate
  <2>8. QED
    BY <1>5, <2>4, <2>5, <2>6, <2>7 DEF ResultOps
<1>6. QED
  BY <1>3, <1>4, <1>5

-----------------------------------------------------------------------------
(* Every edge keeps the data invariant. *)

(* What a clock edge knows of its stalls. *)
Stalls(full, semi, ready) ==
  /\ semi <=> (DataHazard /\ ~BranchMiss /\ ~full)
  /\ UsesMemory(mem.instr) /\ ~ready => full
  /\ full => ~Booting /\ ~isa.halted /\ mem.instr.op \notin {"BRANCH", "HALT"}

(* A clock edge, its stalls taken apart. *)
LEMMA ClockStalls ==
  ASSUME Types, ControlInv, NEW ready \in BOOLEAN, NEW npuWait \in BOOLEAN, Clock(ready, npuWait)
  PROVE Stalls(FullStall(ready, npuWait), SemiStall(ready, npuWait), ready)
<1>1. FullStall(ready, npuWait) =>
        ~Booting /\ ~isa.halted /\ mem.instr.op \notin {"BRANCH", "HALT"}
  BY NoFullStall
<1>2. UsesMemory(mem.instr) /\ ~ready => FullStall(ready, npuWait)
  BY DEF FullStall
<1>3. SemiStall(ready, npuWait) <=> (DataHazard /\ ~BranchMiss /\ ~FullStall(ready, npuWait))
  BY DEF SemiStall
<1>4. QED
  BY <1>1, <1>2, <1>3 DEF Stalls

(* The register file: what write-back stores is what the reference machine *)
(* holds, and what leaves memory is what it writes next.                   *)
LEMMA EdgeKeepsRegisters ==
  ASSUME Types, ControlInv, ResultInv, RegistersInStep, MemoryInStep,
         NEW full \in BOOLEAN, NEW semi \in BOOLEAN, NEW ready \in BOOLEAN,
         Edge(full, semi, Drains, ready)
  PROVE RegistersInStep'
<1>1. ASSUME NEW r \in Reg PROVE regs'[r] = isa.regs[r]
  <2>1. regs' = IF Writes(wb.instr) THEN [regs EXCEPT ![WriteReg(wb.instr)] = WbValue] ELSE regs
    BY DEF Edge, Effects
  <2>2. isa.regs[r] = IF Writes(wb.instr) /\ WriteReg(wb.instr) = r THEN WbValue ELSE regs[r]
    BY DEF RegistersInStep
  <2>3. regs \in [Reg -> Word]
    BY DEF Types, OutsideTypes
  <2>4. QED
    BY <2>1, <2>2, <2>3
<1>2. CASE full
  <2>1. wb' = wb /\ isa' = isa
    BY <1>2 DEF Edge, Advance, Account
  <2>2. WbValue' = WbValue
    BY <2>1 DEF WbValue
  <2>3. QED
    BY <1>1, <2>1, <2>2 DEF RegistersInStep
<1>3. CASE ~full
  <2>1. /\ wb'.instr = mem.instr /\ wb'.exu = ExuResult
        /\ wb'.data = IF mem.instr.op \in {"LOAD", "RET"} THEN dmem[ExuResult] ELSE 0
        /\ IF OnPath THEN isa' = Execute(isa, mem.instr) ELSE isa' = isa
    BY <1>3 DEF Edge, Advance, Account
  <2>2. CASE OnPath
    <3>1. mem.instr \in Plain /\ isa \in Machine /\ isa' = Execute(isa, mem.instr)
      BY <2>1, <2>2, MemHolds
    <3>2. isa'.regs = IF Writes(mem.instr)
                      THEN [isa.regs EXCEPT ![mem.instr.rd] = Outcome(isa, mem.instr)]
                      ELSE isa.regs
      BY <3>1, ExecuteEffect
    <3>3. Writes(mem.instr) => WbValue' = Outcome(isa, mem.instr)
      <4>1. SUFFICES ASSUME Writes(mem.instr) PROVE WbValue' = Outcome(isa, mem.instr)
        OBVIOUS
      <4>2. mem.instr.op \in ResultOps /\ mem.instr.op # "RET" /\ ~WritesMemory(mem.instr)
        BY <3>1, <4>1, Kinds
      <4>3. ExuResult = Value(isa, mem.instr)
        BY <4>2 DEF ResultInv
      <4>4. dmem = isa.mem
        BY <4>2 DEF MemoryInStep
      <4>5. WbValue' = IF mem.instr.op = "LOAD" THEN wb'.data ELSE wb'.exu
        BY <2>1, <4>2 DEF WbValue
      <4>6. QED
        BY <2>1, <4>3, <4>4, <4>5 DEF Outcome
    <3>4. Writes(mem.instr) => WriteReg(mem.instr) = mem.instr.rd
      BY <3>1, Kinds
    <3>5. isa.regs \in [Reg -> Word] /\ mem.instr.rd \in Reg
      BY <3>1, Kinds, StageFields
    <3>6. QED
      BY <1>1, <2>1, <3>2, <3>3, <3>4, <3>5 DEF RegistersInStep
  <2>3. CASE ~OnPath
    <3>1. isa' = isa /\ mem.instr \in {Nothing, Nop, Halt}
          /\ (mem.instr = Nop => isa.regs[0] = 0)
      BY <2>1, <2>3, MemHolds
    <3>2. CASE mem.instr \in {Nothing, Halt}
      BY <1>1, <2>1, <3>1, <3>2, IdleKinds DEF RegistersInStep
    <3>3. CASE mem.instr = Nop
      <4>1. ExuResult = 0
        BY <3>3, IdleKinds DEF ResultInv
      <4>2. WbValue' = 0
        BY <2>1, <3>3, <4>1, NopTyped DEF WbValue
      <4>3. QED
        BY <1>1, <2>1, <3>1, <3>3, <4>2, IdleKinds DEF RegistersInStep
    <3>4. QED
      BY <3>1, <3>2, <3>3
  <2>4. QED
    BY <2>2, <2>3
<1>4. QED
  BY <1>2, <1>3

(* The data memory: a store reaches it before the instruction leaves, once *)
(* or, while another stage waits, several times with the same word.        *)
LEMMA EdgeKeepsMemory ==
  ASSUME Types, ControlInv, ResultInv, MemoryInStep,
         NEW full \in BOOLEAN, NEW semi \in BOOLEAN, NEW ready \in BOOLEAN,
         Edge(full, semi, Drains, ready), Stalls(full, semi, ready)
  PROVE MemoryInStep'
<1>1. dmem' = IF WritesMemory(mem.instr) /\ ready THEN [dmem EXCEPT ![ExuResult] = mem.data] ELSE dmem
  BY DEF Edge, Effects
<1>2. /\ isa.mem \in [Word -> Word] /\ dmem \in [Word -> Word] /\ ExuResult \in Word
  BY StageFields, PathsTyped DEF Types, OutsideTypes
<1>3. ASSUME WritesMemory(mem.instr)
      PROVE /\ OnPath /\ mem.instr \in Plain
            /\ Execute(isa, mem.instr).mem = [isa.mem EXCEPT ![ExuResult] = mem.data]
            /\ ready => dmem' = Execute(isa, mem.instr).mem
  <2>1. OnPath /\ mem.instr \in Plain /\ isa \in Machine
    BY <1>3, MemHolds, IdleKinds
  <2>2. mem.instr.op = "STORE"
    BY <1>3, <2>1, Kinds
  <2>3. ExuResult = Value(isa, mem.instr) /\ mem.data = Get(isa, mem.instr.rd)
    BY <2>2 DEF ResultInv, ResultOps
  <2>4. Execute(isa, mem.instr).mem = [isa.mem EXCEPT ![ExuResult] = mem.data]
    BY <2>1, <2>2, <2>3, ExecuteEffect
  <2>5. dmem = isa.mem \/ dmem = [isa.mem EXCEPT ![ExuResult] = mem.data]
    BY <2>4 DEF MemoryInStep
  <2>6. [dmem EXCEPT ![ExuResult] = mem.data] = [isa.mem EXCEPT ![ExuResult] = mem.data]
    BY <1>2, <2>5
  <2>7. QED
    BY <1>1, <1>3, <2>1, <2>4, <2>6
<1>4. CASE full
  <2>1. mem' = mem /\ isa' = isa
    BY <1>4 DEF Edge, Advance, Account
  <2>2. OnPath' <=> OnPath
    BY <2>1 DEF OnPath
  <2>3. CASE WritesMemory(mem.instr) /\ ready
    BY <1>3, <2>1, <2>2, <2>3 DEF MemoryInStep
  <2>4. CASE ~(WritesMemory(mem.instr) /\ ready)
    BY <1>1, <2>1, <2>2, <2>4 DEF MemoryInStep
  <2>5. QED
    BY <2>3, <2>4
<1>5. CASE ~full
  <2>1. IF OnPath THEN isa' = Execute(isa, mem.instr) ELSE isa' = isa
    BY <1>5 DEF Edge, Account
  <2>2. CASE WritesMemory(mem.instr)
    <3>1. ready
      BY <1>5, <2>2 DEF Stalls, UsesMemory, WritesMemory
    <3>2. QED
      BY <1>3, <2>1, <2>2, <3>1 DEF MemoryInStep
  <2>3. CASE ~WritesMemory(mem.instr)
    <3>1. dmem' = dmem /\ dmem = isa.mem
      BY <1>1, <2>3 DEF MemoryInStep
    <3>2. isa'.mem = isa.mem
      <4>1. CASE OnPath
        <5>1. /\ isa' = Execute(isa, mem.instr) /\ mem.instr \in Plain /\ isa \in Machine
              /\ mem.instr.op # "STORE"
          BY <2>1, <2>3, <4>1, MemHolds, Kinds
        <5>2. QED
          BY <5>1, ExecuteEffect
      <4>2. CASE ~OnPath
        BY <2>1, <4>2
      <4>3. QED
        BY <4>1, <4>2
    <3>3. QED
      BY <3>1, <3>2 DEF MemoryInStep
  <2>4. QED
    BY <2>2, <2>3
<1>6. QED
  BY <1>4, <1>5

(* At most one word waits to be accounted for. *)
LEMMA OneWord ==
  ASSUME NEW s, s = << >> \/ (\E x : s = <<x>>)
  PROVE SubSeq(s, 1 + Len(s), Len(s)) = << >> /\ << >> \o s = s /\ s \o << >> = s
<1>1. CASE s = << >>
  BY <1>1
<1>2. ASSUME NEW x, s = <<x>> PROVE SubSeq(s, 1 + Len(s), Len(s)) = << >> /\ << >> \o s = s /\ s \o << >> = s
  BY <1>2
<1>3. QED
  BY <1>1, <1>2

(* What an instruction sends is a word or nothing. *)
LEMMA SendsOne == ASSUME NEW s, NEW i
                  PROVE /\ Sends(s, i) = << >> \/ (\E x : Sends(s, i) = <<x>>)
                        /\ i.op \notin {"ENQC", "ENQD"} => Sends(s, i) = << >>
BY DEF Sends

(* The NPU: a word is sent, and a result taken, by an instruction that     *)
(* leaves execute for memory, and by it once.                              *)
LEMMA EdgeKeepsNpu ==
  ASSUME Types, ControlInv, ResultInv, OperandInv, RegistersInStep, NpuInStep,
         Types', ControlInv',
         NEW full \in BOOLEAN, NEW semi \in BOOLEAN, NEW ready \in BOOLEAN,
         Edge(full, semi, Drains, ready), Stalls(full, semi, ready)
  PROVE NpuInStep'
<1> DEFINE word == NpuWord(full \/ semi)
<1>1. /\ sent = IF OnPath THEN Accounted ELSE << >>
      /\ taken = IF OnPath THEN Execute(isa, mem.instr).taken ELSE isa.taken
  BY DEF NpuInStep
<1>2. taken' = IF ex.instr.op = "DEQD" /\ ~(full \/ semi) THEN (taken + 1) % TokenCount ELSE taken
  BY DEF Edge, Effects
<1>3. sent = << >> \/ (\E x : sent = <<x>>)
  BY <1>1, SendsOne DEF Accounted
<1>4. CASE full
  <2>1. mem' = mem /\ isa' = isa /\ sent' = sent \o word
    BY <1>4 DEF Edge, Advance, Account
  <2>2. word = << >>
    BY <1>4 DEF NpuWord
  <2>3. sent' = sent /\ taken' = taken
    BY <1>2, <1>3, <1>4, <2>1, <2>2, OneWord
  <2>4. (OnPath' <=> OnPath) /\ Accounted' = Accounted
    BY <2>1 DEF OnPath, Accounted
  <2>5. QED
    BY <1>1, <2>1, <2>3, <2>4 DEF NpuInStep
<1>5. CASE ~full
  <2>1. /\ IF OnPath THEN isa' = Execute(isa, mem.instr) ELSE isa' = isa
        /\ sent' = (IF OnPath THEN SubSeq(sent, 1 + Len(Accounted), Len(sent)) ELSE sent) \o word
    BY <1>5 DEF Edge, Account
  <2>2. word = << >> \/ (\E x : word = <<x>>)
    BY DEF NpuWord
  <2>3. sent' = word
    <3>1. sent' = << >> \o word
      <4>1. CASE OnPath
        BY <1>1, <1>3, <2>1, <4>1, OneWord
      <4>2. CASE ~OnPath
        BY <1>1, <2>1, <4>2
      <4>3. QED
        BY <4>1, <4>2
    <3> HIDE DEF word
    <3>2. QED
      BY <2>2, <3>1, OneWord
  <2>4. taken = isa'.taken
    BY <1>1, <2>1
  <2>5. CASE BranchMiss \/ Drains
    <3>1. mem.instr.op \in {"BRANCH", "HALT"}
      BY <2>5, BranchSettled, StageFields, CarriedTyped DEF Drains
    <3>2. ~UsesNpu(ex.instr)
      <4>1. CASE isa.halted
        BY <4>1, HaltTyped DEF ControlInv, HaltInv, UsesNpu
      <4>2. CASE ~isa.halted
        BY <3>1, <4>2, BehindBranch DEF ControlInv, RunInv
      <4>3. QED
        BY <4>1, <4>2
    <3>3. word = << >> /\ taken' = taken
      BY <1>2, <3>2 DEF NpuWord, UsesNpu
    <3>4. mem'.instr = IF mem.instr.op = "HALT" THEN Halt ELSE Nothing
      BY <1>5, <2>5, SquashEdge, StallTyped DEF Drains
    <3>5. mem.instr.op = "HALT" => isa'.halted
      <4>1. SUFFICES ASSUME mem.instr.op = "HALT" PROVE isa'.halted
        OBVIOUS
      <4>2. CASE OnPath
        BY <2>1, <4>1, <4>2, MemHolds, ExecuteEffect
      <4>3. CASE ~OnPath
        <5>1. isa.halted
          BY <4>1, <4>3, BehindBranch, MemHolds DEF ControlInv, RunInv
        <5>2. QED
          BY <2>1, <4>3, <5>1
      <4>4. QED
        BY <4>2, <4>3
    <3>6. ~OnPath'
      BY <3>4, <3>5, NothingFacts DEF OnPath
    <3>7. QED
      BY <2>3, <2>4, <3>3, <3>6 DEF NpuInStep
  <2>6. CASE ~BranchMiss /\ ~Drains
    <3>1. mem'.instr = ex.instr
      <4>1. mem.instr.op # "HALT"
        BY <2>6 DEF Drains
      <4>2. QED
        BY <1>5, <2>6, <4>1, MoveEdge, StallTyped
    <3>2. CASE semi
      <4>1. ex.instr.op = "LOAD"
        BY <3>2 DEF Stalls, DataHazard
      <4>2. word = << >> /\ taken' = taken
        BY <1>2, <3>2, <4>1 DEF NpuWord
      <4>3. Accounted' = << >>
        BY <3>1, <4>1, SendsOne DEF Accounted
      <4>4. OnPath' => Execute(isa', mem'.instr).taken = isa'.taken
        <5>1. SUFFICES ASSUME OnPath' PROVE Execute(isa', mem'.instr).taken = isa'.taken
          OBVIOUS
        <5>2. mem'.instr \in Plain /\ isa' \in Machine /\ mem'.instr.op = "LOAD"
          BY <3>1, <4>1, CarriedTyped, StageFields DEF Types, OutsideTypes
        <5>3. QED
          BY <5>2, ExecuteEffect
      <4>5. QED
        BY <2>3, <2>4, <4>2, <4>3, <4>4 DEF NpuInStep
    <3>3. CASE ~semi
      <4>1. isa' \in Machine
        BY DEF Types, OutsideTypes
      <4>2. word = Sends(isa', ex.instr)
        <5>1. word = NpuWord(FALSE)
          BY <1>5, <3>3 DEF NpuWord
        <5>2. ex.instr.op = "ENQD" => Operand0 = Get(isa', ex.instr.rd)
          BY <2>1, <4>1, OperandsRight DEF Reads0, ForwardReg0
        <5>3. QED
          BY <5>1, <5>2 DEF NpuWord, Sends
      <4>3. CASE OnPath'
        <5>1. ex.instr \in Plain
          BY <3>1, <4>3, CarriedTyped, StageFields DEF OnPath
        <5>2. taken' = Execute(isa', ex.instr).taken
          BY <1>2, <1>5, <2>4, <3>3, <4>1, <5>1, ExecuteEffect
        <5>3. QED
          BY <2>3, <3>1, <4>2, <4>3, <5>2 DEF NpuInStep, Accounted
      <4>4. CASE ~OnPath'
        <5>1. mem'.instr \in {Nothing, Nop, Halt}
          <6>1. CASE isa'.halted
            BY <6>1 DEF ControlInv, HaltInv
          <6>2. CASE ~isa'.halted
            <7>1. ~MemOn'
              BY <4>4, <6>2 DEF OnPath, MemOn, After
            <7>2. QED
              BY <6>2, <7>1 DEF ControlInv, RunInv, PathInv, MemPath
          <6>3. QED
            BY <6>1, <6>2
        <5>2. ~UsesNpu(ex.instr)
          BY <3>1, <5>1, NopHarmless, HaltTyped, NothingFacts DEF UsesNpu
        <5>3. word = << >> /\ taken' = taken
          BY <1>2, <5>2 DEF NpuWord, UsesNpu
        <5>4. QED
          BY <2>3, <2>4, <4>4, <5>3 DEF NpuInStep
      <4>5. QED
        BY <4>3, <4>4
    <3>4. QED
      BY <3>2, <3>3
  <2>7. QED
    BY <2>5, <2>6
<1>6. QED
  BY <1>4, <1>5

(* The result: what the ALU, or the NPU, gives is there when its           *)
(* instruction reaches memory, and stays while memory is waited for.       *)
LEMMA EdgeKeepsResult ==
  ASSUME Types, ControlInv, ResultInv, OperandInv, RegistersInStep, NpuInStep, Types',
         NEW full \in BOOLEAN, NEW semi \in BOOLEAN, NEW ready \in BOOLEAN,
         Edge(full, semi, Drains, ready), Stalls(full, semi, ready)
  PROVE ResultInv'
<1>1. CASE full
  <2>1. /\ wasFull' = TRUE /\ mem' = mem /\ isa' = isa
        /\ held' = IF wasFull THEN held
                   ELSE [src0 |-> src0, src1 |-> src1, called |-> called,
                         exu |-> ExuResult, zero |-> zero, negative |-> negative]
    BY <1>1, FullEdge, StallTyped
  <2>2. held'.exu = ExuResult
    BY <2>1 DEF ExuResult
  <2>3. ExuResult' = ExuResult
    BY <2>1, <2>2 DEF ExuResult
  <2>4. QED
    BY <2>1, <2>3 DEF ResultInv
<1>2. CASE ~full /\ (BranchMiss \/ Drains)
  <2>1. mem'.instr \in {Halt, Nothing}
    BY <1>2, SquashEdge, StallTyped
  <2>2. mem'.instr.op \notin ResultOps
    BY <2>1, IdleKinds
  <2>3. QED
    BY <2>2 DEF ResultInv, ResultOps
<1>3. CASE ~full /\ ~BranchMiss /\ ~Drains
  <2>1. mem.instr.op # "HALT"
    BY <1>3 DEF Drains
  <2>2. /\ wasFull' = FALSE /\ mem'.instr = ex.instr /\ mem'.data = StoreData
        /\ IF OnPath THEN isa' = Execute(isa, mem.instr) ELSE isa' = isa
    BY <1>3, <2>1, MoveEdge, StallTyped
  <2>3. isa' \in Machine
    BY DEF Types, OutsideTypes
  <2>4. dst' = Result /\ (dequeued' <=> ex.instr.op = "DEQD")
    BY DEF Edge, Advance
  <2>5. ExuResult' = IF ex.instr.op = "DEQD" THEN npuDout' ELSE Result
    BY <2>2, <2>4 DEF ExuResult
  <2>6. ex.instr.op = "DEQD" => npuDout' = Value(isa', ex.instr)
    <3>1. SUFFICES ASSUME ex.instr.op = "DEQD" PROVE npuDout' = Value(isa', ex.instr)
      OBVIOUS
    <3>2. ~(full \/ semi)
      BY <1>3, <3>1 DEF Stalls, DataHazard
    <3>3. npuDout' = Token[taken]
      BY <3>1, <3>2 DEF Edge, Effects
    <3>4. taken = isa'.taken
      BY <2>2 DEF NpuInStep
    <3>5. QED
      BY <3>1, <3>3, <3>4 DEF Value
  <2>7. ex.instr.op \in ResultOps \ {"DEQD"} => Result = Value(isa', ex.instr)
    BY <2>2, <2>3, OperandsRight
  <2>8. ex.instr.op = "STORE" => StoreData = Get(isa', ex.instr.rd)
    <3>1. ex.instr.op = "STORE" => Operand1 = Get(isa', ForwardReg1(ex.instr))
      BY <2>2, <2>3, OperandsRight DEF Reads1
    <3>2. QED
      BY <3>1, PathsTyped DEF ForwardReg1
  <2>9. QED
    BY <2>2, <2>5, <2>6, <2>7, <2>8 DEF ResultInv
<1>4. QED
  BY <1>1, <1>2, <1>3

(* An operand read in decode is current when its instruction reaches       *)
(* execute, unless write-back is about to bring it.                        *)
LEMMA ReadRight ==
  ASSUME Types, ControlInv, RegistersInStep, NEW r \in Reg,
         wb'.instr = mem.instr, IF OnPath THEN isa' = Execute(isa, mem.instr) ELSE isa' = isa,
         NEW base, base = ReadPort(r)
  PROVE IF r = 0 THEN base = 0
        ELSE base = isa'.regs[r] \/ (Writes(wb'.instr) /\ wb'.instr.rd = r)
<1>1. CASE r = 0
  BY <1>1 DEF ReadPort
<1>2. CASE r # 0
  <2>1. base = isa.regs[r]
    BY <1>2 DEF ReadPort, RegistersInStep
  <2>2. CASE OnPath
    <3>1. mem.instr \in Plain /\ isa \in Machine /\ isa' = Execute(isa, mem.instr)
      BY <2>2, MemHolds
    <3>2. isa'.regs = IF Writes(mem.instr)
                      THEN [isa.regs EXCEPT ![mem.instr.rd] = Outcome(isa, mem.instr)]
                      ELSE isa.regs
      BY <3>1, ExecuteEffect
    <3>3. isa.regs \in [Reg -> Word] /\ mem.instr.rd \in Reg
      BY <3>1, Kinds, StageFields
    <3>4. QED
      BY <1>2, <2>1, <3>2, <3>3
  <2>3. CASE ~OnPath
    BY <1>2, <2>1, <2>3
  <2>4. QED
    BY <2>2, <2>3
<1>3. QED
  BY <1>1, <1>2

(* Rule 3 and the hazard unit at work: without a stall the load in execute *)
(* does not bring what the instruction in decode reads.                    *)
LEMMA NoHazard ==
  ASSUME Types, ControlInv, ~isa.halted, ~DataHazard, ex.instr.op = "LOAD"
  PROVE /\ instr.op \in Reads0 => ex.instr.rd # ForwardReg0(instr)
        /\ instr.op \in Reads1 => ex.instr.rd # ForwardReg1(instr)
<1>1. /\ ExOn /\ ex.instr = At(program, AfterMem) /\ ~ex.predict /\ ~Booting
  BY NothingFacts, NopTyped DEF ControlInv, RunInv, PredictInv, PathInv, ExPath, Booting
<1>2. /\ lastPC = After(AfterMem) /\ AfterMem \in Word /\ Disciplined(program)
      /\ instr = At(program, lastPC)
  BY <1>1, PathTyped DEF ControlInv, RunInv, PathInv, AfterEx, ExOn, Fetched
<1>3. instr.op \in {"LHW", "ENQD"} => instr.rd # ex.instr.rd
  BY <1>1, <1>2, LoadNeighbour
<1>4. ex.instr.rd # instr.rs /\ ex.instr.rd # IF instr.op = "STORE" THEN instr.rd ELSE instr.rt
  BY DEF DataHazard
<1>5. QED
  BY <1>3, <1>4 DEF Reads0, Reads1, ForwardReg0, ForwardReg1

(* The operands of the instruction that moves into execute. *)
LEMMA EdgeKeepsOperands ==
  ASSUME Types, ControlInv, OperandInv, RegistersInStep,
         NEW full \in BOOLEAN, NEW semi \in BOOLEAN, NEW ready \in BOOLEAN,
         Edge(full, semi, Drains, ready), Stalls(full, semi, ready)
  PROVE OperandInv'
<1>1. CASE full
  <2>1. /\ wasFull' = TRUE /\ ex' = ex /\ mem' = mem /\ wb' = wb /\ isa' = isa
        /\ held' = IF wasFull THEN held
                   ELSE [src0 |-> src0, src1 |-> src1, called |-> called,
                         exu |-> ExuResult, zero |-> zero, negative |-> negative]
    BY <1>1, FullEdge, StallTyped
  <2>2. held'.src0 = Base0 /\ held'.src1 = Base1
    BY <2>1 DEF Base0, Base1
  <2>3. Base0' = Base0 /\ Base1' = Base1
    BY <2>1, <2>2 DEF Base0, Base1
  <2>4. QED
    BY <2>1, <2>3 DEF OperandInv, Current, NoLoadOf
<1>2. CASE ~full /\ (BranchMiss \/ Drains \/ semi)
  <2>1. ex'.instr \in {Halt, Nothing}
    <3>1. CASE BranchMiss \/ Drains
      BY <1>2, <3>1, SquashEdge, StallTyped
    <3>2. CASE semi /\ ~BranchMiss /\ ~Drains
      <4>1. mem.instr.op # "HALT"
        BY <3>2 DEF Drains
      <4>2. QED
        BY <1>2, <3>2, <4>1, MoveEdge, StallTyped
    <3>3. QED
      BY <1>2, <3>1, <3>2
  <2>2. ex'.instr.op \notin Reads0 /\ ex'.instr.op \notin Reads1
    BY <2>1, HaltTyped, NothingFacts DEF Reads0, Reads1
  <2>3. QED
    BY <2>2 DEF OperandInv
<1>3. CASE ~full /\ ~BranchMiss /\ ~Drains /\ ~semi
  <2>1. mem.instr.op # "HALT" /\ ~isa.halted /\ ~DataHazard
    BY <1>3, HaltTyped DEF Drains, ControlInv, HaltInv, Stalls
  <2>2. /\ wasFull' = FALSE /\ mem'.instr = ex.instr /\ ex'.instr = instr /\ wb'.instr = mem.instr
        /\ IF OnPath THEN isa' = Execute(isa, mem.instr) ELSE isa' = isa
    BY <1>3, <2>1, MoveEdge, StallTyped
  <2>3. instr \in Plain
    BY DEF Types, FetchTypes
  <2>4. src0' = ReadPort(ReadReg0(instr)) /\ src1' = ReadPort(ReadReg1(instr))
    BY DEF Edge, Advance
  <2>5. ASSUME instr.op \in Reads0
        PROVE /\ IF ForwardReg0(instr) = 0 THEN Base0' = 0
                 ELSE \/ Base0' = isa'.regs[ForwardReg0(instr)]
                      \/ Writes(wb'.instr) /\ wb'.instr.rd = ForwardReg0(instr)
              /\ mem'.instr.op = "LOAD" => mem'.instr.rd # ForwardReg0(instr)
    <3>1. ReadReg0(instr) = ForwardReg0(instr) /\ ForwardReg0(instr) \in Reg
      BY <2>3, <2>5, ReadsTyped DEF Reads0, ReadReg0, ForwardReg0
    <3>2. Base0' = ReadPort(ForwardReg0(instr))
      BY <2>2, <2>4, <3>1 DEF Base0
    <3>3. mem'.instr.op = "LOAD" => mem'.instr.rd # ForwardReg0(instr)
      BY <2>1, <2>2, <2>5, NoHazard
    <3>4. QED
      BY <2>2, <3>1, <3>2, <3>3, ReadRight
  <2>6. ASSUME instr.op \in Reads1
        PROVE /\ IF ForwardReg1(instr) = 0 THEN Base1' = 0
                 ELSE \/ Base1' = isa'.regs[ForwardReg1(instr)]
                      \/ Writes(wb'.instr) /\ wb'.instr.rd = ForwardReg1(instr)
              /\ mem'.instr.op = "LOAD" => mem'.instr.rd # ForwardReg1(instr)
    <3>1. ReadReg1(instr) = ForwardReg1(instr) /\ ForwardReg1(instr) \in Reg
      BY <2>3, <2>6, ReadsTyped DEF Reads1, ReadReg1, ForwardReg1
    <3>2. Base1' = ReadPort(ForwardReg1(instr))
      BY <2>2, <2>4, <3>1 DEF Base1
    <3>3. mem'.instr.op = "LOAD" => mem'.instr.rd # ForwardReg1(instr)
      BY <2>1, <2>2, <2>6, NoHazard
    <3>4. QED
      BY <2>2, <3>1, <3>2, <3>3, ReadRight
  <2>7. QED
    BY <2>2, <2>5, <2>6 DEF OperandInv, Current, NoLoadOf
<1>4. QED
  BY <1>1, <1>2, <1>3

-----------------------------------------------------------------------------
(* The inductive invariant. *)

IInv == Types /\ ControlInv /\ OperandInv /\ ResultInv
        /\ RegistersInStep /\ MemoryInStep /\ NpuInStep

(* It holds when the reset ends. *)
LEMMA InitHolds == ASSUME Init, Disciplined(program) PROVE IInv
<1>1. /\ nextPC = 0 /\ lastNextPC = 0 /\ lastPC = 0 /\ instr = Nop
      /\ src0 = 0 /\ src1 = 0 /\ called = FALSE
      /\ ex = Bubble /\ mem = MemBubble /\ wb = WbBubble
      /\ dst = 0 /\ flagsEn = FALSE /\ zero = FALSE /\ negative = FALSE
      /\ npuDout = 0 /\ dequeued = FALSE /\ predictor = "TAKEN1"
      /\ wasFull = FALSE /\ wasSemi = FALSE /\ held = NotHeld /\ saved = NotSaved
      /\ regs = InitRegs /\ dmem = InitMem /\ taken = 0 /\ sent = << >>
      /\ isa = MachineInit(InitRegs, InitMem)
  BY DEF Init
<1>2. 0 \in Word /\ 0 \in 0 .. TokenCount - 1 /\ Nothing \in Carried
  BY SizeFact, IsaAssumption DEF Carried
<1>3. /\ ex.instr = Nothing /\ mem.instr = Nothing /\ wb.instr = Nothing
      /\ ex.predict = FALSE /\ mem.predict = FALSE
  BY <1>1 DEF Bubble, MemBubble, WbBubble
<1>4. /\ isa.pc = 0 /\ isa.regs = InitRegs /\ isa.mem = InitMem /\ isa.taken = 0
      /\ isa.halted = FALSE /\ isa.regs[0] = 0
  BY <1>1, PipelineAssumption DEF MachineInit
<1>5. Types
  <2>1. FetchTypes
    BY <1>1, <1>2, NopTyped DEF FetchTypes, NotSaved, SavedType
  <2>2. /\ ex \in Stage /\ mem \in MemStage /\ wb \in WbStage /\ held \in HeldType
    BY <1>1, <1>2 DEF Bubble, MemBubble, WbBubble, NotHeld, Stage, MemStage, WbStage, HeldType
  <2>3. StageTypes
    BY <1>1, <1>2, <2>2 DEF StageTypes
  <2>4. isa \in Machine
    BY <1>1, <1>2, PipelineAssumption DEF MachineInit, Machine
  <2>5. OutsideTypes
    BY <1>1, <1>2, <2>4, PipelineAssumption DEF OutsideTypes
  <2>6. QED
    BY <2>1, <2>3, <2>5 DEF Types
<1>6. ControlInv
  <2>1. ~MemOn /\ ~ExOn /\ AfterMem = 0 /\ AfterEx = 0
    BY <1>3, <1>4, NothingFacts DEF MemOn, ExOn, AfterMem, AfterEx
  <2>2. MemPath /\ ExPath
    BY <1>1, <1>3, <2>1, NopHarmless, NothingFacts, NopTyped DEF MemPath, ExPath
  <2>3. PathInv
    BY <1>1, <1>3, <1>4, <2>1, <2>2 DEF PathInv, Booting
  <2>4. ReplayInv /\ FlagInv
    BY <1>1, <1>3, NothingFacts DEF ReplayInv, FlagInv
  <2>5. PredictInv /\ HaltInv
    BY <1>3, <1>4 DEF PredictInv, HaltInv
  <2>6. QED
    BY <2>3, <2>4, <2>5 DEF ControlInv, RunInv
<1>7. OperandInv /\ ResultInv
  BY <1>3, NothingFacts DEF OperandInv, ResultInv, Reads0, Reads1, ResultOps
<1>8. RegistersInStep /\ MemoryInStep
  BY <1>1, <1>3, <1>4, NothingFacts DEF RegistersInStep, MemoryInStep
<1>9. NpuInStep
  <2>1. ~OnPath
    BY <1>3, NothingFacts DEF OnPath
  <2>2. QED
    BY <1>1, <1>4, <2>1 DEF NpuInStep
<1>10. QED
  BY <1>5, <1>6, <1>7, <1>8, <1>9 DEF IInv

(* Every clock edge keeps it. *)
LEMMA ClockKeeps == ASSUME IInv, NEW ready \in BOOLEAN, NEW npuWait \in BOOLEAN,
                           Clock(ready, npuWait)
                    PROVE IInv'
<1> DEFINE full == FullStall(ready, npuWait)
           semi == SemiStall(ready, npuWait)
<1>1. /\ Types /\ ControlInv /\ OperandInv /\ ResultInv
      /\ RegistersInStep /\ MemoryInStep /\ NpuInStep
  BY DEF IInv
<1>2. full \in BOOLEAN /\ semi \in BOOLEAN /\ Edge(full, semi, Drains, ready)
  BY StallTyped, ClockEdge
<1>3. Stalls(full, semi, ready)
  BY <1>1, ClockStalls
<1>4. Types' /\ ControlInv'
  BY <1>1, ClockKeepsTypes, ClockKeepsControl
<1> HIDE DEF full, semi
<1>5. OperandInv'
  BY <1>1, <1>2, <1>3, EdgeKeepsOperands
<1>6. ResultInv'
  BY <1>1, <1>2, <1>3, <1>4, EdgeKeepsResult
<1>7. RegistersInStep'
  BY <1>1, <1>2, EdgeKeepsRegisters
<1>8. MemoryInStep'
  BY <1>1, <1>2, <1>3, EdgeKeepsMemory
<1>9. NpuInStep'
  BY <1>1, <1>2, <1>3, <1>4, EdgeKeepsNpu
<1>10. QED
  BY <1>4, <1>5, <1>6, <1>7, <1>8, <1>9 DEF IInv

(* So does a step in which nothing changes. *)
LEMMA StutterKeeps == ASSUME IInv, UNCHANGED vars PROVE IInv'
<1>1. /\ program' = program /\ nextPC' = nextPC /\ lastNextPC' = lastNextPC /\ lastPC' = lastPC
      /\ instr' = instr /\ src0' = src0 /\ src1' = src1 /\ called' = called
      /\ ex' = ex /\ mem' = mem /\ wb' = wb /\ dst' = dst /\ flagsEn' = flagsEn
      /\ zero' = zero /\ negative' = negative /\ npuDout' = npuDout /\ dequeued' = dequeued
      /\ predictor' = predictor /\ wasFull' = wasFull /\ wasSemi' = wasSemi
      /\ held' = held /\ saved' = saved /\ regs' = regs /\ dmem' = dmem
      /\ taken' = taken /\ sent' = sent /\ isa' = isa
  BY DEF vars, fetch, execute, outside
<1>2. Types'
  BY <1>1 DEF IInv, Types, FetchTypes, StageTypes, OutsideTypes
<1>3. ControlInv'
  <2>1. (MemOn' <=> MemOn) /\ AfterMem' = AfterMem
    BY <1>1 DEF MemOn, AfterMem
  <2>2. (ExOn' <=> ExOn) /\ AfterEx' = AfterEx
    BY <1>1, <2>1 DEF ExOn, AfterEx
  <2>3. PathInv' <=> PathInv
    BY <1>1, <2>1, <2>2 DEF PathInv, MemPath, ExPath, Booting, Fetched
  <2>4. (ReplayInv' <=> ReplayInv) /\ (FlagInv' <=> FlagInv)
    BY <1>1, <2>1 DEF ReplayInv, FlagInv
  <2>5. (PredictInv' <=> PredictInv) /\ (HaltInv' <=> HaltInv)
    BY <1>1 DEF PredictInv, HaltInv
  <2>6. QED
    BY <1>1, <2>3, <2>4, <2>5 DEF IInv, ControlInv, RunInv
<1>4. OperandInv'
  BY <1>1 DEF IInv, OperandInv, Base0, Base1, Current, NoLoadOf
<1>5. ExuResult' = ExuResult /\ WbValue' = WbValue /\ (OnPath' <=> OnPath)
  BY <1>1 DEF ExuResult, WbValue, OnPath
<1>6. ResultInv'
  BY <1>1, <1>5 DEF IInv, ResultInv
<1>7. RegistersInStep'
  BY <1>1, <1>5 DEF IInv, RegistersInStep
<1>8. MemoryInStep'
  BY <1>1, <1>5 DEF IInv, MemoryInStep
<1>9. NpuInStep'
  BY <1>1, <1>5 DEF IInv, NpuInStep, Accounted
<1>10. QED
  BY <1>2, <1>3, <1>4, <1>6, <1>7, <1>8, <1>9 DEF IInv

(* The invariant implies what the runs check. *)
LEMMA InvariantMeans ==
  IInv => TypeOK /\ PathInStep /\ RegistersInStep /\ MemoryInStep /\ NpuInStep
<1> SUFFICES ASSUME IInv
             PROVE TypeOK /\ PathInStep /\ RegistersInStep /\ MemoryInStep /\ NpuInStep
  OBVIOUS
<1>1. Types /\ ControlInv /\ RegistersInStep /\ MemoryInStep /\ NpuInStep
  BY DEF IInv
<1>2. Len(sent) \leq 1
  <2>1. sent = << >> \/ (\E x : sent = <<x>>)
    BY <1>1, SendsOne DEF NpuInStep, Accounted
  <2>2. ASSUME NEW x, sent = <<x>> PROVE Len(sent) \leq 1
    <3>1. Len(sent) = 1
      BY <2>2
    <3>2. QED
      BY <3>1
  <2>3. CASE sent = << >>
    <3>1. Len(sent) = 0
      BY <2>3
    <3>2. QED
      BY <3>1
  <2>4. QED
    BY <2>1, <2>2, <2>3
<1>3. /\ instr.op \in Ops /\ ex.instr.op \in Ops \cup {"NONE"}
      /\ mem.instr.op \in Ops \cup {"NONE"} /\ wb.instr.op \in Ops \cup {"NONE"}
  <2>1. instr.op \in Ops
    BY <1>1, Kinds DEF Types, FetchTypes
  <2>2. QED
    BY <1>1, <2>1, StageFields, CarriedTyped
<1>4. {src0, src1, dst, npuDout, ex.next, ex.target, mem.next, mem.target, mem.data,
       wb.exu, wb.data} \subseteq Word
  BY <1>1, StageFields DEF Types, StageTypes, OutsideTypes
<1>5. {called, flagsEn, zero, negative, dequeued, wasFull, wasSemi} \subseteq BOOLEAN
  BY <1>1 DEF Types, FetchTypes, StageTypes
<1>6. TypeOK
  BY <1>1, <1>2, <1>3, <1>4, <1>5 DEF TypeOK, Types, FetchTypes, OutsideTypes
<1>7. PathInStep
  <2>1. SUFFICES ASSUME mem.instr \notin {Nothing, Nop}
                 PROVE OnPath \/ (isa.halted /\ mem.instr.op = "HALT")
    BY DEF PathInStep
  <2>2. CASE isa.halted
    BY <1>1, <2>2, HaltTyped DEF ControlInv, HaltInv
  <2>3. CASE ~isa.halted
    BY <1>1, <2>1, <2>3, MemHolds DEF ControlInv, RunInv, PathInv, MemPath
  <2>4. QED
    BY <2>2, <2>3
<1>8. QED
  BY <1>1, <1>6, <1>7

-----------------------------------------------------------------------------
(* The theorems: of every program that keeps the rules of software and     *)
(* makes no calls, whatever the memory and the NPU do.                     *)

(* The invariant holds throughout. *)
THEOREM Invariance == Spec /\ Disciplined(program) => []IInv
<1>1. Init /\ Disciplined(program) => IInv
  BY InitHolds
<1>2. IInv /\ [Next]_vars => IInv'
  <2>1. ASSUME IInv, Next PROVE IInv'
    <3>1. PICK ready \in BOOLEAN, npuWait \in BOOLEAN : Clock(ready, npuWait)
      BY <2>1 DEF Next
    <3>2. QED
      BY <2>1, <3>1, ClockKeeps
  <2>2. ASSUME IInv, UNCHANGED vars PROVE IInv'
    BY <2>2, StutterKeeps
  <2>3. QED
    BY <2>1, <2>2
<1>3. QED
  BY <1>1, <1>2, PTL DEF Spec

(* Every register of the pipeline keeps to its type, and never more than   *)
(* one word for the NPU waits for its instruction.                         *)
THEOREM TypeCorrect == Spec /\ Disciplined(program) => []TypeOK
BY Invariance, InvariantMeans, PTL

(* Branch prediction, squashing and stalls never bring to the memory stage *)
(* an instruction that is not the program's next one.                      *)
THEOREM PathKept == Spec /\ Disciplined(program) => []PathInStep
BY Invariance, InvariantMeans, PTL

(* Forwarding and stalls leave in the register file what the instructions, *)
(* executed one after the other, leave there.                              *)
THEOREM RegistersKept == Spec /\ Disciplined(program) => []RegistersInStep
BY Invariance, InvariantMeans, PTL

(* So is what stores leave in the data memory, however long it takes.      *)
THEOREM MemoryKept == Spec /\ Disciplined(program) => []MemoryInStep
BY Invariance, InvariantMeans, PTL

(* The NPU gets every word of ENQC and ENQD once, in order and with its    *)
(* value, and gives DEQD each result once, however often it is full or     *)
(* empty.                                                                  *)
THEOREM NpuKept == Spec /\ Disciplined(program) => []NpuInStep
BY Invariance, InvariantMeans, PTL
=============================================================================
