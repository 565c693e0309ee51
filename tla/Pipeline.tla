------------------------------- MODULE Pipeline -------------------------------
(***************************************************************************)
(* The processor: fetch, decode, execute, memory and write-back, with its  *)
(* branch predictor, forwarding, hazard detection and the two kinds of     *)
(* stall.  One Clock step is one clock edge for every register.            *)
(*                                                                         *)
(* Registers are read and written in different ways: ex, mem and wb hold   *)
(* while the pipeline is fully stalled, but the operands, the result and   *)
(* the flags come from registers that run on, so their values are put by   *)
(* when a stall begins (held, saved).                                      *)
(***************************************************************************)
EXTENDS Isa

CONSTANTS Programs,     \* the programs, one of which is loaded
          InitRegs,     \* what the registers hold when the reset ends
          InitMem       \* what the data memory holds then

ASSUME PipelineAssumption ==
  /\ InitRegs \in [Reg -> Word] /\ InitRegs[0] = 0
  /\ InitMem \in [Word -> Word]

VARIABLES program,      \* the instruction memory
          nextPC, lastNextPC, lastPC,   \* the fetch unit's program counters
          instr,        \* the instruction in decode
          src0, src1, called,           \* operands read and the call, one cycle later
          ex, mem, wb,  \* the instruction in each stage and what it carries
          dst, flagsEn, zero, negative, \* the ALU's result and flags
          npuDout, dequeued,            \* the NPU's result and its select
          predictor,    \* the two bit branch predictor
          wasFull, wasSemi, held, saved, \* last cycle's stalls and what they put by
          regs, dmem,   \* register file and data memory
          taken, sent,  \* NPU: results taken, words sent and not yet accounted for
          isa           \* the reference machine after what has left the memory stage

fetch == <<nextPC, lastNextPC, lastPC, instr, wasFull, wasSemi, saved, predictor>>
execute == <<src0, src1, called, ex, dst, flagsEn, zero, negative, dequeued, held>>
outside == <<regs, dmem, npuDout, taken, sent>>
vars == <<program, fetch, execute, mem, wb, outside, isa>>

Nothing == Instr("NONE", 0, 0, 0, 0)
Bubble == [instr |-> Nothing, next |-> 0, predict |-> FALSE, target |-> 0]
MemBubble == [instr |-> Nothing, next |-> 0, predict |-> FALSE, target |-> 0, data |-> 0]
WbBubble == [instr |-> Nothing, exu |-> 0, data |-> 0]
NotHeld == [src0 |-> 0, src1 |-> 0, called |-> FALSE, exu |-> 0, zero |-> FALSE, negative |-> FALSE]
NotSaved == [branch |-> 0, miss |-> 0, ret |-> 0]

Init ==
  /\ program \in Programs
  /\ nextPC = 0 /\ lastNextPC = 0 /\ lastPC = 0 /\ instr = Nop
  /\ src0 = 0 /\ src1 = 0 /\ called = FALSE
  /\ ex = Bubble /\ mem = MemBubble /\ wb = WbBubble
  /\ dst = 0 /\ flagsEn = FALSE /\ zero = FALSE /\ negative = FALSE
  /\ npuDout = 0 /\ dequeued = FALSE
  /\ predictor = "TAKEN1"
  /\ wasFull = FALSE /\ wasSemi = FALSE /\ held = NotHeld /\ saved = NotSaved
  /\ regs = InitRegs /\ dmem = InitMem
  /\ taken = 0 /\ sent = << >>
  /\ isa = MachineInit(InitRegs, InitMem)

-----------------------------------------------------------------------------
(* The decoder (Control.v). *)
Writes(i) == i.op \notin {"FLUSH", "BRANCH", "STORE", "HALT", "ENQC", "ENQD", "NONE"}
WriteReg(i) == IF i.op \in {"CALL", "RET"} THEN 1 ELSE i.rd
ReadReg0(i) == IF i.op \in {"LHW", "ENQD"} THEN i.rd
               ELSE IF i.op \in {"CALL", "RET"} THEN 1 ELSE i.rs
ReadReg1(i) == IF i.op = "STORE" THEN i.rd
               ELSE IF i.op = "LOAD" THEN i.rs
               ELSE IF i.op = "RET" THEN 0 ELSE i.rt
SetsFlags(i) == i.op \in {"ADD", "SUB"}
UsesMemory(i) == i.op \in {"LOAD", "STORE", "CALL", "RET", "FLUSH"}
WritesMemory(i) == i.op \in {"STORE", "CALL"}
UsesImmediate(i) == i.op \in {"LHW", "LLW", "LOAD", "STORE", "ENQC"}
UsesNpu(i) == i.op \in {"ENQC", "ENQD", "DEQD"}

-----------------------------------------------------------------------------
(***************************************************************************)
(* What a program must do for the pipeline to be a faithful machine.  The  *)
(* assembler checks none of it; the repository's programs without calls    *)
(* do it, InverseKinematics.txt does not (see MCReturnPrograms).           *)
(***************************************************************************)
Target(p, i) == i + 1 + p[i].imm        \* of a branch; places count from 1
Conditional(i) == i.op = "BRANCH" /\ i.cond # "UNCON"
WritesStackPointer(i) == Writes(i) /\ WriteReg(i) = 1

SoftwareRules(p) ==
  \A i \in DOMAIN p :
    LET here == p[i]
        next == p[i + 1]                \* read where there is one
        last == i = Len(p)
    IN /\ Conditional(here) => i > 1 /\ SetsFlags(p[i - 1])
       /\ here.op = "BRANCH" =>
            /\ Target(p, i) \in DOMAIN p
            /\ ~Conditional(p[Target(p, i)]) /\ ~UsesNpu(p[Target(p, i)])
            /\ ~last => ~UsesNpu(next)
       /\ here.op = "HALT" /\ ~last => ~UsesNpu(next)
       /\ here.op = "LOAD" /\ ~last =>
            /\ next.op \in {"LHW", "ENQD"} => next.rd # here.rd
            /\ next.op = "BRANCH" => here.rd \notin {next.rs, next.rt}
       /\ WritesStackPointer(here) =>
            \A j \in {i + 1, i + 2} \cap DOMAIN p : p[j].op \notin {"CALL", "RET"}
       /\ here.op = "CALL" =>
            \A j \in {here.imm + 1, here.imm + 2} : p[j].op \notin {"CALL", "RET"}
       /\ here.op = "RET" => \A j \in i + 1 .. i + 3 : p[j] = Nop

(* Programs the decoder knows, which leave room behind them. *)
WellFormed(p) ==
  /\ p \in Seq(Instruction) /\ Len(p) < Size
  /\ \A i \in DOMAIN p : p[i].op = "BRANCH" => p[i].cond \in Conditions
CallFree(p) == \A i \in DOMAIN p : p[i].op \notin {"CALL", "RET"}
Disciplined(p) == WellFormed(p) /\ CallFree(p) /\ SoftwareRules(p)

-----------------------------------------------------------------------------
(* Stalls: npuWait is the full or empty flag of the FIFO the instruction   *)
(* in execute uses, ready the data cache's answer.                         *)
(* Seeded fault: a stall that has begun does not end. *)
FullStallSticky(ready, npuWait) ==
  \/ wasFull
  \/ UsesNpu(ex.instr) /\ npuWait
  \/ UsesMemory(mem.instr) /\ ~ready
FullStall(ready, npuWait) ==
  \/ UsesNpu(ex.instr) /\ npuWait
  \/ UsesMemory(mem.instr) /\ ~ready

DataHazard ==
  /\ ex.instr.op = "LOAD"
  /\ ex.instr.rd \in {instr.rs, IF instr.op = "STORE" THEN instr.rd ELSE instr.rt}

(* Branches are settled in the memory stage. *)
BranchTaken ==
  /\ mem.instr.op = "BRANCH"
  /\ Holds(mem.instr.cond, IF wasFull THEN held.zero ELSE zero,
                           IF wasFull THEN held.negative ELSE negative)
BranchMiss == BranchTaken # mem.predict
MissAddress == IF mem.predict THEN mem.next ELSE mem.target

SemiStall(ready, npuWait) == DataHazard /\ ~BranchMiss /\ ~FullStall(ready, npuWait)

-----------------------------------------------------------------------------
(* Fetch and decode. *)
(* Seeded fault: the stalled instruction is not fetched again. *)
NextPCNoReplay(semi) == nextPC
(* The hold of this counter by haltPC is left out: behind a HALT no stage  *)
(* is filled any more, and what is fetched is of no effect.                *)
NextPC(semi) == IF semi /\ ~wasSemi THEN lastNextPC ELSE nextPC
BranchAddress(semi) == (NextPC(semi) + instr.imm) % Size
Predicted == instr.op = "BRANCH" /\ predictor \in {"TAKEN1", "TAKEN2"}

(* The fetch address by priority: a mispredicted branch, a call in decode, *)
(* a return in write-back, a branch predicted taken, the next instruction. *)
NewPC(semi) ==
  CASE BranchMiss /\ ~semi -> IF wasSemi THEN saved.miss ELSE MissAddress
    [] ~BranchMiss /\ instr.op = "CALL" /\ ~semi -> instr.imm
    [] ~BranchMiss /\ instr.op # "CALL" /\ wb.instr.op = "RET" /\ ~semi ->
         IF wasSemi THEN saved.ret ELSE wb.data
    [] ~BranchMiss /\ instr.op # "CALL" /\ wb.instr.op # "RET" /\ Predicted /\ ~semi ->
         IF wasSemi THEN saved.branch ELSE BranchAddress(semi)
    [] OTHER -> NextPC(semi)

(* What write-back stores, and the register file read past it. *)
WbValue == CASE wb.instr.op = "LOAD" -> wb.data
             [] wb.instr.op = "RET" -> (wb.exu + 1) % Size
             [] OTHER -> wb.exu
ReadPort(r) == IF r = 0 THEN 0
               ELSE IF Writes(wb.instr) /\ WriteReg(wb.instr) = r THEN WbValue
               ELSE regs[r]

PredictorNext ==
  IF mem.instr.op # "BRANCH" THEN predictor
  ELSE IF BranchTaken
       THEN [TAKEN1 |-> "TAKEN1", TAKEN2 |-> "TAKEN1",
             NOT_TAKEN1 |-> "TAKEN2", NOT_TAKEN2 |-> "NOT_TAKEN1"][predictor]
       ELSE [TAKEN1 |-> "TAKEN2", TAKEN2 |-> "NOT_TAKEN1",
             NOT_TAKEN1 |-> "NOT_TAKEN2", NOT_TAKEN2 |-> "NOT_TAKEN2"][predictor]

-----------------------------------------------------------------------------
(* Execute: the operands, forwarded from the two stages ahead. *)
(* Seeded fault: ENQD takes its operand like an ADD. *)
ForwardReg0AsAdd(i) == IF i.op = "ENQC" THEN 0 ELSE i.rs
ForwardReg0(i) == IF i.op = "ENQC" THEN 0 ELSE IF i.op \in {"ENQD", "LHW"} THEN i.rd ELSE i.rs
(* Seeded fault: STORE takes its data like an ADD. *)
ForwardReg1AsAdd(i) == IF i.op \in {"ENQC", "ENQD"} THEN 0 ELSE i.rt
ForwardReg1(i) == IF i.op \in {"ENQC", "ENQD"} THEN 0
                  ELSE IF i.op = "STORE" THEN i.rd ELSE i.rt

ExuResult == IF wasFull THEN held.exu ELSE IF dequeued THEN npuDout ELSE dst

(* Seeded fault: the older of two results wins. *)
ForwardedOldest(r, value) ==
  IF r # 0 /\ Writes(wb.instr) /\ wb.instr.rd = r THEN WbValue
  ELSE IF r # 0 /\ Writes(mem.instr) /\ mem.instr.rd = r THEN ExuResult
  ELSE value
Forwarded(r, value) ==
  IF r # 0 /\ Writes(mem.instr) /\ mem.instr.rd = r THEN ExuResult
  ELSE IF r # 0 /\ Writes(wb.instr) /\ wb.instr.rd = r THEN WbValue
  ELSE value

Operand0 == Forwarded(ForwardReg0(ex.instr), IF wasFull THEN held.src0 ELSE src0)
Operand1 == Forwarded(ForwardReg1(ex.instr), IF wasFull THEN held.src1 ELSE src1)
IsCall == IF wasFull THEN held.called ELSE called

(* The other instructions' results are never read. *)
Result ==
  LET b == IF UsesImmediate(ex.instr) THEN ex.instr.imm % Size
           ELSE IF IsCall THEN Size - 1 ELSE Operand1
  IN CASE ex.instr.op \in {"ADD", "LOAD", "STORE", "CALL", "RET"} -> AddWords(Operand0, b)
       [] ex.instr.op = "SUB" -> SubWords(Operand0, b)
       [] ex.instr.op = "LLW" -> b
       [] ex.instr.op = "LHW" -> HighWord(Operand0, b)
       [] OTHER -> 0

(* The word given to the NPU, not while anything stalls. *)
(* Seeded fault: the write enable ignores the stalls. *)
NpuWordUngated(stall) ==
  CASE ex.instr.op = "ENQC" -> << <<"config", ex.instr.imm>> >>
    [] ex.instr.op = "ENQD" -> << <<"data", Operand0>> >>
    [] OTHER -> << >>
NpuWord(stall) ==
  CASE ex.instr.op = "ENQC" /\ ~stall -> << <<"config", ex.instr.imm>> >>
    [] ex.instr.op = "ENQD" /\ ~stall -> << <<"data", Operand0>> >>
    [] OTHER -> << >>

StoreData == IF IsCall THEN ex.next ELSE Operand1

-----------------------------------------------------------------------------
(* The instruction in memory leaves when nothing stalls.  The reference    *)
(* machine follows it if it is the next one on the program's path.         *)
OnPath == ~isa.halted /\ mem.instr.op # "NONE" /\ (isa.pc + 1) % Size = mem.next
Accounted == Sends(isa, mem.instr)

Fetch(full, semi, drain) ==
  /\ wasFull' = full
  /\ wasSemi' = semi
  /\ predictor' = PredictorNext
  /\ saved' = IF semi /\ ~wasSemi
              THEN [branch |-> BranchAddress(semi), miss |-> MissAddress, ret |-> wb.data]
              ELSE NotSaved     \* read in the next cycle only
  /\ instr' = At(program, IF full THEN lastPC ELSE NewPC(semi))
  /\ lastPC' = IF full THEN lastPC ELSE NewPC(semi)
  /\ nextPC' = IF full \/ semi THEN nextPC
               ELSE IF drain THEN 0 ELSE (NewPC(semi) + 1) % Size
  /\ lastNextPC' = IF full THEN lastNextPC ELSE nextPC

Advance(full, semi, drain, ready) ==
  /\ src0' = ReadPort(ReadReg0(instr))
  /\ src1' = ReadPort(ReadReg1(instr))
  /\ called' = (instr.op = "CALL")
  /\ held' = IF ~full THEN NotHeld      \* read in the cycle after a stall only
             ELSE IF wasFull THEN held
             ELSE [src0 |-> src0, src1 |-> src1, called |-> called,
                   exu |-> ExuResult, zero |-> zero, negative |-> negative]
  /\ ex' = IF full THEN ex
           ELSE IF BranchMiss \/ drain \/ semi
           THEN [Bubble EXCEPT !.instr = IF mem.instr.op = "HALT" THEN Halt ELSE Nothing]
           ELSE [instr |-> instr, next |-> NextPC(semi), predict |-> Predicted,
                 target |-> IF wasSemi THEN saved.branch ELSE BranchAddress(semi)]
  /\ dst' = Result
  /\ flagsEn' = SetsFlags(ex.instr)
  /\ zero' = IF flagsEn THEN dst = 0 ELSE zero
  /\ negative' = IF flagsEn THEN Signed(dst) < 0 ELSE negative
  /\ dequeued' = (ex.instr.op = "DEQD")
  /\ mem' = IF full THEN mem
            ELSE IF BranchMiss \/ drain
            THEN [MemBubble EXCEPT !.instr = IF mem.instr.op = "HALT" THEN Halt ELSE Nothing]
            ELSE [instr |-> ex.instr, next |-> ex.next, predict |-> ex.predict,
                  target |-> ex.target, data |-> StoreData]
  /\ wb' = IF full THEN wb
           ELSE [instr |-> mem.instr, exu |-> ExuResult,
                 data |-> IF mem.instr.op \in {"LOAD", "RET"} THEN dmem[ExuResult] ELSE 0]

Effects(stall, ready) ==
  /\ regs' = IF Writes(wb.instr) THEN [regs EXCEPT ![WriteReg(wb.instr)] = WbValue] ELSE regs
  /\ dmem' = IF WritesMemory(mem.instr) /\ ready THEN [dmem EXCEPT ![ExuResult] = mem.data]
             ELSE dmem
  /\ IF ex.instr.op = "DEQD" /\ ~stall
     THEN npuDout' = Token[taken] /\ taken' = (taken + 1) % TokenCount
     ELSE UNCHANGED <<npuDout, taken>>

(* One clock edge. *)
Clock(ready, npuWait) ==
  LET full == FullStall(ready, npuWait)
      semi == SemiStall(ready, npuWait)
      drain == mem.instr.op \in {"RET", "HALT"}
      word == NpuWord(full \/ semi)
  IN /\ Fetch(full, semi, drain)
     /\ Advance(full, semi, drain, ready)
     /\ Effects(full \/ semi, ready)
     /\ IF OnPath /\ ~full
        THEN /\ isa' = Execute(isa, mem.instr)
             /\ sent' = SubSeq(sent, 1 + Len(Accounted), Len(sent)) \o word
        ELSE isa' = isa /\ sent' = sent \o word
     /\ UNCHANGED program

Next == \E ready, npuWait \in BOOLEAN : Clock(ready, npuWait)

Spec == Init /\ [][Next]_vars

(* The memory answers and the NPU's FIFOs give way again and again. *)
FairSpec == Spec /\ WF_vars(Clock(TRUE, FALSE))

-----------------------------------------------------------------------------
TypeOK ==
  /\ nextPC \in Word /\ lastNextPC \in Word /\ lastPC \in Word
  /\ instr.op \in Ops /\ ex.instr.op \in Ops \cup {"NONE"}
  /\ mem.instr.op \in Ops \cup {"NONE"} /\ wb.instr.op \in Ops \cup {"NONE"}
  /\ {src0, src1, dst, npuDout, ex.next, ex.target, mem.next, mem.target, mem.data,
      wb.exu, wb.data} \subseteq Word
  /\ {called, flagsEn, zero, negative, dequeued, wasFull, wasSemi} \subseteq BOOLEAN
  /\ predictor \in {"TAKEN1", "TAKEN2", "NOT_TAKEN1", "NOT_TAKEN2"}
  /\ regs \in [Reg -> Word] /\ dmem \in [Word -> Word]
  /\ taken \in 0 .. TokenCount - 1 /\ Len(sent) \leq 1

(* Whatever the pipeline fetched, predicted and squashed, an instruction   *)
(* that reaches the memory stage is the one the program executes next.     *)
PathInStep == mem.instr \notin {Nothing, Nop} =>
  OnPath \/ (isa.halted /\ mem.instr.op = "HALT")

(* The register file, with the instruction in write-back applied, holds    *)
(* what executing one instruction after the other leaves.                  *)
RegistersInStep ==
  \A r \in Reg :
    isa.regs[r] = IF Writes(wb.instr) /\ WriteReg(wb.instr) = r THEN WbValue ELSE regs[r]

(* So does the data memory, up to the store the memory stage is making.    *)
MemoryInStep ==
  \/ dmem = isa.mem
  \/ OnPath /\ WritesMemory(mem.instr) /\ dmem = Execute(isa, mem.instr).mem

(* The NPU is sent each word once, in order and with the right value, and  *)
(* a result is taken once, however long the FIFOs and the memory make the  *)
(* pipeline wait.                                                          *)
NpuInStep ==
  /\ sent = IF OnPath THEN Accounted ELSE << >>
  /\ taken = IF OnPath THEN Execute(isa, mem.instr).taken ELSE isa.taken

(* The pipeline never stops for good but at a HALT. *)
KeepsCommitting ==
  \/ <>(isa.halted)
  \/ []<><< \E ready, npuWait \in BOOLEAN :
              /\ OnPath /\ ~FullStall(ready, npuWait)
              /\ Clock(ready, npuWait) >>_vars
=============================================================================
