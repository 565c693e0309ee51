---------------------------- MODULE DCacheProofs ----------------------------
(***************************************************************************)
(* The D-cache keeps one clean copy of a block and implements              *)
(* CoherentMemory, for every geometry of the cache and every latency of    *)
(* the arbiter: theorems about CachedMemory.                               *)
(***************************************************************************)
EXTENDS CachedMemory, TLAPS

(* The wires of the cache's neighbours and the DDR2 keep their types. *)
WiresOK ==
  /\ mem_ready \in BOOLEAN
  /\ mem_rd \in Block
  /\ IO_ready \in BOOLEAN
  /\ ddr \in [BlockAddr -> Block]

(* The controller leaves IDLE only under a request to the cache. *)
Engaged == State # "IDLE" => int_cache_valid

(* Tags are compared and lines filled for loads and stores only. *)
Lookup == State \in {"COMPARE_TAG", "ALLOCATE", "ALLOCATE_IDLE"} => ~cpu.flush

(* The read port has caught up with the array where it is used. *)
PortFresh ==
  State \in {"COMPARE_TAG", "ALLOCATE", "WRITE_BACK"} =>
    \A w \in Way : line[w] = memory[w][counter]

(* The controller serves a miss. *)
ServesMiss == State = "ALLOCATE" \/ (State = "WRITE_BACK" /\ ~flush_flag)

(* A block is fetched only while neither way holds it. *)
Missing == ServesMiss => \A w \in Way : ~Holds(w, << cpu.tag, cpu.index >>)

(* A miss goes through WRITE_BACK only for a dirty victim. *)
EvictsDirty == State = "WRITE_BACK" /\ ~flush_flag => victimDirty

(* What a fill is answered with is the block it asked for. *)
FillAnswer ==
  State = "ALLOCATE" /\ mem_ready => mem_rd = ddr[<< cpu.tag, cpu.index >>]

(* A flush starts at the first line of a way and ends having passed the    *)
(* last line of both: outside a flush the count is back at 0.              *)
CountAtRest == ~flush_flag => count = 0

Control == Engaged /\ Lookup /\ PortFresh /\ EvictsDirty /\ CountAtRest

Contents == Missing /\ FillAnswer /\ OneCopy /\ CleanMatches

IInv == TypeOK /\ WiresOK /\ Control /\ Contents

----------------------------------------------------------------------------
(* Typing *)

(* The line addressed lies in the arrays, also in the middle of a flush. *)
LEMMA CounterInRange == ASSUME TypeOK PROVE counter \in Index
<1> USE DCacheAssumption DEF DCacheAssumption
<1>1. cpu.index \in Index
  BY DEF TypeOK, Request
<1>2. count % Sets \in Index
  BY DEF TypeOK, Index
<1> QED
  BY <1>1, <1>2 DEF counter

(* What a fill or a flush is addressed with is a tag. *)
LEMMA TagInRange == ASSUME TypeOK PROVE addr_tag \in Tag
  BY DCacheAssumption DEF DCacheAssumption, addr_tag, TypeOK, Request

(* The flush count stays within the lines of the two ways and wraps. *)
LEMMA NextCountInRange ==
  ASSUME TypeOK
  PROVE  /\ NextCount \in 0 .. 2 * Sets - 1
         /\ count = 2 * Sets - 1 => NextCount = 0
<1> USE DCacheAssumption DEF DCacheAssumption
<1>1. 2 * Sets \in Nat /\ 2 * Sets > 1 /\ count \in Nat
  BY DEF TypeOK
<1>2. (count + 1) % (2 * Sets) \in 0 .. 2 * Sets - 1
  BY <1>1
<1>3. (2 * Sets - 1 + 1) % (2 * Sets) = 0
  BY <1>1
<1> QED
  BY <1>2, <1>3 DEF NextCount

(* What the cache stores is a line. *)
LEMMA StoredLineTyped ==
  ASSUME TypeOK, NEW w \in Way PROVE StoredLine(w) \in Line
<1>1. line[w] \in Line /\ cpu.offset \in Offset /\ cpu.wr \in Word
  BY DEF TypeOK, Request
<1>2. [line[w].data EXCEPT ![cpu.offset] = cpu.wr] \in Block
  BY <1>1 DEF Line, Block
<1> QED
  BY <1>2, TagInRange DEF StoredLine, Line

(* The processor's requests are well formed. *)
LEMMA RequestsTyped == ASSUME TypeOK, CpuStep PROVE cpu' \in Request
<1> USE DCacheAssumption DEF DCacheAssumption
<1>1. NoRequest \in Request
  BY DEF NoRequest, Request, Index, Offset
<1>2. Flush \in Request /\ IOAccess \in Request
  BY <1>1 DEF Flush, IOAccess, NoRequest, Request
<1>3. Loads \subseteq Request
  BY <1>1, CachedMemoryAssumption
  DEF CachedMemoryAssumption, Loads, NoRequest, Request
<1>4. StoreRequests \subseteq Request
  <2> SUFFICES ASSUME NEW s \in Stores
               PROVE  [valid |-> TRUE, flush |-> FALSE, io |-> FALSE, rw |-> TRUE,
                       tag |-> s[1], index |-> s[2], offset |-> s[3],
                       wr |-> s[4]] \in Request
    BY DEF StoreRequests
  <2>1. s[1] \in Tag /\ s[2] \in Index /\ s[3] \in Offset /\ s[4] \in Word
    BY CachedMemoryAssumption DEF CachedMemoryAssumption
  <2> QED
    BY <2>1 DEF Request
<1> QED
  BY <1>1, <1>2, <1>3, <1>4 DEF CpuStep, TypeOK

(* A clock edge of the cache keeps the types of its registers. *)
LEMMA StepTyped ==
  ASSUME TypeOK, WiresOK, Step
  PROVE  /\ State' \in {"IDLE", "COMPARE_TAG", "WRITE_BACK", "ALLOCATE", "ALLOCATE_IDLE"}
         /\ lru' \in Way
         /\ count' \in 0 .. 2 * Sets - 1
         /\ memory' \in [Way -> [Index -> Line]]
         /\ valid_bit' \in [Way -> [Index -> BOOLEAN]]
         /\ line' \in [Way -> Line]
<1>1. State' \in {"IDLE", "COMPARE_TAG", "WRITE_BACK", "ALLOCATE", "ALLOCATE_IDLE"}
  BY DEF Step, Start, Hit, Miss, Evicted, Flushed, Filled, Settle, AwaitMemory,
         GoTo, AfterMiss
<1>2. lru' \in Way
  BY DEF TypeOK, Way, Turn, Step, Start, Hit, Miss, Evicted, Flushed, Filled,
         Settle, AwaitMemory
<1>3. count' \in 0 .. 2 * Sets - 1
  <2>1. CASE Evicted
    BY <2>1, DCacheAssumption DEF DCacheAssumption, Evicted
  <2>2. CASE Flushed
    BY <2>2, NextCountInRange DEF Flushed
  <2>3. CASE ~Evicted /\ ~Flushed
    BY <2>3 DEF TypeOK, Step, Start, Hit, Miss, Filled, Settle, AwaitMemory
  <2> QED
    BY <2>1, <2>2, <2>3
<1>4. memory' \in [Way -> [Index -> Line]]
  <2>1. CASE Hit
    <3>1. \A w \in Way : StoredLine(w) \in Line /\ memory[w] \in [Index -> Line]
      BY StoredLineTyped DEF TypeOK
    <3> QED
      BY <2>1, <3>1 DEF Hit
  <2>2. CASE Filled
    <3>1. [data |-> mem_rd, tag |-> addr_tag, dirty |-> FALSE] \in Line
      BY TagInRange DEF WiresOK, Line
    <3>2. lru \in Way /\ memory \in [Way -> [Index -> Line]]
      BY DEF TypeOK
    <3> QED
      BY <2>2, <3>1, <3>2 DEF Filled
  <2>3. CASE ~Hit /\ ~Filled
    BY <2>3 DEF TypeOK, Step, Start, Miss, Evicted, Flushed, Settle, AwaitMemory
  <2> QED
    BY <2>1, <2>2, <2>3
<1>5. valid_bit' \in [Way -> [Index -> BOOLEAN]]
  <2>1. CASE Filled
    BY <2>1 DEF TypeOK, Filled
  <2>2. CASE ~Filled
    BY <2>2 DEF TypeOK, Step, Start, Hit, Miss, Evicted, Flushed, Settle, AwaitMemory
  <2> QED
    BY <2>1, <2>2
<1>6. line' \in [Way -> Line]
  <2>1. \A w \in Way : memory[w][counter] \in Line
    BY CounterInRange DEF TypeOK
  <2>2. ReadPort
    BY DEF Step, Start, Hit, Miss, Evicted, Flushed, Filled, Settle, AwaitMemory
  <2> QED
    BY <2>1, <2>2 DEF ReadPort
<1> QED
  BY <1>1, <1>2, <1>3, <1>4, <1>5, <1>6

(* What the arbiter's port and the IO block do keeps the wires' types. *)
LEMMA WiresTyped ==
  ASSUME TypeOK, WiresOK, IOStep, PortWaits \/ PortWrites \/ PortReads
  PROVE  WiresOK'
<1>1. ZeroBlock \in Block
  BY DCacheAssumption DEF DCacheAssumption, ZeroBlock, Block
<1>2. mem_addr \in BlockAddr /\ mem_wr \in Block
  <2>1. lru \in Way /\ line[lru] \in Line /\ cpu \in Request
    BY DEF TypeOK
  <2>2. << line[lru].tag, counter >> \in BlockAddr /\ << cpu.tag, cpu.index >> \in BlockAddr
    BY <2>1, CounterInRange DEF Line, Request, BlockAddr
  <2>3. << 0, 0 >> \in BlockAddr
    BY DCacheAssumption DEF DCacheAssumption, BlockAddr, Index
  <2>4. line[lru].data \in Block
    BY <2>1 DEF Line
  <2> QED
    BY <1>1, <2>2, <2>3, <2>4 DEF mem_addr, mem_wr
<1>3. IO_ready' \in BOOLEAN
  BY DEF IOStep, WiresOK
<1>4. CASE PortWaits
  BY <1>1, <1>3, <1>4 DEF PortWaits, WiresOK
<1>5. CASE PortWrites
  BY <1>2, <1>3, <1>5 DEF PortWrites, WiresOK
<1>6. CASE PortReads
  <2>1. ddr[mem_addr] \in Block
    BY <1>2 DEF WiresOK
  <2> QED
    BY <1>3, <1>6, <2>1 DEF PortReads, WiresOK
<1> QED
  BY <1>4, <1>5, <1>6

----------------------------------------------------------------------------
(* Control *)

(* A request to the cache stands still until the cache is done with it. *)
LEMMA RequestStands ==
  ASSUME CpuStep, int_cache_valid, ~tag_matched, ~cache_flushed
  PROVE  cpu' = cpu
  BY DEF CpuStep, Stalled, cache_ready, int_cache_valid

(* In COMPARE_TAG a request is kept over a miss, in the states after it    *)
(* until the tags are compared again.                                      *)
LEMMA MissStands ==
  ASSUME IInv, CpuStep, State # "IDLE", ~Hit, ~Flushed, Step
  PROVE  cpu' = cpu
<1>1. int_cache_valid
  BY DEF IInv, Control, Engaged
<1>2. ~tag_matched
  BY DEF tag_matched, Step, Hit, Start, Miss, Evicted, Flushed, Filled, Settle, AwaitMemory
<1>3. ~cache_flushed
  BY DEF cache_flushed, Step, Hit, Start, Miss, Evicted, Flushed, Filled, Settle, AwaitMemory
<1> QED
  BY <1>1, <1>2, <1>3, RequestStands

(* A request taken from IDLE is kept. *)
LEMMA StartStands ==
  ASSUME CpuStep, Start, int_cache_valid
  PROVE  cpu' = cpu
  BY RequestStands DEF Start, tag_matched, cache_flushed

(* Where the controller is after an edge, and that it keeps the request.   *)
LEMMA Moves ==
  ASSUME IInv, Step, CpuStep, State' # "IDLE"
  PROVE  /\ cpu' = cpu /\ int_cache_valid
         /\ \/ Start /\ State' = (IF cpu.flush THEN "WRITE_BACK" ELSE "COMPARE_TAG")
            \/ Miss /\ State' = AfterMiss
            \/ Evicted /\ State' = "ALLOCATE"
            \/ Filled /\ State' = "ALLOCATE_IDLE"
            \/ Settle /\ State' = "COMPARE_TAG"
            \/ AwaitMemory /\ State' = State
<1>1. ~Hit /\ ~Flushed
  BY DEF Hit, Flushed, GoTo
<1>2. int_cache_valid
  BY DEF Step, Start, Hit, Miss, Evicted, Flushed, Filled, Settle, AwaitMemory, GoTo
<1>3. CASE State = "IDLE"
  <2>1. Start
    BY <1>3 DEF Step, Start, Hit, Miss, Evicted, Flushed, Filled, Settle, AwaitMemory
  <2>2. cpu' = cpu
    BY <2>1, <1>2, StartStands
  <2> QED
    BY <2>1, <2>2, <1>2 DEF Start, GoTo
<1>4. CASE State # "IDLE"
  <2>1. cpu' = cpu
    BY <1>1, <1>4, MissStands
  <2> QED
    BY <1>1, <1>2, <1>4, <2>1
    DEF Step, Start, Miss, Evicted, Filled, Settle, AwaitMemory, GoTo
<1> QED
  BY <1>3, <1>4

(* The controller leaves IDLE for a request only, and keeps it. *)
LEMMA EngagedKept == ASSUME IInv, Step, CpuStep PROVE Engaged'
  BY Moves DEF Engaged, int_cache_valid

(* A flush goes from IDLE to WRITE_BACK and back. *)
LEMMA LookupKept == ASSUME IInv, Step, CpuStep PROVE Lookup'
<1> SUFFICES ASSUME State' \in {"COMPARE_TAG", "ALLOCATE", "ALLOCATE_IDLE"}
             PROVE  ~cpu'.flush
  BY DEF Lookup
<1>1. cpu' = cpu /\ int_cache_valid
  BY Moves
<1>2. CASE State = "IDLE"
  BY <1>1, <1>2, Moves DEF Start, Miss, Evicted, Filled, Settle, AwaitMemory
<1>3. CASE State \in {"COMPARE_TAG", "ALLOCATE", "ALLOCATE_IDLE"}
  BY <1>1, <1>3 DEF IInv, Control, Lookup
<1>4. CASE State = "WRITE_BACK"
  <2>1. Evicted
    BY <1>4, Moves DEF Start, Miss, Filled, Settle, AwaitMemory
  <2> QED
    BY <1>1, <2>1 DEF Evicted, flush_flag
<1> QED
  BY <1>2, <1>3, <1>4 DEF IInv, TypeOK

(* The states that use the read port follow an edge that wrote no line,    *)
(* under the same request.                                                 *)
LEMMA PortFreshKept == ASSUME IInv, Step, CpuStep PROVE PortFresh'
<1> SUFFICES ASSUME State' \in {"COMPARE_TAG", "ALLOCATE", "WRITE_BACK"}, NEW w \in Way
             PROVE  line'[w] = memory'[w][counter']
  BY DEF PortFresh
<1>1. cpu' = cpu /\ (Start \/ Miss \/ Evicted \/ Settle \/ AwaitMemory)
  BY Moves
<1>2. line'[w] = memory[w][counter] /\ memory' = memory
  BY <1>1 DEF Start, Miss, Evicted, Settle, AwaitMemory, ReadPort
<1>3. counter' = counter
  <2>1. flush_flag' = flush_flag
    BY <1>1 DEF flush_flag, int_cache_valid
  <2>2. flush_flag => count' = count
    BY <1>1 DEF Start, Miss, Evicted, Settle, AwaitMemory
  <2> QED
    BY <1>1, <2>1, <2>2 DEF counter
<1> QED
  BY <1>2, <1>3

(* A miss enters WRITE_BACK for a dirty victim, which stays the victim.    *)
LEMMA EvictsDirtyKept == ASSUME IInv, Step, CpuStep PROVE EvictsDirty'
<1> SUFFICES ASSUME State' = "WRITE_BACK", ~flush_flag'
             PROVE  victimDirty'
  BY DEF EvictsDirty
<1>1. cpu' = cpu /\ int_cache_valid
  BY Moves
<1>2. ~flush_flag /\ ~cpu.flush
  BY <1>1 DEF flush_flag, int_cache_valid
<1>3. (Miss /\ State' = AfterMiss) \/ (AwaitMemory /\ State = "WRITE_BACK")
  BY <1>2, Moves
<1>4. victimDirty
  BY <1>2, <1>3 DEF AfterMiss, IInv, Control, EvictsDirty
<1>5. lru' = lru /\ valid_bit' = valid_bit /\ ReadPort
  BY <1>3 DEF Miss, AwaitMemory, Turn, AtLastLine
<1>6. counter' = counter
  <2>1. flush_flag' = flush_flag
    BY <1>1 DEF flush_flag, int_cache_valid
  <2> QED
    BY <1>1, <1>2, <2>1 DEF counter
<1>7. line'[lru] = line[lru]
  <2>1. State \in {"COMPARE_TAG", "WRITE_BACK"}
    BY <1>3 DEF Miss
  <2>2. lru \in Way
    BY DEF IInv, TypeOK
  <2> QED
    BY <1>5, <2>1, <2>2 DEF ReadPort, IInv, Control, PortFresh
<1> QED
  BY <1>4, <1>5, <1>6, <1>7 DEF victimDirty, valid

(* A flush that is answered has wrapped its count; one that is not goes on. *)
LEMMA CountAtRestKept == ASSUME IInv, Step, CpuStep PROVE CountAtRest'
<1> SUFFICES ASSUME ~flush_flag'
             PROVE  count' = 0
  BY DEF CountAtRest
<1>1. CASE Evicted
  BY <1>1 DEF Evicted
<1>2. CASE Flushed
  <2>1. cpu' # cpu
    BY <1>2 DEF Flushed, flush_flag, int_cache_valid
  <2>2. int_cache_valid /\ ~tag_matched
    BY <1>2 DEF Flushed, flush_flag, tag_matched
  <2>3. cache_flushed
    BY <2>1, <2>2, RequestStands
  <2> QED
    BY <1>2, <2>3, NextCountInRange DEF Flushed, cache_flushed, IInv
<1>3. CASE ~Evicted /\ ~Flushed
  <2>1. count' = count
    BY <1>3 DEF Step, Start, Hit, Miss, Filled, Settle, AwaitMemory
  <2>2. CASE ~flush_flag
    BY <2>1, <2>2 DEF IInv, Control, CountAtRest
  <2>3. CASE flush_flag
    <3>1. int_cache_valid /\ cpu.flush
      BY <2>3 DEF flush_flag
    <3>2. ~tag_matched
      BY <3>1 DEF tag_matched, IInv, Control, Lookup
    <3>3. ~cache_flushed
      BY <1>3 DEF cache_flushed, Step, Start, Hit, Miss, Filled, Settle, AwaitMemory
    <3>4. cpu' = cpu
      BY <3>1, <3>2, <3>3, RequestStands
    <3> QED
      BY <2>3, <3>4 DEF flush_flag, int_cache_valid
  <2> QED
    BY <2>2, <2>3
<1> QED
  BY <1>1, <1>2, <1>3

----------------------------------------------------------------------------
(* Contents *)

(* What the arbiter's port may do at an edge. *)
PortStep == PortWaits \/ PortWrites \/ PortReads

(* Under a load or store the arrays are addressed with its block. *)
LEMMA Addressed ==
  ASSUME ~flush_flag PROVE counter = cpu.index /\ addr_tag = cpu.tag
  BY DEF counter, addr_tag

(* A hit changes no tag, and what it changes becomes dirty. *)
LEMMA HitLines ==
  ASSUME IInv, Hit, NEW w \in Way, NEW i \in Index
  PROVE  /\ memory'[w][i].tag = memory[w][i].tag
         /\ memory'[w][i] = memory[w][i] \/ memory'[w][i].dirty
         /\ valid_bit' = valid_bit
<1>1. memory[w] \in [Index -> Line] /\ counter \in Index
  BY CounterInRange DEF IInv, TypeOK
<1>2. memory'[w] = IF StoresTo(w) THEN [memory[w] EXCEPT ![counter] = StoredLine(w)]
                                  ELSE memory[w]
  BY DEF Hit
<1>3. CASE StoresTo(w) /\ i = counter
  <2>1. memory'[w][i] = StoredLine(w)
    BY <1>1, <1>2, <1>3
  <2>2. StoredLine(w).tag = addr_tag /\ StoredLine(w).dirty
    BY DEF StoredLine
  <2>3. line[w].tag = addr_tag
    BY <1>3 DEF StoresTo, way
  <2>4. line[w] = memory[w][counter]
    BY DEF Hit, IInv, Control, PortFresh
  <2> QED
    BY <1>3, <2>1, <2>2, <2>3, <2>4 DEF Hit
<1>4. CASE ~(StoresTo(w) /\ i = counter)
  <2>1. memory'[w][i] = memory[w][i]
    BY <1>1, <1>2, <1>4
  <2> QED
    BY <2>1 DEF Hit
<1> QED
  BY <1>3, <1>4

(* A fill puts the block asked for, clean, in one line. *)
LEMMA FilledLines ==
  ASSUME IInv, Filled, NEW w \in Way, NEW i \in Index
  PROVE  IF w = lru /\ i = cpu.index
         THEN /\ memory'[w][i].tag = cpu.tag
              /\ memory'[w][i].data = ddr[<< cpu.tag, cpu.index >>]
              /\ valid_bit'[w][i]
         ELSE memory'[w][i] = memory[w][i] /\ valid_bit'[w][i] = valid_bit[w][i]
<1>1. ~flush_flag
  BY DEF Filled, flush_flag, IInv, Control, Lookup
<1>2. counter = cpu.index /\ addr_tag = cpu.tag
  BY <1>1, Addressed
<1>3. counter \in Index /\ lru \in Way
  BY CounterInRange DEF IInv, TypeOK
<1>4. mem_rd = ddr[<< cpu.tag, cpu.index >>]
  BY DEF Filled, IInv, Contents, FillAnswer
<1>5. memory \in [Way -> [Index -> Line]] /\ valid_bit \in [Way -> [Index -> BOOLEAN]]
  BY DEF IInv, TypeOK
<1> QED
  BY <1>2, <1>3, <1>4, <1>5 DEF Filled

(* All other edges leave the lines alone. *)
LEMMA OtherLines ==
  ASSUME Step, ~Hit, ~Filled
  PROVE  memory' = memory /\ valid_bit' = valid_bit
  BY DEF Step, Start, Miss, Evicted, Flushed, Settle, AwaitMemory

(* A miss is served with the lines it missed among. *)
LEMMA MissingKept == ASSUME IInv, Step, CpuStep PROVE Missing'
<1> SUFFICES ASSUME ServesMiss', NEW w \in Way
             PROVE  ~Holds(w, << cpu.tag, cpu.index >>)'
  BY DEF Missing
<1>1. cpu' = cpu /\ int_cache_valid
  BY Moves DEF ServesMiss
<1>2. flush_flag' = flush_flag
  BY <1>1 DEF flush_flag, int_cache_valid
<1>3. Miss \/ Evicted \/ (AwaitMemory /\ State' = State)
  <2>1. ~Filled /\ ~Settle
    BY Moves DEF ServesMiss, Filled, Settle, GoTo
  <2>2. ~Start
    BY <1>1, <1>2 DEF ServesMiss, Start, GoTo, flush_flag
  <2> QED
    BY <2>1, <2>2, Moves DEF ServesMiss
<1>4. memory' = memory /\ valid_bit' = valid_bit
  BY <1>3 DEF Miss, Evicted, AwaitMemory
<1>5. ~Holds(w, << cpu.tag, cpu.index >>)
  <2>1. CASE Miss
    <3>1. ~flush_flag
      BY <2>1 DEF Miss, flush_flag, IInv, Control, Lookup
    <3>2. counter = cpu.index /\ addr_tag = cpu.tag
      BY <3>1, Addressed
    <3>3. line[w] = memory[w][counter]
      BY <2>1 DEF Miss, IInv, Control, PortFresh
    <3>4. ~way(w)
      BY <2>1 DEF Miss, hit, Way
    <3> QED
      BY <3>2, <3>3, <3>4 DEF way, valid, Holds
  <2>2. CASE Evicted \/ (AwaitMemory /\ State' = State)
    <3>1. ServesMiss
      BY <1>2, <2>2 DEF ServesMiss, Evicted
    <3> QED
      BY <3>1 DEF IInv, Contents, Missing
  <2> QED
    BY <1>3, <2>1, <2>2
<1> QED
  BY <1>1, <1>4, <1>5 DEF Holds

(* The port answers a fill with the block on its address wires. *)
LEMMA FillAnswerKept == ASSUME IInv, Step, CpuStep, PortStep PROVE FillAnswer'
<1> SUFFICES ASSUME State' = "ALLOCATE", mem_ready'
             PROVE  mem_rd' = ddr'[<< cpu'.tag, cpu'.index >>]
  BY DEF FillAnswer
<1>1. ~mem_ready /\ mem_valid_out /\ (PortWrites \/ PortReads)
  BY DEF PortStep, PortWaits, PortWrites, PortReads
<1>2. cpu' = cpu
  BY Moves
<1>3. State = "ALLOCATE"
  <2>1. ~Miss
    BY <1>1 DEF Miss, mem_valid_out, flushing
  <2>2. ~Evicted
    BY <1>1 DEF Evicted, flush_int, IInv, Control, EvictsDirty
  <2> QED
    BY <2>1, <2>2, Moves DEF Start, Filled, Settle
<1>4. ~mem_rw /\ mem_addr = << cpu.tag, cpu.index >>
  BY <1>3 DEF mem_rw, flushing, mem_addr
<1> QED
  BY <1>1, <1>2, <1>4 DEF PortWrites, PortReads

(* A fill is the only edge that gives a line a new tag, and it follows a   *)
(* miss of that tag in both ways.                                          *)
LEMMA OneCopyKept == ASSUME IInv, Step PROVE OneCopy'
<1> SUFFICES ASSUME NEW b \in BlockAddr
             PROVE  ~(Holds(0, b)' /\ Holds(1, b)')
  BY DEF OneCopy
<1>1. ~(Holds(0, b) /\ Holds(1, b))
  BY DEF IInv, Contents, OneCopy
<1>2. b[2] \in Index /\ 0 \in Way /\ 1 \in Way
  BY DEF BlockAddr, Way
<1>3. CASE Hit
  <2>1. \A w \in Way : Holds(w, b)' = Holds(w, b)
    BY <1>2, <1>3, HitLines DEF Holds
  <2> QED
    BY <1>1, <1>2, <2>1
<1>4. CASE Filled
  <2>1. \A w \in Way : ~Holds(w, << cpu.tag, cpu.index >>)
    BY <1>4 DEF Filled, IInv, Contents, Missing, ServesMiss
  <2>2. CASE b[2] = cpu.index /\ b[1] = cpu.tag
    <3>1. \A w \in Way : w # lru => ~Holds(w, b)'
      BY <1>2, <1>4, <2>1, <2>2, FilledLines DEF Holds
    <3> QED
      BY <1>2, <3>1
  <2>3. CASE ~(b[2] = cpu.index /\ b[1] = cpu.tag)
    <3>1. \A w \in Way : Holds(w, b)' => Holds(w, b)
      BY <1>2, <1>4, <2>3, FilledLines DEF Holds
    <3> QED
      BY <1>1, <1>2, <3>1
  <2> QED
    BY <2>2, <2>3
<1>5. CASE ~Hit /\ ~Filled
  BY <1>1, <1>5, OtherLines DEF Holds
<1> QED
  BY <1>3, <1>4, <1>5

(* The port writes a dirty victim, read from the array one edge before. *)
LEMMA WritesVictim ==
  ASSUME IInv, PortWrites
  PROVE  /\ State = "WRITE_BACK" /\ victimDirty
         /\ ddr' = [ddr EXCEPT ![<< memory[lru][counter].tag, counter >>] =
                                  memory[lru][counter].data]
<1>1. State = "WRITE_BACK"
  BY DEF PortWrites, mem_rw, flushing
<1>2. victimDirty
  BY <1>1 DEF PortWrites, mem_rw, flushing, IInv, Control, EvictsDirty
<1>3. line[lru] = memory[lru][counter]
  BY <1>1 DEF IInv, TypeOK, Control, PortFresh
<1> QED
  BY <1>1, <1>2, <1>3 DEF PortWrites, mem_addr, mem_wr

(* The block of another valid line is left alone by that write, because no *)
(* two lines hold the same block.                                          *)
LEMMA WritesOwnBlock ==
  ASSUME IInv, PortWrites, NEW w \in Way, NEW i \in Index, valid_bit[w][i]
  PROVE  ddr'[<< memory[w][i].tag, i >>] =
           IF w = lru /\ i = counter THEN memory[w][i].data
                                     ELSE ddr[<< memory[w][i].tag, i >>]
<1> DEFINE victim == memory[lru][counter]
<1>1. counter \in Index /\ lru \in Way /\ victim \in Line /\ memory[w][i] \in Line
  BY CounterInRange DEF IInv, TypeOK
<1>2. << victim.tag, counter >> \in BlockAddr /\ << memory[w][i].tag, i >> \in BlockAddr
  BY <1>1 DEF Line, BlockAddr
<1>3. valid_bit[lru][counter]
        /\ ddr' = [ddr EXCEPT ![<< victim.tag, counter >>] = victim.data]
  BY WritesVictim DEF victimDirty, valid
<1>4. ddr \in [BlockAddr -> Block]
  BY DEF IInv, WiresOK
<1>5. CASE << victim.tag, counter >> = << memory[w][i].tag, i >>
  <2>1. Holds(w, << memory[w][i].tag, i >>) /\ Holds(lru, << memory[w][i].tag, i >>)
    BY <1>3, <1>5 DEF Holds
  <2>2. w = lru
    BY <1>1, <1>2, <2>1 DEF IInv, Contents, OneCopy, Way
  <2> QED
    BY <1>2, <1>3, <1>4, <1>5, <2>2
<1>6. CASE << victim.tag, counter >> # << memory[w][i].tag, i >>
  BY <1>2, <1>3, <1>4, <1>6
<1> QED
  BY <1>5, <1>6

(* A clean line equals the DDR2: a fill makes it so, a write to the DDR2   *)
(* is of a dirty line's own block.                                         *)
LEMMA CleanMatchesKept ==
  ASSUME IInv, Step, PortStep PROVE CleanMatches'
<1> SUFFICES ASSUME NEW w \in Way, NEW i \in Index,
                    valid_bit'[w][i], ~memory'[w][i].dirty
             PROVE  memory'[w][i].data = ddr'[<< memory'[w][i].tag, i >>]
  BY DEF CleanMatches
<1>1. valid_bit[w][i] /\ ~memory[w][i].dirty =>
        memory[w][i].data = ddr[<< memory[w][i].tag, i >>]
  BY DEF IInv, Contents, CleanMatches
<1>2. CASE PortWrites
  <2>1. memory' = memory /\ valid_bit' = valid_bit
    BY <1>2, WritesVictim, OtherLines DEF Hit, Filled
  <2> QED
    BY <1>1, <1>2, <2>1, WritesOwnBlock
<1>3. CASE ddr' = ddr
  <2>1. CASE Hit
    BY <1>1, <1>3, <2>1, HitLines
  <2>2. CASE Filled
    BY <1>1, <1>3, <2>2, FilledLines
  <2>3. CASE ~Hit /\ ~Filled
    BY <1>1, <1>3, <2>3, OtherLines
  <2> QED
    BY <2>1, <2>2, <2>3
<1> QED
  BY <1>2, <1>3 DEF PortStep, PortWaits, PortReads

----------------------------------------------------------------------------
(* The invariant *)

(* The invariant holds at power-up, with every line invalid. *)
LEMMA InitIInv == ASSUME CacheInit PROVE IInv
<1> USE DCacheAssumption DEF DCacheAssumption
<1>1. ZeroBlock \in Block
  BY DEF ZeroBlock, Block
<1>2. ZeroLine \in Line
  BY <1>1 DEF ZeroLine, Line
<1>3. NoRequest \in Request
  BY DEF NoRequest, Request, Index, Offset
<1>4. TypeOK
  BY <1>2, <1>3 DEF TypeOK, CacheInit, Init, Way
<1>5. WiresOK
  BY <1>1 DEF WiresOK, CacheInit
<1>6. Control
  BY DEF CacheInit, Init, Control, Engaged, Lookup, PortFresh, EvictsDirty, CountAtRest
<1>7. Contents
  <2>1. Missing /\ FillAnswer
    BY DEF CacheInit, Init, Missing, ServesMiss, FillAnswer
  <2>2. \A w \in Way, i \in Index : ~valid_bit[w][i]
    BY DEF CacheInit, Init
  <2>3. OneCopy
    BY <2>2 DEF OneCopy, Holds, BlockAddr, Way
  <2>4. CleanMatches
    BY <2>2 DEF CleanMatches
  <2> QED
    BY <2>1, <2>3, <2>4 DEF Contents
<1> QED
  BY <1>4, <1>5, <1>6, <1>7 DEF IInv

(* A reset re-establishes the invariant whatever the arrays hold: no line  *)
(* is valid.                                                               *)
LEMMA ResetIInv == ASSUME IInv, CacheReset PROVE IInv'
<1> USE DCacheAssumption DEF DCacheAssumption
<1>1. ZeroBlock \in Block
  BY DEF ZeroBlock, Block
<1>2. ZeroLine \in Line
  BY <1>1 DEF ZeroLine, Line
<1>3. NoRequest \in Request
  BY DEF NoRequest, Request, Index, Offset
<1>4. TypeOK'
  BY <1>2, <1>3 DEF IInv, TypeOK, CacheReset, Reset, Way
<1>5. WiresOK'
  BY <1>1 DEF IInv, WiresOK, CacheReset
<1>6. Control'
  BY DEF CacheReset, Reset, Control, Engaged, Lookup, PortFresh, EvictsDirty, CountAtRest
<1>7. Contents'
  <2>1. Missing' /\ FillAnswer'
    BY DEF CacheReset, Reset, Missing, ServesMiss, FillAnswer
  <2>2. \A w \in Way, i \in Index : ~valid_bit'[w][i]
    BY DEF CacheReset, Reset
  <2>3. OneCopy'
    BY <2>2 DEF OneCopy, Holds, BlockAddr, Way
  <2>4. CleanMatches'
    BY <2>2 DEF CleanMatches
  <2> QED
    BY <2>1, <2>3, <2>4 DEF Contents
<1> QED
  BY <1>4, <1>5, <1>6, <1>7 DEF IInv

(* A clock edge keeps it, whatever the port and the IO block do. *)
LEMMA LogicIInv == ASSUME IInv, Logic, PortStep PROVE IInv'
<1>1. Step /\ CpuStep /\ IOStep
  BY DEF Logic
<1>2. TypeOK'
  <2>1. TypeOK /\ WiresOK
    BY DEF IInv
  <2>2. cpu' \in Request
    BY <1>1, <2>1, RequestsTyped
  <2> QED
    BY <1>1, <2>1, <2>2, StepTyped DEF TypeOK
<1>3. WiresOK'
  BY <1>1, WiresTyped DEF IInv, PortStep
<1>4. Control'
  BY <1>1, EngagedKept, LookupKept, PortFreshKept, EvictsDirtyKept, CountAtRestKept
  DEF Control
<1>5. Contents'
  BY <1>1, MissingKept, FillAnswerKept, OneCopyKept, CleanMatchesKept DEF Contents
<1> QED
  BY <1>2, <1>3, <1>4, <1>5 DEF IInv

(* An edge at which nothing changes keeps it. *)
LEMMA StutterIInv == ASSUME IInv, UNCHANGED vars PROVE IInv'
<1> USE DEF vars, regs
<1>1. TypeOK' /\ WiresOK'
  BY DEF IInv, TypeOK, WiresOK
<1>2. flush_flag' = flush_flag /\ counter' = counter /\ victimDirty' = victimDirty
  BY DEF flush_flag, int_cache_valid, counter, victimDirty, valid
<1>3. Control'
  BY <1>2 DEF IInv, Control, Engaged, int_cache_valid, Lookup, PortFresh, EvictsDirty,
              CountAtRest
<1>4. Contents'
  BY <1>2 DEF IInv, Contents, Missing, ServesMiss, FillAnswer, OneCopy, CleanMatches, Holds
<1> QED
  BY <1>1, <1>3, <1>4 DEF IInv

(* The strengthened invariant of the cache in its environment: the request *)
(* stands while it is served, the read port is fresh where it is used, a   *)
(* block is fetched only while no way holds it.                            *)
THEOREM Invariance == Spec => []IInv
<1>1. CacheInit => IInv
  BY InitIInv
<1>2. IInv /\ [Next]_vars => IInv'
  BY LogicIInv, ResetIInv, StutterIInv DEF Next, PortAnswers, Tick, PortStep
<1> QED
  BY <1>1, <1>2, PTL DEF Spec

(* The registers and arrays of the cache keep the widths the Verilog gives *)
(* them, the flush count included.                                         *)
THEOREM TypeCorrect == Spec => []TypeOK
<1>1. IInv => TypeOK
  BY DEF IInv
<1> QED
  BY <1>1, Invariance, PTL

(* No block is ever in both ways of the cache, whatever the stores, fills, *)
(* flushes and resets: the hit logic never has two lines to choose from.   *)
THEOREM SingleCopy == Spec => []OneCopy
<1>1. IInv => OneCopy
  BY DEF IInv, Contents
<1> QED
  BY <1>1, Invariance, PTL

(* A valid line that is not dirty equals the DDR2, so that replacing it    *)
(* without a write-back, as the controller does, loses nothing.            *)
THEOREM CleanLinesMatch == Spec => []CleanMatches
<1>1. IInv => CleanMatches
  BY DEF IInv, Contents
<1> QED
  BY <1>1, Invariance, PTL

(* Outside a flush the flush count is back at the first line, so that the  *)
(* next flush again passes every line of both ways.                        *)
THEOREM FlushCountRests == Spec => []CountAtRest
<1>1. IInv => CountAtRest
  BY DEF IInv, Control
<1> QED
  BY <1>1, Invariance, PTL
-----------------------------------------------------------------------------
(***************************************************************************)
(* The D-cache implements CoherentMemory.  To the invariant above this     *)
(* adds what has reached the DDR2 and when: the line a miss replaces is    *)
(* saved before it is overwritten, and a flush leaves behind it only lines *)
(* that equal the DDR2.                                                    *)
(***************************************************************************)

(* A line that may be dropped: it is invalid or equals the DDR2. *)
Saved(w, i) ==
  valid_bit[w][i] => memory[w][i].data = ddr[<< memory[w][i].tag, i >>]

(* The write is answered once it is done. *)
WriteAnswer == State = "WRITE_BACK" /\ mem_ready => ddr[mem_addr] = mem_wr

(* The fill overwrites a line that is saved. *)
VictimSaved == State = "ALLOCATE" => Saved(lru, counter)

(* The lines a flush has passed: first those of way lru; the ways then     *)
(* turn, and the other way follows.                                        *)
Passed(w, i) ==
  IF count < Sets THEN w = lru /\ i < count
                  ELSE w # lru \/ i < count - Sets

PassedSaved == flush_flag => \A w \in Way, i \in Index : Passed(w, i) => Saved(w, i)

SInv == WriteAnswer /\ VictimSaved /\ PassedSaved

----------------------------------------------------------------------------
(* What is saved *)

(* A clean line may be dropped. *)
LEMMA CleanSaved ==
  ASSUME IInv, NEW w \in Way, NEW i \in Index, ~memory[w][i].dirty
  PROVE  Saved(w, i)
  BY DEF IInv, Contents, CleanMatches, Saved

(* Once the controller need not wait for memory, the victim is saved. *)
LEMMA VictimReady ==
  ASSUME IInv, WriteAnswer, State \in {"COMPARE_TAG", "WRITE_BACK"},
         ~victimDirty \/ (State = "WRITE_BACK" /\ mem_ready)
  PROVE  Saved(lru, counter)
<1>1. lru \in Way /\ counter \in Index
  BY CounterInRange DEF IInv, TypeOK
<1>2. line[lru] = memory[lru][counter]
  BY <1>1 DEF IInv, Control, PortFresh
<1>3. CASE State = "WRITE_BACK" /\ mem_ready
  BY <1>2, <1>3 DEF WriteAnswer, mem_addr, mem_wr, Saved
<1>4. CASE ~victimDirty
  <2>1. CASE ~valid_bit[lru][counter]
    BY <2>1 DEF Saved
  <2>2. CASE ~memory[lru][counter].dirty
    BY <1>1, <2>2, CleanSaved
  <2> QED
    BY <1>2, <1>4, <2>1, <2>2 DEF victimDirty, valid
<1> QED
  BY <1>3, <1>4

(* The DDR2 is written only while the controller waits for it. *)
LEMMA WritesWait ==
  ASSUME IInv, Step, PortWrites
  PROVE  AwaitMemory
<1>1. State = "WRITE_BACK" /\ victimDirty /\ ~mem_ready
  BY WritesVictim DEF PortWrites
<1> QED
  BY <1>1 DEF Step, Start, Hit, Miss, Evicted, Flushed, Filled, Settle, AwaitMemory,
              flush_int

(* What is saved stays so at every edge that changes no line. *)
LEMMA SavedKept ==
  ASSUME IInv, Step, PortStep, ~Hit, ~Filled,
         NEW w \in Way, NEW i \in Index, Saved(w, i)
  PROVE  Saved(w, i)'
<1>1. memory' = memory /\ valid_bit' = valid_bit
  BY OtherLines
<1>2. CASE ddr' = ddr
  BY <1>1, <1>2 DEF Saved
<1>3. CASE PortWrites
  <2> SUFFICES ASSUME valid_bit[w][i]
               PROVE  memory[w][i].data = ddr'[<< memory[w][i].tag, i >>]
    BY <1>1 DEF Saved
  <2> QED
    BY <1>3, WritesOwnBlock DEF Saved
<1> QED
  BY <1>2, <1>3 DEF PortStep, PortWaits, PortReads

(* While the controller waits in WRITE_BACK the wires to memory stand. *)
LEMMA WiresStand ==
  ASSUME IInv, Step, CpuStep, AwaitMemory
  PROVE  /\ State' = State /\ cpu' = cpu /\ counter' = counter /\ lru' = lru
         /\ State = "WRITE_BACK" => line'[lru] = line[lru] /\ victimDirty'
<1>1. State' = State /\ State # "IDLE"
  BY DEF AwaitMemory, GoTo, IInv, Control, Engaged
<1>2. cpu' = cpu
  BY <1>1, Moves
<1>3. lru' = lru /\ count' = count /\ valid_bit' = valid_bit /\ ReadPort
  BY DEF AwaitMemory, Turn, AtLastLine
<1>4. counter' = counter
  BY <1>2, <1>3 DEF counter, flush_flag, int_cache_valid
<1>5. CASE State = "WRITE_BACK"
  <2>1. line'[lru] = line[lru]
    BY <1>3, <1>5 DEF ReadPort, IInv, TypeOK, Control, PortFresh
  <2>2. victimDirty
    BY <1>5 DEF AwaitMemory, flush_int
  <2> QED
    BY <1>1, <1>2, <1>3, <1>4, <2>1, <2>2 DEF victimDirty, valid
<1> QED
  BY <1>1, <1>2, <1>3, <1>4, <1>5

(* The answer to a write comes to the write that waits. *)
LEMMA WriteAnswerKept ==
  ASSUME IInv, Step, CpuStep, PortStep
  PROVE  WriteAnswer'
<1> SUFFICES ASSUME State' = "WRITE_BACK", mem_ready'
             PROVE  ddr'[mem_addr'] = mem_wr'
  BY DEF WriteAnswer
<1>1. ~mem_ready /\ mem_valid_out /\ (PortWrites \/ PortReads)
  BY DEF PortStep, PortWaits, PortWrites, PortReads
<1>2. State = "WRITE_BACK"
  BY <1>1, Moves DEF Start, Miss, AwaitMemory, mem_valid_out, flushing
<1>3. AwaitMemory
  BY <1>2, Moves DEF Start, Miss, Filled, Settle, Evicted
<1>4. mem_rw
  BY <1>1, <1>2 DEF mem_valid_out, mem_rw, flushing
<1>5. ddr' = [ddr EXCEPT ![mem_addr] = mem_wr]
  BY <1>1, <1>4 DEF PortWrites, PortReads
<1>6. mem_addr' = mem_addr /\ mem_wr' = mem_wr
  BY <1>2, <1>3, WiresStand DEF mem_addr, mem_wr
<1>7. mem_addr \in BlockAddr /\ ddr \in [BlockAddr -> Block]
  BY <1>2, CounterInRange DEF mem_addr, IInv, WiresOK, TypeOK, Line, BlockAddr
<1> QED
  BY <1>5, <1>6, <1>7

(* A miss goes to ALLOCATE with a victim that is saved, and writes nothing *)
(* to the DDR2 there.                                                      *)
LEMMA VictimSavedKept ==
  ASSUME IInv, SInv, Step, CpuStep, PortStep
  PROVE  VictimSaved'
<1> SUFFICES ASSUME State' = "ALLOCATE"
             PROVE  Saved(lru, counter)'
  BY DEF VictimSaved
<1>1. cpu' = cpu /\ (Miss \/ Evicted \/ (AwaitMemory /\ State = "ALLOCATE"))
  BY Moves DEF Start, Filled, Settle
<1>2. lru \in Way /\ counter \in Index
  BY CounterInRange DEF IInv, TypeOK
<1>3. ~flush_flag
  BY <1>1 DEF Miss, Evicted, flush_flag, IInv, Control, Lookup
<1>4. counter' = counter
  BY <1>1, <1>3 DEF counter, flush_flag, int_cache_valid
<1>5. lru' = lru
  <2>1. count = 0
    BY <1>3 DEF IInv, Control, CountAtRest
  <2>2. count % Sets # Sets - 1
    BY <2>1, DCacheAssumption DEF DCacheAssumption
  <2> QED
    BY <1>1, <2>2 DEF Miss, Evicted, AwaitMemory, Turn, AtLastLine
<1>6. Saved(lru, counter)
  <2>1. CASE Miss
    <3>1. ~victimDirty
      BY <2>1 DEF Miss, GoTo, AfterMiss
    <3> QED
      BY <2>1, <3>1, VictimReady DEF Miss, SInv
  <2>2. CASE Evicted
    BY <2>2, VictimReady DEF Evicted, flush_int, SInv
  <2>3. CASE AwaitMemory /\ State = "ALLOCATE"
    BY <2>3 DEF SInv, VictimSaved
  <2> QED
    BY <1>1, <2>1, <2>2, <2>3
<1>7. ~Hit /\ ~Filled
  BY DEF Hit, Filled, GoTo
<1>8. Saved(lru, counter) => (valid_bit'[lru][counter] =>
         memory'[lru][counter].data = ddr'[<< memory'[lru][counter].tag, counter >>])
  BY <1>2, <1>7, SavedKept DEF Saved
<1> QED
  BY <1>4, <1>5, <1>6, <1>8 DEF Saved

----------------------------------------------------------------------------
(* A flush *)

(* Outside a flush, and when one is answered, the count is back at 0. *)
LEMMA RestsAtZero ==
  ASSUME IInv, Step, ~flush_flag \/ cache_flushed
  PROVE  count' = 0
<1>1. CASE Evicted
  BY <1>1 DEF Evicted
<1>2. CASE Flushed
  BY <1>2, NextCountInRange DEF Flushed, cache_flushed, IInv
<1>3. CASE ~Evicted /\ ~Flushed
  <2>1. count' = count
    BY <1>3 DEF Step, Start, Hit, Miss, Filled, Settle, AwaitMemory
  <2>2. ~cache_flushed
    BY <1>3 DEF cache_flushed, Step, Start, Hit, Miss, Filled, Settle, AwaitMemory
  <2> QED
    BY <2>1, <2>2 DEF IInv, Control, CountAtRest
<1> QED
  BY <1>1, <1>2, <1>3

(* The flush count addresses way count \div Sets. *)
LEMMA CountSplit ==
  ASSUME TypeOK
  PROVE  /\ count < Sets => count % Sets = count
         /\ count >= Sets => count % Sets = count - Sets
<1> USE DCacheAssumption DEF DCacheAssumption
<1>1. count \in 0 .. 2 * Sets - 1
  BY DEF TypeOK
<1> QED
  BY <1>1

(* A line done with is the next in the order of Passed. *)
LEMMA PassesNext ==
  ASSUME IInv, Flushed, ~cache_flushed, NEW w \in Way, NEW i \in Index, Passed(w, i)'
  PROVE  Passed(w, i) \/ (w = lru /\ i = counter)
<1> USE DCacheAssumption DEF DCacheAssumption
<1>1. count \in 0 .. 2 * Sets - 1 /\ lru \in {0, 1} /\ w \in {0, 1} /\ i \in 0 .. Sets - 1
  BY DEF IInv, TypeOK, Way, Index
<1>2. count # 2 * Sets - 1 /\ counter = count % Sets
  BY DEF Flushed, cache_flushed, counter
<1>3. count' = count + 1
  <2>1. count + 1 \in 0 .. 2 * Sets - 1
    BY <1>1, <1>2
  <2>2. (count + 1) % (2 * Sets) = count + 1
    BY <2>1
  <2> QED
    BY <2>2 DEF Flushed, NextCount
<1>4. lru' = IF count % Sets = Sets - 1 THEN 1 - lru ELSE lru
  BY DEF Flushed, Turn, AtLastLine
<1>5. IF count' < Sets THEN w = lru' /\ i < count' ELSE w # lru' \/ i < count' - Sets
  BY DEF Passed
<1>6. (count < Sets => count % Sets = count) /\ (count >= Sets => count % Sets = count - Sets)
  BY CountSplit DEF IInv
<1>7. CASE count < Sets - 1
  <2>1. count' < Sets /\ lru' = lru /\ counter = count
    BY <1>1, <1>2, <1>3, <1>4, <1>6, <1>7
  <2> QED
    BY <1>1, <1>3, <1>5, <1>7, <2>1 DEF Passed
<1>8. CASE count = Sets - 1
  <2>1. count' = Sets /\ lru' = 1 - lru /\ counter = count
    BY <1>1, <1>2, <1>3, <1>4, <1>6, <1>8
  <2> QED
    BY <1>1, <1>5, <1>8, <2>1 DEF Passed
<1>9. CASE count >= Sets
  <2>1. count' >= Sets /\ lru' = lru /\ counter = count - Sets
    BY <1>1, <1>2, <1>3, <1>4, <1>6, <1>9
  <2> QED
    BY <1>1, <1>3, <1>5, <1>9, <2>1 DEF Passed
<1> QED
  BY <1>1, <1>7, <1>8, <1>9

(* A flush leaves only saved lines behind it. *)
LEMMA PassedSavedKept ==
  ASSUME IInv, SInv, Step, CpuStep, PortStep
  PROVE  PassedSaved'
<1> SUFFICES ASSUME flush_flag', NEW w \in Way, NEW i \in Index, Passed(w, i)'
             PROVE  Saved(w, i)'
  BY DEF PassedSaved
<1>1. count' # 0
  BY DCacheAssumption DEF DCacheAssumption, Passed, Index
<1>2. flush_flag /\ ~cache_flushed
  BY <1>1, RestsAtZero
<1>3. State \in {"IDLE", "WRITE_BACK"}
  BY <1>2 DEF flush_flag, IInv, TypeOK, Control, Lookup
<1>4. ~Hit /\ ~Filled
  BY <1>3 DEF Hit, Filled
<1>5. Passed(w, i) => Saved(w, i)
  BY <1>2 DEF SInv, PassedSaved
<1>6. CASE Flushed
  <2>1. Saved(lru, counter)
    BY <1>6, VictimReady DEF Flushed, flush_int, SInv
  <2> QED
    BY <1>2, <1>4, <1>5, <1>6, <2>1, PassesNext, SavedKept
<1>7. CASE ~Flushed
  <2>1. Start \/ AwaitMemory
    BY <1>2, <1>3, <1>7 DEF Step, Hit, Miss, Evicted, Filled, Settle
  <2>2. count' = count /\ lru' = lru
    BY <2>1 DEF Start, AwaitMemory, Turn, AtLastLine
  <2>3. Passed(w, i)
    BY <2>2 DEF Passed
  <2> QED
    BY <1>4, <1>5, <2>3, SavedKept
<1> QED
  BY <1>6, <1>7

(* The invariant of what is saved. *)
LEMMA InitSInv == ASSUME CacheInit PROVE SInv
<1>1. count = 0 /\ State = "IDLE" /\ ~flush_flag
  BY DEF CacheInit, Init, flush_flag, int_cache_valid, NoRequest
<1> QED
  BY <1>1 DEF SInv, WriteAnswer, VictimSaved, PassedSaved

(* Every step of the cached memory keeps the invariant about what has      *)
(* reached the DDR2.                                                       *)
LEMMA NextSInv == ASSUME IInv, SInv, [Next]_vars PROVE SInv'
<1>1. CASE CacheReset
  <2>1. State' = "IDLE" /\ ~flush_flag'
    BY <1>1 DEF CacheReset, Reset, flush_flag, int_cache_valid, NoRequest
  <2> QED
    BY <2>1 DEF SInv, WriteAnswer, VictimSaved, PassedSaved
<1>2. CASE Logic /\ PortStep
  BY <1>2, WriteAnswerKept, VictimSavedKept, PassedSavedKept DEF SInv, Logic
<1>3. CASE UNCHANGED vars
  BY <1>3 DEF vars, regs, SInv, WriteAnswer, VictimSaved, PassedSaved, Passed, Saved,
              mem_addr, mem_wr, flush_flag, int_cache_valid, counter
<1> QED
  BY <1>1, <1>2, <1>3 DEF Next, PortAnswers, Tick, PortStep

(* What a miss replaces and what a flush has passed is in the DDR2. *)
THEOREM SavedInvariance == Spec => []SInv
<1>1. CacheInit => SInv
  BY InitSInv
<1>2. IInv /\ SInv /\ [Next]_vars => SInv'
  BY NextSInv
<1> QED
  BY <1>1, <1>2, Invariance, PTL DEF Spec

----------------------------------------------------------------------------
(* The memory as the processor sees it *)

(* The block of a valid line is the line's data, in either way. *)
LEMMA CurOfHeld ==
  ASSUME OneCopy, NEW b \in BlockAddr, NEW w \in Way, Holds(w, b)
  PROVE  cur[b] = memory[w][b[2]].data
  BY DEF OneCopy, Way, cur

(* The block no line holds is the DDR2's. *)
LEMMA CurOfMissing ==
  ASSUME NEW b \in BlockAddr, \A w \in Way : ~Holds(w, b)
  PROVE  cur[b] = ddr[b]
  BY DEF Way, cur

(* A saved line's block is the DDR2's. *)
LEMMA CurOfSaved ==
  ASSUME OneCopy, NEW b \in BlockAddr, \A w \in Way : Holds(w, b) => Saved(w, b[2])
  PROVE  cur[b] = ddr[b]
<1>1. CASE \A w \in Way : ~Holds(w, b)
  BY <1>1, CurOfMissing
<1>2. ASSUME NEW w \in Way, Holds(w, b) PROVE cur[b] = ddr[b]
  <2>1. b = << b[1], b[2] >>
    BY DEF BlockAddr
  <2>2. memory[w][b[2]].data = ddr[b]
    BY <1>2, <2>1 DEF Holds, Saved
  <2> QED
    BY <1>2, <2>2, CurOfHeld
<1> QED
  BY <1>1, <1>2

(* Every edge but a hit leaves the memory as the processor sees it: a      *)
(* write-back repeats it in the DDR2, a fill copies it from there and      *)
(* overwrites a line that is saved.                                        *)
LEMMA CurKept ==
  ASSUME IInv, SInv, IInv', Step, PortStep, ~Hit
  PROVE  cur' = cur
<1> SUFFICES ASSUME NEW b \in BlockAddr PROVE cur'[b] = cur[b]
  BY DEF cur
<1>1. OneCopy /\ OneCopy' /\ b[2] \in Index /\ b = << b[1], b[2] >>
  BY DEF IInv, Contents, BlockAddr
<1>2. CASE Filled
  <2>1. ddr' = ddr
    BY <1>2, WritesWait DEF PortStep, PortWaits, PortReads, Filled, AwaitMemory
  <2>2. \A w \in Way : ~Holds(w, << cpu.tag, cpu.index >>)
    BY <1>2 DEF Filled, IInv, Contents, Missing, ServesMiss
  <2>3. lru \in Way /\ cpu.index \in Index
    BY DEF IInv, TypeOK, Request
  <2>4. counter = cpu.index
    BY <1>2, Addressed DEF Filled, flush_flag, IInv, Control, Lookup
  <2>5. CASE b = << cpu.tag, cpu.index >>
    <3>1. /\ valid_bit'[lru][b[2]] /\ memory'[lru][b[2]].tag = b[1]
          /\ memory'[lru][b[2]].data = ddr[b]
      <4>1. b[1] = cpu.tag /\ b[2] = cpu.index
        BY <2>5
      <4> QED
        BY <1>2, <2>3, <2>5, <4>1, FilledLines
    <3>2. cur'[b] = memory'[lru][b[2]].data
      <4>1. lru' = lru
        BY <1>2 DEF Filled
      <4>2. Holds(lru, b)'
        BY <3>1, <4>1 DEF Holds
      <4> QED
        BY <1>1, <2>3, <4>1, <4>2 DEF OneCopy, Way, cur
    <3>3. cur[b] = ddr[b]
      BY <2>2, <2>5, CurOfMissing
    <3> QED
      BY <3>1, <3>2, <3>3
  <2>6. CASE Holds(lru, b) /\ b[2] = cpu.index
    <3>1. Saved(lru, b[2])
      BY <1>2, <2>4, <2>6 DEF Filled, SInv, VictimSaved
    <3>2. \A w \in Way : Holds(w, b) => w = lru
      BY <1>1, <2>3, <2>6 DEF OneCopy, Way
    <3>3. cur[b] = ddr[b]
      BY <1>1, <3>1, <3>2, CurOfSaved
    <3>4. \A w \in Way : ~Holds(w, b)'
      <4> SUFFICES ASSUME NEW w \in Way PROVE ~Holds(w, b)'
        OBVIOUS
      <4>1. b[1] # cpu.tag
        BY <2>2, <2>3, <2>6, <1>1
      <4> QED
        BY <1>1, <1>2, <2>6, <3>2, <4>1, FilledLines DEF Holds
    <3>5. cur'[b] = ddr'[b]
      BY <3>4 DEF cur, Way
    <3> QED
      BY <2>1, <3>3, <3>5
  <2>7. CASE b # << cpu.tag, cpu.index >> /\ ~(Holds(lru, b) /\ b[2] = cpu.index)
    <3>1. \A w \in Way : Holds(w, b)' = Holds(w, b)
      BY <1>1, <1>2, <2>7, FilledLines DEF Holds
    <3>2. \A w \in Way : Holds(w, b) => memory'[w][b[2]] = memory[w][b[2]]
      BY <1>1, <1>2, <2>7, FilledLines
    <3> QED
      BY <2>1, <3>1, <3>2 DEF cur, Way
  <2> QED
    BY <2>5, <2>6, <2>7
<1>3. CASE ~Filled
  <2>1. memory' = memory /\ valid_bit' = valid_bit
    BY <1>3, OtherLines
  <2>2. CASE ddr' = ddr
    BY <2>1, <2>2 DEF cur, Holds
  <2>3. CASE PortWrites
    <3>1. ASSUME NEW w \in Way, Holds(w, b) PROVE cur'[b] = cur[b]
      <4>1. Holds(w, b)'
        BY <2>1, <3>1 DEF Holds
      <4>2. cur'[b] = memory'[w][b[2]].data
        BY <1>1, <4>1 DEF OneCopy, Way, cur
      <4> QED
        BY <1>1, <2>1, <3>1, <4>2, CurOfHeld
    <3>2. ASSUME \A w \in Way : ~Holds(w, b) PROVE cur'[b] = cur[b]
      <4>1. b # << memory[lru][counter].tag, counter >>
        <5>1. lru \in Way /\ ~Holds(lru, b)
          BY <3>2 DEF IInv, TypeOK
        <5>2. valid_bit[lru][counter]
          BY <2>3, WritesVictim DEF victimDirty, valid
        <5> QED
          BY <5>1, <5>2 DEF Holds
      <4>2. ddr'[b] = ddr[b]
        BY <2>3, <4>1, WritesVictim DEF IInv, WiresOK
      <4>3. \A w \in Way : ~Holds(w, b)'
        BY <2>1, <3>2 DEF Holds
      <4> QED
        BY <3>2, <4>2, <4>3 DEF cur, Way
    <3> QED
      BY <3>1, <3>2
  <2> QED
    BY <2>2, <2>3 DEF PortStep, PortWaits, PortReads
<1> QED
  BY <1>2, <1>3

(* The way that hits holds the block of the request, as the read port      *)
(* shows it.                                                               *)
LEMMA HitHolds ==
  ASSUME IInv, tag_matched, NEW w \in Way
  PROVE  /\ way(w) <=> Holds(w, << cpu.tag, cpu.index >>)
         /\ line[w] = memory[w][cpu.index]
         /\ counter = cpu.index /\ addr_tag = cpu.tag
         /\ << cpu.tag, cpu.index >> \in BlockAddr
<1>1. State = "COMPARE_TAG"
  BY DEF tag_matched
<1>2. counter = cpu.index /\ addr_tag = cpu.tag
  BY <1>1, Addressed DEF flush_flag, IInv, Control, Lookup
<1>3. line[w] = memory[w][cpu.index]
  BY <1>1, <1>2 DEF IInv, Control, PortFresh
<1>4. << cpu.tag, cpu.index >> \in BlockAddr
  BY DEF IInv, TypeOK, Request, BlockAddr
<1> QED
  BY <1>2, <1>3, <1>4 DEF way, valid, Holds

(* A load that hits returns the word. *)
LEMMA LoadReads ==
  ASSUME IInv, tag_matched, ~cpu.io, ~cpu.rw
  PROVE  cache_rd = cur[<< cpu.tag, cpu.index >>][cpu.offset]
<1>1. hitWay \in Way /\ way(hitWay)
  BY DEF tag_matched, hit, hitWay, Way
<1>2. Holds(hitWay, << cpu.tag, cpu.index >>) /\ line[hitWay] = memory[hitWay][cpu.index]
  BY <1>1, HitHolds
<1>3. cur[<< cpu.tag, cpu.index >>] = memory[hitWay][cpu.index].data
  BY <1>1, <1>2, HitHolds, CurOfHeld DEF IInv, Contents
<1> QED
  BY <1>2, <1>3 DEF cache_rd

(* A store that hits changes its word of its block and nothing else.       *)
LEMMA StoreWrites ==
  ASSUME IInv, IInv', Hit, ddr' = ddr
  PROVE  cur' = IF cpu.rw
                THEN [cur EXCEPT ![<< cpu.tag, cpu.index >>][cpu.offset] = cpu.wr]
                ELSE cur
<1> DEFINE p == << cpu.tag, cpu.index >>
<1>1. tag_matched
  BY DEF Hit, tag_matched
<1>2. OneCopy /\ OneCopy' /\ p \in BlockAddr
  BY <1>1, HitHolds DEF IInv, Contents, Way
<1>3. ASSUME NEW w \in Way, NEW i \in Index
      PROVE  memory'[w][i] =
               IF cpu.rw /\ Holds(w, p) /\ i = cpu.index
               THEN [data |-> [memory[w][i].data EXCEPT ![cpu.offset] = cpu.wr],
                     tag |-> cpu.tag, dirty |-> TRUE]
               ELSE memory[w][i]
  <2>1. memory[w] \in [Index -> Line] /\ cpu.index \in Index
    BY DEF IInv, TypeOK, Request
  <2> QED
    BY <1>1, <2>1, HitHolds DEF Hit, StoresTo, StoredLine
<1>4. \A w \in Way, b \in BlockAddr : Holds(w, b)' = Holds(w, b)
  BY HitLines DEF Holds, BlockAddr
<1>5. ASSUME NEW w \in Way, NEW b \in BlockAddr, Holds(w, b)
      PROVE  cur'[b] = memory'[w][b[2]].data
  <2>1. Holds(w, b)'
    BY <1>4, <1>5
  <2> QED
    BY <1>2, <2>1 DEF OneCopy, Way, cur
<1>6. CASE ~cpu.rw
  <2>1. \A w \in Way, b \in BlockAddr : memory'[w][b[2]] = memory[w][b[2]]
    BY <1>3, <1>6 DEF BlockAddr
  <2> QED
    BY <1>4, <1>6, <2>1 DEF cur, Way
<1>7. CASE cpu.rw
  <2>1. PICK h \in Way : Holds(h, p)
    BY <1>1, HitHolds DEF tag_matched, hit, Way
  <2>2. cur[p] = memory[h][cpu.index].data
    BY <1>2, <2>1, CurOfHeld
  <2>3. cur'[p] = [cur[p] EXCEPT ![cpu.offset] = cpu.wr]
    <3>1. cur'[p] = memory'[h][p[2]].data
      BY <1>2, <1>5, <2>1
    <3>2. p[2] = cpu.index /\ cpu.index \in Index
      BY DEF IInv, TypeOK, Request
    <3>3. memory'[h][cpu.index].data = [memory[h][cpu.index].data EXCEPT ![cpu.offset] = cpu.wr]
      <4>1. memory'[h][cpu.index] =
              [data |-> [memory[h][cpu.index].data EXCEPT ![cpu.offset] = cpu.wr],
               tag |-> cpu.tag, dirty |-> TRUE]
        BY <1>3, <1>7, <2>1, <3>2, Zenon
      <4> QED
        BY <4>1
    <3>4. cur'[p] = memory'[h][cpu.index].data
      <4> HIDE DEF p
      <4> QED
        BY <3>1, <3>2
    <3> QED
      BY <2>2, <3>3, <3>4, Zenon
  <2>4. ASSUME NEW b \in BlockAddr, b # p PROVE cur'[b] = cur[b]
    <3>1. ASSUME NEW w \in Way, Holds(w, b)
          PROVE  memory'[w][b[2]] = memory[w][b[2]]
      <4>1. b = << b[1], b[2] >> /\ b[2] \in Index
        BY DEF BlockAddr
      <4>2. ~(Holds(w, p) /\ b[2] = cpu.index)
        BY <2>4, <3>1, <4>1 DEF Holds
      <4> QED
        BY <1>3, <4>1, <4>2
    <3> QED
      BY <1>4, <3>1 DEF cur, Way
  <2>5. cur' = [cur EXCEPT ![p] = [cur[p] EXCEPT ![cpu.offset] = cpu.wr]]
    BY <1>2, <2>3, <2>4 DEF cur
  <2> QED
    BY <1>7, <2>5
<1> QED
  BY <1>6, <1>7

(* When a flush is answered every line has been passed and saved. *)
LEMMA FlushSaves ==
  ASSUME IInv, SInv, cache_flushed
  PROVE  ddr = cur
<1> USE DCacheAssumption DEF DCacheAssumption
<1>1. State = "WRITE_BACK" /\ flush_flag /\ count = 2 * Sets - 1 /\ flush_int
  BY DEF cache_flushed
<1>2. counter = Sets - 1 /\ lru \in Way
  <2>1. count >= Sets /\ count - Sets = Sets - 1
    BY <1>1
  <2> QED
    BY <1>1, <2>1, CountSplit DEF counter, IInv, TypeOK
<1>3. Saved(lru, counter)
  BY <1>1, VictimReady DEF flush_int, SInv
<1>4. \A w \in Way, i \in Index : Saved(w, i)
  <2> SUFFICES ASSUME NEW w \in Way, NEW i \in Index, ~(w = lru /\ i = counter)
               PROVE  Saved(w, i)
    BY <1>3
  <2>1. Passed(w, i)
    BY <1>1, <1>2 DEF Passed, Index
  <2> QED
    BY <1>1, <2>1 DEF SInv, PassedSaved
<1>5. \A b \in BlockAddr : cur[b] = ddr[b]
  BY <1>4, CurOfSaved DEF IInv, Contents, BlockAddr
<1> QED
  BY <1>5 DEF cur, IInv, WiresOK

----------------------------------------------------------------------------
(* Refinement *)

(* The DDR2 changes by whole blocks being brought up to date. *)
LEMMA WritesBack ==
  ASSUME IInv, PortStep
  PROVE  UNCHANGED ddr \/ \E b \in BlockAddr : Promise!WriteBack(b)
<1>1. CASE PortWrites
  <2> DEFINE b == << memory[lru][counter].tag, counter >>
  <2>1. lru \in Way /\ counter \in Index /\ memory[lru][counter] \in Line
    BY CounterInRange DEF IInv, TypeOK
  <2>2. b \in BlockAddr
    BY <2>1 DEF Line, BlockAddr
  <2>3. Holds(lru, b)
    BY <1>1, WritesVictim DEF victimDirty, valid, Holds
  <2>4. cur[b] = memory[lru][counter].data
    BY <2>1, <2>2, <2>3, CurOfHeld DEF IInv, Contents
  <2>5. ddr' = [ddr EXCEPT ![b] = cur[b]]
    BY <1>1, <2>4, WritesVictim
  <2> QED
    BY <2>2, <2>5 DEF Promise!WriteBack
<1>2. CASE ~PortWrites
  BY <1>2 DEF PortStep, PortWaits, PortReads
<1> QED
  BY <1>1, <1>2

(* A load returns the last store, and a flush leaves nothing behind, in    *)
(* every state the cache is in.                                            *)
LEMMA AnswersAreRight == ASSUME IInv, SInv PROVE Promise!AnswersRight
<1>1. Promise!Answered /\ ~cpu.flush => tag_matched
  BY DEF Promise!Answered, cache_ready, cache_flushed, flush_flag
<1>2. Promise!Load => cache_rd = cur[Promise!Place][cpu.offset]
  BY <1>1, LoadReads DEF Promise!Load, Promise!Answered, Promise!Place
<1>3. Promise!Answered /\ cpu.flush => ddr = cur
  <2>1. Promise!Answered /\ cpu.flush => cache_flushed
    BY DEF Promise!Answered, cache_ready, tag_matched, IInv, Control, Lookup
  <2> QED
    BY <2>1, FlushSaves
<1> QED
  BY <1>2, <1>3 DEF Promise!AnswersRight

(* A clock edge does what CoherentMemory lets an operation do. *)
LEMMA LogicOperates ==
  ASSUME IInv, SInv, IInv', Logic, PortStep
  PROVE  Promise!Operate
<1>1. Step
  BY DEF Logic
<1>2. Promise!Answered /\ ~cpu.flush => tag_matched /\ Hit
  BY <1>1 DEF Promise!Answered, cache_ready, cache_flushed, flush_flag, tag_matched,
              Step, Start, Hit, Miss, Evicted, Flushed, Filled, Settle, AwaitMemory
<1>3. IF Promise!Store
      THEN cur' = [cur EXCEPT ![Promise!Place][cpu.offset] = cpu.wr]
      ELSE UNCHANGED cur
  <2>1. CASE Hit
    <3>1. ddr' = ddr
      BY <1>1, <2>1, WritesWait DEF PortStep, PortWaits, PortReads, Hit, AwaitMemory
    <3>2. Promise!Store <=> cpu.rw
      BY <2>1 DEF Hit, Promise!Store, Promise!Answered, cache_ready, tag_matched,
                  IInv, Control, Engaged, Lookup, int_cache_valid
    <3> QED
      BY <2>1, <3>1, <3>2, StoreWrites DEF Promise!Place
  <2>2. CASE ~Hit
    <3>1. ~Promise!Store
      BY <1>2, <2>2 DEF Promise!Store
    <3> QED
      BY <1>1, <2>2, <3>1, CurKept
  <2> QED
    BY <2>1, <2>2
<1>4. UNCHANGED ddr \/ \E b \in BlockAddr : Promise!WriteBack(b)
  BY WritesBack
<1> QED
  BY <1>3, <1>4, AnswersAreRight DEF Promise!Operate

(* A reset forgets the lines: what is left is the DDR2; and it drops the   *)
(* request.                                                                *)
LEMMA ResetForgets == ASSUME IInv, SInv, CacheReset PROVE Promise!Reset
<1>1. \A w \in Way, i \in Index : ~valid_bit'[w][i]
  BY DEF CacheReset, Reset
<1>2. ddr' = ddr /\ ddr \in [BlockAddr -> Block]
  BY DEF CacheReset, IInv, WiresOK
<1>3. cur' = ddr
  BY <1>1, <1>2 DEF cur, Holds, BlockAddr, Way
<1>4. ~cpu'.valid /\ ~cache_ready'
  BY DEF CacheReset, Reset, NoRequest, cache_ready, tag_matched, cache_flushed
<1> QED
  BY <1>2, <1>3, <1>4, AnswersAreRight DEF Promise!Reset

(* The cached memory starts where CoherentMemory does. *)
LEMMA InitPromise == ASSUME CacheInit PROVE Promise!Init
<1>1. \A w \in Way, i \in Index : ~valid_bit[w][i]
  BY DEF CacheInit, Init
<1>2. ddr \in [BlockAddr -> Block]
  BY InitIInv DEF IInv, WiresOK
<1>3. cur = ddr
  BY <1>1, <1>2 DEF cur, Holds, BlockAddr, Way
<1> QED
  BY <1>3 DEF Promise!Init

(* The cache implements CoherentMemory: a load returns the last store to   *)
(* its address, the DDR2 changes by whole blocks being brought up to date, *)
(* and once a FLUSH is answered the DDR2 holds every store made before it. *)
THEOREM Coherence == Spec => PromiseKept
<1>1. CacheInit => Promise!Init
  BY InitPromise
<1>2. IInv /\ SInv /\ IInv' /\ [Next]_vars => [Promise!Next]_Promise!cvars
  <2> SUFFICES ASSUME IInv, SInv, IInv', [Next]_vars
               PROVE  [Promise!Next]_Promise!cvars
    OBVIOUS
  <2>1. CASE CacheReset
    BY <2>1, ResetForgets DEF CacheReset, Promise!Next
  <2>2. CASE Logic /\ PortStep
    BY <2>2, LogicOperates DEF Logic, Promise!Next
  <2>3. CASE UNCHANGED vars
    BY <2>3 DEF vars, regs, Promise!cvars, cur, Holds, cache_ready, cache_rd,
                tag_matched, cache_flushed, hit, hitWay, way, valid, counter, addr_tag,
                flush_flag, flush_int, int_cache_valid, victimDirty
  <2> QED
    BY <2>1, <2>2, <2>3 DEF Next, PortAnswers, Tick, PortStep
<1> QED
  BY <1>1, <1>2, Invariance, SavedInvariance, PTL DEF Spec, PromiseKept, Promise!Spec

----------------------------------------------------------------------------
(* The port of the arbiter *)

(* The request to the arbiter stands, with its address and data, until it  *)
(* is answered: the arbiter and the memory controller read them throughout *)
(* the access.                                                             *)
THEOREM RequestStandsAtPort == Spec => MemRequestHeld
<1> DEFINE Held == mem_valid_out /\ ~mem_ready /\ ~CacheReset =>
                     /\ mem_valid_out' /\ mem_rw' = mem_rw
                     /\ mem_addr' = mem_addr /\ mem_wr' = mem_wr
<1>1. IInv /\ [Next]_vars => [Held]_vars
  <2> SUFFICES ASSUME IInv, Logic, PortStep, mem_valid_out, ~mem_ready
               PROVE  /\ mem_valid_out' /\ mem_rw' = mem_rw
                      /\ mem_addr' = mem_addr /\ mem_wr' = mem_wr
    BY DEF Next, PortAnswers, Tick, PortStep
  <2>1. Step /\ CpuStep
    BY DEF Logic
  <2>2. CASE State = "WRITE_BACK"
    <3>1. victimDirty
      BY <2>2 DEF mem_valid_out, flushing, IInv, Control, EvictsDirty
    <3>2. AwaitMemory
      BY <2>1, <2>2, <3>1 DEF flush_int, Step, Start, Hit, Miss, Evicted, Flushed,
                              Filled, Settle, AwaitMemory
    <3>3. State' = State /\ cpu' = cpu /\ counter' = counter /\ lru' = lru
          /\ line'[lru] = line[lru] /\ victimDirty'
      BY <2>1, <2>2, <3>2, WiresStand
    <3> QED
      BY <2>2, <3>1, <3>3
      DEF mem_valid_out, mem_rw, mem_addr, mem_wr, flushing, flush_flag, int_cache_valid
  <2>3. CASE State = "ALLOCATE"
    <3>1. AwaitMemory
      BY <2>1, <2>3 DEF Step, Start, Hit, Miss, Evicted, Flushed, Filled, Settle, AwaitMemory
    <3>2. State' = State /\ cpu' = cpu
      BY <2>1, <3>1, WiresStand
    <3> QED
      BY <2>3, <3>2 DEF mem_valid_out, mem_rw, mem_addr, mem_wr, flushing
  <2> QED
    BY <2>2, <2>3 DEF mem_valid_out, flushing
<1> QED
  BY <1>1, Invariance, PTL DEF Spec, MemRequestHeld
=============================================================================
