---------------------------- MODULE DisplayProofs ----------------------------
(***************************************************************************)
(* The frame loader gets the frame, whatever its length and whatever the   *)
(* D-cache does meanwhile: when ram_wr_done says that a frame is loaded,   *)
(* the DVI RAM holds each of its blocks in its own slot.                   *)
(*                                                                         *)
(* The memory path between loader and DDR2 enters this proof only by what  *)
(* MemoryPromiseProofs shows of a clock edge: it is a step of the promise  *)
(* SharedMemory.                                                           *)
(***************************************************************************)
EXTENDS DisplayMemory, MemoryPromiseProofs

(* The i-th block of the frame in the DDR2. *)
Spot(i) == Bus!DdrAddrOf(FrameStart + Dvi!BlockWords * i)

(* The loader between two blocks, or held in reset; with a request out;    *)
(* with the block of its answer on the way to the RAM; with the frame      *)
(* loaded.                                                                 *)
Starts ==
  /\ ~wait_for_read /\ ~dvi_valid /\ ~write_enabled /\ ~WEN_I /\ ~ram_wr_done
  /\ rom_addr_wr < FrameBlocks
Fetches ==
  /\ wait_for_read /\ dvi_valid /\ ~write_enabled /\ ~WEN_I /\ ~ram_wr_done
  /\ rom_addr_wr < FrameBlocks
Stores ==
  /\ wait_for_read /\ ~dvi_valid /\ write_enabled /\ WEN_I /\ ~ram_wr_done
  /\ rom_addr_wr < FrameBlocks
  /\ data_out = Dvi!Pixels(store[Spot(rom_addr_wr)])
Loaded ==
  /\ wait_for_read /\ ~dvi_valid /\ ~write_enabled /\ ~WEN_I /\ ram_wr_done
  /\ rom_addr_wr = FrameBlocks

LoaderTypes ==
  /\ display_on \in BOOLEAN /\ locked_dcm \in BOOLEAN /\ dvi_valid \in BOOLEAN
  /\ rom_addr_wr \in Nat /\ addr_count = Dvi!BlockWords * rom_addr_wr
  /\ DOMAIN ram = Dvi!Slot

(* The display stays on until the frame is loaded. *)
PowerInv == wait_for_read /\ ~ram_wr_done => display_on /\ locked_dcm

(* The D-cache writes no block of a frame that is shown or being loaded.   *)
Active == display_on \/ wait_for_read \/ rom_addr_wr # 0
CacheInv ==
  Active /\ req[DCachePort].valid /\ req[DCachePort].rw =>
    req[DCachePort].addr \notin FrameAddr

(* The loader's wires, and what it is answered. *)
PortInv ==
  /\ req[DviPort] = DviRequest(dvi_valid, addr_count)
  /\ mem_ready_data[DviPort] => mem_data_rd[DviPort] = store[Spot(rom_addr_wr)]

(* What has been loaded so far. *)
RamInv ==
  \A i \in Dvi!Slot : i < rom_addr_wr => ram[i] = Dvi!Pixels(store[Spot(i)])

LoaderInv ==
  /\ LoaderTypes /\ (Starts \/ Fetches \/ Stores \/ Loaded)
  /\ PowerInv /\ CacheInv /\ PortInv /\ RamInv

DInv == IInv /\ LoaderInv

-----------------------------------------------------------------------------
(* The frame is in the DDR2, and only the frame's addresses lead there. *)
LEMMA FrameIs ==
  /\ FrameStart \in Nat /\ FrameBlocks \in Nat /\ 0 < FrameBlocks
  /\ \A i \in Dvi!Slot :
       /\ i \in Nat /\ i < FrameBlocks
       /\ FrameStart + 8 * i \in FrameAddr /\ FrameStart + 8 * i \in Addr
       /\ Spot(i) \in DdrAddr
  /\ \A a \in Addr, i \in Dvi!Slot : Bus!DdrAddrOf(a) = Spot(i) => a \in FrameAddr
<1>1. FrameBlocks \in Nat /\ 0 < FrameBlocks /\ Addr \subseteq Nat
  BY DisplayMemoryAssumption, MemorySystemAssumption
     DEF DisplayMemoryAssumption, MemorySystemAssumption
<1>2. \A i \in Dvi!Slot : i \in Nat /\ i < FrameBlocks
  BY <1>1 DEF Dvi!Slot
<1>3. \A i \in Dvi!Slot : FrameStart + 8 * i \in FrameAddr /\ FrameStart + 8 * i \in Addr
  BY FrameAssumption DEF FrameAssumption, FrameAddr, Dvi!BlockWords
<1>4. FrameStart \in Nat
  BY DisplayMemoryAssumption DEF DisplayMemoryAssumption
<1>5. \A i \in Dvi!Slot : Spot(i) \in DdrAddr
  BY <1>3 DEF Spot, DdrAddr, Dvi!BlockWords
<1>6. \A a \in Addr, i \in Dvi!Slot : Bus!DdrAddrOf(a) = Spot(i) => a \in FrameAddr
  BY <1>3, FrameAssumption DEF FrameAssumption, Spot, Dvi!BlockWords
<1> QED BY <1>1, <1>2, <1>3, <1>4, <1>5, <1>6

(* One edge of the display, its loader and the path to the DDR2. *)
DStep == DisplayLogic /\ MIG!Step

(* Whatever MIG does at an edge, it is an edge of MIG. *)
LEMMA NextIsStep == DisplayNext => DStep
  BY DEF DisplayNext, DisplayProgress, DisplayTick, DStep, MIG!Step

(* The display's memory path has the D-cache and the frame loader for      *)
(* clients.                                                                *)
LEMMA ClientsAre == Client = {DCachePort, DviPort} /\ DCachePort = 1 /\ DviPort = 2
  BY DisplayMemoryAssumption DEF DisplayMemoryAssumption, Client, DCachePort, DviPort

(* Only a client that asks is answered, and no client before it asks. *)
LEMMA AnsweredAsks ==
  ASSUME IInv, NEW k \in Client
  PROVE  /\ mem_ready_data[k] => req[k].valid
         /\ PathStep /\ mem_ready_data'[k] => req[k].valid /\ ~mem_ready_data[k]
<1>1. ArbInv /\ ArbTypes
  BY DEF IInv, Types
<1>2. mem_ready_data[k] => req[k].valid
  BY <1>1 DEF ArbInv
<1>3. ASSUME PathStep, mem_ready_data'[k]
      PROVE  req[k].valid /\ ~mem_ready_data[k]
  <2>1. CASE Idles
    BY <1>1, <1>3, <2>1 DEF Idles, ArbInv
  <2>2. ASSUME NEW j \in Client, Grants(j) \/ Continues(j) \/ Releases(j)
        PROVE  FALSE
    BY <1>1, <1>3, <2>2 DEF Grants, Continues, Releases, ArbInv, ArbTypes, Client
  <2>3. ASSUME NEW j \in Client, Answers(j)
        PROVE  req[k].valid /\ ~mem_ready_data[k]
    <3>1. enable_active[j] /\ ~mem_ready_data[j]
      BY <1>1, <2>3 DEF Answers, ArbInv
    <3>2. k = j
      BY <1>1, <1>3, <2>3, <3>1 DEF Answers, ArbInv, ArbTypes
    <3> QED BY <1>1, <3>1, <3>2 DEF ArbInv
  <2> QED BY <1>3, <2>1, <2>2, <2>3, ArbiterMoves DEF PathStep
<1> QED BY <1>2, <1>3

(* The loader's edge, by stages.  It is held in reset only when it has no  *)
(* request out.                                                            *)
LEMMA LoaderMoves ==
  ASSUME DInv, DStep
  PROVE  \/ /\ Starts \/ Loaded
            /\ ~(display_on /\ locked_dcm)
            /\ Dvi!Hold /\ ram' = ram
         \/ /\ display_on /\ locked_dcm /\ Starts /\ Dvi!Fetch /\ ram' = ram
         \/ /\ display_on /\ locked_dcm /\ Fetches /\ ram' = ram
            /\ \/ mem_ready_data[DviPort] /\ Dvi!Receive
               \/ ~mem_ready_data[DviPort] /\ Dvi!Pause
         \/ /\ display_on /\ locked_dcm /\ Stores /\ Dvi!Written
            /\ ram' = [ram EXCEPT ![rom_addr_wr] = data_out]
         \/ /\ display_on /\ locked_dcm /\ Loaded /\ Dvi!Pause /\ ram' = ram
<1>1. Dvi!Step
  BY DEF DStep, DisplayLogic
<1>2. ~dvi_valid => ~mem_ready_data[DviPort]
  <2>1. req[DviPort].valid = dvi_valid
    BY DEF DInv, LoaderInv, PortInv, DviRequest
  <2> QED BY <2>1, AnsweredAsks, ClientsAre DEF DInv
<1>3. PowerInv /\ LoaderTypes /\ (Starts \/ Fetches \/ Stores \/ Loaded)
  BY DEF DInv, LoaderInv
<1>4. CASE Starts
  BY <1>1, <1>4 DEF Starts, Dvi!Step, Dvi!RamWrite, Dvi!Hold, Dvi!Fetch, Dvi!Receive,
                    Dvi!Written, Dvi!Pause
<1>5. CASE Loaded
  BY <1>1, <1>2, <1>5 DEF Loaded, Dvi!Step, Dvi!RamWrite, Dvi!Hold, Dvi!Fetch, Dvi!Receive,
                    Dvi!Written, Dvi!Pause
<1>6. CASE Fetches
  <2>1. display_on /\ locked_dcm
    BY <1>3, <1>6 DEF Fetches, PowerInv
  <2> QED
    BY <1>1, <1>6, <2>1 DEF Fetches, Dvi!Step, Dvi!RamWrite, Dvi!Hold, Dvi!Fetch,
                            Dvi!Receive, Dvi!Written, Dvi!Pause
<1>7. CASE Stores
  <2>1. display_on /\ locked_dcm /\ rom_addr_wr \in Dvi!Slot
    BY <1>3, <1>7, FrameIs DEF Stores, PowerInv, LoaderTypes, Dvi!Slot
  <2> QED
    BY <1>1, <1>2, <1>7, <2>1 DEF Stores, Dvi!Step, Dvi!RamWrite, Dvi!Hold, Dvi!Fetch,
                                  Dvi!Receive, Dvi!Written, Dvi!Pause
<1> QED BY <1>3, <1>4, <1>5, <1>6, <1>7

(* D-cache and loader keep their requests until they are answered. *)
LEMMA PortsHold ==
  ASSUME DInv, DStep
  PROVE  Held
<1>1. /\ req \in [Client -> Request] /\ LoaderTypes /\ PortInv
      /\ addr_count = 8 * rom_addr_wr
  BY DEF DInv, IInv, Types, LoaderInv, LoaderTypes, Dvi!BlockWords
<1>2. PICK r \in CacheRequests : req' = << r, DviRequest(dvi_valid', addr_count') >>
  BY DEF DStep, DisplayLogic, PortsStep
<1>3. r \in Request /\ (Waiting(DCachePort) => r = req[DCachePort])
  BY <1>1, <1>2, RequestSets, ClientsAre DEF CacheRequests, CacheWrites
<1>4. /\ rom_addr_wr \in Nat /\ addr_count \in Nat /\ dvi_valid \in BOOLEAN
      /\ rom_addr_wr < FrameBlocks => FrameStart + addr_count \in Addr
  <2>1. rom_addr_wr \in Nat /\ dvi_valid \in BOOLEAN
    BY <1>1 DEF LoaderTypes
  <2>2. rom_addr_wr < FrameBlocks => rom_addr_wr \in Dvi!Slot
    BY <2>1, FrameIs DEF Dvi!Slot
  <2> QED BY <1>1, <2>1, <2>2, FrameIs
<1>5. /\ addr_count' \in Nat /\ dvi_valid' \in BOOLEAN
      /\ dvi_valid' => FrameStart + addr_count' \in Addr
  <2>1. CASE (Starts \/ Loaded) /\ Dvi!Hold
    BY <2>1 DEF Dvi!Hold
  <2>2. CASE Starts /\ Dvi!Fetch
    BY <1>4, <2>2 DEF Starts, Dvi!Fetch
  <2>3. CASE Fetches /\ Dvi!Receive
    BY <1>4, <2>3 DEF Dvi!Receive
  <2>4. CASE Fetches /\ Dvi!Pause
    <3>1. dvi_valid' = dvi_valid /\ addr_count' = addr_count
      BY <2>4 DEF Dvi!Pause
    <3> QED BY <1>4, <2>4, <3>1 DEF Fetches
  <2>5. CASE Stores /\ Dvi!Written
    <3>1. dvi_valid' = dvi_valid /\ addr_count' = addr_count + 8
      BY <2>5 DEF Dvi!Written, Dvi!BlockWords
    <3> QED BY <1>4, <2>5, <3>1 DEF Stores
  <2>6. CASE Loaded /\ Dvi!Pause
    BY <1>4, <2>6 DEF Loaded, Dvi!Pause
  <2> QED BY <2>1, <2>2, <2>3, <2>4, <2>5, <2>6, LoaderMoves
<1>6. DviRequest(dvi_valid', addr_count') \in Request
  <2>1. FrameStart + addr_count' \in Nat
    <3>1. FrameStart \in Nat /\ addr_count' \in Nat
      BY <1>5, FrameIs
    <3>2. \A x, y \in Nat : x + y \in Nat
      OBVIOUS
    <3> QED BY <3>1, <3>2
  <2>2. ZeroBlock \in Block
    BY MemorySystemAssumption DEF MemorySystemAssumption, Block, ZeroBlock
  <2> QED BY <1>5, <2>1, <2>2 DEF DviRequest, Request
<1>7. req' \in [Client -> Request]
  BY <1>2, <1>3, <1>6, ClientsAre
<1>8. ASSUME Waiting(DviPort)
      PROVE  req'[DviPort] = req[DviPort]
  <2>1. dvi_valid /\ ~mem_ready_data[DviPort]
    BY <1>1, <1>8 DEF Waiting, PortInv, DviRequest
  <2>2. Fetches /\ Dvi!Pause
    BY <2>1, LoaderMoves DEF Starts, Stores, Loaded
  <2>3. dvi_valid' = dvi_valid /\ addr_count' = addr_count
    BY <2>2 DEF Dvi!Pause
  <2> QED BY <1>1, <1>2, <2>3, ClientsAre DEF PortInv
<1> QED BY <1>2, <1>3, <1>7, <1>8, ClientsAre DEF Held

(* While the loader has anything to do, no edge changes the frame. *)
LEMMA FrameStands ==
  ASSUME DInv, DStep, Active
  PROVE  /\ \A i \in Dvi!Slot : store'[Spot(i)] = store[Spot(i)]
         /\ mem_ready_data'[DviPort] => mem_data_rd'[DviPort] = store[Spot(rom_addr_wr)]
<1>1. Promise!Operate
  BY PortsHold, PathStepOperates DEF DInv, DStep, DisplayLogic, PathStep
<1>3. ~mem_rw_data[DviPort] /\ Promise!Place(DviPort) = Spot(rom_addr_wr)
  BY ClientsAre DEF DInv, LoaderInv, PortInv, LoaderTypes, DviRequest, mem_rw_data,
     mem_data_addr, Promise!Place, Promise!DdrAddrOf, Bus!DdrAddrOf, Spot
<1>4. DOMAIN store = DdrAddr
  BY DEF DInv, IInv, Types, MigTypes, store, Stored
<1>5. ASSUME Promise!Perform(DCachePort), NEW i \in Dvi!Slot
      PROVE  store'[Spot(i)] = store[Spot(i)]
  <2>1. CASE ~mem_rw_data[DCachePort]
    BY <1>5, <2>1 DEF Promise!Perform
  <2>2. CASE mem_rw_data[DCachePort]
    <3>1. /\ req[DCachePort].valid /\ req[DCachePort].rw
          /\ store' = [store EXCEPT ![Promise!Place(DCachePort)] = mem_data_wr[DCachePort]]
      BY <1>5, <2>2, ClientsAre DEF Promise!Perform, mem_valid_data, mem_rw_data
    <3>2. req[DCachePort].addr \notin FrameAddr /\ req[DCachePort].addr \in Addr
      BY <3>1, ClientsAre DEF DInv, LoaderInv, CacheInv, IInv, Types, Request
    <3>3. Promise!Place(DCachePort) = Bus!DdrAddrOf(req[DCachePort].addr)
      BY ClientsAre DEF Promise!Place, Promise!DdrAddrOf, Bus!DdrAddrOf, mem_data_addr
    <3>4. Promise!Place(DCachePort) # Spot(i)
      BY <3>2, <3>3, FrameIs
    <3> QED BY <1>4, <3>1, <3>4
  <2> QED BY <2>1, <2>2
<1>6. Promise!Perform(DviPort) => store' = store
  BY <1>3 DEF Promise!Perform
<1>7. ASSUME NEW i \in Dvi!Slot
      PROVE  store'[Spot(i)] = store[Spot(i)]
  BY <1>1, <1>5, <1>6, ClientsAre DEF Promise!Operate, Promise!Client, Client
<1>8. mem_ready_data'[DviPort] => mem_data_rd'[DviPort] = store[Spot(rom_addr_wr)]
  BY <1>1, <1>3, ClientsAre DEF Promise!Operate, Promise!Answer, Promise!Client, Client
<1> QED BY <1>7, <1>8

(* The loader's registers after an edge, and the RAM. *)
LEMMA LoaderStays ==
  ASSUME DInv, DStep
  PROVE  /\ LoaderTypes' /\ RamInv'
         /\ \/ Starts' /\ rom_addr_wr' = 0
            \/ /\ display_on /\ locked_dcm /\ ~ram_wr_done
               /\ Fetches' \/ Stores'
               /\ dvi_valid => rom_addr_wr' = rom_addr_wr
            \/ /\ display_on /\ ~dvi_valid
               /\ Starts' \/ Loaded'
<1>0. /\ LoaderTypes /\ PortInv /\ RamInv /\ FrameBlocks \in Nat /\ 0 < FrameBlocks
      /\ rom_addr_wr \in Nat /\ addr_count = 8 * rom_addr_wr
      /\ rom_addr_wr < FrameBlocks => rom_addr_wr \in Dvi!Slot
      /\ \A i \in Dvi!Slot : i \in Nat
      /\ req[DviPort] = DviRequest(dvi_valid, addr_count)
  <2>1. LoaderTypes /\ PortInv /\ RamInv
    BY DEF DInv, LoaderInv
  <2> QED BY <2>1, FrameIs DEF LoaderTypes, PortInv, Dvi!BlockWords, Dvi!Slot
<1>1. /\ display_on' \in BOOLEAN /\ locked_dcm' \in BOOLEAN
  BY <1>0 DEF DStep, DisplayLogic, Switch, ClockManager, Locks, LoaderTypes
<1>2. ASSUME display_on, NEW i \in Dvi!Slot
      PROVE  store'[Spot(i)] = store[Spot(i)]
  BY <1>2, FrameStands DEF Active
<1>3. ASSUME display_on, ram' = ram, rom_addr_wr' = rom_addr_wr
      PROVE  RamInv'
  BY <1>0, <1>2, <1>3 DEF RamInv
<1>4. ASSUME ram' = ram, rom_addr_wr' = rom_addr_wr, addr_count' = addr_count,
             dvi_valid' \in BOOLEAN
      PROVE  LoaderTypes'
  BY <1>0, <1>1, <1>4 DEF LoaderTypes
<1>5. CASE Dvi!Hold /\ ram' = ram
  <2>1. Starts' /\ rom_addr_wr' = 0 /\ addr_count' = 0 /\ dvi_valid' = FALSE
    BY <1>0, <1>5 DEF Dvi!Hold, Starts
  <2>2. LoaderTypes'
    <3>1. rom_addr_wr' \in Nat /\ addr_count' = 8 * rom_addr_wr'
      BY <2>1
    <3> QED BY <1>0, <1>1, <1>5, <2>1, <3>1 DEF LoaderTypes, Dvi!BlockWords
  <2>3. RamInv'
    BY <1>0, <2>1 DEF RamInv
  <2> QED BY <2>1, <2>2, <2>3
<1>6. CASE display_on /\ locked_dcm /\ Starts /\ Dvi!Fetch /\ ram' = ram
  <2>1. /\ rom_addr_wr' = rom_addr_wr /\ addr_count' = addr_count /\ dvi_valid' = TRUE
        /\ wait_for_read' = TRUE /\ write_enabled' = write_enabled /\ WEN_I' = WEN_I
        /\ ram_wr_done' = ram_wr_done
    BY <1>6 DEF Dvi!Fetch
  <2>2. Fetches' /\ ~ram_wr_done
    BY <1>6, <2>1 DEF Starts, Fetches
  <2> QED BY <1>3, <1>4, <1>6, <2>1, <2>2
<1>7. CASE /\ display_on /\ locked_dcm /\ Fetches /\ ram' = ram
           /\ mem_ready_data[DviPort] /\ Dvi!Receive
  <2>1. /\ rom_addr_wr' = rom_addr_wr /\ addr_count' = addr_count /\ dvi_valid' = FALSE
        /\ wait_for_read' = wait_for_read /\ write_enabled' = TRUE /\ WEN_I' = TRUE
        /\ ram_wr_done' = ram_wr_done /\ data_out' = Dvi!Pixels(mem_data_rd[DviPort])
    BY <1>7 DEF Dvi!Receive
  <2>2. mem_data_rd[DviPort] = store'[Spot(rom_addr_wr)]
    BY <1>0, <1>2, <1>7 DEF PortInv, Fetches
  <2>3. Stores' /\ ~ram_wr_done
    BY <1>7, <2>1, <2>2 DEF Fetches, Stores
  <2> QED BY <1>3, <1>4, <1>7, <2>1, <2>3
<1>8. CASE display_on /\ locked_dcm /\ Fetches /\ ram' = ram /\ Dvi!Pause
  <2>1. /\ rom_addr_wr' = rom_addr_wr /\ addr_count' = addr_count /\ dvi_valid' = dvi_valid
        /\ wait_for_read' = wait_for_read /\ write_enabled' = write_enabled /\ WEN_I' = WEN_I
        /\ ram_wr_done' = ram_wr_done
    BY <1>8 DEF Dvi!Pause
  <2>2. Fetches' /\ ~ram_wr_done /\ dvi_valid' \in BOOLEAN
    BY <1>0, <1>8, <2>1 DEF Fetches, LoaderTypes
  <2> QED BY <1>3, <1>4, <1>8, <2>1, <2>2
<1>9. CASE /\ display_on /\ locked_dcm /\ Stores /\ Dvi!Written
           /\ ram' = [ram EXCEPT ![rom_addr_wr] = data_out]
  <2>1. /\ rom_addr_wr' = rom_addr_wr + 1 /\ addr_count' = addr_count + 8
        /\ dvi_valid' = dvi_valid /\ wait_for_read' = Dvi!LastBlock
        /\ write_enabled' = FALSE /\ WEN_I' = FALSE
        /\ ram_wr_done' = (ram_wr_done \/ Dvi!LastBlock)
    BY <1>9 DEF Dvi!Written, Dvi!NextSlot, Dvi!BlockWords
  <2>2. Dvi!LastBlock <=> rom_addr_wr + 1 = FrameBlocks
    BY <1>0 DEF Dvi!LastBlock, Dvi!BlockWords
  <2>3. rom_addr_wr < FrameBlocks /\ ~dvi_valid /\ ~ram_wr_done
    BY <1>9 DEF Stores
  <2>4. Starts' \/ Loaded'
    <3>1. CASE Dvi!LastBlock
      <4>1. rom_addr_wr' = FrameBlocks /\ wait_for_read' = TRUE /\ ram_wr_done' = TRUE
        BY <2>1, <2>2, <3>1
      <4> QED BY <2>1, <2>3, <4>1 DEF Loaded
    <3>2. CASE ~Dvi!LastBlock
      <4>1. /\ rom_addr_wr' < FrameBlocks /\ wait_for_read' = FALSE
        BY <1>0, <2>1, <2>2, <2>3, <3>2
      <4>2. ram_wr_done' = FALSE
        BY <2>1, <2>3, <3>2
      <4> QED BY <2>1, <2>3, <4>1, <4>2 DEF Starts
    <3> QED BY <3>1, <3>2
  <2>5. LoaderTypes'
    <3>1. rom_addr_wr' \in Nat /\ addr_count' = 8 * rom_addr_wr'
      BY <1>0, <2>1
    <3> QED BY <1>0, <1>1, <1>9, <2>1, <2>3, <3>1 DEF LoaderTypes, Dvi!BlockWords
  <2>6. RamInv'
    <3>1. ASSUME NEW i \in Dvi!Slot, i < rom_addr_wr'
          PROVE  ram'[i] = Dvi!Pixels(store'[Spot(i)])
      <4>1. store'[Spot(i)] = store[Spot(i)]
        BY <1>2, <1>9
      <4>2. CASE i = rom_addr_wr
        BY <1>0, <1>9, <4>1, <4>2 DEF Stores, LoaderTypes
      <4>3. CASE i # rom_addr_wr
        <5>1. i < rom_addr_wr
          BY <1>0, <2>1, <3>1, <4>3
        <5> QED BY <1>0, <1>9, <4>1, <4>3, <5>1 DEF RamInv, LoaderTypes
      <4> QED BY <4>2, <4>3
    <3> QED BY <3>1 DEF RamInv
  <2> QED BY <1>9, <2>3, <2>4, <2>5, <2>6
<1>10. CASE display_on /\ locked_dcm /\ Loaded /\ Dvi!Pause /\ ram' = ram
  <2>1. /\ rom_addr_wr' = rom_addr_wr /\ addr_count' = addr_count /\ dvi_valid' = dvi_valid
        /\ wait_for_read' = wait_for_read /\ write_enabled' = write_enabled /\ WEN_I' = WEN_I
        /\ ram_wr_done' = ram_wr_done
    BY <1>10 DEF Dvi!Pause
  <2>2. Loaded' /\ ~dvi_valid /\ dvi_valid' \in BOOLEAN
    BY <1>0, <1>10, <2>1 DEF Loaded, LoaderTypes
  <2> QED BY <1>3, <1>4, <1>10, <2>1, <2>2
<1> QED BY <1>5, <1>6, <1>7, <1>8, <1>9, <1>10, LoaderMoves

(* A display that may be switched off only between two frames stays on     *)
(* while one is loaded.                                                    *)
LEMMA PowerStays ==
  ASSUME DInv, DStep, ~OffAnyTime
  PROVE  PowerInv'
<1>1. CASE Starts' \/ Loaded'
  BY <1>1 DEF Starts, Loaded, PowerInv
<1>2. CASE display_on /\ locked_dcm /\ ~ram_wr_done
  BY <1>2 DEF DStep, DisplayLogic, Switch, MayOff, ClockManager, Locks, PowerInv
<1> QED BY <1>1, <1>2, LoaderStays

(* The D-cache's next request leaves the frame alone. *)
LEMMA CacheStays ==
  ASSUME DInv, DStep
  PROVE  CacheInv'
<1> SUFFICES ASSUME Active', req'[DCachePort].valid, req'[DCachePort].rw
             PROVE  req'[DCachePort].addr \notin FrameAddr
  BY DEF CacheInv
<1>1. display_on \/ display_on'
  BY LoaderStays DEF Active, Starts
<1>2. req'[DCachePort] \in CacheRequests
  BY ClientsAre DEF DStep, DisplayLogic, PortsStep
<1>3. CASE Waiting(DCachePort)
  <2>1. req'[DCachePort] = req[DCachePort] /\ req[DCachePort].valid
    BY <1>2, <1>3 DEF CacheRequests, Waiting
  <2>2. display_on' = display_on
    BY <2>1 DEF DStep, DisplayLogic, Switch
  <2>3. Active
    BY <1>1, <2>2 DEF Active
  <2> QED BY <2>1, <2>3 DEF DInv, LoaderInv, CacheInv
<1>4. CASE ~Waiting(DCachePort)
  <2>1. req'[DCachePort] \notin {NoRequest} \cup Reads
    <3>1. ~NoRequest.valid /\ \A r \in Reads : ~r.rw
      BY DEF NoRequest, Reads
    <3> QED BY <3>1
  <2>2. req'[DCachePort] \in CacheWrites
    BY <1>2, <1>4, <2>1 DEF CacheRequests
  <2> QED BY <1>1, <2>2 DEF CacheWrites
<1> QED BY <1>3, <1>4

(* The loader's wires, and its answers. *)
LEMMA PortStays ==
  ASSUME DInv, DStep
  PROVE  PortInv'
<1>1. req'[DviPort] = DviRequest(dvi_valid', addr_count')
  BY ClientsAre DEF DStep, DisplayLogic, PortsStep
<1>2. ASSUME mem_ready_data'[DviPort]
      PROVE  mem_data_rd'[DviPort] = store'[Spot(rom_addr_wr')]
  <2>1. dvi_valid
    <3>1. req[DviPort].valid
      BY <1>2, AnsweredAsks, ClientsAre DEF DInv, DStep, DisplayLogic, PathStep
    <3> QED BY <3>1 DEF DInv, LoaderInv, PortInv, DviRequest
  <2>2. Fetches
    BY <2>1 DEF DInv, LoaderInv, Starts, Stores, Loaded
  <2>3. rom_addr_wr' = rom_addr_wr
    BY <2>2, LoaderMoves DEF Fetches, Starts, Stores, Loaded, Dvi!Receive, Dvi!Pause
  <2>4. rom_addr_wr \in Dvi!Slot
    BY <2>2, FrameIs DEF DInv, LoaderInv, LoaderTypes, Fetches, Dvi!Slot
  <2> QED BY <1>2, <2>2, <2>3, <2>4, FrameStands DEF Active, Fetches
<1>3. DviRequest(dvi_valid, addr_count)' = DviRequest(dvi_valid', addr_count')
  BY DEF DviRequest
<1> QED BY <1>1, <1>2, <1>3 DEF PortInv

(* The invariant. *)
LEMMA DisplayInitInv == DisplayInit => DInv
<1> SUFFICES ASSUME DisplayInit
             PROVE  DInv
  OBVIOUS
<1>1. MigTypes
  <2>1. << ZeroBeat, ZeroBeat >> \in Block /\ ZeroBeat \in Beat
    BY MemorySystemAssumption DEF MemorySystemAssumption, Block
  <2>2. ddr \in [DdrAddr -> Block]
    BY <2>1 DEF DisplayInit, MIG!Init
  <2>3. << >> \in Seq(Command) /\ << >> \in Seq(Beat)
    BY EmptySeq
  <2> QED BY <2>1, <2>2, <2>3 DEF DisplayInit, MIG!Init, MigTypes
<1>2. req \in [Client -> Request]
  <2>1. NoRequest \in Request
    BY RequestSets
  <2>2. FrameStart + 0 \in Nat /\ ZeroBlock \in Block
    BY FrameIs, MemorySystemAssumption DEF MemorySystemAssumption, Block, ZeroBlock
  <2>3. DviRequest(FALSE, 0) \in Request
    BY <2>2 DEF DviRequest, Request
  <2>4. req = << NoRequest, DviRequest(FALSE, 0) >>
    BY DEF DisplayInit
  <2>5. Client = 1 .. 2
    BY DisplayMemoryAssumption DEF DisplayMemoryAssumption, Client
  <2>6. ASSUME NEW a \in Request, NEW b \in Request
        PROVE  << a, b >> \in [1 .. 2 -> Request]
    OBVIOUS
  <2> QED BY <2>1, <2>3, <2>4, <2>5, <2>6
<1>3. IInv
  BY <1>1, <1>2, StartsRight DEF DisplayInit, MIG!Init
<1>4. LoaderTypes /\ Starts
  <2>1. /\ display_on = FALSE /\ locked_dcm = FALSE /\ dvi_valid = FALSE
        /\ rom_addr_wr = 0 /\ addr_count = 0 /\ DOMAIN ram = Dvi!Slot
        /\ wait_for_read = FALSE /\ write_enabled = FALSE /\ WEN_I = FALSE
        /\ ram_wr_done = FALSE
    BY DEF DisplayInit
  <2>2. Starts
    BY <2>1, FrameIs DEF Starts
  <2>3. addr_count = 8 * rom_addr_wr
    BY <2>1
  <2> QED BY <2>1, <2>2, <2>3 DEF LoaderTypes, Dvi!BlockWords
<1>5. PowerInv /\ RamInv
  BY FrameIs DEF DisplayInit, PowerInv, RamInv
<1>6. CacheInv /\ PortInv
  BY ClientsAre DEF DisplayInit, CacheInv, Active, PortInv, NoRequest, Arb!ResetState,
                    Arb!Client, Client
<1> QED BY <1>3, <1>4, <1>5, <1>6 DEF DInv, LoaderInv

(* Every step of the display keeps the invariant, if software does not     *)
(* switch off in the middle of a load.                                     *)
LEMMA DisplayNextInv == ~OffAnyTime /\ DInv /\ [DisplayNext]_dvars => DInv'
<1> SUFFICES ASSUME DInv, [DisplayNext]_dvars, ~OffAnyTime
             PROVE  DInv'
  OBVIOUS
<1>1. CASE DisplayNext
  <2>1. DStep
    BY <1>1, NextIsStep
  <2>2. IInv'
    BY <2>1, PortsHold, PathStepInv DEF DInv, DStep, DisplayLogic, PathStep
  <2> QED
    BY <2>1, <2>2, LoaderStays, PowerStays, CacheStays, PortStays DEF DInv, LoaderInv
<1>2. CASE UNCHANGED dvars
  <2>1. UNCHANGED vars /\ UNCHANGED dviVars
    BY <1>2 DEF dvars
  <2>2. IInv'
    BY <2>1, StutterInv DEF DInv
  <2>3. store' = store
    BY <2>1 DEF vars, migVars, store
  <2>4. req' = req /\ mem_ready_data' = mem_ready_data /\ mem_data_rd' = mem_data_rd
    BY <2>1 DEF vars, arbVars
  <2>5. LoaderInv'
    BY <2>1, <2>3, <2>4 DEF dviVars, DInv, LoaderInv, LoaderTypes, Starts, Fetches, Stores,
       Loaded, PowerInv, CacheInv, Active, PortInv, RamInv, DviRequest
  <2> QED BY <2>2, <2>5 DEF DInv
<1> QED BY <1>1, <1>2

(* When the frame is declared loaded, the DVI RAM holds all of its blocks, *)
(* each in its own slot, if software switches the display off only when a  *)
(* frame is loaded: no block of a D-cache access, of an earlier frame or   *)
(* of another place of this frame.                                         *)
THEOREM FrameArrives == ~OffAnyTime /\ DisplaySpec => []FrameComplete
<1>1. DInv => FrameComplete
  <2> SUFFICES ASSUME DInv, ram_wr_done, NEW i \in Dvi!Slot
               PROVE  ram[i] = Dvi!Pixels(store[Spot(i)])
    BY DEF FrameComplete, Spot
  <2>1. rom_addr_wr = FrameBlocks
    BY DEF DInv, LoaderInv, Starts, Fetches, Stores, Loaded
  <2> QED BY <2>1, FrameIs DEF DInv, LoaderInv, RamInv
<1>2. DInv /\ ~OffAnyTime /\ [DisplayNext]_dvars => (DInv /\ ~OffAnyTime)'
  BY DisplayNextInv
<1> QED BY <1>1, <1>2, DisplayInitInv, PTL DEF DisplaySpec

=============================================================================
