SPECIFICATION FairSpec
CONSTANTS
  Half = 4
  LastReg = 3
  TokenCount = 4
  Token <- MCToken
  Programs <- MCPrograms
  InitRegs <- MCRegs
  InitMem <- MCMem
INVARIANTS TypeOK PathInStep RegistersInStep MemoryInStep NpuInStep
PROPERTY KeepsCommitting
