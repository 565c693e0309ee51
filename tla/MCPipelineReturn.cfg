SPECIFICATION Spec
CONSTANTS
  Half = 4
  LastReg = 3
  TokenCount = 4
  Token <- MCToken
  Programs <- MCReturnPrograms
  InitRegs <- MCRegs
  InitMem <- MCMem
INVARIANT RegistersInStep
