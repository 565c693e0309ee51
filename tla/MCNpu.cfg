CONSTANTS
  PEs = 2
  ConfigDepth = 2
  IoDepth = 2
  SigmoidDepth = 5
  AccumDepth = 2
  CircDepth = 40
  Tansig <- MCTansig
  Networks <- MCNetworks
  Value = {1, 3}
SPECIFICATION Spec
INVARIANTS
  TypeOK
  AtRest
  BuffersRespected
  PortsExclusive
  LockStep
PROPERTIES
  PromiseKept
  AllAnswered
