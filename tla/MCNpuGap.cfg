CONSTANTS
  PEs = 2
  ConfigDepth = 2
  IoDepth = 2
  SigmoidDepth = 5
  AccumDepth = 2
  CircDepth = 40
  Tansig <- MCTansig
  Networks <- MCGapNetworks
  Value = {1, 3}
SPECIFICATION Spec
PROPERTY PromiseKept
