\* Three clients, one address and one block: liveness tells only directions
\* and clients apart. Lag = 1 and AFull = 3 keep MIG's FIFOs below almost full.
CONSTANTS
  N = 3
  AddrSpan = 16
  Addr = {0}
  Data <- MCOneBlock
  Beat = {"b0"}
  ZeroBeat = "b0"
  WriteCycleDelay = 2
  AFull = 3
  Lag = 1
  Writer = {1, 2}
SPECIFICATION LiveSpec
PROPERTIES
  GrantedServed
  StarvedOnlyByPriority
CHECK_DEADLOCK TRUE
