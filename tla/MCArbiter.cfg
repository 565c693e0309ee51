\* Three clients, one address, two block values; every input changes freely
\* at every clock edge.
CONSTANTS
  N = 3
  Addr = {0}
  AddrSpan = 8
  Block = {b0}
  ZeroBlock = b0
SPECIFICATION Spec
INVARIANTS
  TypeOK
  OneActive
  BusOwner
PROPERTY NoPreemption
CHECK_DEADLOCK TRUE
