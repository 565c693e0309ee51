CONSTANTS
  Byte = {0, 1, 2, 3, 4, 5, 6, 7, 8, 9}
  Bytes = 4
  ByteClocks = 8
  GapClocks = 5
  SendClocks = {4, 6}
  TickBits = 2
  Programs <- MCPrograms
  HostWords <- MCHostWords
  MaxIdle = 2
  MaxRepeats = 1
SPECIFICATION Spec
PROPERTIES
  TicksHold
