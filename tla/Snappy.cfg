\* The program ends, and with a short block it stops at MaxOut.
CHECK_DEADLOCK FALSE
SPECIFICATION Spec
CONSTANTS
  OUT_BUFFER_LENGTH = 16
  MRAM_SIZE = 256
  UINT16 = 70
  COPY_1_OFFSETS = 16
  NumTableEntries = 16
  MaxOut = 160
  Byte <- MCByte
  Filler = 0
  Hash <- MCHash
  Calls <- MCCalls
  Lengths = {15, 46, 68, 90}
  Starts = {0, 20, 70}
  Periods = {1, 3, 5}
  Buffers = {16, 27}
  BlockSizes = {23, 45, 70, 100}
INVARIANTS
  SnappyTypeOK
  ReaderInStep
  MatchBehind
  RoundTrip
  OutputStored
PROPERTY
  Completes
