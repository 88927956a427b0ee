\* Every input of up to 6 bytes, reads of 1 or 2 bytes, failures anywhere.
CONSTANTS
  MaxLen = 6
  ReadChunk = 2
  ReadAhead = 2
  MayFail = TRUE
SPECIFICATION FairSpec
INVARIANTS BuffersBounded
PROPERTIES Promise BothEnd
