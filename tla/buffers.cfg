SPECIFICATION Spec
CONSTANTS
  Null = Null
  Junk = Junk
  Corrupted = Corrupted
  AllocMayFail = TRUE
  Chunks <- MCChunks
  MaxLen = 5
INVARIANTS BuffersTypeOK Conversions StrFaithful
PROPERTIES ImplementsByteString
CHECK_DEADLOCK FALSE
