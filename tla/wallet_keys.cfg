SPECIFICATION Spec
CONSTANTS
  ByteBits = 8
  ReallocMayFail = FALSE
  MaxIndex = 2
  External = External
  NoAddress = NoAddress
  Colors <- OneToken
  Incoming <- IncomingIota
  Amounts = {1}
  Receivers = {External}
  MaxTx = 3
INVARIANTS SignedWithOwnKeys
CHECK_DEADLOCK FALSE
