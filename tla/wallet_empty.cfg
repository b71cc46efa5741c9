SPECIFICATION Spec
CONSTANTS
  ByteBits = 8
  ReallocMayFail = FALSE
  MaxIndex = 1
  External = External
  NoAddress = NoAddress
  Colors <- OneToken
  Incoming <- IncomingIota
  Amounts <- MCAmounts
  Receivers = {External}
  MaxTx = 2
INVARIANTS RefreshReturns
CHECK_DEADLOCK FALSE
