SPECIFICATION Spec
CONSTANTS
  ByteBits = 8
  ReallocMayFail = FALSE
  MaxIndex = 1
  External = External
  NoAddress = NoAddress
  Colors <- OneToken
  Incoming <- IncomingIota
  Amounts = {1}
  Receivers = {External}
  MaxTx = 2
INVARIANTS MarkedOnlyIfSent
CHECK_DEADLOCK FALSE
