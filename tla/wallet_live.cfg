SPECIFICATION RestartSpec
CONSTANTS
  ByteBits = 2
  ReallocMayFail = FALSE
  MaxIndex = 2
  External = External
  NoAddress = NoAddress
  Colors <- OneToken
  Incoming <- IncomingIota
  Amounts = {2}
  Receivers = {External}
  MaxTx = 3
  MaxRestarts = 1
INVARIANTS ReuseNeedsRestart
PROPERTIES SendReturns CatchesUp
CHECK_DEADLOCK FALSE
