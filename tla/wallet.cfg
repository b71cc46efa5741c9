SPECIFICATION Spec
CONSTANTS
  ByteBits = 1
  ReallocMayFail = FALSE
  MaxIndex = 1
  External = External
  NoAddress = NoAddress
  Colors <- TwoTokens
  Incoming <- IncomingMixed
  Amounts <- MCAmounts
  Receivers = {0, External}
  MaxTx = 3
INVARIANTS TypeOK NoReuse NeverOverstates ChangeIsFresh SoundTxAccepted
PROPERTIES OneTime ManagerSpec
CHECK_DEADLOCK FALSE
