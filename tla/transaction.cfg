SPECIFICATION Spec
CONSTANTS
  Null = Null
  Junk = Junk
  Corrupted = Corrupted
  AllocMayFail = TRUE
  Modulus = 16
  Zero = "zero"
  Seeds = {"mine"}
  Indices = {0}
  Colors = {Null}
  Values = {1}
  Addresses <- MCAddresses
  TxIds = {"t", "u"}
  Places = {p1, p2, p3}
  NotBase58 = NotBase58
  MaxInputs = 2
  MaxOutputs = 2
  MaxBalances = 2
INVARIANTS TxTypeOK OutputsOwnLists EssenceReads TxSignCovers ValidMeansSigned OneSignatureEach SerialisedWhole
SYMMETRY Symmetry
CHECK_DEADLOCK FALSE
