SPECIFICATION BackedSpec
CONSTANTS
  ByteBits <- MCByteBits
  MaxIndex <- MCMaxIndex
  ReallocMayFail = FALSE
INVARIANTS UnspentListComplete
PROPERTY TopBoundsKept
