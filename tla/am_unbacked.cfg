SPECIFICATION AMSpec
CONSTANTS
  ByteBits <- MCByteBits
  MaxIndex <- MCMaxIndex
  ReallocMayFail = FALSE
INVARIANT UnspentListComplete
