SPECIFICATION AMSpec
CONSTANTS
  ByteBits <- MCByteBits
  MaxIndex <- MCMaxIndex
  ReallocMayFail = TRUE
INVARIANTS AMTypeOK WindowInsideIssued
PROPERTY SpentNeverForgotten
