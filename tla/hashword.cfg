\* Every hashword.h function on keys at the edges of the word widths.
CONSTANTS
  Keys32 <- MCKeys32
  Inits <- MCInits
  Keys64 <- MCKeys64
  Pairs64 <- MCPairs64
SPECIFICATION Spec
INVARIANT HashwordOfTwoIsHashword2
INVARIANT Hashword64IsFnv1
INVARIANT Hashword2_64IsFnvBuf
