CONSTANTS
  E0 = E0
  E1 = E1
  E2 = E2
  E3 = E3
  Null = Null
  Meshes <- MCMeshes
  BConfigs <- MCBConfigs
  Neighbors <- MCNeighbors
  NoNeighbor <- Null
  BIds <- MCBIds
SPECIFICATION MCSpec
INVARIANTS
  TypeOK
  
  EmbeddingMatchesLookup
  ChildTablesAgree
  LocalNodeTablesAgree
  HasAffineMapIffAffine
  TwistIffJacobianKeepsSign
  ShapeIsOneExactlyForSquares
  InfHexTablesAgree
  InfHexFastRejectSound
  InfHexFlippedWithBase
PROPERTIES
  FlipCarriesBoundaryIds
  FlipReversesOrientation
