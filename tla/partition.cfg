CONSTANTS
  NoElem = NoElem
  NoWeights = NoWeights
  InvalidPid = InvalidPid
  NoGraph = NoGraph
  Root = 0
  Procs <- MCProcs
  Scenarios <- ScenariosPartition
SPECIFICATION Spec
INVARIANT TypeOK
INVARIANT GlobalIndexBijective
 
PROPERTY PartitionContract
