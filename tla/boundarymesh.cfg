CONSTANTS
  NoElem = NoElem
  NoWeights = NoWeights
  InvalidPid = InvalidPid
  NoGraph = NoGraph
  Root = 0
  Procs <- MCProcs
  Scenarios <- ScenariosBoundaryMesh
SPECIFICATION Spec
INVARIANT GraphMatchesMesh
