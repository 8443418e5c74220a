CONSTANTS
  Procs <- MCProcs
  N = 3
  First <- MCFirst
  W <- MCW
  Vals = {1, 2}
  Factors <- MCFactors
  IdxSeqs <- MCIdxSeqs
  FullVecs <- MCFullVecs
  Scenarios <- ScenariosStrict
  MaxEdits = 3
SPECIFICATION Spec
INVARIANT CloseAssembles
INVARIANT ReadsSeeEveryEdit
