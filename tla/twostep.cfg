CONSTANTS
  NoStep = NoStep
  MaxSolves = 3
  Configs <- ConfigsMain
  Steps <- StepsZeroNorm
SPECIFICATION Spec
INVARIANT TypeOK
INVARIANT HistoryHoldsAcceptedHalfStep
PROPERTY SolveReturns
