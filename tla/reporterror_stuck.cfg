\* A serial build in which a nested error unwinds the outer report.
CONSTANTS
  t1 = t1
  t2 = t2
  t3 = t3
  NoThread = NoThread
  Threads <- MCThreads
  Scenarios <- ScenariosStuck
SPECIFICATION Spec
INVARIANT TopLevelReportPrintsTrace
