\* A threaded and a serial build (see ScenariosMain).
CONSTANTS
  t1 = t1
  t2 = t2
  t3 = t3
  NoThread = NoThread
  Threads <- MCThreads
  Scenarios <- ScenariosMain
SPECIFICATION Spec
INVARIANT ReportsNotInterleaved
INVARIANT NestingBounded
