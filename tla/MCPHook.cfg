SPECIFICATION FairSpec
CONSTANTS
  t1 = t1
  t2 = t2
  Threads <- TwoThreads
  Hooks = {h1}
  MaxVisits = 2
  MaxSignals = 1
INVARIANTS TypeOK BodyThreadStopped MissingOnlyWhileStepping HitsReported
PROPERTIES CloseReturns ThreadsResume
CHECK_DEADLOCK FALSE
