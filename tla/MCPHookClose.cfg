SPECIFICATION Spec
CONSTANTS
  t1 = t1
  t2 = t2
  Threads <- TwoThreads
  Hooks = {h1}
  MaxVisits = 2
  MaxSignals = 0
SYMMETRY ThreadsAreAlike
INVARIANT RestoredOnClose
CHECK_DEADLOCK FALSE
