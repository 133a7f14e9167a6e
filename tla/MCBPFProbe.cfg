SPECIFICATION FairSpec
CONSTANTS
  Cpus = 2
  Targets <- ThreeTargets
  Fds = {1, 2, 3, 4}
  OtherPids = {"p"}
  MaxAttach = 2
  MaxChanges = 1
  MaxHits = 1
  MaxFails = 1
INVARIANTS TypeOK RingsReachable Covered 
PROPERTIES RecordsRead CloseReturns
