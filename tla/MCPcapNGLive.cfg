CONSTANTS
  Buffer = 2
  ChanCap = 1
  Delay = 1
  MaxPackets = 2
  MaxSecrets = 1
  Faults <- FaultsOnly
  Large = {}
SPECIFICATION FairSpec
PROPERTIES DeliversAll StopReturns GoroutinesEnd
