CONSTANTS
  Buffer = 2
  ChanCap = 1
  Delay = 1
  MaxPackets = 2
  MaxSecrets = 1
  Faults <- CaptureFails
  Large = {}
SPECIFICATION FairSpec
PROPERTY CaptureErrorReturns
