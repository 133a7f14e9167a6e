CONSTANTS
  Buffer = 2
  ChanCap = 1
  Delay = 1
  MaxPackets = 3
  MaxSecrets = 1
  Faults <- AnyFault
  Large = {2}
SPECIFICATION Spec
INVARIANTS
  TypeOK NeverOverflows SlabOwnership NoCopyAfterUnmap IdleFlushed
  CaptureErrorKeepsPackets ResultExplains
PROPERTY ImplementsCaptureFile
