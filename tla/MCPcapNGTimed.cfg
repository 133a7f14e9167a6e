CONSTANTS
  Buffer = 4
  ChanCap = 1
  Delay = 2
  Latency = 1
  MaxPackets = 3
  MaxSecrets = 2
  Large = {1, 2, 3}
  Faults = {"cancel"}
SPECIFICATION TimedSpec
INVARIANTS TimedTypeOK SecretsFirst NoneOverdue
