CONSTANTS
  p1 = p1
  p2 = p2
  Producers <- TwoProducers
  Capacity = 1
  MaxHits = 2
  MaxLosses = 1
SPECIFICATION FairSpec
INVARIANTS TypeOK  FailedProducerDrained
PROPERTY ReaderEnds
