SPECIFICATION Spec
CONSTANTS
  RingSize = 8
  RecSizes = {2, 3}
  MaxSamples = 6
  ObjName = "file"
  Props <- TwoProps
  Regs = {0, 1}
  LabelAt <- TwoLabels
  Segments <- TwoSegments
INVARIANTS RecordsIntact  
