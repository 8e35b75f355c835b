SPECIFICATION Spec
CONSTANTS
  Streams <- BottomResets
  MaxFrameNum = 4
  MaxLsb = 8
  IntMax = 1000
INVARIANTS RecoversOrder
