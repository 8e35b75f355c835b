SPECIFICATION Spec
CONSTANTS
  MaxFrameNum = 8
  MaxLsb = 32
  Drivers <- LargeB
INVARIANTS ShownInDisplayOrder
CHECK_DEADLOCK FALSE
