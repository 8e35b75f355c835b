SPECIFICATION Spec
CONSTANTS
  MaxFrameNum = 8
  MaxLsb = 32
  Drivers <- AllIntra
INVARIANTS PicturesKeptApart
CHECK_DEADLOCK FALSE
