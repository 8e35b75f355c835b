SPECIFICATION Spec
CONSTANTS
  MaxFrameNum = 8
  MaxLsb = 32
  Drivers <- AllDrivers
INVARIANTS PredictsFromSame OrderRecovered MirrorAgrees PicturesKeptApart ShownInDisplayOrder NoPictureLate
PROPERTIES AllFramesShown
CHECK_DEADLOCK FALSE
