SPECIFICATION Spec
CONSTANTS
  MaxFrameNum = 8
  MaxNumRefFrames = 1
  GapsAllowed = TRUE
  Diffs <- NoDiffs
  LtIdx <- OneIdx
  Structures <- FieldsOnly
  Modes <- Sliding
  Conforming = TRUE
  MaxPictures = 9
INVARIANTS FirstFieldHeld
CHECK_DEADLOCK FALSE
