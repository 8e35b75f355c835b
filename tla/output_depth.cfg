SPECIFICATION Spec
CONSTANTS
  Caps <- TwoCap
  FrameNums <- OneNum
  Pocs <- FourPocs
  Structures <- FramesOnly
  Conforming = TRUE
  Reorder = 1
  LoneFields = FALSE
  MaxPictures = 5
INVARIANTS ShownInOrder
