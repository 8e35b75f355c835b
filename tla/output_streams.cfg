SPECIFICATION SpecStreams
CONSTANTS
  Caps <- TwoCaps
  FrameNums <- TwoNums
  Pocs <- OnePoc
  Structures <- Mixed
  Conforming = FALSE
  Reorder = 0
  LoneFields = FALSE
  MaxPictures = 3
INVARIANTS QueueBounded EachFrameOnce SequencesInOrder
PROPERTIES OrderedDisplays OrderedAllDelivered
