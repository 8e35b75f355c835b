SPECIFICATION SpecStreams
CONSTANTS
  MaxFrameNum = 3
  MaxNumRefFrames = 2
  GapsAllowed = TRUE
  Diffs <- SomeDiffs
  LtIdx <- OneIdx
  Structures <- Mixed
  Modes <- BothModes
  Conforming = FALSE
  MaxPictures = 3
INVARIANTS MarkingsInSync StoreMatchesDpb OnlyReferencesHeld ConformingWithinWindow UnitsAreFramesOfPairs LongTermIdxUniqueOfPairs WindowIsNewestInGaps
PROPERTIES NeverRevived PairSurvives
CHECK_DEADLOCK FALSE
