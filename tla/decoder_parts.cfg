SPECIFICATION SpecParts
CONSTANTS
  Streams <- AllStreams
  MaxFrameNum = 4
  MaxLsb = 8
  IntMax = 31
INVARIANTS TypeOK RecoversOrder ResetsFit InitialListsOrdered CommandsReachFront OwnSets PlanesMatched
PROPERTIES StoredPocIsOutputPoc
CHECK_DEADLOCK FALSE
