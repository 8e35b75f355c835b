SPECIFICATION SpecStreams
CONSTANTS
  Headers <- EachElement
  Mbs = 2
  Aso = TRUE
  Partitions = TRUE
  Faulty = FALSE
  Resets = FALSE
  MaxPictures = 2
  MaxPackets = 1
INVARIANTS OnePictureEachWithoutLoss OnlyFaultyLost PtsOfOwnPacket ClosedIsWhole
CHECK_DEADLOCK FALSE
