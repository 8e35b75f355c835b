SPECIFICATION Spec
CONSTANTS
  Headers <- TwoFields
  Mbs = 2
  Aso = FALSE
  Partitions = TRUE
  Faulty = FALSE
  Resets = TRUE
  MaxPictures = 2
  MaxPackets = 2
INVARIANTS ResetDiscards
CHECK_DEADLOCK FALSE
