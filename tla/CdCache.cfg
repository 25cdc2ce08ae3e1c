SPECIFICATION CacheSpec
CONSTANTS
  Cue <- SmallDisc
  Sectors = {0, 1, 3, 4, 6, 9}
  Readahead = 3
  Stride = 2
  Capacity = 3
  IoCanFail = TRUE
INVARIANTS CacheMatchesDisc RequestNotForgotten NoLostWakeup
PROPERTIES ImplementsDisc ReadsReturn
CHECK_DEADLOCK FALSE
