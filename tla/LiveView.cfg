CONSTANTS
  MaxVersion = 2
  MaxTroubles = 1
SPECIFICATION FairSpec
INVARIANT TypeOK
INVARIANT NothingMissed
INVARIANT NeverAdrift
CHECK_DEADLOCK FALSE
PROPERTY CatchesUp
