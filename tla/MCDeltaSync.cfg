CONSTANTS
  r1 = r1
  r2 = r2
  mon = mon
  tue = tue
  none = none
  Row <- MCRow
  Day <- MCDay
  Nowhere = none
  Home = mon
  PageLimit = 1
  MaxWrites = 2
  MaxOpen = 2
  MaxTroubles = 1
  MaxVisits = 1
SPECIFICATION FairSpec
INVARIANT TypeOK
INVARIANT NothingElseMissed
PROPERTY Converges
CHECK_DEADLOCK FALSE
