CONSTANTS
  p1 = p1
  p2 = p2
  none = none
  Page <- MCPage
  FirstPage = p1
  NoPage = none
  MaxStrokes = 2
  MaxFaults = 1
  MaxDeletes = 1
SPECIFICATION FairSpec
INVARIANT TypeOK
INVARIANT NeverLeftBehind
INVARIANT VaultInStep
PROPERTY Drains
CHECK_DEADLOCK FALSE
