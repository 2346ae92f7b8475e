CONSTANTS
  t1 = t1
  t2 = t2
  none = none
  Task <- MCTask
  NoTask = none
  MaxClicks = 3
  MaxRare = 1
SPECIFICATION FairSpec
INVARIANT TypeOK
INVARIANT UndoKept
PROPERTY PauseEnds
CHECK_DEADLOCK FALSE
