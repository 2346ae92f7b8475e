CONSTANTS
  p1 = p1
  p2 = p2
  none = none
  Page = {p1}
  FirstPage = p1
  NoPage = none
  MaxStrokes = 2
  MaxFaults = 0
  MaxDeletes = 0
SPECIFICATION Spec
INVARIANT ShownIsQueued
CHECK_DEADLOCK FALSE
