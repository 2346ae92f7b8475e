CONSTANTS
  root = root
  child = child
  late = late
  p1 = p1
  p2 = p2
  nobody = nobody
  Row <- MCRow
  Parent <- MCParent
  Above <- MCAbove
  Position <- MCPosition
  Late = {late}
  Process = {p1, p2}
  Nobody = nobody
  Day <- MCDay
  Today = 1
  MaxRequests = 3
  MaxResends = 1
SPECIFICATION Spec
SYMMETRY Alike
INVARIANT TypeOK
INVARIANT NotStranded
INVARIANT NoneIsStuck
PROPERTY EditsKept
PROPERTY DeletedOnce
CHECK_DEADLOCK FALSE
