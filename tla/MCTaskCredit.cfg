CONSTANTS
  t1 = t1
  t2 = t2
  t3 = t3
  l1 = l1
  l2 = l2
  NoKey = NoKey
  Task <- MCTask
  Label <- MCLabel
  LabelOf <- MCLabelOf
  MaxPoints = 2
  MaxRuns = 2
  MaxCalls = 5
  MaxFaults = 1
SPECIFICATION Spec
INVARIANT TypeOK
INVARIANT PaidOnce
INVARIANT BalanceExplained
PROPERTY RevokesItsOwn
SYMMETRY MCTwins
CHECK_DEADLOCK FALSE
