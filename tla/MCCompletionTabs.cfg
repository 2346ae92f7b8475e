CONSTANTS
  t1 = t1
  t2 = t2
  b1 = b1
  b2 = b2
  Tab <- MCTab
  Browser = {b1}
  BrowserOf <- MCShared
  MaxClicks = 2
  MaxFaults = 1
  MaxEdits = 1
  StartRows <- MCFresh
SPECIFICATION FairSpec
INVARIANT Accounted
INVARIANT ShowsPending
PROPERTY MovedAsAsked
PROPERTY Settles
CHECK_DEADLOCK FALSE
