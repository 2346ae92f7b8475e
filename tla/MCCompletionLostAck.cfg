CONSTANTS
  t1 = t1
  t2 = t2
  b1 = b1
  b2 = b2
  Tab = {t1}
  Browser = {b1}
  BrowserOf <- MCSingle
  MaxClicks = 2
  MaxFaults = 1
  MaxEdits = 0
  StartRows <- MCCompleted
SPECIFICATION Spec
PROPERTY NewestIntentStands
CHECK_DEADLOCK FALSE
