CONSTANTS
  t1 = t1
  t2 = t2
  b1 = b1
  b2 = b2
  Tab <- MCTab
  Browser <- MCBrowser
  BrowserOf <- MCDevices
  MaxClicks = 3
  MaxFaults = 1
  MaxEdits = 0
  StartRows <- MCUnrevised
SPECIFICATION Spec
INVARIANT TypeOK
INVARIANT LogInClickOrder
PROPERTY RegisterSpec
SYMMETRY MCSymmetry
CHECK_DEADLOCK FALSE
