CONSTANTS
  ta = ta
  tb = tb
  tc = tc
  w1 = w1
  w2 = w2
  d1 = d1
  Task <- MCTask
  Workspace <- MCWorkspace
  Home <- MCHome
  Device <- MCDevice
  AutoPause = 1
  HardStop = 2
  Wait = 1
  MaxTime = 3
  MaxIds = 3
  MaxLate = 1
  MaxTroubles = 1
SYMMETRY Alike
SPECIFICATION Spec
INVARIANT TypeOK
INVARIANT OneForeground
INVARIANT WorkCountedOnce
INVARIANT RefusedNotDone
INVARIANT EffectOwed
PROPERTY NoWorkLost
CHECK_DEADLOCK FALSE
