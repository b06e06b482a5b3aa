SPECIFICATION Spec
CONSTANTS
  t1 = t1
  b1 = b1
  States = {s1, s2}
  Names = {n1}
  Browsers = {b1}
  Tabs = {t1}
  BrowserOf <- OneTab
  Second = 2
  TTL = 3
  ExpiresIn <- ShortPAR
  Room = 2
  MaxTime = 6
  MaxSaves = 2
  MaxOps = 2
  MaxKey = 1
INVARIANT TypeOK
INVARIANT ReplayNeedsLoss
INVARIANT InitiatorCanFinish
SYMMETRY StateSymmetry
\* every bounded run ends with the clock and the saves used up
CHECK_DEADLOCK FALSE
