SPECIFICATION Spec
CONSTANTS
  t1 = t1
  t2 = t2
  b1 = b1
  b2 = b2
  s1 = s1
  s2 = s2
  NoBrowser = NoBrowser
  TTL = 2
  BindingMargin = 1
  States = {s1}
  Names = {n1}
  Workers = {w1}
  MaxEntries = 2
  ExpiresIn <- NoPAR
  MaxLag = 0
  MaxTime = 5
  MaxSaves = 2
  Browsers = {}
  Tabs = {}
  BrowserOf <- NoTabs
PROPERTY LoadStateKeepsLive
\* every bounded run ends with the clock and the saves used up
CHECK_DEADLOCK FALSE
