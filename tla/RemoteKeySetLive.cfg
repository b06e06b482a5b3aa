SPECIFICATION LiveSpec
CONSTANTS
  Callers = {c1, c2}
  Instances = {i1}
  InstanceOf <- SharedInstance
  Fallback = FALSE
  MaxVersion = 2
  Overlap = 0
  Tagging = {TRUE}
  Lifetimes = {1}
  MinGap = 1
  MaxSpawned = 1
  Pool = {e1, e2, e3}
  Nil = Nil
PROPERTY CacheCatchesUp
 
