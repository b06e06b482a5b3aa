SPECIFICATION KeysSpec
CONSTANTS
  Callers = {c1, c2}
  Instances = {c1, c2}
  InstanceOf <- OwnInstance
  Fallback = TRUE
  MaxVersion = 2
  Overlap = 0
  Tagging = {TRUE}
  Lifetimes = {1}
  MinGap = 1
  MaxSpawned = 1
  Pool = {e1, e2, e3}
  Nil = Nil
INVARIANT KeysTypeOK
INVARIANT PublishedKeyIsFound
SYMMETRY Symmetry
