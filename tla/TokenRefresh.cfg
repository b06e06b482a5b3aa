SPECIFICATION Spec
CONSTANTS
  Callers = {c1, c2}
  NoCaller = NoCaller
  Sources = {s1}
  Configs <- GuessingConfigs
  MaxGrant = 2
  MaxGen = 2
  MaxNonce = 2
INVARIANT TypeOK
INVARIANT NeverReplays
INVARIANT InStep
INVARIANT NeverUnauthorized
