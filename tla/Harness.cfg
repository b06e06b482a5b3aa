SPECIFICATION Spec
CONSTANTS
  NJobs = 3
  Settings <- MCSettings
  Focus = 2
  Plans <- MCPlans
  Outcomes <- MCOutcomes
  WaitingMaxRetries = 1
  MaxRedirects = 2
  MaxPeriods = 1
INVARIANTS
  TypeOK
  PoolSound
  ReportTruthful
  NothingLeft
PROPERTY
  ExecuteReturns
