SPECIFICATION Spec
CONSTANTS
  Calls <- Loop
  Updates <- AnyTurn
  Samples <- Stale
  Hours = 2
  HourLength = 2
  MaxUpdates = 3
  MaxSamples = 4
  DayAhead = 12
  EarliestPlausible = 2
  ReliableLead = 2
  Window <- AfterZero
INVARIANTS
  TypeOK
  TotalsKept
  ReliableIsWitnessed
  FactIsTheEvidence
  FactIsDistinct
  CountersAccount
