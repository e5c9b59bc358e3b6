SPECIFICATION Spec
CONSTANTS
  b1 = b1
  b2 = b2
  b3 = b3
  Loaders = {r1, r2}
  Bundles = {b1, b2, b3}
  Corrupt = {b3}
  DayLength = 2
  Horizon = 3
INVARIANTS
  TypeOK
  RecordIsBacked
  
PROPERTIES
  NeverOverwritten
  DaySettled
