SPECIFICATION InTimeSpec
CONSTANTS
  LastHour = 1
  Horizon = 5
  p1 = p1
  Polls <- OneTrip
  d1 = d1
  Days = {d1}
  Window <- TwoHours
  Bounds <- TwoHours
  PerHour = 2
  Lag = 1
  RawLife <- LongLife
  PartialLife = 2
  Compactors = {c1}
  Mergers = {m1}
  Selections <- OneTable
INVARIANTS
  TypeOK
  
  
