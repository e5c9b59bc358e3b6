SPECIFICATION Spec
CONSTANTS
  LastHour = 0
  Horizon = 7
  p1 = p1
  Polls <- OneTrip
  d1 = d1
  Days = {d1}
  Window <- OneHour
  Bounds <- OneHour
  PerHour = 2
  Lag = 1
  RawLife <- ShortLife
  PartialLife = 2
  Compactors = {c1}
  Mergers = {m1}
  Selections <- AllTables
PROPERTIES
  NeverEmptied
