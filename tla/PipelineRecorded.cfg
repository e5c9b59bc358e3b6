SPECIFICATION Spec
CONSTANTS
  LastHour = 0
  Horizon = 7
  p1 = p1
  Polls <- OneEach
  d1 = d1
  Days = {d1}
  Window <- OneHour
  Bounds <- OneHour
  PerHour = 2
  Lag = 1
  RawLife <- ShortLife
  PartialLife = 2
  Compactors = {c1, c2}
  Mergers = {}
  Selections <- AllTables
INVARIANTS
  RecordedHourHasPartials
