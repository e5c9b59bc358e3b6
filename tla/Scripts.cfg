SPECIFICATION ScriptsSpec
CONSTANTS
  Days = {1, 2}
  WindowOf <- MeetingWindows
  Available = {1, 2}
  Parallel = 2
  MaxFailures = 1
  TrustedFor = 0
  Longest = 1
  Life = 3
  MaxTime = 3
  PulledKeys = {k1, k2}
  MaxPuts = 4
  Tables <- TwoTables
  DateNames = {1, 2, 3}
  Checks <- DatedChecks
  Operators = {o1, o2}
INVARIANTS
  ScriptsTypeOK
  NeverLacking
  FinishedIsRebuilt
  CurrentIsSame
  QuietPullIsLevel
  FinishedIsRenamed
PROPERTIES
  NothingLost
  
