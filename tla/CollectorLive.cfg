SPECIFICATION FairSpec
CONSTANTS
  Minutes = 1
  Schedule <- CrowdedSchedule
  MaxConcurrentPolls = 2
  Period = 2
  Timeout = 4
  MaxAttempts = 1
  Horizon = 4
  Phase = 0
  FaceMinutes = 6
INVARIANTS
  TypeOK
  PermitsConserved
  StoredIsAudited
PROPERTIES
  AttemptEnds
