SPECIFICATION Spec
CONSTANTS
  Minutes = 1
  Schedule <- PairSchedule
  MaxConcurrentPolls = 2
  Period = 1
  Timeout = 2
  MaxAttempts = 1
  Horizon = 3
  Phase = 0
  FaceMinutes = 6
INVARIANTS
  LostIsReported
