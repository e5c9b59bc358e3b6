SPECIFICATION Spec
CONSTANTS
  Minutes = 2
  Schedule <- LoneSchedule
  MaxConcurrentPolls = 1
  Period = 1
  Timeout = 2
  MaxAttempts = 2
  Horizon = 4
  Phase = 0
  FaceMinutes = 6
INVARIANTS
  
  ObjectsAudited
