SPECIFICATION PromptSpec
CONSTANTS
  Minutes = 2
  Schedule <- SpreadSchedule
  MaxConcurrentPolls = 1
  Period = 2
  Timeout = 4
  MaxAttempts = 1
  Horizon = 6
  Phase = 1
  FaceMinutes = 6
INVARIANTS
  
  
  ExpectedIsNear
