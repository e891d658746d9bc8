SPECIFICATION FairSpec
CONSTANTS
  Events <- SizeEvents
  Weight <- SizeWeight
  MaxEvents = 2
  MaxBytes = 3
  BatchSize = 1
  MaxAttempts = 2
  Callers = {"close", "flush"}
INVARIANT FlushSettlesEarlier
PROPERTY Progress
CHECK_DEADLOCK FALSE
