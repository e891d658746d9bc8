SPECIFICATION FairSpec
CONSTANTS
  Jobs = {1, 2, 3}
  Workers = {w1, w2}
  Weight <- UnitWeight
  MaxJobs = 2
  MaxBytes = 2
  Callers = {c1}
INVARIANTS
  ExactlyOneFate ResourcesAccounted SettlesAll
PROPERTY Progress
CHECK_DEADLOCK FALSE
