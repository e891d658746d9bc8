SPECIFICATION FairSpec
CONSTANTS
  MaxRequests = 3
  MaxCancels = 2
INVARIANT RequestsNeverMeet
PROPERTY RequestsRelease
CHECK_DEADLOCK FALSE
