SPECIFICATION FairSpec
CONSTANTS
  e1 = e1  e2 = e2  e3 = e3  w1 = w1  w2 = w2  p1 = p1  q1 = q1  q2 = q2
  Events = {e1, e2, e3}
  Writes = {w1, w2}
  Purges = {p1}
  Queries = {q1, q2}
  Privileged = {q1}
  Wanted <- Everything
  Limit <- OneOrTwo
  Created <- InOrder
  Batch <- Retried
  PurgeSize = 1
  Lots = {{e1, e2}}
  Plans <- ThreeCalls
INVARIANTS
  ConnectionIsExclusive AnswersAreTrue
PROPERTIES
  KeepsContract CallsEnd
CHECK_DEADLOCK FALSE
