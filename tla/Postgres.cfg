SPECIFICATION FairSpec
CONSTANTS
  e1 = e1  e2 = e2  e3 = e3  w1 = w1  w2 = w2  p1 = p1  p2 = p2  q1 = q1  one = one  two = two
  Stores = {one, two}
  Events = {e1, e2, e3}
  Writes = {w1, w2}
  Purges = {p1, p2}
  Queries = {q1}
  Home <- TwoProcesses
  Batch <- Retried
  Wanted <- Everything
  Limit <- FirstOnly
  Created <- InOrder
  PurgeSize = 1
  Lots = {{e1, e2}}
  Plans <- ThreeCalls
  Closable = {one}
INVARIANTS
  ConnectionIsClean RowsAreExact QueriesSeeAcknowledged
PROPERTIES
  KeepsContract CallsEnd
CHECK_DEADLOCK FALSE
