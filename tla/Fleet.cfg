SPECIFICATION Spec
CONSTANTS
  Workers = {w1, w2}
  Operators = {o1, o2}
  Revisions = {1, 2, 3}
  Budgets = {small, large}
  HistoryLimit = 2
  Gates = {g3}
  Comparing = g3
  Findings = {"pass"}
  Stages = {"S2", "S3"}
  MaxHappenings = 3
SYMMETRY Interchangeable
INVARIANTS
  StableIsTrue ChangesAreChained DeltasAreTrue
PROPERTY PromotionsAreCurrent
CHECK_DEADLOCK FALSE
