SPECIFICATION Spec
CONSTANTS
  Events = {e1, e2, e3}
  Weight <- UnitWeight
  MaxEvents = 2
  MaxBytes = 3
  BatchSize = 2
  MaxAttempts = 2
  Callers = {"close"}
SYMMETRY Symmetry
INVARIANTS
  ExactlyOneFate PayloadsAccounted CloseSettlesAll
PROPERTY KeepsPromise
CHECK_DEADLOCK FALSE
