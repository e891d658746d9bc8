SPECIFICATION CohortSpec
CONSTANT Observations = {o1, o2, o3}
SYMMETRY Interchangeable
INVARIANTS
  CountsAreExact StepsAreNested ClosedCompleteIsWhole
PROPERTY ClosedIsFinal
CHECK_DEADLOCK FALSE
