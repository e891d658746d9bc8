SPECIFICATION CompareSpec
CONSTANT Cases <- SmallCases
INVARIANTS
  DifferencesAreExact VerdictIsExplained
