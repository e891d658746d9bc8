SPECIFICATION FairSpec
CONSTANT MaxBody = 2
INVARIANTS
  ResponseIsTrue ShadowNeedsWholeInput CompletionKeepsShadow
PROPERTIES
  EvidenceIsFinal RequestEnded
CHECK_DEADLOCK FALSE
