SPECIFICATION FairSpec
CONSTANTS
  Tests <- MCTests
  Harnesses <- AllKinds
INVARIANTS VerdictRight PassHasPositiveControl
PROPERTIES TestEnds
CHECK_DEADLOCK FALSE
