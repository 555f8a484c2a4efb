SPECIFICATION FairSpec
CONSTANTS
  Tests <- MCTests
  Harnesses <- AllKinds
INVARIANTS TypeOK VerdictRight PassEarned FailIsTheSDKs
PROPERTIES TestEnds ListenerEnds
CHECK_DEADLOCK FALSE
