SPECIFICATION Spec
CONSTANTS
  Tests <- MCTests
  Harnesses <- Careful
INVARIANTS BundleUsersNotPenalised
CHECK_DEADLOCK FALSE
