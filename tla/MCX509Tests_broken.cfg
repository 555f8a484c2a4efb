SPECIFICATION Spec
CONSTANTS
  Tests <- MCTests
  Harnesses <- Careless
INVARIANTS BrokenHarnessCannotPass
CHECK_DEADLOCK FALSE
