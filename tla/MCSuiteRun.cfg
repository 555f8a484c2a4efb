SPECIFICATION Spec
CONSTANTS
  Registry <- MCRegistry
  Requests <- MCRequests
  MayInterrupt = TRUE
INVARIANTS NothingLeftBehind HarnessHasServer ReportComplete ExitTellsExecution DelegationFlagged
CHECK_DEADLOCK FALSE
