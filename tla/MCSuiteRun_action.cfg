SPECIFICATION FairSpec
CONSTANTS
  Registry <- MCRegistry
  Requests <- MCRequests
  MayInterrupt = FALSE
PROPERTIES OutputsReported
CHECK_DEADLOCK FALSE
