SPECIFICATION FairSpec
CONSTANTS
  r1 = r1
  r2 = r2
  Requests = {r1, r2}
INVARIANTS OneSource ControlShutdownUnheard
PROPERTIES AbandonedRequestsEnd ExitsOnTerm
CHECK_DEADLOCK FALSE
