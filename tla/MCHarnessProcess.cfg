SPECIFICATION FairSpec
CONSTANTS
  p1 = p1
  p2 = p2
  Procs = {p1, p2}
  Leader = p1
  MayEscape = TRUE
  Scripts <- MCScripts
  PipeSize = 2
INVARIANTS TypeOK NoSurvivors OutcomeJustified
PROPERTIES StartEnds StopEndsUnlessEscaped GoroutinesEnd WritersNotBlocked
CHECK_DEADLOCK FALSE
