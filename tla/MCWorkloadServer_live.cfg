SPECIFICATION FairSpec
CONSTANTS
  h1 = h1
  h2 = h2
  h3 = h3
  Unavailable = Unavailable
  Handlers = {h1, h2}
  Requests <- MCStreamRequests
  JWTStates <- MCOneJWTState
  FaultCodes <- MCCodes
  MaxSets <- MCOneOne
  MaxCloses = 1
  FaultMethods = {}
  MaxInjects = 0
  MaxCount = 0
INVARIANTS TypeOK
PROPERTIES CloseEndsQuietStreams StopEndsHandlers UpdatesArrive
CHECK_DEADLOCK FALSE
