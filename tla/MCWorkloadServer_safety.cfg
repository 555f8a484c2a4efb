SPECIFICATION Spec
CONSTANTS
  h1 = h1
  h2 = h2
  h3 = h3
  Unavailable = Unavailable
  Handlers = {h1, h2, h3}
  Requests <- MCAllRequests
  JWTStates <- MCJWTStates
  FaultCodes <- MCCodes
  MaxSets <- MCTwoOne
  MaxCloses = 1
  FaultMethods = {"FetchJWTSVID"}
  MaxInjects = 2
  MaxCount = 2
INVARIANTS NoLostUpdate DeliveredInOrder LaterStreamsUnaffected AnsweredCallsRecorded InjectedFailures
PROPERTIES FeedsImplemented
CONSTRAINT StreamsOrCalls
SYMMETRY MCSymmetry
CHECK_DEADLOCK FALSE
