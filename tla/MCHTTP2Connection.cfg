SPECIFICATION FairSpec
CONSTANTS
  s1 = s1
  s2 = s2
  Streams <- MCStreams
  Offers <- MCOffers
  ConnIndex = 0
INVARIANTS TypeOK LocalCloseSparesRequests FailureIsVisible PanicNeedsLateAdd
PROPERTIES CancelEndsServe HandlersEnd
