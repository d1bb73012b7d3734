SPECIFICATION FairSpec
CONSTANTS
  s1 = s1
  Streams <- MCStreams
  Offers <- AllOffers
  ConnIndex = 0
INVARIANTS TypeOK FailureIsVisible CloseIsUncontended NoSocketLeak
PROPERTIES PartsEndTogether StreamsEnd
