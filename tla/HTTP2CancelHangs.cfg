SPECIFICATION FairSpec
CONSTANTS
  s1 = s1
  s2 = s2
  Streams <- MCStreams
  Offers <- TCPOffers
  ConnIndex = 0
PROPERTIES CancelStopsServe
