SPECIFICATION FairSpec
CONSTANTS
  Hosts <- MCHosts
  Lower <- MCLower
  Bare <- MCBare
  Malformed <- MCMalformed
  Inputs <- MCInputs
  BadTokens <- MCBadTokens
  Requests <- MCRequests
  DefaultHAConnections = 2
  MaxHAConnections = 3
  Backoffs = 2
INVARIANTS
  AcceptedRoutesBuild
  RequestsGoWhereConfigured
  TokenStaysWithTarget
  AtMostOneTunnel
PROPERTY
  StartupSettles
