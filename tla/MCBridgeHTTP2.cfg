SPECIFICATION FairSpec
CONSTANTS
  HAConnections = {1, 2}
  maxHAConnections = 2
  MaxRetries = 1
  Protocol = "http2"
  InstanceReturns = {"edge", "nil"}
  a1 = a1
  a2 = a2
  a3 = a3
  Addr = {a1, a2, a3}
  NoAddr = NoAddr
  AddrLists <- OneList
PROPERTIES
  ImplementsContract
  CancelEndsRun
  FailureEndsRun
