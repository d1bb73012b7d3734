SPECIFICATION Spec
CONSTANTS
  HAConnections = {1}
  maxHAConnections = 2
  MaxRetries = 1
  Protocol = "http2"
  InstanceReturns = {"edge"}
  a1 = a1
  a2 = a2
  a3 = a3
  Addr = {a1, a2, a3}
  NoAddr = NoAddr
  AddrLists <- OneList
INVARIANTS
  RegisteredMeansReady
