SPECIFICATION Spec
CONSTANTS
  HAConnections = {2}
  maxHAConnections = 2
  MaxRetries = 2
  Protocol = "http2"
  InstanceReturns = {"edge"}
  a1 = a1
  a2 = a2
  a3 = a3
  Addr = {a1, a2, a3}
  NoAddr = NoAddr
  AddrLists <- OneList
INVARIANTS
  DialErrorsAreRetried
