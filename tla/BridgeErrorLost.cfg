SPECIFICATION Spec
CONSTANTS
  HAConnections = {2}
  maxHAConnections = 2
  MaxRetries = 0
  Protocol = "quic"
  InstanceReturns = {"edge"}
  a1 = a1
  a2 = a2
  a3 = a3
  Addr = {a1, a2, a3}
  NoAddr = NoAddr
  AddrLists <- OneList
INVARIANTS
  FailureIsReturned
