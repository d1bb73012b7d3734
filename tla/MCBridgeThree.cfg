SPECIFICATION Spec
CONSTANTS
  HAConnections = {0, 4}
  maxHAConnections = 3
  MaxRetries = 1
  Protocol = "quic"
  InstanceReturns = {"edge"}
  a1 = a1
  a2 = a2
  a3 = a3
  Addr = {a1, a2, a3}
  NoAddr = NoAddr
  AddrLists <- ThreeAddresses
INVARIANTS
  TypeOK
  LiveConnectionsApart
  GivesUpOnlyAfterMaxRetries
  NoSpuriousCancel
PROPERTIES
  RetryMovesOn
