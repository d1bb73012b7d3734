SPECIFICATION Spec
CONSTANTS
  Conns <- MCConns
  Addr <- MCAddr
  AddrLists <- MCAddrLists
  NoAddr = NoAddr
  LookupFailed = LookupFailed
  IPVersion = "v4"
INVARIANTS
  TypeOK
  Spread
  NoDoubleUp
PROPERTIES
  KeepsAnAddress
