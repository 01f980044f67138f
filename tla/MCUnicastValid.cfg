SPECIFICATION UCSpec
CONSTANTS
  a = a
  b = b
  Peers <- MCPeers
  MaxInits = 1
  MaxShutdowns = 1
  CounterRange = 2
  MaxTag = 2
  MaxCalls = 3
  MaxInFlight = 1
CONSTRAINT MCFewWaiting
INVARIANTS
  OwnPacketsValid
