SPECIFICATION UCSpec
CONSTANTS
  a = a
  b = b
  Peers <- MCPeers
  MaxInits = 1
  MaxShutdowns = 1
  CounterRange = 2
  MaxTag = 3
  MaxCalls = 3
  MaxInFlight = 2
SYMMETRY MCSymmetry
CONSTRAINT MCFewWaiting
INVARIANTS
  UCTypeOK
  ListenersKnow
  BothAgree
  ShutdownGuarded
