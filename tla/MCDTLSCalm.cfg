SPECIFICATION CalmFairSpec
CONSTANTS
  a = "a"
  b = "b"
  Peers <- MCPeers
  MaxResends = 1
  MaxTag = 4
  KeyKnown <- MCKeyKnown
INVARIANTS
  BothAgree
PROPERTIES
  OpenSucceeds
CHECK_DEADLOCK FALSE
