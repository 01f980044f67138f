SPECIFICATION AssocSpec
CONSTANTS
  a = a
  b = b
  Peers <- MCPeers
  MaxResends = 1
  MaxTag = 3
  KeyKnown <- MCKeyAny
SYMMETRY MCSymmetry
CONSTRAINT MCFewPackets
INVARIANTS
  AssocTypeOK
  TagsOfOneCookie
  CookiesReturn
PROPERTIES
  RetriesRunOut
