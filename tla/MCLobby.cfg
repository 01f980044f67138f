SPECIFICATION LobbyFairSpec
CONSTANTS
  SizeBytes = 2
  Base = 4
  MaxRecvSize = 3
  MaxSendSize = 2
  ServerMessages <- MCServerMessages
  ClientMessages <- MCClientMessages
  RawMessages <- MCRawMessages
  MaxMessages = 2
  MaxOutbound = 2
INVARIANTS
  LobbyTypeOK
  ListenerToldOnce
  ServerGetsTheQueue
PROPERTIES
  ImplementsChannel
  AllSentComesOut
CHECK_DEADLOCK FALSE
