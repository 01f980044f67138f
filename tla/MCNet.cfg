SPECIFICATION NetFairSpec
CONSTANTS
  NumHosts = 2
  Slots = 1
  DiscoveryRetries = 0
  Resends = 2
  MaxCollisions = 1
INVARIANTS
  NetTypeOK
  ThreadsJoined
  OnlyRealAddresses
  SuccessIsCollected
  OpenIsTrue
  IntroducersKeepAll
  EveryServerAsked
PROPERTIES
  RestartBeforeRouter
  NetSettles
