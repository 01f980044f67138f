SPECIFICATION AuthFairSpec
CONSTANTS
  c1 = c1
  c2 = c2
  Credentials <- MCCredentials
  NoCredential = NoCredential
  MaxTasks = 2
INVARIANTS
  AuthTypeOK
  BusyIsConnected
  AuthInfoOfOneReply
PROPERTIES
  RequestsEnd
CHECK_DEADLOCK FALSE
