SPECIFICATION AuthSpec
CONSTANTS
  c1 = c1
  c2 = c2
  Credentials <- MCCredentials
  NoCredential = NoCredential
  MaxTasks = 2
INVARIANT SuccessMeansTicket
CHECK_DEADLOCK FALSE
