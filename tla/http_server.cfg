SPECIFICATION LiveSpec
CONSTANTS
  c1 = c1
  c2 = c2
  Clients = {c1, c2}
  Requests <- MCRequests
INVARIANTS
  TypeOK
  ServiceOwned
  StatusExplained
  CrashExplained
PROPERTIES
  RequestIsAnswered
