SPECIFICATION LiveSpec
CONSTANTS
  c1 = c1
  c2 = c2
  Clients = {c1, c2}
CHECK_DEADLOCK FALSE
INVARIANTS
  TypeOK
  FailureExplained
PROPERTIES
  ImplementsConnections
  StopTerminates
  ClientIsServed
