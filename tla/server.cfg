SPECIFICATION LiveSpec
CONSTANTS
  c1 = c1
  c2 = c2
  w1 = w1
  w2 = w2
  w3 = w3
  Clients = {c1, c2}
  Workers = {w1, w2, w3}
  MaxAcceptErrors = 1
  NoClient = NoClient
INVARIANTS
  TypeOK
  AcceptChain
  ServiceOwned
  LateServices
PROPERTIES
  ImplementsConnections
  StopTerminates
  ConnectedIsTaken
  ServiceEnds
