SPECIFICATION LiveSpec
CONSTANTS
  r1 = r1
  r2 = r2
  w1 = w1
  w2 = w2
  Requests = {r1, r2}
  Ids = {1, 2}
  IdOf <- UniqueIds
  Users = {u1}
  Workers = {w1, w2}
  MaxCancels = 2
  MaxPartials = 0
  NoRequest = NoRequest
  Nobody = Nobody
CHECK_DEADLOCK FALSE
PROPERTIES
  CancelledIsReported
