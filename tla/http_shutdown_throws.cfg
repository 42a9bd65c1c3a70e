SPECIFICATION LiveSpec
CONSTANTS
  r1 = r1
  r2 = r2
  Requests = {r1, r2}
  Users = {u1}
  Composed <- NetStages
  HeaderBlocks <- GoodBlocks
  MaxCancels = 1
  MaxPartials = 1
  NoRequest = NoRequest
PROPERTIES
  FailureIsReported
