SPECIFICATION LiveSpec
CONSTANTS
  r1 = r1
  r2 = r2
  Requests = {r1, r2}
  Users = {u1, u2}
  Composed <- NetStages
  HeaderBlocks <- AllBlocks
  MaxCancels = 1
  MaxPartials = 1
  NoRequest = NoRequest
INVARIANTS
  TypeOK
  OutcomeJustified
  NothingAfterCallback
PROPERTIES
  ImplementsLifecycle
  CancelledIsReported
  ExecutedIsReported
