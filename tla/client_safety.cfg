SPECIFICATION Spec
CONSTANTS
  r1 = r1
  r2 = r2
  w1 = w1
  w2 = w2
  Requests = {r1, r2}
  Ids = {1, 2}
  IdOf <- SharedId
  Users = {u1, u2}
  Workers = {w1, w2}
  MaxCancels = 2
  MaxPartials = 1
  NoRequest = NoRequest
  Nobody = Nobody
SYMMETRY WorkerSymmetry
CHECK_DEADLOCK FALSE
INVARIANTS
  TypeOK
  CallbackAtMostOnce
  CancelWins
  OutcomeJustified
  CloseDrains
  CircularWaitNeedsRepeat
  RunsOnOnlyInWindows
PROPERTIES
  OrphanOnlyByReuse
  ImplementsLifecycle
