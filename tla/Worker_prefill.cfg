CONSTANTS
  Requests = {r1, r2}
  NoRequest = None
  QueueDepth = 1
  EventBuffer = 1
  MaxCallbacks = 1
  MaxPieces = 1
  MayPanic = FALSE
SPECIFICATION Spec
INVARIANTS
  CancelStopsPrefill
