CONSTANTS
  Requests = {r1, r2}
  NoRequest = None
  QueueDepth = 1
  EventBuffer = 1
  MaxCallbacks = 1
  MaxPieces = 2
  MayPanic = TRUE
SPECIFICATION FairSpec
PROPERTIES
  CancelledInQueueNeverRuns
  LeaverFreesWorker
  EveryCallEnds
