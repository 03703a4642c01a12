\* Two calls whose chunks split into up to two pieces, on channels of two
\* events: two callbacks fill a channel more than once, and the cancels of
\* finished, running and waiting calls meet.
CONSTANTS
  Requests = {r1, r2}
  NoRequest = None
  QueueDepth = 2
  EventBuffer = 2
  MaxCallbacks = 2
  MaxPieces = 2
  MayPanic = TRUE
SPECIFICATION Spec
INVARIANTS
  TypeOK
  AbortHitsOwnRun
  TruncatedHasNoFinal
  CutOnlyByCrash
  StreamInOrder
  DoneMeansWhole
PROPERTIES
  ImplementsRunStream
