CONSTANTS
  Chars = {"a", "b"}
  Start <- MCStart
  End <- MCEnd
  MaxInput = 9
  MaxChunk = 5
SPECIFICATION Spec
CHECK_DEADLOCK FALSE
INVARIANTS
  TypeOK
  ChunksAreInvisible
  HeldMayBeMarker
