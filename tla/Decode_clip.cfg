\* Three frames in for two out; blocks and messages of a few samples, so that
\* packets, blocks and messages fall on each other in every way.  A block is worth
\* five frames: with a lag of two the flush pushes everything out, with one of
\* nine, more than a block, it does not.
CONSTANTS
  In = 3
  Out = 2
  Block = 8
  Delay = 2
  Lags = {2, 9}
  ChunkSize = 3
  PacketSizes = {0, 1, 4, 11}
  MaxFrames = 40
SPECIFICATION Spec
CHECK_DEADLOCK FALSE
INVARIANTS
  TypeOK
  AudioIsContiguous
  OnlyTheTailIsHeld
