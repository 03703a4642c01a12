CONSTANTS
  MaxChunks = 2
  MaxSegments = 1
  PcmQueue = 1
  EventBuffer = 1
  Window = 1
SPECIFICATION Spec
INVARIANTS
  AnswerCoversUpload
