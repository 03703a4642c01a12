CONSTANTS
  MaxChunks = 2
  MaxSegments = 2
  PcmQueue = 1
  EventBuffer = 1
  Window = 1
SPECIFICATION FairSpec
INVARIANTS
  TypeOK
  AnswerIsConsistent
PROPERTIES
  UploadLeavesNothing
  HangUpStopsJob
  UploadIsAnswered
