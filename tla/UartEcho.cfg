SPECIFICATION Spec
CONSTANTS
  MSG_SIZE = 3
  QueueLen = 2
  Letters <- MCLetters
  LineEnds <- OneLineEnd
  LF = "LF"
  FifoSize = 2
  MaxTyped = 9
INVARIANTS TypeOK Accounted ExpectedResponse
PROPERTIES LineQueueSpec Echoed
