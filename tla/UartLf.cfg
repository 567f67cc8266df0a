SPECIFICATION Spec
CONSTANTS
  MSG_SIZE = 3
  QueueLen = 2
  Letters <- MCLetters
  LineEnds <- MCLineEnds
  LF = "LF"
  FifoSize = 2
  MaxTyped = 7
INVARIANT UntilLineEnd
