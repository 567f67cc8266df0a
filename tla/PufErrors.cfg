SPECIFICATION Spec
CONSTANTS
  CALL_TYPE_SIZE = 1
  Sessions = {1}
  Prompt <- AllPrompt
INVARIANT ErrorsReported
