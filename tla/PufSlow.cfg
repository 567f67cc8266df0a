SPECIFICATION ClientSpec
CONSTANTS
  CALL_TYPE_SIZE = 4
  Sessions = {1}
  Prompt <- NonePrompt
INVARIANTS HandleNeverWrong
PROPERTIES Termination
