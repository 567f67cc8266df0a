SPECIFICATION FairSpec
CONSTANTS
  CALL_TYPE_SIZE = 1
  Sessions = {0, 1, 2}
  Prompt <- AllPrompt
INVARIANTS TypeOK IInv FreshResults CopyAfterInterrupt SessionAgreement
PROPERTIES SessionClosed RpcSpec
