SPECIFICATION FairSpec
CONSTANTS
  SEQ_LEN = 2
  PayloadLen = 2
  MaxLen = 7
  Streams <- AllStreams
INVARIANTS TypeOK FrameVerdict ReadsNoFurther IInv
PROPERTIES FrameDelivered CloseEnds
