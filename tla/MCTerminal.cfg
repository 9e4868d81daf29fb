CONSTANTS
  Kinds <- MCKinds
  BufferSize <- MCBufferSize
  MaxMessages = 2
  MaxOutput = 2
SPECIFICATION FairSpec
CHECK_DEADLOCK FALSE
INVARIANTS
  TypeOK
  OneWriterBesidesPing
  InputIsWhole
  
PROPERTIES
  ProcessEnds
  LeavingIsNoticed
