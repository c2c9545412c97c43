SPECIFICATION FairSpec
CONSTANTS
  start_addr = 0
  MemSize = 32
  Images <- MCImages
  PortByte <- MCPortByte
INVARIANTS
  WalkIsClosed
  ListsAreExact
  BuffersSuffice
  ReplayIsHarmless
  OwnBytesOnly
  StepsArePredicted
  StaysAnalysed
  AluIsRight
  BlockCopyIsExact
PROPERTIES
  AnalysisEnds
CHECK_DEADLOCK FALSE
