SPECIFICATION FairSpec
CONSTANTS
  BYTE = 1
  Ops <- IsaOps
  Lines <- AllLines
  IntVector = 0
  NmiVector = 0
  NDEBUG = TRUE
INVARIANTS
  PinsFollowCycle
  TypeOK
  TicksInRange
  CycleOrder
  BuffersFit
  BusExclusive
  BusIdleAtBoundary
PROPERTIES
  StrobeHolds
  InstructionsEnd
  PendingIntEnds
