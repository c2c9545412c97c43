SPECIFICATION BusSpec
CONSTANTS
  BYTE = 1
  Ops <- PortOps
  Lines <- WaitLines
  IntVector = 0
  NmiVector = 0
  NDEBUG = TRUE
  LOW = 1
  NREGS = 2
  LINE_COUNTER = 1
  CRAM_SIZE = 2
  H_SIZE = 2
  Values <- SomeValues
  MAX_ACCESSES = 3
INVARIANTS
  VdpTypeOK
  ServedInTime
  RearmedInTime
PROPERTY
  ImplementsPorts
