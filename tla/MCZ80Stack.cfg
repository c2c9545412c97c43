SPECIFICATION LoopSpec
CONSTANTS
  BYTE = 2
  Ops <- StackOps
  Lines <- IntLines
  IntVector = 1
  NmiVector = 2
  NDEBUG = TRUE
  BASE = 2
  RAM_SIZE = 2
PROPERTY
  ImplementsIsa
