SPECIFICATION LoopSpec
CONSTANTS
  BYTE = 2
  Ops <- DataOps
  Lines <- WaitLines
  IntVector = 1
  NmiVector = 2
  NDEBUG = TRUE
  BASE = 2
  RAM_SIZE = 2
INVARIANTS
  WriteCarriesBuffer
  ReadKeepsSpace
PROPERTY
  ImplementsIsa
