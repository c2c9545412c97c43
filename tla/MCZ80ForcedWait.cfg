SPECIFICATION Spec
CONSTANTS
  BYTE = 1
  Ops <- IsaOps
  Lines <- AllLines
  IntVector = 0
  NmiVector = 0
  NDEBUG = TRUE
INVARIANT
  MemoryReadSkipsForcedWait
