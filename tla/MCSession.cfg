SPECIFICATION SessionSpec
CONSTANTS
  BYTE = 2
  Ops <- SessionOps
  Lines <- NoLines
  IntVector = 1
  NmiVector = 2
  NDEBUG = FALSE
  MAX_JSON_TOKENS = 256
  RAM_BYTES = 5
  VRAM_BYTES = 4
  ROM_BYTES = 7
  Requests <- Watches
  Saves <- SaveKinds
  Cuts <- AllCuts
  Operands <- Distinct
  Lags <- FewLags
INVARIANTS
  LoadIsWhole
  WholeFilesLoad
  BreaksAreReported
PROPERTY
  BreakStops
CHECK_DEADLOCK FALSE
