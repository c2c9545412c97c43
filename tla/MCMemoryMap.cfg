SPECIFICATION Spec
CONSTANTS
  BYTE = 4
  BANK = 8
  FIXED = 2
  RAM_SIZE = 2
  RESET_VALUE = 0
  Disables <- AllMaps
  Addresses <- OneEach
  NDEBUG = TRUE
INVARIANT
  MapTypeOK
PROPERTY
  ImplementsMap
