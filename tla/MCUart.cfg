SPECIFICATION Spec
CONSTANTS
  RX_TICKS_PER_SAMPLE = 100
  BITS = 8
  Periods <- SlowPeriods
  Frames <- AllBytes
INVARIANT UartTypeOK
PROPERTY ImplementsMailbox
