SPECIFICATION Spec
CONSTANTS
  CLOCK_RATIO = 448
  WRAP = 4096
  LOW = 4
  HIGH = 2
  COUNTER = 8
  TONES = 1
  NoisePeriod <- SmallPeriods
  Writes <- SomeWrites
  MAX_SAMPLES = 1
INVARIANTS
  PsgTypeOK
  WritesOnce
  SampleClock
PROPERTY SamplesInTime
