SPECIFICATION Spec
CONSTANTS
  CLOCK_RATIO = 1298
  WRAP = 4096
  LOW = 4
  HIGH = 2
  COUNTER = 8
  TONES = 1
  NoisePeriod <- SmallPeriods
  Writes <- NoWrites
  MAX_SAMPLES = 100
INVARIANT SampleRateHeld
