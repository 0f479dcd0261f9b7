SPECIFICATION Spec
CONSTANTS
  portTICK_RATE_MS = 10
  OC_CLOCK_SECOND = 1000
  Step = 50
  LastMs = 3000
INVARIANT TicksPerSecond
CHECK_DEADLOCK FALSE
