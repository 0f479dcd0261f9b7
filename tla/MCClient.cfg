SPECIFICATION Spec
CONSTANTS
  Links <- MCLinks
  MAX_URI_LENGTH = 30
INVARIANTS TypeOK StopUnderWay
PROPERTIES Toggles ComesToRest
CHECK_DEADLOCK FALSE
