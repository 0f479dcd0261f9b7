SPECIFICATION Spec
CONSTANTS
  Posters = {net0, net1}
  Handlers = {sigint}
  MaxWork = 2
INVARIANTS TypeOK AsleepOnlyIfMissed
PROPERTIES NoMissNoHang TimerRescues CallersReturn QuitHeeded
\* Every event may be waiting behind a missed signal.
CHECK_DEADLOCK FALSE
