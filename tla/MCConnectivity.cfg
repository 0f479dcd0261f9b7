SPECIFICATION SpecConnectivity
CONSTANTS
  Sockets <- DefaultSockets
  PoolSize = 2
  QueueLength = 1
  Numbers = 1
  MaxInits = 2
INVARIANTS TypeOKConnectivity PoolConserved CleanShutdown DeafOnlyIf
PROPERTY ThreadEnds
CHECK_DEADLOCK FALSE
