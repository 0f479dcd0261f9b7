SPECIFICATION SpecAll
CONSTANTS
  Sockets <- DefaultSockets
  PoolSize = 2
  QueueLength = 1
  Numbers = 1
INVARIANT SleepersWereSignalled
PROPERTIES ImplementsEventLoop NextDatagramWakes FairUnderTimer
