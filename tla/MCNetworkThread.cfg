SPECIFICATION Spec
CONSTANTS
  Sockets <- DefaultSockets
  PoolSize = 2
  QueueLength = 1
  Numbers = 4
INVARIANTS TypeOK PoolConserved ReadsAReadySocket BlocksOnlyAfterFailure
PROPERTIES SocketsServed ImplementsPipes
