SPECIFICATION LiveSpec
CONSTANTS
  MaxConnections = 3
  MaxQueue = 2
INVARIANTS
  LossIsOfThisConnection
  FreedHandleIsAnnounced
  LeftoverHandle
  UnknownWhenDisconnected
PROPERTIES
  StopReturns
  LossIsNoticed
CHECK_DEADLOCK FALSE
