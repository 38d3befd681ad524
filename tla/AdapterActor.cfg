SPECIFICATION FairSpec
CONSTANTS
  Clients = {c1, c2}
  Keys = {k}
  Values = {v}
  NoValue = NoValue
  NoClient = NoClient
  CmdCap = 2
  EventCap = 1
  MaxEvents = 3
INVARIANTS
  NoOrphanedCall
  ShutdownOnce
  ShutdownReturnsAfterShutdown
  EventsInOrder
PROPERTIES
  ImplementsAtomicAdapter
  EveryCallReturns
  ShutdownEndsActor
CHECK_DEADLOCK FALSE
