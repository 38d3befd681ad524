SPECIFICATION FairSpec
CONSTANTS
  Values = {d, v}
  Initially = d
  EventCap = 1
  MaxCalls = 4
  MaxEvents = 3
INVARIANTS
  TypeOK
  NoGapInEvents
  LossEndsWithHandshake
  LastSetHolds
PROPERTIES
  MethodsReturn
CHECK_DEADLOCK FALSE
