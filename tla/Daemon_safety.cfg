SPECIFICATION DaemonSpec
CONSTANTS
  Main = Main
  Clients = {Main, p1, s1}
  Peers = {p1}
  Scripts = {s1}
  Keys = {rw, ro}
  Writable = {rw}
  Values = {v}
  NoValue = NoValue
  NoClient = NoClient
  CmdCap = 1
  EventCap = 1
  MaxEvents = 1
INVARIANTS
  OnlyWritableKeysAreSet
  CleanExit
PROPERTIES
  KeepsActor
CHECK_DEADLOCK FALSE
