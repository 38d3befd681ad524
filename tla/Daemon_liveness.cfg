SPECIFICATION FairDaemonSpec
CONSTANTS
  Main = Main
  Clients = {Main, p1}
  Peers = {p1}
  Scripts = {}
  Keys = {rw}
  Writable = {rw}
  Values = {v}
  NoValue = NoValue
  NoClient = NoClient
  CmdCap = 1
  EventCap = 1
  MaxEvents = 3
PROPERTIES
  StopEndsDaemonUnlessJammed
  RequestsAreAnswered
CHECK_DEADLOCK FALSE
