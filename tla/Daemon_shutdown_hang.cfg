SPECIFICATION FairDaemonSpec
CONSTANTS
  Main = Main
  Clients = {Main}
  Peers = {}
  Scripts = {}
  Keys = {rw}
  Writable = {rw}
  Values = {v}
  NoValue = NoValue
  NoClient = NoClient
  CmdCap = 1
  EventCap = 1
  MaxEvents = 2
PROPERTIES
  StopEndsDaemon
CHECK_DEADLOCK FALSE
