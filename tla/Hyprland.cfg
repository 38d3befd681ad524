SPECIFICATION FairSpec
CONSTANTS
  Windows = {"kitty", "web"}
  NoWindow = "none"
  Workspaces = {"1", "2"}
  AtStart = "1"
  Toggles = {"fullscreen"}
  Config <- SomeWatches
  OtherLines <- SomeLines
  CutLines <- SomeCuts
  EventCap = 1
  MaxInputs = 3
INVARIANTS
  TypeOK
  ScriptsFollowLines
  TranslatorIsCurrent
  SetHolds
PROPERTIES
  EventsAreHandled
CHECK_DEADLOCK FALSE
