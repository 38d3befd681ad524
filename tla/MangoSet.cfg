SPECIFICATION SetFairSpec
CONSTANTS
  Bits32 = 3
  Bits53 = 4
  Bits64 = 6
  Layouts <- SomeLayouts
  LayoutName <- SomeNames
  LowerCase <- SomeLower
  Asked <- SomeSets
INVARIANTS
  NoLostWakeup
  NoUnsentSleep
  SetsWhatWasAsked
PROPERTIES
  CallsReturn
  ShutdownEndsThread
CHECK_DEADLOCK FALSE
