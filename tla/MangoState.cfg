SPECIFICATION Spec
CONSTANTS
  Ids = {o1, o2, o3}
  NoId = NoId
  Names = {A, B}
  NoName = NoName
  AtStart = {o1, o2}
  NTags = 1
  Fields = {"title", "layout"}
  Values = {d, v}
  Default = d
  Subscribed = {"tags", "layout", "title", "output"}
  MaxChanges = 3
SYMMETRY Symmetric
INVARIANTS
  TypeOK
  ReadyIsComplete
  FocusIsOneOutput
  MirrorsCompositor
  SubscriberIsTold
CHECK_DEADLOCK FALSE
