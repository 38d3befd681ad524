SPECIFICATION Spec
CONSTANTS
  Watchers = {w1, w2, w3}
  Execs = {}
  MaxScripts = 2
INVARIANTS
  EventScriptsAreBounded
