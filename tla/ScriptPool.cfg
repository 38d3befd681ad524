SPECIFICATION FairSpec
CONSTANTS
  Watchers = {w1, w2, w3}
  Execs = {x1}
  MaxScripts = 2
INVARIANTS
  PermitsAreConserved
  ShellScriptsAreBounded
PROPERTIES
  EveryTaskEnds
