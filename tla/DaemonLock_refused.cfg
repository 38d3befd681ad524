SPECIFICATION Spec
CONSTANTS
  Daemons = {d1}
  Probes = {q1}
  Nobody = Nobody
INVARIANTS
  RefusedByDaemon
CHECK_DEADLOCK FALSE
