SPECIFICATION ClientSpec
CONSTANTS
  Daemons = {d1, d2, d3}
  Probes = {q1, q2}
  Nobody = Nobody
INVARIANTS
  LockFileNamesDaemon
  SocketIsTheServers
  BindFindsNoSocket
  MsxTellsTheTruth
SYMMETRY Symmetric
CHECK_DEADLOCK FALSE
