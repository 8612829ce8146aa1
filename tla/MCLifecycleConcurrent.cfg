SPECIFICATION Spec
CONSTANTS
  Workers = {w1, w2, w3}
  w1 = w1
  w2 = w2
  w3 = w3
  Earlier = {}
  Clients = {c1, c2}
  c1 = c1
  c2 = c2
  Ports = {p1, p2}
  p1 = p1
  p2 = p2
  Commands = {"start", "stop", "restart", "rebind", "install", "uninstall"}
  Systemd = TRUE
  MaxCalls = 1
  NoOne = NoOne
  NoPort = NoPort
  Impatient = TRUE
  Intruder = TRUE
  MaxCrashes = 0
SYMMETRY Symmetry
INVARIANT ClientTypeOK
INVARIANT StopMeansGone
INVARIANT OneStarterUnlessSeized
INVARIANT PortStaysWithoutRebind
CHECK_DEADLOCK FALSE
