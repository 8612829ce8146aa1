SPECIFICATION Spec
CONSTANTS
  Workers = {w1, w2, w3, w4}
  w1 = w1
  w2 = w2
  w3 = w3
  w4 = w4
  Earlier = {}
  Clients = {c1, c2}
  c1 = c1
  c2 = c2
  Ports = {p1, p2}
  p1 = p1
  p2 = p2
  Commands = {"start", "rebind"}
  Systemd = FALSE
  MaxCalls = 2
  NoOne = NoOne
  NoPort = NoPort
  Impatient = FALSE
  Intruder = FALSE
  MaxCrashes = 0
SYMMETRY Symmetry
INVARIANT ServedPortIsDurable
CHECK_DEADLOCK FALSE
