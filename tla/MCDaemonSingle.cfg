SPECIFICATION Spec
CONSTANTS
  Workers = {w1, w2}
  w1 = w1
  w2 = w2
  Earlier = {}
  Clients = {}
  Ports = {p1, p2}
  p1 = p1
  p2 = p2
  NoOne = NoOne
  NoPort = NoPort
  Impatient = FALSE
  Intruder = FALSE
  MaxCrashes = 0
SYMMETRY Symmetry
INVARIANT SingleOwner
CHECK_DEADLOCK FALSE
