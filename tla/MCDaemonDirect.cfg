SPECIFICATION Spec
CONSTANTS
  Workers = {w1, w2, w3}
  w1 = w1
  w2 = w2
  w3 = w3
  Earlier = {}
  Clients = {}
  Ports = {p1, p2}
  p1 = p1
  p2 = p2
  NoOne = NoOne
  NoPort = NoPort
  Impatient = TRUE
  Intruder = TRUE
  MaxCrashes = 1
SYMMETRY Symmetry
VIEW Remembered
INVARIANT ConfiguredOnce
INVARIANT MutexUnlessStolen
INVARIANT ServingIsDiscoverable
PROPERTY BlankOnlyInWindow
CHECK_DEADLOCK FALSE
