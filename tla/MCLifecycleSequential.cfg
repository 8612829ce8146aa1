SPECIFICATION FairSpec
CONSTANTS
  Workers = {w1, w2, w3, w4}
  w1 = w1
  w2 = w2
  w3 = w3
  w4 = w4
  Earlier <- Numbered
  Clients = {c1}
  c1 = c1
  Ports = {p1, p2}
  p1 = p1
  p2 = p2
  Commands = {"start", "stop", "restart", "rebind", "install", "uninstall"}
  Systemd = TRUE
  MaxCalls = 2
  NoOne = NoOne
  NoPort = NoPort
  Impatient = FALSE
  Intruder = FALSE
  MaxCrashes = 1
INVARIANT NoTheft
INVARIANT ServiceNeverBypassed
PROPERTY KeepsOneDaemon
PROPERTY CommandsReturn
PROPERTY StartSucceeds
CHECK_DEADLOCK FALSE
