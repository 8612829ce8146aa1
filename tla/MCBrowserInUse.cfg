SPECIFICATION Spec
CONSTANTS
  Runs = {r1, r2}
  r1 = r1
  r2 = r2
  Namespaces = {n1}
  n1 = n1
  Keepers = {h1}
  h1 = h1
  Releaser = Releaser
  NoRun = NoRun
  NoName = NoName
  Failures = {}
  MaxOpens = 1
  MaxExits = 0
PROPERTY InUseNeverReclaimed
