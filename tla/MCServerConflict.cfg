SPECIFICATION Spec
CONSTANTS
  Runs = {r1, r2}
  r1 = r1
  r2 = r2
  Projects = {a, b}
  a = a
  b = b
  u1 = u1
  Urls = {u1}
  Url <- SameUrl
  Pids = {p1, p2}
  p1 = p1
  p2 = p2
  Keepers = {h}
  h = h
  NoProject = NoProject
  NoRun = NoRun
  NoPid = NoPid
  MaxCrashes = 0
PROPERTY ConflictIsReal
SYMMETRY Symmetry
CHECK_DEADLOCK FALSE
