SPECIFICATION Spec
CONSTANTS
  c1 = c1
  c2 = c2
  c3 = c3
  p1 = p1
  p2 = p2
  lower = lower
  upper = upper
  path = path
  A = A
  B = B
  main = main
  sub = sub
  x = x
  y = y
  Callers = {c1, c2, c3}
  Processes = {p1, p2}
  ProcessOf <- TwoAndOne
  Spellings = {lower, upper, path}
  Codes = {A, B}
  Canon <- Uppercase
  BadCode = BadCode
  Dirs = {main, sub}
  Enclosing <- Nested
  Ids = {x, y}
  NoReg = NoReg
  Nobody = Nobody
  Broken = Broken
  Bare = Bare
  Gone = Gone
  Initially <- Checkouts
  MaxCalls = 3
  MaxEvents = 1
SYMMETRY Symmetry
INVARIANT TypeOK
INVARIANT OneEntryPerCode
INVARIANT ResolveIsCurrent
PROPERTY ChangedOnlyAsAsked
PROPERTY CorruptionIsKept
CHECK_DEADLOCK FALSE
