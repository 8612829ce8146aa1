SPECIFICATION FairSpec
CONSTANTS
  Runs = {r1, r2}
  r1 = r1
  r2 = r2
  Namespaces = {n1}
  n1 = n1
  Keepers = {h1}
  h1 = h1
  Releaser = Releaser
  NoRun = NoRun
  NoName = NoName
  Failures = {"open", "register", "close", "remove", "refuse"}
  MaxOpens = 1
  MaxExits = 1
INVARIANT TypeOK
INVARIANT LockDiscipline
INVARIANT UserOwnsRecord
INVARIANT ReclaimRespectsOwner
PROPERTY RunsFinish
PROPERTY LapsedIsReclaimed
PROPERTY OrphansAreExplained
