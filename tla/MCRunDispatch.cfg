SPECIFICATION Spec
CONSTANTS
  s1 = s1
  s2 = s2
  d1 = d1
  d2 = d2
  a = a
  b = b
  Scenarios = {s1, s2}
  NoScenario = NoScenario
  NoName = NoName
  Catalogue <- MCCatalogue
  Reports <- MCReports
  EmptyReport <- Empty
  MaxStray = 1
  MaxCases = 1
  Profiles <- MCProfiles
  Requests <- MCRequests
  Transports = {"simple", "stream", "mcp", "mcp_stdio"}
INVARIANT PassIsComplete
INVARIANT OrderlyCleanup
INVARIANT AnswersBelong
INVARIANT LateStagesFail
PROPERTY MatchIsAgreement
PROPERTY KeepsPromise
PROPERTY EveryCallIsAnswered
PROPERTY EveryRunEnds
CHECK_DEADLOCK FALSE
