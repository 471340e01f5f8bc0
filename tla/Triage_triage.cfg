SPECIFICATION FairSpec
CONSTANTS
  None = None
  m1 = m1
  m2 = m2
  Teammates = {m1, m2}
  Ids = {"p1"}
  MaxAnalyses = 2
  MaxCrashes = 1
  MaxVersions = 2
  MaxEvents = 3
  Env <- EnvNote
INVARIANT AnalysesInOrder
PROPERTIES ImplementsLedger OncePerVersion EditsSurvive
CHECK_DEADLOCK FALSE
