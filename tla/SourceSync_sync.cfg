SPECIFICATION FairSpec
CONSTANTS
  i1 = i1
  Items = {i1}
  Revisions = {"r1", "r2"}
  SourceMode = "triage"
  Env <- EnvSync
  MaxEvents = 5
INVARIANTS OffIsEmpty OwnPostsOnce
PROPERTY MirrorsConverge
CHECK_DEADLOCK FALSE
